------------------------------ MODULE Encodings ------------------------------
(***************************************************************************)
(* The texts by which this program talks to browsers, Keycloak, Redis and  *)
(* itself, each with its writer and its reader: percent encoding and the   *)
(* forms, queries and cookies made of it (url_encode.hpp, cookies.hpp,     *)
(* AuthHandler.h, oidc_utils.hpp), the value of a login state in Redis     *)
(* (redis.cpp), base64url and the parts of a JWT (jwt_utils.hpp, pkce.cpp),*)
(* JSON strings (AuthHandler.h, json_utils.hpp) and URLs (oidc_utils.hpp). *)
(*                                                                         *)
(* A text is a sequence of bytes, as in the code.  What is written grows   *)
(* byte by byte: a list of names and values, which each property reads as  *)
(* the fields of a form, as cookies, as a login state, and so on.          *)
(***************************************************************************)
EXTENDS Integers, SequencesExt

CONSTANTS
  Byte,       \* the bytes a name or a value is made of
  MaxFields,  \* bound on the number of fields
  MaxBytes,   \* bound on the bytes of all names and values
  Root,       \* base URLs of Keycloak, each in its parts
  None        \* nullopt

ASSUME EncodingsAssumption ==
  /\ Byte \subseteq 0 .. 255
  /\ MaxFields \in Nat /\ MaxBytes \in Nat
  /\ None \notin Int \cup Seq(Int)
  /\ None \notin [code_verifier: Seq(Int), realm: Seq(Int)]
  /\ None \notin [signing_input: Seq(Int), header_json: Seq(Int), payload_json: Seq(Int),
                  signature: Seq(Int)]

VARIABLE fields    \* sequence of [name, value]

\* The bytes the formats give a meaning to.
space == 32
quote == 34
percent == 37
ampersand == 38
plus == 43
minus == 45
dot == 46
slash == 47
zero == 48
colon == 58
semicolon == 59
equals == 61
question == 63
backslash == 92
Space == (9 .. 13) \cup {space}
Digit == 48 .. 57
Letter == (65 .. 90) \cup (97 .. 122)
HexDigit == Digit \cup (65 .. 70) \cup (97 .. 102)
unreserved == Letter \cup Digit \cup {minus, dot, 95, 126}

\* A base URL has a host and no query; its host has colons (IPv6) only when a port
\* follows, which is how parse_absolute_uri tells a port; and without a scheme no
\* part of the path looks like the end of one.
BaseRecord == [scheme: Seq(0 .. 255), host: Seq(0 .. 255), port: 0 .. 65535,
               path: Seq(0 .. 255), query: {<<>>}]
is_base_url(base) ==
  /\ colon \notin ToSet(base.scheme)
  /\ base.host # <<>> /\ {slash, question} \cap ToSet(base.host) = {}
  /\ base.port = 0 => colon \notin ToSet(base.host)
  /\ base.path # <<>> => base.path[1] = slash
  /\ question \notin ToSet(base.path)
  /\ base.scheme = <<>> => colon \notin ToSet(base.path)

ASSUME RootAssumption == Root \subseteq BaseRecord /\ \A base \in Root : is_base_url(base)

from(s, i) == SubSeq(s, i, Len(s))
\* find: where c is first in s from i on, or past its end.
find(s, c, i) == Min({j \in i .. Len(s) : s[j] = c} \cup {Len(s) + 1})

-----------------------------------------------------------------------------
\* url_encode.hpp

should_encode(c) == c \notin unreserved

hex_char(n) == IF n < 10 THEN zero + n ELSE 87 + n

url_encode(s) ==
  FlattenSeq([i \in DOMAIN s |->
    IF should_encode(s[i]) THEN <<percent, hex_char(s[i] \div 16), hex_char(s[i] % 16)>>
                           ELSE <<s[i]>>])

hex_value(c) == CASE c \in Digit -> c - zero [] c \in 65 .. 70 -> c - 55 [] OTHER -> c - 87

\* What an istringstream of two bytes reads with >> hex, cut to a byte.
hex_number(a, b) ==
  CASE a = zero /\ b \in {88, 120} -> None
    [] a \in HexDigit /\ b \in HexDigit -> 16 * hex_value(a) + hex_value(b)
    [] a \in HexDigit /\ b \notin HexDigit -> hex_value(a)
    [] a \in Space \cup {plus} /\ b \in HexDigit -> hex_value(b)
    [] a = minus /\ b \in HexDigit -> (256 - hex_value(b)) % 256
    [] OTHER -> None

\* An escape is read if it is whole and its digits are a number.
is_escape(s, i) ==
  s[i] = percent /\ i + 2 <= Len(s) /\ hex_number(s[i + 1], s[i + 2]) # None

\* Seeded fault: the two bytes behind a percent sign are passed over in any case.
url_decode_loses_broken(s) ==
  LET decode[i \in 1 .. (Len(s) + 3)] ==
        IF i > Len(s) THEN <<>>
        ELSE IF is_escape(s, i) THEN <<hex_number(s[i + 1], s[i + 2])>> \o decode[i + 3]
        ELSE <<s[i]>> \o decode[IF s[i] = percent THEN i + 3 ELSE i + 1]
  IN decode[1]

url_decode(s) ==
  LET decode[i \in 1 .. (Len(s) + 1)] ==
        IF i > Len(s) THEN <<>>
        ELSE IF is_escape(s, i) THEN <<hex_number(s[i + 1], s[i + 2])>> \o decode[i + 3]
        ELSE <<s[i]>> \o decode[i + 1]
  IN decode[1]

-----------------------------------------------------------------------------
\* A part of a text, cut at its first equals sign.
name_value(part) ==
  LET eq == find(part, equals, 1) IN
  [name |-> SubSeq(part, 1, eq - 1), value |-> from(part, eq + 1)]

\* The loop the three parsers of name=value texts share: the parts between the
\* delimiters that are not empty.
parts(raw, delimiter) ==
  LET read[i \in 1 .. (Len(raw) + 1)] ==
        LET end  == find(raw, delimiter, i)
            part == SubSeq(raw, i, end - 1)
        IN (IF part = <<>> THEN <<>> ELSE <<name_value(part)>>)
             \o IF end > Len(raw) THEN <<>> ELSE read[end + 1]
  IN read[1]

\* insert_or_assign of each that is kept: a map in which the last one wins.
assigned_of(pairs, kept) ==
  [n \in {pairs[i].name : i \in kept} |-> pairs[Max({i \in kept : pairs[i].name = n})].value]

assigned(pairs) == assigned_of(pairs, DOMAIN pairs)

decoded(pairs, decode(_)) ==
  [i \in DOMAIN pairs |-> [name |-> decode(pairs[i].name), value |-> decode(pairs[i].value)]]

join(texts, delimiter) ==
  FlattenSeq([i \in DOMAIN texts |-> IF i = 1 THEN texts[i] ELSE delimiter \o texts[i]])

build_form_body(pairs) ==
  join([i \in DOMAIN pairs |->
          url_encode(pairs[i].name) \o <<equals>> \o url_encode(pairs[i].value)],
       <<ampersand>>)

\* Seeded fault: a plus sign that was encoded becomes a space as well.
decode_form_component_late(s) ==
  LET t == url_decode(s) IN [i \in DOMAIN t |-> IF t[i] = plus THEN space ELSE t[i]]

decode_form_component(s) ==
  url_decode([i \in DOMAIN s |-> IF s[i] = plus THEN space ELSE s[i]])

parse_form_encoded(raw) == assigned(decoded(parts(raw, ampersand), decode_form_component))

-----------------------------------------------------------------------------
\* cookies.hpp

trim_copy(s) ==
  LET kept == {i \in DOMAIN s : s[i] \notin Space} IN
  IF kept = {} THEN <<>> ELSE SubSeq(s, Min(kept), Max(kept))

\* Seeded fault: blanks that were encoded are trimmed as well.
cookie_component_late(s) == trim_copy(url_decode(s))

cookie_component(s) == url_decode(trim_copy(s))

parse_cookie_header(raw) ==
  LET read == parts(raw, semicolon) IN
  assigned_of(decoded(read, cookie_component), {i \in DOMAIN read : trim_copy(read[i].name) # <<>>})

get_cookie(raw, name) ==
  LET cookies == parse_cookie_header(raw) IN
  IF name \in DOMAIN cookies THEN cookies[name] ELSE None

\* The attributes (Path, Max-Age, HttpOnly, Secure, SameSite) are one letter.
make_set_cookie(name, value) ==
  url_encode(name) \o <<equals>> \o url_encode(value) \o <<semicolon, space, 80>>

-----------------------------------------------------------------------------
\* redis.cpp

verifier_key == <<118, 101, 114, 105, 102, 105, 101, 114>>    \* "verifier"
realm_key == <<114, 101, 97, 108, 109>>                       \* "realm"

\* Seeded fault: a realm is written as it is.
encode_state_entry_raw_realm(entry) ==
  verifier_key \o <<equals>> \o url_encode(entry.code_verifier) \o <<ampersand>>
    \o realm_key \o <<equals>> \o entry.realm

encode_state_entry(entry) ==
  verifier_key \o <<equals>> \o url_encode(entry.code_verifier) \o <<ampersand>>
    \o realm_key \o <<equals>> \o url_encode(entry.realm)

decode_state_entry(raw) ==
  LET read == assigned(decoded(parts(raw, ampersand), url_decode))
      member(k) == IF k \in DOMAIN read THEN read[k] ELSE <<>>
  IN IF member(verifier_key) = <<>> THEN None
     ELSE [code_verifier |-> member(verifier_key), realm |-> member(realm_key)]

\* What consume_state_entry makes of a value, also of one of the version that
\* stored bare verifiers.
consumed_entry(raw) ==
  IF decode_state_entry(raw) # None THEN decode_state_entry(raw)
                                    ELSE [code_verifier |-> raw, realm |-> <<>>]

\* pkce.cpp: the verifier made of random bytes.
kCharset == [i \in 1 .. 26 |-> 64 + i] \o [i \in 1 .. 26 |-> 96 + i]
              \o [i \in 1 .. 10 |-> 47 + i] \o <<minus, dot, 95, 126>>
generate_random_string(bytes) ==
  [i \in DOMAIN bytes |-> kCharset[(bytes[i] % Len(kCharset)) + 1]]

-----------------------------------------------------------------------------
\* jwt_utils.hpp, and the encoder of pkce.cpp.

\* base64url_encode: OpenSSL's base64 without padding, - for + and _ for /.
base64url_char(v) ==
  CASE v < 26 -> 65 + v [] v \in 26 .. 51 -> 71 + v [] v \in 52 .. 61 -> v - 4
    [] v = 62 -> minus [] v = 63 -> 95

base64url_encode(s) ==
  LET byte(i) == IF i \in DOMAIN s THEN s[i] ELSE 0
      sextet(bit) == ((256 * byte((bit \div 8) + 1) + byte((bit \div 8) + 2))
                        \div 2 ^ (10 - (bit % 8))) % 64
  IN [j \in 1 .. ((8 * Len(s) + 5) \div 6) |-> base64url_char(sextet(6 * (j - 1)))]

decode_base64url_char(c) ==
  CASE c \in 65 .. 90 -> c - 65 [] c \in 97 .. 122 -> c - 71 [] c \in Digit -> c + 4
    [] c = minus -> 62 [] c = 95 -> 63 [] OTHER -> None

\* val << 6 in an int of 32 bits, which keeps the low 26 bits of val.
shifted(val) ==
  LET low == val % 2 ^ 26 IN 64 * (IF low >= 2 ^ 25 THEN low - 2 ^ 26 ELSE low)

\* Seeded fault: a byte is written one character late.
written_at_late(valb) == valb > 0

written_at(valb) == valb >= 0

\* One character of base64url_decode's loop.
read_char(before, c) ==
  LET val  == shifted(before.val) + decode_base64url_char(c)
      valb == before.valb + 6
  IN IF written_at(valb)
       THEN [val |-> val, valb |-> valb - 8,
             out |-> Append(before.out, (val \div 2 ^ valb) % 256)]
       ELSE [val |-> val, valb |-> valb, out |-> before.out]

base64url_decode(input) ==
  LET s == SubSeq(input, 1, find(input, equals, 1) - 1)
      after[i \in 0 .. Len(s)] ==
        IF i = 0 THEN [val |-> 0, valb |-> -8, out |-> <<>>]
                 ELSE read_char(after[i - 1], s[i])
  IN IF \E i \in DOMAIN s : decode_base64url_char(s[i]) = None THEN None ELSE after[Len(s)].out

decode_jwt(token) ==
  LET first_dot  == find(token, dot, 1)
      second_dot == find(token, dot, first_dot + 1)
      decoded_header    == base64url_decode(SubSeq(token, 1, first_dot - 1))
      decoded_payload   == base64url_decode(SubSeq(token, first_dot + 1, second_dot - 1))
      decoded_signature == base64url_decode(from(token, second_dot + 1))
  IN IF second_dot > Len(token) THEN None
     ELSE IF None \in {decoded_header, decoded_payload, decoded_signature} THEN None
     ELSE [signing_input |-> SubSeq(token, 1, second_dot - 1), header_json |-> decoded_header,
           payload_json |-> decoded_payload, signature |-> decoded_signature]

-----------------------------------------------------------------------------
\* JSON strings: json_escape of AuthHandler.h, and json_utils.hpp.

\* The letter of each escape, in json_escape's and in parse_json_string's order.
escape_of ==
  [c \in {quote, backslash, 8, 9, 10, 12, 13} |->
    CASE c = 8 -> 98 [] c = 9 -> 116 [] c = 10 -> 110 [] c = 12 -> 102 [] c = 13 -> 114
      [] OTHER -> c]

\* Seeded fault: a backslash is written as it is.
json_escape_quotes_only(s) ==
  FlattenSeq([i \in DOMAIN s |->
    IF s[i] \in DOMAIN escape_of \ {backslash} THEN <<backslash, escape_of[s[i]]>> ELSE <<s[i]>>])

json_escape(s) ==
  FlattenSeq([i \in DOMAIN s |->
    IF s[i] \in DOMAIN escape_of THEN <<backslash, escape_of[s[i]]>> ELSE <<s[i]>>])

\* Where the string that starts at pos ends.
skip_json_string(text, pos) ==
  LET scan[p \in pos .. (Len(text) + 2)] ==
        IF p > Len(text) THEN Len(text) + 1
        ELSE IF text[p] = backslash THEN scan[p + 2]
        ELSE IF text[p] = quote THEN p + 1
        ELSE scan[p + 1]
  IN IF pos > Len(text) THEN pos ELSE IF text[pos] # quote THEN pos ELSE scan[pos + 1]

\* An escape of no meaning, \u among them, is the byte after the backslash.
unescaped(c) ==
  IF \E b \in DOMAIN escape_of : escape_of[b] = c
    THEN CHOOSE b \in DOMAIN escape_of : escape_of[b] = c ELSE c

parse_json_string(raw) ==
  LET parse[i \in 1 .. (Len(raw) + 1)] ==
        IF i >= Len(raw) THEN <<>>
        ELSE IF raw[i] # backslash THEN <<raw[i]>> \o parse[i + 1]
        ELSE IF i + 1 = Len(raw) THEN <<>>
        ELSE <<unescaped(raw[i + 1])>> \o parse[i + 2]
  IN IF Len(raw) < 2 THEN None
     ELSE IF raw[1] # quote \/ raw[Len(raw)] # quote THEN None
     ELSE parse[2]

-----------------------------------------------------------------------------
\* URLs: oidc_utils.hpp.  /r/ stands for /realms/, and an endpoint's own path is
\* one segment.

trim_trailing_slash(s) == SubSeq(s, 1, Max({i \in DOMAIN s : s[i] # slash} \cup {0}))

\* Seeded fault: the realm's name is put into the URL as it is.
realm_root_raw(base, realm) == trim_trailing_slash(base) \o <<slash, 114, slash>> \o realm

realm_root(base, realm) ==
  trim_trailing_slash(base) \o <<slash, 114, slash>> \o url_encode(realm)

endpoint(base, realm) == realm_root(base, realm) \o <<slash, 116>>

last_path_segment(s) ==
  LET t == trim_trailing_slash(s) IN from(t, Max({i \in DOMAIN t : t[i] = slash} \cup {0}) + 1)

stoi(digits) ==
  LET value[i \in 0 .. Len(digits)] ==
        IF i = 0 THEN 0 ELSE 10 * value[i - 1] + digits[i] - zero
  IN value[Len(digits)]

to_string(number) ==
  LET decimal[n \in 0 .. number] ==
        IF n < 10 THEN <<zero + n>> ELSE decimal[n \div 10] \o <<zero + (n % 10)>>
  IN decimal[number]

parse_absolute_uri(url) ==
  LET schemes == {i \in 1 .. (Len(url) - 2) : SubSeq(url, i, i + 2) = <<colon, slash, slash>>}
      scheme_pos == Min(schemes \cup {Len(url) + 1})
      authority_start == IF scheme_pos > Len(url) THEN 1 ELSE scheme_pos + 3
      path_start  == find(url, slash, authority_start)
      query_start == find(url, question, authority_start)
      authority   == SubSeq(url, authority_start, Min({path_start, query_start}) - 1)
      colon_pos   == Max({i \in DOMAIN authority : authority[i] = colon} \cup {0})
      path == SubSeq(url, path_start,
                     IF path_start > query_start THEN Len(url) ELSE query_start - 1)
  IN [scheme |-> IF scheme_pos > Len(url) THEN <<>> ELSE SubSeq(url, 1, scheme_pos - 1),
      host   |-> IF colon_pos = 0 THEN authority ELSE SubSeq(authority, 1, colon_pos - 1),
      port   |-> IF colon_pos = 0 THEN 0 ELSE stoi(from(authority, colon_pos + 1)) % 2 ^ 16,
      path   |-> IF path = <<>> THEN <<slash>> ELSE path,
      query  |-> from(url, query_start + 1)]

\* The authority of a request: its Host.
authority_of(uri) ==
  uri.host \o (IF uri.port = 0 THEN <<>> ELSE <<colon>> \o to_string(uri.port))

\* A URL written of its parts.
url_of(uri) ==
  (IF uri.scheme = <<>> THEN <<>> ELSE uri.scheme \o <<colon, slash, slash>>)
    \o authority_of(uri)
    \o uri.path \o (IF uri.query = <<>> THEN <<>> ELSE <<question>> \o uri.query)

\* request_url of the request that make_json_get or make_form_post makes of a URL.
request_url(uri) == url_of([uri EXCEPT !.path = IF @ = <<>> THEN <<slash>> ELSE @])

\* pkce_auth_strat.hpp, with one letter for the name of each parameter; those that
\* are always the same are left out.  The base URL keeps its slashes here.
build_query(params) == build_form_body(params)    \* written again, the same

join_scopes(scopes) == join(scopes, <<space>>)

create_authorization_url(cfg, state, code_challenge) ==
  LET param(letter, value) == [name |-> <<letter>>, value |-> value] IN
  cfg.base_url \o <<slash, 114, slash>> \o url_encode(cfg.realm) \o <<slash, 116, question>>
    \o build_query(<<param(99, cfg.client_id), param(117, cfg.redirect_uri), param(115, state),
                     param(104, code_challenge), param(111, join_scopes(cfg.scopes))>>)

\* split_ws of json_utils.hpp, which reads the scopes of a token.  A word starts
\* after any white space and ends at a blank, a tab or the end of a line.
split_ws(input) ==
  LET words[i \in 1 .. (Len(input) + 1)] ==
        LET start == Min({j \in i .. Len(input) : input[j] \notin Space} \cup {Len(input) + 1})
            end   == Min({j \in start .. Len(input) : input[j] \in {9, 10, 13, space}}
                           \cup {Len(input) + 1})
        IN IF start > Len(input) THEN <<>>
           ELSE <<SubSeq(input, start, end - 1)>>
                  \o IF end > Len(input) THEN <<>> ELSE words[end + 1]
  IN words[1]

-----------------------------------------------------------------------------
\* The writer: any fields, one byte after the other.

Init == fields = <<>>

size == Len(FlattenSeq([i \in DOMAIN fields |-> fields[i].name \o fields[i].value]))

Field ==
  /\ Len(fields) < MaxFields
  /\ fields' = Append(fields, [name |-> <<>>, value |-> <<>>])

NameByte(b) ==
  /\ fields # <<>> /\ size < MaxBytes
  /\ Last(fields).value = <<>>
  /\ fields' = [fields EXCEPT ![Len(fields)].name = Append(@, b)]

ValueByte(b) ==
  /\ fields # <<>> /\ size < MaxBytes
  /\ fields' = [fields EXCEPT ![Len(fields)].value = Append(@, b)]

Next == Field \/ \E b \in Byte : NameByte(b) \/ ValueByte(b)

Spec == Init /\ [][Next]_fields

-----------------------------------------------------------------------------
\* A form as a browser or Keycloak writes one: a space is a plus.
form_urlencoded(pairs) ==
  LET component(t) == FlattenSeq([i \in DOMAIN t |->
                        IF t[i] = space THEN <<plus>> ELSE url_encode(<<t[i]>>)])
  IN join([i \in DOMAIN pairs |->
             component(pairs[i].name) \o <<equals>> \o component(pairs[i].value)],
          <<ampersand>>)

\* What a browser keeps of a Set-Cookie, and sends back.
kept_cookie(set_cookie) == SubSeq(set_cookie, 1, find(set_cookie, semicolon, 1) - 1)

own_cookie(f) == kept_cookie(make_set_cookie(f.name, f.value))
foreign_cookie(f) == kept_cookie(f.name \o <<equals>> \o f.value)
separator == <<semicolon, space>>

\* An escape that is cut off or no number is left as it is; one that is a number for
\* an istringstream, a digit alone or behind a blank or a sign among them, is a byte.
\* What is before either and behind it is read as if it stood alone.
EscapeKept(value, rest) ==
  LET read   == decode_form_component(url_encode(value) \o <<percent>> \o rest)
      behind == decode_form_component(from(rest, 3))
      whole  == Len(rest) >= 2
  IN \/ /\ whole => ~ {rest[1], rest[2]} \subseteq HexDigit
        /\ read = value \o <<percent>> \o decode_form_component(rest)
     \/ /\ whole
        /\ \/ rest[1] \in HexDigit
           \/ rest[1] \in Space \cup {plus, minus} /\ rest[2] \in HexDigit
        /\ \E c \in 0 .. 255 : read = value \o <<c>> \o behind

\* A form or a query, this program's own (tokens and codes on their way to
\* Keycloak) or a browser's (the parameters of AuthHandler), is read as the names
\* and values it was written from, whatever bytes they contain; and a percent sign that
\* nobody encoded loses nothing of what is around it.
FormRoundTrip ==
  /\ parse_form_encoded(build_form_body(fields)) = assigned(fields)
  /\ parse_form_encoded(form_urlencoded(fields)) = assigned(fields)
  /\ \A i, k \in DOMAIN fields : EscapeKept(fields[i].value, fields[k].value)

\* The cookies that AuthHandler sets, each of which has a name, come back with the
\* values they were set to, among each other, and beside a cookie of another
\* program that was written in any way, unless that one follows and its name
\* decodes to the same name.
CookieRoundTrip ==
  /\ (\A i \in DOMAIN fields : fields[i].name # <<>>) =>
       parse_cookie_header(join([i \in DOMAIN fields |-> own_cookie(fields[i])], separator))
         = assigned(fields)
  /\ \A i, k \in DOMAIN fields : i # k /\ fields[i].name # <<>> =>
       LET own == own_cookie(fields[i])
           foreign == foreign_cookie(fields[k])
       IN
       /\ get_cookie(foreign \o separator \o own, fields[i].name) = fields[i].value
       /\ \/ get_cookie(own \o separator \o foreign, fields[i].name) = fields[i].value
          \/ fields[i].name \in DOMAIN parse_cookie_header(foreign)

\* A login state comes back from Redis as it was stored, whatever its verifier
\* and its realm contain; and the value of the version that stored the bare
\* verifier is that verifier, and not mistaken for one of this version.
StateEntryRoundTrip ==
  \A i \in DOMAIN fields : fields[i].value # <<>> =>
    LET entry == [code_verifier |-> fields[i].value, realm |-> fields[i].name]
        older == generate_random_string(fields[i].value)
    IN /\ consumed_entry(encode_state_entry(entry)) = entry
       /\ consumed_entry(older) = [code_verifier |-> older, realm |-> <<>>]

\* A token is taken apart into the bytes it was made of, however long its parts
\* are (the accumulator of base64url_decode is an int, and overflows), and one of
\* two or of four parts is refused.
TokenRoundTrip ==
  \A i \in DOMAIN fields :
    LET payload   == fields[i].value
        header    == fields[i].name
        signature == payload \o header \o payload \o payload
        signed    == base64url_encode(header) \o <<dot>> \o base64url_encode(payload)
        token     == signed \o <<dot>> \o base64url_encode(signature)
    IN /\ decode_jwt(token) = [signing_input |-> signed, header_json |-> header,
                               payload_json |-> payload, signature |-> signature]
       /\ decode_jwt(signed) = None
       /\ decode_jwt(token \o <<dot>>) = None

occurs(t, s) == \E i \in 1 .. (Len(s) - Len(t) + 1) : SubSeq(s, i, i + Len(t) - 1) = t

\* A string that json_escape wrote ends where it was ended and is read as it was
\* meant, whatever follows; and a search for a quoted name, which is how
\* extract_json_value looks for a key, finds that name in it only when it is the
\* whole string, or when it is its end after a quote.
StringsWhole ==
  \A i, k \in DOMAIN fields :
    LET quoted(s) == <<quote>> \o json_escape(s) \o <<quote>>
        value == fields[i].value
        name  == fields[k].name
    IN
    /\ skip_json_string(quoted(value) \o quoted(name), 1) = Len(quoted(value)) + 1
    /\ parse_json_string(quoted(value)) = value
    /\ json_escape(name) = name =>
         (occurs(quoted(name), quoted(value))
            <=> value = name \/ IsSuffix(<<quote>> \o name, value))

nonempty(texts) ==
  FlattenSeq([k \in DOMAIN texts |-> IF texts[k] = <<>> THEN <<>> ELSE <<texts[k]>>])

\* An endpoint and a request for it go out as they were built, to the host and port
\* of the base URL; the realm is one segment of the path and the query what was asked.
RequestKept(base, root, realm, pairs) ==
  LET url   == endpoint(root, realm)
      asked == url \o <<question>> \o build_form_body(pairs)
      uri   == parse_absolute_uri(asked)
  IN /\ request_url(parse_absolute_uri(url)) = url
     /\ request_url(uri) = asked
     /\ uri.host = base.host /\ uri.port = base.port
     /\ authority_of(uri) = authority_of(base)
     /\ parse_form_encoded(uri.query) = assigned(pairs)
     /\ url_decode(last_path_segment(realm_root(root, realm))) = realm

\* The authorization URL goes to that host, and asks for what the login was given.
AuthorizationKept(base, cfg, state, code_challenge) ==
  LET login == parse_absolute_uri(create_authorization_url(cfg, state, code_challenge))
  IN /\ login.host = base.host /\ login.port = base.port
     /\ parse_form_encoded(login.query) =
          [letter \in {<<99>>, <<117>>, <<115>>, <<104>>, <<111>>} |->
             CASE letter = <<99>> -> cfg.client_id [] letter = <<117>> -> cfg.redirect_uri
               [] letter = <<115>> -> state [] letter = <<104>> -> code_challenge
               [] letter = <<111>> -> join_scopes(cfg.scopes)]

\* A scope claim made of the scopes is split into them, unless they have white space.
ScopesKept(scopes) ==
  (\A k \in DOMAIN scopes : ToSet(scopes[k]) \cap Space = {}) =>
    split_ws(join_scopes(scopes)) = nonempty(scopes)

\* An endpoint of a realm, whatever its name contains and however many slashes
\* end the base URL, goes out as it was built: the realm is one segment of the
\* path, the query is what was asked, and no host or port is made of a name.  The
\* authorization URL asks for what the login was configured with, and its scopes
\* are those a token's scope claim is split into again.
UrlRoundTrip ==
  \A i \in DOMAIN fields, base \in Root, slashes \in {<<>>, <<slash, slash>>} :
    LET root   == url_of(base) \o slashes
        realm  == fields[i].value
        scopes == [k \in DOMAIN fields |-> fields[k].name]
        cfg    == [base_url |-> root, realm |-> realm, client_id |-> fields[i].name,
                   redirect_uri |-> endpoint(root, realm), scopes |-> scopes]
    IN realm # <<>> =>
       /\ RequestKept(base, root, realm, fields)
       /\ AuthorizationKept(base, cfg, realm, fields[1].value)
       /\ ScopesKept(scopes)

=============================================================================
