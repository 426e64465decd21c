-------------------------- MODULE KeycloakDocuments --------------------------
(***************************************************************************)
(* What is read, with the scanner of JsonScan, of the documents of         *)
(* Keycloak: the claims of a token (extract_audience_values and            *)
(* extract_all_roles of jwt_utils.hpp), its key set (extract_jwks) and its *)
(* discovery document (discovery.hpp).                                     *)
(*                                                                         *)
(* Keycloak (external) writes a document member by member, in any order    *)
(* and with any of them missing.  It is a sequence of members, each a name *)
(* and the tokens of its value.                                            *)
(***************************************************************************)
EXTENDS JsonScan, SequencesExt

CONSTANTS
  Role,            \* names of roles
  Client,          \* names of clients, which audiences and role mappings carry
  KeyId, KeyType,  \* what the keys of the key set have as kid and kty
  Chain,           \* and as x5c
  MaxRoles,        \* bound on the roles of the realm
  MaxClientRoles,  \* bound on the roles of one client
  MaxClients,      \* bound on the clients of one claim
  MaxKeys          \* bound on the keys of the key set

nullopt == "nullopt"

ASSUME DocumentsAssumption ==
  /\ nullopt \notin String
  /\ Role \cup Client \cup KeyId \cup KeyType \subseteq String
  /\ Chain \subseteq Seq(String)
  /\ {"sub", "aud", "roles", "realm_access", "resource_access", "keys", "kid", "kty", "x5c",
      "endpoint", "aliases"} \subseteq String
  /\ {MaxRoles, MaxClientRoles, MaxClients, MaxKeys} \subseteq Nat

VARIABLES
  payload,    \* the claims written so far: their names and what they say
  key_set,    \* the keys written so far, each a sequence of members
  discovery   \* the endpoints written so far

documentVars == <<payload, key_set, discovery>>

-----------------------------------------------------------------------------
\* The texts (external).
listed(texts) ==
  FlattenSeq([i \in DOMAIN texts |-> IF i = 1 THEN texts[i] ELSE <<",">> \o texts[i]])
array(texts) == <<"[">> \o listed(texts) \o <<"]">>
strings(names) == array([i \in DOMAIN names |-> <<names[i]>>])
object(members) ==
  <<"{">> \o listed([i \in DOMAIN members |-> <<members[i].name, ":">> \o members[i].value])
    \o <<"}">>
member(name, value) == [name |-> name, value |-> value]

\* Where the name of a member is, and whether no equal string precedes it: then
\* the search for a quoted name finds the member, and not a value or a member of
\* a nested object.
name_at(members, i) == Len(object(SubSeq(members, 1, i - 1))) + IF i = 1 THEN 0 ELSE 1
first_found(members, name) ==
  LET s == object(members) IN
  \A j \in DOMAIN s : s[j] = name =>
    \E i \in DOMAIN members : members[i].name = name /\ name_at(members, i) <= j

-----------------------------------------------------------------------------
\* json_utils.hpp

part(s, found) == SubSeq(s, found.begin, found.end - 1)

extract_json_string(s, key) ==
  LET found == extract_json_value(s, key) IN
  IF found # nowhere /\ Len(part(s, found)) = 1 /\ part(s, found)[1] \in String
    THEN part(s, found)[1] ELSE nullopt

\* extract_json_object and extract_json_array, of the opening token.
extract_json_part(s, key, opening) ==
  LET found == extract_json_value(s, key) IN
  IF found # nowhere /\ s[found.begin] = opening THEN part(s, found) ELSE <<>>

elements(s) ==
  LET found == split_json_array_elements(s) IN [i \in DOMAIN found |-> part(s, found[i])]

\* Of some elements, those that are strings.
strings_among(parts) ==
  FlattenSeq([i \in DOMAIN parts |->
    IF Len(parts[i]) = 1 /\ parts[i][1] \in String THEN parts[i] ELSE <<>>])

extract_json_string_array(s, key) == strings_among(elements(extract_json_part(s, key, "[")))

\* Seeded faults (see "mutants" in PROJECT.json).
append_unique_always(target, source) == target \o source
jwk_member_of_set(set, element, name) == extract_json_string(set, name)

append_unique(target, source) ==
  LET take[i \in 0 .. Len(source)] ==
        IF i = 0 THEN target
        ELSE LET values_ == take[i - 1] IN
             IF Contains(values_, source[i]) THEN values_ ELSE Append(values_, source[i])
  IN take[Len(source)]

-----------------------------------------------------------------------------
\* jwt_utils.hpp

extract_audience_values(s) ==
  LET values_ == extract_json_string_array(s, "aud") IN
  IF values_ = <<>> /\ extract_json_string(s, "aud") # nullopt
    THEN <<extract_json_string(s, "aud")>> ELSE values_

\* The roles of every client in resource_access, in order.
client_roles(s) ==
  LET walk[p \in 2 .. (Len(s) + 1)] ==
        LET key_end   == skip_json_string(s, p)
            pos       == colon_skipped(s, key_end)
            value_end == skip_json_value(s, pos)
        IN
        IF p >= Len(s) \/ at(s, p) = "}" THEN <<>>
        ELSE IF key_end <= p THEN <<>>
        ELSE IF value_end <= pos THEN <<>>
        ELSE (IF s[pos] = "{"
                THEN extract_json_string_array(SubSeq(s, pos, value_end - 1), "roles")
                ELSE <<>>)
             \o walk[comma_skipped(s, value_end)]
  IN IF s = <<>> THEN <<>> ELSE walk[2]

extract_all_roles(s) ==
  LET realm_access == extract_json_part(s, "realm_access", "{")
      realm_roles  == IF realm_access = <<>> THEN <<>>
                      ELSE extract_json_string_array(realm_access, "roles")
  IN append_unique(append_unique(<<>>, realm_roles),
                   client_roles(extract_json_part(s, "resource_access", "{")))

value_or(v, default) == IF v = nullopt THEN default ELSE v

jwk_member(set, element, name) == extract_json_string(element, name)

\* The keys with a type, of which kid, kty and n stand for the five members.
extract_jwks(s) ==
  LET set == extract_json_part(s, "keys", "[")
      found == elements(set)
      jwk(e) == [kid |-> value_or(jwk_member(set, e, "kid"), ""),
                 kty |-> value_or(jwk_member(set, e, "kty"), "")]
  IN FlattenSeq([i \in DOMAIN found |->
       IF found[i][1] = "{" /\ jwk(found[i]).kty # "" THEN <<jwk(found[i])>> ELSE <<>>])

\* discovery.hpp: the eight endpoints, of which one stands for all, are those of
\* the document or else constructed ones, whatever the status.
discover(status_code, s) ==
  LET http_status == IF status_code > 0 THEN status_code ELSE 502
      ok == http_status \in 200 .. 299
  IN [ok |-> ok, http_status |-> http_status,
      error |-> IF ok THEN "" ELSE value_or(extract_json_string(s, "error"), "oidc_discovery_failed"),
      endpoint |-> value_or(extract_json_string(s, "endpoint"), "constructed")]

-----------------------------------------------------------------------------
\* What a claim says, and its tokens.
Lists(names, max) == UNION {[1 .. n -> names] : n \in 0 .. max}

Claim ==
  [name: {"realm_access"}, says: Lists(Role, MaxRoles)]
    \cup [name: {"resource_access"}, says: Lists(Client \X Lists(Role, MaxClientRoles), MaxClients)]
    \cup [name: {"aud"}, says: Lists(Client, MaxClients)]
    \cup [name: {"sub"}, says: {<<r>> : r \in Role}]

roles_object(roles) == object(<<member("roles", strings(roles))>>)

claim_text(c) ==
  CASE c.name = "realm_access" -> roles_object(c.says)
    [] c.name = "resource_access" ->
         object([i \in DOMAIN c.says |-> member(c.says[i][1], roles_object(c.says[i][2]))])
    [] c.name = "aud" -> IF Len(c.says) = 1 THEN c.says ELSE strings(c.says)
    [] c.name = "sub" -> c.says

claims == [i \in DOMAIN payload |-> member(payload[i].name, claim_text(payload[i]))]

Key ==
  {[i \in DOMAIN names |-> member(names[i], values_[names[i]])] :
     names \in UNION {Injection(1 .. n, {"kid", "kty", "x5c"}) : n \in 1 .. 3},
     values_ \in [kid: {<<v>> : v \in KeyId}, kty: {<<v>> : v \in KeyType},
                  x5c: {strings(v) : v \in Chain}]}

\* The key set, in which an element may be no object.
key_text(k) == IF k = <<>> THEN <<"n">> ELSE object(k)
key_set_text ==
  object(<<member("keys", array([i \in DOMAIN key_set |-> key_text(key_set[i])]))>>)

\* The discovery document: an endpoint, and the alias of it for mutual TLS.
Endpoint == {member("endpoint", <<"s">>),
             member("aliases", object(<<member("endpoint", <<"k">>)>>))}

nothing_written == payload = <<>> /\ key_set = <<>> /\ discovery = <<>>

\* A text of any shape, token by token; or one of the documents.
WriteToken == nothing_written /\ Next /\ UNCHANGED documentVars

WriteClaim(c) ==
  /\ text = <<>> /\ key_set = <<>> /\ discovery = <<>>
  /\ \A i \in DOMAIN payload : payload[i].name # c.name
  /\ payload' = Append(payload, c)
  /\ UNCHANGED <<vars, key_set, discovery>>

WriteKey(k) ==
  /\ text = <<>> /\ payload = <<>> /\ discovery = <<>>
  /\ Len(key_set) < MaxKeys
  /\ key_set' = Append(key_set, k)
  /\ UNCHANGED <<vars, payload, discovery>>

WriteEndpoint(e) ==
  /\ text = <<>> /\ payload = <<>> /\ key_set = <<>>
  /\ \A i \in DOMAIN discovery : discovery[i].name # e.name
  /\ discovery' = Append(discovery, e)
  /\ UNCHANGED <<vars, payload, key_set>>

DocumentsInit == Init /\ payload = <<>> /\ key_set = <<>> /\ discovery = <<>>

DocumentsNext ==
  \/ WriteToken
  \/ \E c \in Claim : WriteClaim(c)
  \/ \E k \in Key \cup {<<>>} : WriteKey(k)
  \/ \E e \in Endpoint : WriteEndpoint(e)

DocumentsSpec == DocumentsInit /\ [][DocumentsNext]_<<vars, documentVars>>

-----------------------------------------------------------------------------
\* What the payload says of a claim.
said(name) ==
  LET found == {i \in DOMAIN payload : payload[i].name = name} IN
  IF found = {} THEN <<>> ELSE payload[Max(found)].says

\* The strings of a sequence, each where it is first.
is_without_repeats(result, source) ==
  LET first(x) == SelectInSeq(source, LAMBDA y : y = x) IN
  /\ ToSet(result) = ToSet(source)
  /\ \A i, j \in DOMAIN result : i < j => first(result[i]) < first(result[j])

\* The context of an accepted token has the roles, audiences and subject of its
\* claims, in whatever order they were written, unless a client, a role or a subject
\* with the name of a claim precedes that claim: the realm's roles and then every
\* client's, each once.  A name is a whole string here: one that ends in an escaped
\* quote followed by the name of a claim is outside (StringsWhole is about those).
ClaimsExact ==
  LET s == object(claims)
      roles == said("realm_access")
                 \o FlattenSeq([i \in DOMAIN said("resource_access") |-> said("resource_access")[i][2]])
  IN
  /\ first_found(claims, "realm_access") /\ first_found(claims, "resource_access") =>
       is_without_repeats(extract_all_roles(s), roles)
  /\ first_found(claims, "aud") => extract_audience_values(s) = said("aud")
  /\ first_found(claims, "sub") =>
       extract_json_string(s, "sub") = IF said("sub") = <<>> THEN nullopt ELSE said("sub")[1]

\* What Keycloak publishes is read exactly: every key of its key set that has a
\* type, in order, each with the kid of its own element and of no other, if no
\* value with the name of a member precedes that member; and an endpoint, unless
\* an alias precedes it or stands alone, whatever the status of the response.
PublishedExact ==
  LET read(k, name) == LET i == SelectInSeq(k, LAMBDA m : m.name = name) IN
                         IF i = 0 THEN "" ELSE k[i].value[1]
      s == object(discovery)
  IN
  /\ (\A i \in DOMAIN key_set : \A name \in {"kid", "kty"} :
        key_set[i] # <<>> => first_found(key_set[i], name)) =>
       extract_jwks(key_set_text)
         = FlattenSeq([i \in DOMAIN key_set |->
             IF key_set[i] # <<>> /\ read(key_set[i], "kty") # ""
               THEN <<[kid |-> read(key_set[i], "kid"), kty |-> read(key_set[i], "kty")]>>
               ELSE <<>>])
  /\ \A status \in {0, 200, 404} :
       LET result == discover(status, s) IN
       /\ discovery = <<>> => result.endpoint = "constructed"
       /\ discovery # <<>> => result.endpoint = IF discovery[1].name = "endpoint" THEN "s" ELSE "k"

=============================================================================
