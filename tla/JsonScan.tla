------------------------------ MODULE JsonScan -------------------------------
(***************************************************************************)
(* The JSON scanner of detail/json_utils.hpp, which every token response,  *)
(* key set and set of claims is read with: skip_json_value,                *)
(* extract_json_value and split_json_array_elements, against what a        *)
(* serializer wrote.                                                       *)
(*                                                                         *)
(* A text is a sequence of tokens: punctuation, strings and a bare         *)
(* scalar, with white space left out and strings whole (their content,     *)
(* escapes and decoding are not modelled).  The serializer (external)      *)
(* writes one well-formed value token by token, so that every state is a   *)
(* text or one cut off in transit, and remembers where each value is.      *)
(* Positions are 1 .. Len(text) + 1, the last being text.size().           *)
(***************************************************************************)
EXTENDS Naturals, Sequences, FiniteSetsExt

CONSTANTS
  String,    \* the strings there are, names and values
  MaxLen,    \* bound on the length of a text
  MaxDepth   \* bound on the nesting

ASSUME ScanAssumption ==
  /\ String \cap {"n", "{", "}", "[", "]", ",", ":", "end"} = {}
  /\ {"k", "s"} \subseteq String
  /\ MaxLen \in Nat /\ MaxDepth \in Nat

VARIABLES
  text,    \* what has been written
  open,    \* the objects and arrays being written, the innermost first
  values   \* history: where each complete value begins and ends

vars == <<text, open, values>>

Written == {"k", "s"}       \* the strings of this writer; "k" is looked for as a key

-----------------------------------------------------------------------------
\* Seeded faults (see "mutants" in PROJECT.json).
exhausted_never(s, p) == FALSE
colon_skipped_never(s, p) == p

-----------------------------------------------------------------------------
endless == 0   \* stands for a loop that never ends

at(s, p) == IF p <= Len(s) THEN s[p] ELSE "end"

\* The loops of skip_json_value run while pos < text.size().
exhausted(s, p) == p > Len(s)

\* A bare scalar runs up to one of these.
delimiters == {",", "}", "]"}

skip_scalar(s, p) == Min({q \in p..Len(s) : s[q] \in delimiters} \cup {Len(s) + 1})

skip_json_string(s, p) == IF at(s, p) \in String THEN p + 1 ELSE p

colon_skipped(s, p) == IF at(s, p) = ":" THEN p + 1 ELSE p

comma_skipped(s, p) == IF at(s, p) = "," THEN p + 1 ELSE p

\* skip_json_value at p; "object" and "array" are one turn of its two loops.
skip(s) ==
  LET scan[turn \in {"value", "object", "array"} \X (1..(Len(s) + 1))] ==
        LET m     == turn[1]
            p     == turn[2]
            close == IF m = "object" THEN "}" ELSE "]"
            from  == IF m = "object" THEN colon_skipped(s, skip_json_string(s, p)) ELSE p
            to    == scan[<<"value", from>>]
        IN
        IF m = "value" THEN
          CASE at(s, p) = "end" -> p
            [] at(s, p) \in String -> skip_json_string(s, p)
            [] at(s, p) = "{" -> scan[<<"object", p + 1>>]
            [] at(s, p) = "[" -> scan[<<"array", p + 1>>]
            [] OTHER -> skip_scalar(s, p)
        ELSE IF exhausted(s, p) THEN Len(s) + 1
        ELSE IF at(s, p) = close THEN p + 1
        ELSE IF to = endless THEN endless
        ELSE IF at(s, to) = "," THEN scan[<<m, to + 1>>]
        ELSE IF at(s, to) = close THEN to + 1
        ELSE IF to = p THEN endless
        ELSE scan[<<m, to>>]
  IN scan

skip_json_value(s, p) == skip(s)[<<"value", p>>]

nowhere == [begin |-> 0, end |-> 0]

\* A candidate of extract_json_value is its value unless it is empty.
value_found(begin, end) == begin < end

\* The first token that is the key, in whatever place, and what follows the
\* next colon, wherever that is.
extract_json_value(s, key) ==
  LET search[from \in 1..(Len(s) + 1)] ==
        LET found  == {i \in from..Len(s) : s[i] = key}
            i      == Min(found)
            colons == {c \in (i + 1)..Len(s) : s[c] = ":"}
            begin  == Min(colons) + 1
            end    == skip_json_value(s, begin)
        IN
        IF found = {} THEN nowhere
        ELSE IF colons = {} THEN nowhere
        ELSE IF value_found(begin, end) THEN [begin |-> begin, end |-> end]
        ELSE search[i + 1]
  IN search[1]

\* The elements of the array s, in order.
split_json_array_elements(s) ==
  LET split[p \in 1..(Len(s) + 1)] ==
        LET end == skip_json_value(s, p) IN
        IF p >= Len(s) \/ at(s, p) = "]" THEN <<>>
        ELSE IF end <= p THEN <<>>
        ELSE <<[begin |-> p, end |-> end]>> \o split[comma_skipped(s, end)]
  IN IF Len(s) < 2 \/ s[1] # "[" \/ s[Len(s)] # "]" THEN <<>> ELSE split[2]

-----------------------------------------------------------------------------
\* The serializer (external).

Init == text = <<>> /\ open = <<>> /\ values = {}

write(c) == Len(text) < MaxLen /\ text' = Append(text, c)

here == Len(text) + 1
expects(next) == open # <<>> /\ Head(open).next \in next
goes_on(stack, next) == <<[Head(stack) EXCEPT !.next = next]>> \o Tail(stack)

value_expected == text = <<>> \/ expects({"first element", "value"})

\* A value is complete: what contains it goes on.
completed(begin, stack) ==
  /\ values' = values \cup {[begin |-> begin, end |-> here + 1]}
  /\ open' = IF stack = <<>> THEN <<>> ELSE goes_on(stack, "more")

Atom(c) ==
  /\ value_expected
  /\ write(c)
  /\ completed(here, open)

Open(c, next) ==
  /\ value_expected
  /\ Len(open) < MaxDepth
  /\ write(c)
  /\ open' = <<[begin |-> here, next |-> next]>> \o open
  /\ UNCHANGED values

Punctuate(c, after, next) ==
  /\ expects(after)
  /\ write(c)
  /\ open' = goes_on(open, next)
  /\ UNCHANGED values

Comma ==
  \/ open # <<>> /\ text[Head(open).begin] = "{" /\ Punctuate(",", {"more"}, "key")
  \/ open # <<>> /\ text[Head(open).begin] = "[" /\ Punctuate(",", {"more"}, "value")

Close(c, opening) ==
  /\ expects({"first key", "first element", "more"})
  /\ text[Head(open).begin] = opening
  /\ write(c)
  /\ completed(Head(open).begin, Tail(open))

Next ==
  \/ \E c \in Written \cup {"n"} : Atom(c)
  \/ Open("{", "first key") \/ Open("[", "first element")
  \/ \E c \in Written : Punctuate(c, {"first key", "key"}, "colon")
  \/ Punctuate(":", {"colon"}, "value")
  \/ Comma
  \/ Close("}", "{") \/ Close("]", "[")

Spec == Init /\ [][Next]_vars

-----------------------------------------------------------------------------
\* skip_json_value ends a value exactly where the serializer ended it, however
\* it is nested and whatever follows; and in an object or array that was cut off
\* it ends, at the end of the text.
SkipsValues ==
  /\ \A v \in values : skip_json_value(text, v.begin) = v.end
  /\ \A i \in DOMAIN open : skip_json_value(text, open[i].begin) = Len(text) + 1

\* extract_json_value returns the value of the first key of the name, nested or
\* not, when no string of that content precedes it; nothing when the text does
\* not have the name; and never a value that is empty.
FindsFirstKey ==
  LET names == {i \in DOMAIN text : text[i] = "k"}
      first == Min(names)
      found == extract_json_value(text, "k")
  IN
  /\ found = nowhere \/ (found.begin < found.end /\ found.end <= Len(text) + 1)
  /\ names = {} => found = nowhere
  /\ names # {} => \A v \in values :
       v.begin = first + 2 /\ text[first + 1] = ":" =>
         found = [begin |-> v.begin, end |-> v.end]

=============================================================================
