---------------------- MODULE KeycloakDocumentsProofs -----------------------
(***************************************************************************)
(* What JsonScan says of its scanner, and KeycloakDocuments of what is     *)
(* read with it, for texts of any length and nesting.                      *)
(*                                                                         *)
(* The scanner is a function that calls itself. Each of its turns only     *)
(* calls turns of lower rank (Descends), and returns 0 or a place no       *)
(* earlier than where it began (Within), so it has a value at every turn   *)
(* (Skipping).                                                             *)
(*                                                                         *)
(* The invariant is about every text that may follow what has been written *)
(* (extensions): a value that is complete ends where it was ended, and in  *)
(* an object or array that is being written the loop gets to the turn of   *)
(* the member or element that is being written (reached). A closing        *)
(* bracket then ends that loop, and the value is complete.                 *)
(*                                                                         *)
(* The documents are put together from values that are passed whole        *)
(* wherever they stand before a delimiter or at the end (Whole): an atom,  *)
(* and an array or an object of such values (AtomWhole, EnclosedWhole). So *)
(* a search ends at the member (MemberFound), the elements of an array are *)
(* its items (ElementsOfArray), and the walk over resource_access takes    *)
(* the roles of each client (ClientRoles). WrittenInv says what has been   *)
(* written: members, each name once. The inductions over sequences are on  *)
(* sets that are closed under one more item in front or behind (ByFront,   *)
(* ByBack).                                                                *)
(***************************************************************************)
EXTENDS KeycloakDocuments, SequenceTheorems, WellFoundedInduction, TLAPS

\* A set of numbers that is not empty has a smallest one.
LEMMA Smallest ==
  ASSUME NEW T, T \subseteq Nat, T # {}
  PROVE  \E x \in T : \A y \in T : ~ (y < x)
<1>1. IsWellFoundedOn(OpToRel(<, Nat), Nat)
  BY NatLessThanWellFounded
<1>2. PICK x \in T : \A y \in T : ~ (<<y, x>> \in OpToRel(<, Nat))
  BY <1>1, WFMin
<1> QED BY <1>2 DEF OpToRel

\* A set of numbers with 0, and with n + 1 whenever it has n, has all.
LEMMA Induct ==
  ASSUME NEW S, 0 \in S, \A n \in Nat : n \in S => n + 1 \in S
  PROVE  Nat \subseteq S
<1> SUFFICES ASSUME Nat \ S # {} PROVE FALSE
  OBVIOUS
<1>1. PICK x \in Nat \ S : \A y \in Nat \ S : ~ (y < x)
  BY Smallest
<1>2. x # 0 /\ x - 1 \in Nat /\ x - 1 < x /\ x = (x - 1) + 1
  BY <1>1
<1>3. x - 1 \in S
  BY <1>1, <1>2
<1> QED BY <1>1, <1>2, <1>3

\* D makes a function from S to V of another one, and of its values only those at
\* arguments of lower rank.
descends(S, V, D, r, N) ==
  /\ V # {}
  /\ D \in [[S -> V] -> [S -> V]]
  /\ r \in [S -> Nat] /\ N \in Nat /\ \A x \in S : r[x] < N
  /\ \A g, h \in [S -> V], x \in S :
       (\A y \in S : r[y] < r[x] => g[y] = h[y]) => D[g][x] = D[h][x]

\* A function that is defined by recursion exists.
LEMMA Recursion ==
  ASSUME NEW S, NEW V, NEW D, NEW r, NEW N, descends(S, V, D, r, N)
  PROVE  \E f \in [S -> V] : f = D[f]
<1> USE DEF descends
<1>0. PICK v \in V : TRUE
  OBVIOUS
<1> DEFINE good(g, n) == \A x \in S : r[x] < n => g[x] = D[g][x]
           T == {n \in Nat : \E g \in [S -> V] : good(g, n)}
<1>1. 0 \in T
  <2>1. [x \in S |-> v] \in [S -> V]
    OBVIOUS
  <2>2. good([x \in S |-> v], 0)
    OBVIOUS
  <2> QED BY <2>1, <2>2
<1>2. ASSUME NEW n \in Nat, n \in T PROVE n + 1 \in T
  <2>1. PICK g \in [S -> V] : good(g, n)
    BY <1>2
  <2>2. D[g] \in [S -> V]
    OBVIOUS
  <2>3. ASSUME NEW x \in S, r[x] < n + 1 PROVE D[g][x] = D[D[g]][x]
    <3>1. \A y \in S : r[y] < r[x] => g[y] = D[g][y]
      BY <2>1, <2>3
    <3> QED BY <2>2, <3>1
  <2> QED BY <2>2, <2>3
<1> HIDE DEF T
<1>3. N \in T
  BY <1>1, <1>2, Induct
<1>4. PICK g \in [S -> V] : good(g, N)
  BY <1>3 DEF T
<1>5. \A x \in S : g[x] = D[g][x]
  BY <1>4
<1>6. D[g] \in [S -> V]
  OBVIOUS
<1>7. g = D[g]
  BY <1>5, <1>6
<1> QED BY <1>7

\* A function of the positions of a text, and the one past it, that reads on.
reads_on(n, V, D) ==
  /\ n \in Nat /\ V # {}
  /\ D \in [[1 .. (n + 1) -> V] -> [1 .. (n + 1) -> V]]
  /\ \A g, h \in [1 .. (n + 1) -> V], i \in 1 .. (n + 1) :
       (\A j \in 1 .. (n + 1) : j > i => g[j] = h[j]) => D[g][i] = D[h][i]

\* A loop that only reads on has a result at every position.
LEMMA ReadingOn ==
  ASSUME NEW n, NEW V, NEW D, reads_on(n, V, D)
  PROVE  \E f \in [1 .. (n + 1) -> V] : f = D[f]
<1> DEFINE S == 1 .. (n + 1)
           r == [i \in S |-> n + 1 - i]
           N == n + 1
<1>1. N \in Nat /\ r \in [S -> Nat]
  BY DEF reads_on
<1>2. \A i \in S : r[i] < N
  BY DEF reads_on
<1>3. \A i, j \in S : r[j] < r[i] <=> j > i
  BY DEF reads_on
<1>4. D \in [[S -> V] -> [S -> V]] /\ V # {}
  BY DEF reads_on
<1>5. ASSUME NEW g \in [S -> V], NEW h \in [S -> V], NEW i \in S,
             \A j \in S : r[j] < r[i] => g[j] = h[j]
      PROVE  D[g][i] = D[h][i]
  <2>1. \A j \in S : j > i => g[j] = h[j]
    BY <1>3, <1>5
  <2> QED BY <2>1 DEF reads_on
<1> HIDE DEF r, N, S
<1>6. descends(S, V, D, r, N)
  BY <1>1, <1>2, <1>4, <1>5 DEF descends
<1>7. \E f \in [S -> V] : f = D[f]
  BY <1>6, Recursion
<1> QED BY <1>7 DEF S

\* What holds of a position when it holds of all later ones.
LEMMA FromEnd ==
  ASSUME NEW n \in Nat, NEW T,
         \A i \in 1 .. (n + 1) : (\A j \in 1 .. (n + 1) : j > i => j \in T) => i \in T
  PROVE  \A i \in 1 .. (n + 1) : i \in T
<1> DEFINE S == {k \in Nat : \A i \in 1 .. (n + 1) : i > n + 1 - k => i \in T}
<1>1. 0 \in S
  OBVIOUS
<1>2. ASSUME NEW k \in Nat, k \in S PROVE k + 1 \in S
  <2> SUFFICES ASSUME NEW i \in 1 .. (n + 1), i > n + 1 - (k + 1) PROVE i \in T
    OBVIOUS
  <2>1. \A j \in 1 .. (n + 1) : j > i => j > n + 1 - k
    OBVIOUS
  <2>2. \A j \in 1 .. (n + 1) : j > i => j \in T
    BY <1>2, <2>1
  <2> QED BY <2>2
<1> HIDE DEF S
<1>3. n + 1 \in S
  BY <1>1, <1>2, Induct
<1> QED BY <1>3 DEF S

\* Min of the community modules is the smallest.
LEMMA Minimum ==
  ASSUME NEW T, T \subseteq Nat, T # {}
  PROVE  Min(T) \in T /\ \A y \in T : Min(T) <= y
<1>1. PICK x \in T : \A y \in T : ~ (y < x)
  BY Smallest
<1>2. \A y \in T : x <= y
  BY <1>1
<1> QED BY <1>1, <1>2 DEF Min

-----------------------------------------------------------------------------
\* The scanner.
Token == String \cup {"n", "{", "}", "[", "]", ",", ":"}
Text == Seq(Token)

Loop == {"object", "array"}
turns(s) == {"value", "object", "array"} \X (1..(Len(s) + 1))

closing(m) == IF m = "object" THEN "}" ELSE "]"

\* One turn of the scanner, given what the other turns return.
step(s, f, turn) ==
  LET m     == turn[1]
      p     == turn[2]
      close == IF m = "object" THEN "}" ELSE "]"
      from  == IF m = "object" THEN colon_skipped(s, skip_json_string(s, p)) ELSE p
      to    == f[<<"value", from>>]
  IN
  IF m = "value" THEN
    CASE at(s, p) = "end" -> p
      [] at(s, p) \in String -> skip_json_string(s, p)
      [] at(s, p) = "{" -> f[<<"object", p + 1>>]
      [] at(s, p) = "[" -> f[<<"array", p + 1>>]
      [] OTHER -> skip_scalar(s, p)
  ELSE IF exhausted(s, p) THEN Len(s) + 1
  ELSE IF at(s, p) = close THEN p + 1
  ELSE IF to = endless THEN endless
  ELSE IF at(s, to) = "," THEN f[<<m, to + 1>>]
  ELSE IF at(s, to) = close THEN to + 1
  ELSE IF to = p THEN endless
  ELSE f[<<m, to>>]

\* Where the value of a turn of a loop begins.
value_at(s, m, p) == IF m = "object" THEN colon_skipped(s, skip_json_string(s, p)) ELSE p

LEMMA SkipIs ==
  ASSUME NEW s
  PROVE  skip(s) = CHOOSE f : f = [turn \in turns(s) |-> step(s, f, turn)]
BY DEF skip, step, turns

LEMMA Tokens ==
  /\ "end" \notin Token
  /\ \A c \in String : c \notin {"n", "{", "}", "[", "]", ",", ":", "end"}
BY ScanAssumption DEF ScanAssumption, Token

LEMMA AtType ==
  ASSUME NEW s \in Text, NEW p \in 1 .. Len(s) + 1
  PROVE  /\ at(s, p) \in Token \cup {"end"}
         /\ at(s, p) = "end" <=> p = Len(s) + 1
         /\ p # Len(s) + 1 => p \in 1 .. Len(s) /\ at(s, p) = s[p] /\ s[p] \in Token
<1>1. Len(s) \in Nat /\ \A i \in 1 .. Len(s) : s[i] \in Token
  BY DEF Text
<1>2. CASE p = Len(s) + 1
  <2>1. ~ (p <= Len(s))
    BY <1>1, <1>2
  <2> QED BY <1>2, <2>1 DEF at
<1>3. CASE p # Len(s) + 1
  <2>1. p <= Len(s) /\ p \in 1 .. Len(s)
    BY <1>1, <1>3
  <2>2. s[p] \in Token /\ s[p] # "end"
    BY <1>1, <2>1, Tokens
  <2> QED BY <1>3, <2>1, <2>2 DEF at
<1> QED BY <1>2, <1>3

LEMMA ValueAt ==
  ASSUME NEW s \in Text, NEW m \in Loop, NEW p \in 1 .. Len(s) + 1
  PROVE  value_at(s, m, p) \in p .. Len(s) + 1
<1>1. Len(s) \in Nat
  BY DEF Text
<1>2. skip_json_string(s, p) \in p .. Len(s) + 1
  <2>1. at(s, p) \in String => p # Len(s) + 1
    BY AtType, Tokens
  <2> QED BY <1>1, <2>1 DEF skip_json_string
<1>3. ASSUME NEW q \in p .. Len(s) + 1 PROVE colon_skipped(s, q) \in q .. Len(s) + 1
  <2>1. q \in 1 .. Len(s) + 1
    BY <1>1
  <2>2. at(s, q) = ":" => q # Len(s) + 1
    BY <2>1, AtType
  <2> QED BY <1>1, <2>2 DEF colon_skipped
<1>4. m = "array" => value_at(s, m, p) = p
  BY DEF value_at
<1>5. m = "object" => value_at(s, m, p) = colon_skipped(s, skip_json_string(s, p))
  BY DEF value_at
<1> QED BY <1>1, <1>2, <1>3, <1>4, <1>5 DEF Loop

LEMMA Scalar ==
  ASSUME NEW s \in Text, NEW p \in 1 .. Len(s) + 1
  PROVE  skip_scalar(s, p) \in p .. Len(s) + 1
<1> DEFINE T == {q \in p..Len(s) : s[q] \in delimiters} \cup {Len(s) + 1}
<1>1. T \subseteq Nat /\ T # {} /\ T \subseteq p .. Len(s) + 1
  BY DEF Text
<1>2. Min(T) \in T
  BY <1>1, Minimum
<1> QED BY <1>1, <1>2 DEF skip_scalar

\* What a turn of the value returns.
value_turn(s, f, p, r) ==
  /\ at(s, p) = "end" => r = p
  /\ at(s, p) \in String => r = p + 1
  /\ at(s, p) = "{" => r = f[<<"object", p + 1>>]
  /\ at(s, p) = "[" => r = f[<<"array", p + 1>>]
  /\ at(s, p) \notin String \cup {"end", "{", "["} => r = skip_scalar(s, p)

LEMMA StepValue ==
  ASSUME NEW s \in Text, NEW f, NEW p \in 1 .. Len(s) + 1
  PROVE  value_turn(s, f, p, step(s, f, <<"value", p>>))
<1>1. <<"value", p>>[1] = "value" /\ <<"value", p>>[2] = p
  OBVIOUS
<1>2. at(s, p) \in String => skip_json_string(s, p) = p + 1
  BY DEF skip_json_string
<1>3. at(s, p) \in String => at(s, p) \notin {"end", "{", "["}
  BY Tokens
<1> QED BY <1>1, <1>2, <1>3 DEF step, value_turn

\* A turn of a loop, whose value ends at "to".
loop_turn(s, f, m, p, to) ==
  IF p = Len(s) + 1 THEN Len(s) + 1
  ELSE IF at(s, p) = closing(m) THEN p + 1
  ELSE IF to = endless THEN endless
  ELSE IF at(s, to) = "," THEN f[<<m, to + 1>>]
  ELSE IF at(s, to) = closing(m) THEN to + 1
  ELSE IF to = p THEN endless
  ELSE f[<<m, to>>]

LEMMA StepLoop ==
  ASSUME NEW s \in Text, NEW f, NEW m \in Loop, NEW p \in 1 .. Len(s) + 1
  PROVE  step(s, f, <<m, p>>) = loop_turn(s, f, m, p, f[<<"value", value_at(s, m, p)>>])
<1>1. <<m, p>>[1] = m /\ <<m, p>>[2] = p /\ m # "value"
  BY DEF Loop
<1>2. exhausted(s, p) <=> p = Len(s) + 1
  BY DEF exhausted, Text
<1> QED BY <1>1, <1>2 DEF step, value_at, closing, loop_turn

\* Turns later in the text are lower, and a value is lower than a loop over it.
rank(s, turn) ==
  IF turn[1] = "value" THEN 2 * ((Len(s) + 1) - turn[2]) ELSE 2 * ((Len(s) + 1) - turn[2]) + 1

LEMMA RankIs ==
  ASSUME NEW s \in Text, NEW p \in 1 .. Len(s) + 1
  PROVE  /\ <<"value", p>> \in turns(s)
         /\ rank(s, <<"value", p>>) \in Nat
         /\ rank(s, <<"value", p>>) = 2 * ((Len(s) + 1) - p)
         /\ \A m \in Loop : /\ <<m, p>> \in turns(s)
                            /\ rank(s, <<m, p>>) \in Nat
                            /\ rank(s, <<m, p>>) = 2 * ((Len(s) + 1) - p) + 1
<1>1. Len(s) \in Nat
  BY DEF Text
<1>2. (Len(s) + 1) - p \in Nat
  BY <1>1
<1> QED BY <1>1, <1>2 DEF rank, turns, Loop

LEMMA TurnIs ==
  ASSUME NEW s \in Text, NEW turn \in turns(s)
  PROVE  \E p \in 1 .. Len(s) + 1 : turn = <<"value", p>> \/ \E m \in Loop : turn = <<m, p>>
BY DEF turns, Loop

ends(s, p) == {endless} \cup p .. Len(s) + 1

\* What is returned is 0 or a place no earlier than where the turn began, of a
\* function that is one turn of itself, or gives up, at every turn.
LEMMA Within ==
  ASSUME NEW s \in Text, NEW g,
         \A turn \in turns(s) : g[turn] = step(s, g, turn) \/ g[turn] = endless
  PROVE  \A p \in 1 .. Len(s) + 1 :
           g[<<"value", p>>] \in ends(s, p) /\ \A m \in Loop : g[<<m, p>>] \in ends(s, p)
<1> DEFINE L == Len(s) + 1
           good(n) == \A p \in 1 .. L :
             /\ rank(s, <<"value", p>>) < n => g[<<"value", p>>] \in ends(s, p)
             /\ \A m \in Loop : rank(s, <<m, p>>) < n => g[<<m, p>>] \in ends(s, p)
           T == {n \in Nat : good(n)}
<1>0. L \in Nat /\ L = Len(s) + 1 /\ Len(s) \in Nat
  BY DEF Text
<1>1. 0 \in T
  <2> SUFFICES ASSUME NEW p \in 1 .. L
               PROVE  ~ (rank(s, <<"value", p>>) < 0) /\ \A m \in Loop : ~ (rank(s, <<m, p>>) < 0)
    OBVIOUS
  <2>1. rank(s, <<"value", p>>) \in Nat /\ \A m \in Loop : rank(s, <<m, p>>) \in Nat
    BY RankIs
  <2> QED BY <2>1
<1>2. ASSUME NEW n \in Nat, good(n), NEW p \in 1 .. L, rank(s, <<"value", p>>) < n + 1
      PROVE  g[<<"value", p>>] \in ends(s, p)
  <2>1. 2 * (L - p) < n + 1 /\ <<"value", p>> \in turns(s)
    BY <1>2, RankIs
  <2>2. ASSUME NEW m \in Loop, p # L PROVE g[<<m, p + 1>>] \in ends(s, p)
    <3>1. p + 1 \in 1 .. L
      BY <1>0, <2>2
    <3>2. rank(s, <<m, p + 1>>) = 2 * (L - (p + 1)) + 1
      BY <3>1, RankIs
    <3>3. rank(s, <<m, p + 1>>) < n
      BY <1>0, <2>1, <3>1, <3>2
    <3>4. g[<<m, p + 1>>] \in ends(s, p + 1)
      BY <1>2, <3>1, <3>3
    <3> QED BY <1>0, <3>4 DEF ends
  <2>3. p \in ends(s, p)
    BY <1>0 DEF ends
  <2>4. p # L => p + 1 \in ends(s, p)
    BY <1>0 DEF ends
  <2>5. skip_scalar(s, p) \in ends(s, p)
    BY Scalar DEF ends
  <2>6. at(s, p) # "end" => p # L
    BY AtType
  <2>7. CASE g[<<"value", p>>] = endless
    BY <2>7 DEF ends
  <2>8. CASE g[<<"value", p>>] = step(s, g, <<"value", p>>)
    <3>1. /\ at(s, p) = "end" => g[<<"value", p>>] = p
          /\ at(s, p) \in String => g[<<"value", p>>] = p + 1
          /\ at(s, p) = "{" => g[<<"value", p>>] = g[<<"object", p + 1>>]
          /\ at(s, p) = "[" => g[<<"value", p>>] = g[<<"array", p + 1>>]
          /\ at(s, p) \notin String \cup {"end", "{", "["} => g[<<"value", p>>] = skip_scalar(s, p)
      <4>1. value_turn(s, g, p, step(s, g, <<"value", p>>))
        BY StepValue
      <4> QED BY <2>8, <4>1 DEF value_turn
    <3>2. "object" \in Loop /\ "array" \in Loop
      BY DEF Loop
    <3>3. CASE at(s, p) = "end"
      BY <2>3, <3>1, <3>3
    <3>4. CASE at(s, p) \in String
      BY <2>4, <2>6, <3>1, <3>4, Tokens
    <3>5. CASE at(s, p) = "{"
      BY <2>2, <2>6, <3>1, <3>2, <3>5
    <3>6. CASE at(s, p) = "["
      BY <2>2, <2>6, <3>1, <3>2, <3>6
    <3>7. CASE at(s, p) \notin String \cup {"end", "{", "["}
      BY <2>5, <3>1, <3>7
    <3> QED BY <3>3, <3>4, <3>5, <3>6, <3>7
  <2> QED BY <2>1, <2>7, <2>8
<1>3. ASSUME NEW n \in Nat, good(n), NEW p \in 1 .. L, NEW m \in Loop, rank(s, <<m, p>>) < n + 1
      PROVE  g[<<m, p>>] \in ends(s, p)
  <2> DEFINE from == value_at(s, m, p)
             to == g[<<"value", from>>]
  <2>1. 2 * (L - p) + 1 < n + 1 /\ <<m, p>> \in turns(s)
    BY <1>3, RankIs
  <2>2. from \in p .. L
    BY ValueAt
  <2>3. to \in ends(s, p)
    <3>1. from \in 1 .. L
      BY <1>0, <2>2
    <3>2. rank(s, <<"value", from>>) = 2 * (L - from)
      BY <3>1, RankIs
    <3>3. rank(s, <<"value", from>>) < n
      BY <1>0, <2>1, <2>2, <3>1, <3>2
    <3>4. to \in ends(s, from)
      BY <1>3, <3>1, <3>3
    <3> QED BY <1>0, <2>2, <3>4 DEF ends
  <2> HIDE DEF from, to
  <2>4. ASSUME NEW q \in p + 1 .. L PROVE g[<<m, q>>] \in ends(s, p)
    <3>1. q \in 1 .. L
      BY <1>0
    <3>2. rank(s, <<m, q>>) = 2 * (L - q) + 1
      BY <3>1, RankIs
    <3>3. rank(s, <<m, q>>) < n
      BY <1>0, <2>1, <3>1, <3>2
    <3>4. g[<<m, q>>] \in ends(s, q)
      BY <1>3, <3>1, <3>3
    <3> QED BY <1>0, <3>4 DEF ends
  <2>5. CASE g[<<m, p>>] = endless
    BY <2>5 DEF ends
  <2>6. CASE g[<<m, p>>] = step(s, g, <<m, p>>)
    <3>1. g[<<m, p>>] = IF p = Len(s) + 1 THEN Len(s) + 1
                        ELSE IF at(s, p) = closing(m) THEN p + 1
                        ELSE IF to = endless THEN endless
                        ELSE IF at(s, to) = "," THEN g[<<m, to + 1>>]
                        ELSE IF at(s, to) = closing(m) THEN to + 1
                        ELSE IF to = p THEN endless
                        ELSE g[<<m, to>>]
      <4>1. g[<<m, p>>] = loop_turn(s, g, m, p, to)
        BY <2>6, StepLoop DEF to, from
      <4> QED BY <4>1 DEF loop_turn
    <3>2. closing(m) # "end"
      BY DEF closing
    <3>3. CASE p = L
      BY <1>0, <3>1, <3>3 DEF ends
    <3>4. CASE p # L /\ at(s, p) = closing(m)
      BY <1>0, <3>1, <3>4 DEF ends
    <3>5. CASE p # L /\ at(s, p) # closing(m)
      <4>1. CASE to = endless
        BY <1>0, <3>1, <3>5, <4>1 DEF ends
      <4>2. CASE to # endless
        <5>1. to \in p .. L
          BY <2>3, <4>2 DEF ends
        <5>2. at(s, to) # "end" => to # L
          BY <1>0, <5>1, AtType
        <5>3. CASE at(s, to) = ","
          <6>0. to # L
            BY <5>2, <5>3
          <6>1. to + 1 \in p + 1 .. L
            BY <1>0, <5>1, <6>0
          <6> QED BY <1>0, <2>4, <3>1, <3>5, <4>2, <5>3, <6>1
        <5>4. CASE at(s, to) # "," /\ at(s, to) = closing(m)
          <6>0. to # L
            BY <3>2, <5>2, <5>4
          <6>1. to + 1 \in p + 1 .. L
            BY <1>0, <5>1, <6>0
          <6>2. g[<<m, p>>] = to + 1
            BY <1>0, <3>1, <3>5, <4>2, <5>4
          <6> QED BY <1>0, <6>1, <6>2 DEF ends
        <5>5. CASE at(s, to) # "," /\ at(s, to) # closing(m)
          <6>1. CASE to = p
            BY <1>0, <3>1, <3>5, <4>2, <5>5, <6>1 DEF ends
          <6>2. CASE to # p
            <7>1. to \in p + 1 .. L
              BY <1>0, <5>1, <6>2
            <7> QED BY <1>0, <2>4, <3>1, <3>5, <4>2, <5>5, <6>2, <7>1
          <6> QED BY <6>1, <6>2
        <5> QED BY <5>3, <5>4, <5>5
      <4> QED BY <4>1, <4>2
    <3> QED BY <3>3, <3>4, <3>5
  <2> QED BY <2>1, <2>5, <2>6
<1>4. ASSUME NEW n \in Nat, n \in T PROVE n + 1 \in T
  <2>1. good(n)
    BY <1>4
  <2>2. good(n + 1)
    <3> HIDE DEF T
    <3> QED BY <2>1, <1>2, <1>3
  <2> QED BY <2>2
<1> HIDE DEF T
<1>5. 2 * L + 2 \in T
  <2>1. 2 * L + 2 \in Nat
    BY <1>0
  <2> QED BY <1>1, <1>4, <2>1, Induct
<1>6. good(2 * L + 2)
  BY <1>5 DEF T
<1>7. ASSUME NEW p \in 1 .. L
      PROVE  /\ rank(s, <<"value", p>>) < 2 * L + 2
             /\ \A m \in Loop : rank(s, <<m, p>>) < 2 * L + 2
  <2>1. /\ rank(s, <<"value", p>>) = 2 * (L - p)
        /\ \A m \in Loop : rank(s, <<m, p>>) = 2 * (L - p) + 1
    BY RankIs
  <2>2. 2 * (L - p) < 2 * L + 2 /\ 2 * (L - p) + 1 < 2 * L + 2
    BY <1>0
  <2> QED BY <2>1, <2>2
<1> QED BY <1>6, <1>7

\* A turn that gives up when the value does not end behind where it begins.
guarded(s, g, turn) ==
  LET from == value_at(s, turn[1], turn[2]) IN
  IF turn[1] = "value" \/ g[<<"value", from>>] \in ends(s, from) THEN step(s, g, turn) ELSE endless

LEMMA GuardedIs ==
  ASSUME NEW s \in Text, NEW g, NEW p \in 1 .. Len(s) + 1
  PROVE  /\ guarded(s, g, <<"value", p>>) = step(s, g, <<"value", p>>)
         /\ \A m \in Loop : guarded(s, g, <<m, p>>)
                              = IF g[<<"value", value_at(s, m, p)>>] \in ends(s, value_at(s, m, p))
                                THEN step(s, g, <<m, p>>) ELSE endless
<1>1. <<"value", p>>[1] = "value"
  OBVIOUS
<1>2. \A m \in Loop : <<m, p>>[1] = m /\ <<m, p>>[2] = p /\ m # "value"
  BY DEF Loop
<1> QED BY <1>1, <1>2 DEF guarded

\* It depends only on lower turns.
LEMMA Descends ==
  ASSUME NEW s \in Text, NEW g \in [turns(s) -> Nat], NEW h \in [turns(s) -> Nat],
         NEW turn \in turns(s),
         \A y \in turns(s) : rank(s, y) < rank(s, turn) => g[y] = h[y]
  PROVE  guarded(s, g, turn) \in Nat /\ guarded(s, g, turn) = guarded(s, h, turn)
<1> DEFINE L == Len(s) + 1
<1>0. L \in Nat /\ L = Len(s) + 1 /\ Len(s) \in Nat /\ endless \in Nat
  BY DEF Text, endless
<1>1. ASSUME NEW p \in 1 .. L, turn = <<"value", p>>
      PROVE  guarded(s, g, turn) \in Nat /\ guarded(s, g, turn) = guarded(s, h, turn)
  <2>1. ASSUME NEW m \in Loop, p # L
        PROVE  g[<<m, p + 1>>] = h[<<m, p + 1>>] /\ g[<<m, p + 1>>] \in Nat
    <3>1. p + 1 \in 1 .. L
      BY <1>0, <2>1
    <3>2. /\ <<m, p + 1>> \in turns(s)
          /\ rank(s, <<m, p + 1>>) = 2 * (L - (p + 1)) + 1
          /\ rank(s, turn) = 2 * (L - p)
      BY <1>1, <3>1, RankIs
    <3>3. rank(s, <<m, p + 1>>) < rank(s, turn)
      BY <1>0, <3>1, <3>2
    <3> QED BY <3>2, <3>3
  <2>2. skip_scalar(s, p) \in Nat /\ p \in Nat /\ p + 1 \in Nat
    BY <1>0, Scalar
  <2>3. at(s, p) # "end" => p # L
    BY AtType
  <2>4. ASSUME NEW f
        PROVE  /\ at(s, p) = "end" => guarded(s, f, turn) = p
               /\ at(s, p) \in String => guarded(s, f, turn) = p + 1
               /\ at(s, p) = "{" => guarded(s, f, turn) = f[<<"object", p + 1>>]
               /\ at(s, p) = "[" => guarded(s, f, turn) = f[<<"array", p + 1>>]
               /\ at(s, p) \notin String \cup {"end", "{", "["} =>
                    guarded(s, f, turn) = skip_scalar(s, p)
    <3>1. guarded(s, f, turn) = step(s, f, <<"value", p>>)
      BY <1>1, GuardedIs
    <3>2. value_turn(s, f, p, step(s, f, <<"value", p>>))
      BY StepValue
    <3> QED BY <3>1, <3>2 DEF value_turn
  <2>5. "object" \in Loop /\ "array" \in Loop
    BY DEF Loop
  <2>6. CASE at(s, p) = "end"
    BY <2>2, <2>4, <2>6
  <2>7. CASE at(s, p) \in String
    BY <2>2, <2>4, <2>7
  <2>8. CASE at(s, p) = "{"
    BY <2>1, <2>3, <2>4, <2>5, <2>8
  <2>9. CASE at(s, p) = "["
    BY <2>1, <2>3, <2>4, <2>5, <2>9
  <2>10. CASE at(s, p) \notin String \cup {"end", "{", "["}
    BY <2>2, <2>4, <2>10
  <2> QED BY <2>6, <2>7, <2>8, <2>9, <2>10
<1>2. ASSUME NEW p \in 1 .. L, NEW m \in Loop, turn = <<m, p>>
      PROVE  guarded(s, g, turn) \in Nat /\ guarded(s, g, turn) = guarded(s, h, turn)
  <2> DEFINE from == value_at(s, m, p)
             to == g[<<"value", from>>]
  <2>1. from \in p .. L
    BY ValueAt
  <2>2. rank(s, turn) = 2 * (L - p) + 1
    BY <1>2, RankIs
  <2>3. to = h[<<"value", from>>]
    <3>1. from \in 1 .. L
      BY <1>0, <2>1
    <3>2. <<"value", from>> \in turns(s) /\ rank(s, <<"value", from>>) = 2 * (L - from)
      BY <3>1, RankIs
    <3>3. rank(s, <<"value", from>>) < rank(s, turn)
      BY <1>0, <2>1, <2>2, <3>2
    <3> QED BY <3>2, <3>3
  <2>4. ASSUME NEW f, f[<<"value", from>>] = to
        PROVE  guarded(s, f, turn)
                 = IF to \in ends(s, from) THEN loop_turn(s, f, m, p, to) ELSE endless
    <3>1. guarded(s, f, turn) = IF to \in ends(s, from) THEN step(s, f, <<m, p>>) ELSE endless
      BY <1>2, <2>4, GuardedIs
    <3>2. step(s, f, <<m, p>>) = loop_turn(s, f, m, p, to)
      BY <2>4, StepLoop
    <3> QED BY <3>1, <3>2
  <2> HIDE DEF from, to
  <2>5. ASSUME NEW q \in p + 1 .. L
        PROVE  g[<<m, q>>] = h[<<m, q>>] /\ g[<<m, q>>] \in Nat
    <3>1. q \in 1 .. L
      BY <1>0
    <3>2. <<m, q>> \in turns(s) /\ rank(s, <<m, q>>) = 2 * (L - q) + 1
      BY <3>1, RankIs
    <3>3. rank(s, <<m, q>>) < rank(s, turn)
      BY <1>0, <2>2, <3>1, <3>2
    <3> QED BY <3>2, <3>3
  <2>6. /\ guarded(s, g, turn) = IF to \in ends(s, from) THEN loop_turn(s, g, m, p, to) ELSE endless
        /\ guarded(s, h, turn) = IF to \in ends(s, from) THEN loop_turn(s, h, m, p, to) ELSE endless
    BY <2>3, <2>4 DEF to
  <2>7. CASE to \notin ends(s, from)
    BY <1>0, <2>6, <2>7
  <2>8. CASE to \in ends(s, from)
    <3>1. /\ loop_turn(s, g, m, p, to) \in Nat
          /\ loop_turn(s, g, m, p, to) = loop_turn(s, h, m, p, to)
      <4>0. p + 1 \in Nat
        BY <1>0
      <4>1. CASE p = L \/ at(s, p) = closing(m) \/ to = endless
        <5>1. CASE p = L
          BY <1>0, <5>1 DEF loop_turn
        <5>2. CASE p # L /\ at(s, p) = closing(m)
          BY <1>0, <4>0, <5>2 DEF loop_turn
        <5>3. CASE p # L /\ at(s, p) # closing(m) /\ to = endless
          BY <1>0, <5>3 DEF loop_turn
        <5> QED BY <4>1, <5>1, <5>2, <5>3
      <4>2. CASE ~ (p = L \/ at(s, p) = closing(m) \/ to = endless)
        <5>1. to \in p .. L
          BY <1>0, <2>1, <2>8, <4>2 DEF ends
        <5>2. to # L \/ at(s, to) = "end"
          BY <1>0, <5>1, AtType
        <5>3. closing(m) # "end"
          BY DEF closing
        <5>4. CASE at(s, to) = ","
          <6>1. to # L
            BY <5>2, <5>4
          <6>2. to + 1 \in p + 1 .. L
            BY <1>0, <5>1, <6>1
          <6>3. /\ loop_turn(s, g, m, p, to) = g[<<m, to + 1>>]
                /\ loop_turn(s, h, m, p, to) = h[<<m, to + 1>>]
            BY <4>2, <5>4 DEF loop_turn
          <6> QED BY <2>5, <6>2, <6>3
        <5>5. CASE at(s, to) # "," /\ at(s, to) = closing(m)
          <6>1. loop_turn(s, g, m, p, to) = to + 1 /\ loop_turn(s, h, m, p, to) = to + 1
            BY <4>2, <5>5 DEF loop_turn
          <6> QED BY <1>0, <5>1, <6>1
        <5>6. CASE at(s, to) # "," /\ at(s, to) # closing(m) /\ to = p
          <6>1. loop_turn(s, g, m, p, to) = endless /\ loop_turn(s, h, m, p, to) = endless
            BY <4>2, <5>6 DEF loop_turn
          <6> QED BY <1>0, <6>1
        <5>7. CASE at(s, to) # "," /\ at(s, to) # closing(m) /\ to # p
          <6>0. to # p
            BY <5>7
          <6>1. to \in p + 1 .. L
            BY <1>0, <5>1, <6>0
          <6>2. /\ loop_turn(s, g, m, p, to) = g[<<m, to>>]
                /\ loop_turn(s, h, m, p, to) = h[<<m, to>>]
            BY <4>2, <5>7 DEF loop_turn
          <6> QED BY <2>5, <6>1, <6>2
        <5> QED BY <5>4, <5>5, <5>6, <5>7
      <4> QED BY <4>1, <4>2
    <3> QED BY <2>6, <2>8, <3>1
  <2> QED BY <2>7, <2>8
<1> QED BY <1>1, <1>2, TurnIs

\* skip is well defined on every text: every turn of it is what step says.
LEMMA Skipping ==
  ASSUME NEW s \in Text
  PROVE  \A turn \in turns(s) : skip(s)[turn] = step(s, skip(s), turn)
<1> DEFINE S == turns(s)
           V == Nat
           N == 2 * (Len(s) + 1) + 2
           D == [g \in [S -> V] |-> [turn \in S |-> guarded(s, g, turn)]]
           r == [turn \in S |-> rank(s, turn)]
<1>0. Len(s) \in Nat
  BY DEF Text
<1>1. D \in [[S -> V] -> [S -> V]]
  <2>1. ASSUME NEW g \in [S -> V], NEW turn \in S PROVE guarded(s, g, turn) \in V
    BY Descends
  <2> HIDE DEF S
  <2> QED BY <2>1
<1>2. V # {} /\ r \in [S -> Nat] /\ N \in Nat /\ \A x \in S : r[x] < N
  <2>1. ASSUME NEW x \in S PROVE rank(s, x) \in Nat /\ rank(s, x) < N
    <3>1. ASSUME NEW p \in 1 .. Len(s) + 1, x = <<"value", p>> \/ \E m \in Loop : x = <<m, p>>
          PROVE  rank(s, x) \in Nat /\ rank(s, x) < N
      <4>1. rank(s, x) \in {2 * ((Len(s) + 1) - p), 2 * ((Len(s) + 1) - p) + 1}
        BY <3>1, RankIs
      <4> QED BY <1>0, <4>1
    <3> QED BY <3>1, TurnIs
  <2> HIDE DEF S
  <2> QED BY <1>0, <2>1
<1>3. ASSUME NEW g \in [S -> V], NEW h \in [S -> V], NEW x \in S,
             \A y \in S : r[y] < r[x] => g[y] = h[y]
      PROVE  D[g][x] = D[h][x]
  <2>1. \A y \in S : rank(s, y) < rank(s, x) => g[y] = h[y]
    BY <1>3
  <2>2. guarded(s, g, x) = guarded(s, h, x)
    BY <2>1, Descends
  <2> HIDE DEF S
  <2> QED BY <2>2
<1>4. PICK g \in [S -> V] : g = D[g]
  <2> HIDE DEF S, V, N, D, r
  <2>1. descends(S, V, D, r, N)
    BY <1>1, <1>2, <1>3 DEF descends
  <2> QED BY <2>1, Recursion
<1>5. \A turn \in S : g[turn] = guarded(s, g, turn)
  BY <1>4
<1>6. \A turn \in S : g[turn] = step(s, g, turn)
  <2>1. \A turn \in turns(s) : g[turn] = step(s, g, turn) \/ g[turn] = endless
    BY <1>5 DEF guarded
  <2>2. \A p \in 1 .. Len(s) + 1 : g[<<"value", p>>] \in ends(s, p)
    BY <2>1, Within
  <2>3. ASSUME NEW p \in 1 .. Len(s) + 1
        PROVE  /\ guarded(s, g, <<"value", p>>) = step(s, g, <<"value", p>>)
               /\ \A m \in Loop : guarded(s, g, <<m, p>>) = step(s, g, <<m, p>>)
    <3>1. \A m \in Loop : value_at(s, m, p) \in 1 .. Len(s) + 1
      BY <1>0, ValueAt
    <3> QED BY <2>2, <3>1, GuardedIs
  <2>4. ASSUME NEW turn \in turns(s) PROVE guarded(s, g, turn) = step(s, g, turn)
    <3>1. PICK p \in 1 .. Len(s) + 1 : turn = <<"value", p>> \/ \E m \in Loop : turn = <<m, p>>
      BY TurnIs
    <3>2. CASE turn = <<"value", p>>
      BY <2>3, <3>2
    <3>3. CASE \E m \in Loop : turn = <<m, p>>
      BY <2>3, <3>3
    <3> QED BY <3>1, <3>2, <3>3
  <2> QED BY <1>5, <2>4
<1>7. g = [turn \in S |-> step(s, g, turn)]
  BY <1>6
<1>8. skip(s) = [turn \in S |-> step(s, skip(s), turn)]
  BY <1>7, SkipIs
<1> HIDE DEF S
<1> QED BY <1>8 DEF S

\* What the scan of a loop returns from a turn of it.
loop_end(s, m, p) == skip(s)[<<m, p>>]

LEMMA ValueEnds ==
  ASSUME NEW s \in Text, NEW p \in 1 .. Len(s) + 1
  PROVE  /\ at(s, p) = "end" => skip_json_value(s, p) = p
         /\ at(s, p) \in String => skip_json_value(s, p) = p + 1
         /\ at(s, p) = "{" => skip_json_value(s, p) = loop_end(s, "object", p + 1)
         /\ at(s, p) = "[" => skip_json_value(s, p) = loop_end(s, "array", p + 1)
         /\ at(s, p) = "n" => skip_json_value(s, p) = skip_scalar(s, p)
<1>1. skip_json_value(s, p) = step(s, skip(s), <<"value", p>>)
  BY RankIs, Skipping DEF skip_json_value
<1>2. value_turn(s, skip(s), p, step(s, skip(s), <<"value", p>>))
  BY StepValue
<1>3. "n" \notin String \cup {"end", "{", "["}
  BY Tokens
<1> QED BY <1>1, <1>2, <1>3 DEF value_turn, loop_end

loop_result(s, m, p, to) ==
  IF p = Len(s) + 1 THEN Len(s) + 1
  ELSE IF at(s, p) = closing(m) THEN p + 1
  ELSE IF to = endless THEN endless
  ELSE IF at(s, to) = "," THEN loop_end(s, m, to + 1)
  ELSE IF at(s, to) = closing(m) THEN to + 1
  ELSE IF to = p THEN endless
  ELSE loop_end(s, m, to)

LEMMA LoopEnds ==
  ASSUME NEW s \in Text, NEW m \in Loop, NEW p \in 1 .. Len(s) + 1
  PROVE  loop_end(s, m, p) = loop_result(s, m, p, skip_json_value(s, value_at(s, m, p)))
<1>1. skip(s)[<<m, p>>] = step(s, skip(s), <<m, p>>)
  BY RankIs, Skipping
<1>2. step(s, skip(s), <<m, p>>)
        = loop_turn(s, skip(s), m, p, skip(s)[<<"value", value_at(s, m, p)>>])
  BY StepLoop
<1> QED BY <1>1, <1>2 DEF skip_json_value, loop_turn, loop_end, loop_result

\* No value ends before it begins or behind the text.
LEMMA SkipRange ==
  ASSUME NEW s \in Text, NEW p \in 1 .. Len(s) + 1
  PROVE  skip_json_value(s, p) \in ends(s, p)
BY Skipping, Within DEF skip_json_value

\* A turn of a loop whose value, behind its name in an object, begins at b.
named(s, q, b) == s[q] \in String /\ s[q + 1] = ":" /\ q + 2 = b
leads(s, m, q, b) == IF m = "object" THEN named(s, q, b) ELSE q = b

LEMMA ValueAtIs ==
  ASSUME NEW s \in Text, NEW m \in Loop, NEW q \in 1 .. Len(s),
         NEW b \in 1 .. Len(s) + 1, leads(s, m, q, b)
  PROVE  value_at(s, m, q) = b
<1>1. Len(s) \in Nat
  BY DEF Text
<1>2. CASE m = "array"
  BY <1>2 DEF leads, value_at
<1>3. CASE m = "object"
  <2>1. s[q] \in String /\ s[q + 1] = ":" /\ q + 2 = b
    BY <1>3 DEF leads, named
  <2>2. q <= Len(s) /\ q + 1 <= Len(s)
    BY <1>1, <2>1
  <2>3. skip_json_string(s, q) = q + 1
    BY <2>1, <2>2 DEF skip_json_string, at
  <2>4. colon_skipped(s, q + 1) = (q + 1) + 1
    BY <2>1, <2>2 DEF colon_skipped, at
  <2>5. (q + 1) + 1 = b
    BY <1>1, <2>1
  <2> QED BY <1>3, <2>3, <2>4, <2>5 DEF value_at
<1> QED BY <1>2, <1>3 DEF Loop

\* Such a turn goes by what follows the value.
goes_by(s, m, q, e) ==
  loop_end(s, m, q) = IF at(s, e) = "," THEN loop_end(s, m, e + 1)
                      ELSE IF at(s, e) = closing(m) THEN e + 1
                      ELSE IF e = q THEN endless
                      ELSE loop_end(s, m, e)

LEMMA LoopPasses ==
  ASSUME NEW s \in Text, NEW m \in Loop, NEW q \in 1 .. Len(s),
         NEW b \in 1 .. Len(s) + 1, leads(s, m, q, b), s[q] # closing(m),
         skip_json_value(s, b) # endless
  PROVE  goes_by(s, m, q, skip_json_value(s, b))
<1> DEFINE e == skip_json_value(s, b)
<1> HIDE DEF e
<1>1. q \in 1 .. Len(s) + 1 /\ q # Len(s) + 1 /\ q <= Len(s)
  BY DEF Text
<1>2. value_at(s, m, q) = b
  BY ValueAtIs
<1>3. at(s, q) # closing(m)
  BY <1>1 DEF at
<1>4. e = skip_json_value(s, value_at(s, m, q)) /\ e # endless
  BY <1>2 DEF e
<1>5. loop_end(s, m, q) = loop_result(s, m, q, e)
  BY <1>1, <1>4, LoopEnds
<1>6. goes_by(s, m, q, e)
  BY <1>1, <1>3, <1>4, <1>5 DEF loop_result, goes_by
<1> QED BY <1>6 DEF e

-----------------------------------------------------------------------------
\* What may still be read once s has been written: a bare scalar is complete
\* only with the delimiter behind it.
extensions(s) ==
  {t \in Text : /\ Len(s) <= Len(t) /\ \A i \in 1 .. Len(s) : t[i] = s[i]
                /\ Len(s) # 0 /\ Len(s) < Len(t) =>
                     (s[Len(s)] = "n" => t[Len(s) + 1] \in delimiters)}

grown(s, c) == Append(s, c)

LEMMA Grown ==
  ASSUME NEW s \in Text, NEW c \in Token
  PROVE  /\ grown(s, c) \in Text /\ Len(grown(s, c)) = Len(s) + 1
         /\ grown(s, c)[Len(s) + 1] = c /\ Len(s) \in Nat
         /\ \A i \in 1 .. Len(s) : grown(s, c)[i] = s[i]
BY DEF grown, Text

LEMMA ExtendsItself ==
  ASSUME NEW s \in Text
  PROVE  s \in extensions(s)
<1>1. Len(s) \in Nat
  BY DEF Text
<1> QED BY <1>1 DEF extensions

\* s is followed by a token that completes it.
continues(s, c) == Len(s) # 0 => (s[Len(s)] = "n" => c \in delimiters)

LEMMA ExtensionsShrink ==
  ASSUME NEW s \in Text, NEW c \in Token, continues(s, c)
  PROVE  extensions(grown(s, c)) \subseteq extensions(s)
<1> SUFFICES ASSUME NEW t \in extensions(grown(s, c)) PROVE t \in extensions(s)
  OBVIOUS
<1> DEFINE u == grown(s, c)
<1>1. /\ u \in Text /\ Len(u) = Len(s) + 1 /\ u[Len(s) + 1] = c /\ Len(s) \in Nat
      /\ \A i \in 1 .. Len(s) : u[i] = s[i]
  BY Grown
<1>2. t \in Text /\ Len(u) <= Len(t) /\ \A i \in 1 .. Len(u) : t[i] = u[i]
  BY DEF extensions
<1> HIDE DEF u
<1>3. Len(t) \in Nat /\ Len(s) <= Len(t)
  BY <1>1, <1>2 DEF Text
<1>4. \A i \in 1 .. Len(s) : t[i] = s[i]
  BY <1>1, <1>2
<1>5. t[Len(s) + 1] = c
  BY <1>1, <1>2
<1> QED BY <1>2, <1>3, <1>4, <1>5 DEF extensions, continues

\* What is known of the texts that go on.
LEMMA ExtensionItems ==
  ASSUME NEW s \in Text, NEW t \in extensions(s)
  PROVE  /\ t \in Text /\ Len(s) \in Nat /\ Len(t) \in Nat /\ Len(s) <= Len(t)
         /\ \A i \in 1 .. Len(s) : t[i] = s[i] /\ at(t, i) = s[i]
BY DEF extensions, at, Text

\* A string or a scalar is passed whole, once written.
LEMMA AtomEnds ==
  ASSUME NEW s \in Text, NEW c \in String \cup {"n"}, NEW t \in extensions(grown(s, c))
  PROVE  skip_json_value(t, Len(s) + 1) = Len(s) + 2
<1> DEFINE u == grown(s, c)
           p == Len(s) + 1
<1>0. c \in Token
  BY DEF Token
<1>1. u \in Text /\ Len(u) = p /\ u[p] = c /\ Len(s) \in Nat
  BY <1>0, Grown
<1>2. /\ t \in Text /\ Len(t) \in Nat /\ p <= Len(t) /\ t[p] = c /\ at(t, p) = c
      /\ p \in 1 .. Len(t) + 1
  <2> HIDE DEF u
  <2>1. /\ t \in Text /\ Len(t) \in Nat /\ p <= Len(t)
        /\ \A i \in 1 .. p : t[i] = u[i] /\ at(t, i) = u[i]
    BY <1>1, ExtensionItems DEF u
  <2> QED BY <1>1, <2>1
<1>3. CASE c \in String
  <2>1. skip_json_value(t, p) = p + 1
    BY <1>2, <1>3, ValueEnds
  <2> QED BY <1>1, <2>1
<1>4. CASE c = "n"
  <2>1. skip_json_value(t, p) = skip_scalar(t, p)
    BY <1>2, <1>4, ValueEnds, ZenonT(90)
  <2> DEFINE T == {q \in p..Len(t) : t[q] \in delimiters} \cup {Len(t) + 1}
  <2>2. T \subseteq Nat /\ p + 1 \in T /\ \A q \in T : p + 1 <= q
    <3>1. t[p] \notin delimiters
      BY <1>2, <1>4 DEF delimiters
    <3>2. p < Len(t) => t[p + 1] \in delimiters
      BY <1>1, <1>2, <1>4 DEF extensions
    <3>3. \A q \in T : q \in Nat /\ p + 1 <= q
      <4>1. \A q \in p .. Len(t) : t[q] \in delimiters => q # p
        BY <3>1
      <4> QED BY <1>1, <1>2, <4>1
    <3>4. p + 1 \in T
      <4>1. CASE p = Len(t)
        BY <4>1
      <4>2. CASE p < Len(t)
        BY <1>1, <1>2, <3>2, <4>2
      <4> QED BY <1>1, <1>2, <4>1, <4>2
    <3> QED BY <3>3, <3>4
  <2>3. Min(T) \in T /\ \A y \in T : Min(T) <= y
    BY <2>2, Minimum
  <2>4. Min(T) = p + 1
    <3> HIDE DEF T
    <3>1. Min(T) \in Nat /\ p + 1 <= Min(T)
      BY <2>2, <2>3
    <3>2. Min(T) <= p + 1
      BY <2>2, <2>3
    <3> QED BY <1>1, <3>1, <3>2
  <2>5. skip_scalar(t, p) = p + 1
    BY <2>4 DEF skip_scalar
  <2> QED BY <1>1, <2>1, <2>5
<1> QED BY <1>3, <1>4

-----------------------------------------------------------------------------
\* What the serializer is writing, as the scanner will find it.
loop_of(s, f) == IF s[f.begin] = "{" THEN "object" ELSE "array"

Expected == {"first key", "key", "colon", "value", "first element", "more"}
Frame == [begin : Nat, next : Expected]

\* A complete value at b ends at e, whatever follows s.
complete(s, b, e) ==
  /\ b \in 1 .. Len(s) /\ s[b] \notin {"}", "]"} /\ e \in b + 1 .. Len(s) + 1
  /\ \A t \in extensions(s) : skip_json_value(t, b) = e

\* The turn of the loop at q is that of what is being written at e.
turn_at(s, f, q, e) ==
  LET m == loop_of(s, f) IN
  CASE f.next \in {"first key", "key"} -> m = "object" /\ q = e
    [] f.next = "colon" -> m = "object" /\ q + 1 = e /\ s[q] \in String
    [] f.next = "value" -> leads(s, m, q, e)
    [] f.next = "first element" -> m = "array" /\ q = e
    [] f.next = "more" -> \E b \in 1 .. Len(s) : q <= b /\ leads(s, m, q, b) /\ complete(s, b, e)
    [] OTHER -> FALSE

\* The scan of f gets to the turn of what is being written at e.
reached(s, f, q, e) ==
  /\ q \in f.begin + 1 .. e /\ turn_at(s, f, q, e)
  /\ \A t \in extensions(s) :
       loop_end(t, loop_of(s, f), f.begin + 1) = loop_end(t, loop_of(s, f), q)

framed(s, f, e) ==
  /\ f \in Frame /\ f.begin \in 1 .. Len(s) /\ s[f.begin] \in {"{", "["}
  /\ e \in f.begin + 1 .. Len(s) + 1
  /\ \E q \in Nat : reached(s, f, q, e)

LEMMA LeadsKept ==
  ASSUME NEW s \in Text, NEW c \in Token, NEW m \in Loop, NEW q \in Nat,
         NEW b \in Nat, b <= Len(s) + 1, 1 <= q, leads(s, m, q, b)
  PROVE  leads(grown(s, c), m, q, b)
<1>1. Len(s) \in Nat /\ \A i \in 1 .. Len(s) : grown(s, c)[i] = s[i]
  BY Grown
<1>2. CASE m = "array"
  BY <1>2 DEF leads
<1>3. CASE m = "object"
  <2>1. s[q] \in String /\ s[q + 1] = ":" /\ q + 2 = b
    BY <1>3 DEF leads, named
  <2>2. q \in 1 .. Len(s) /\ q + 1 \in 1 .. Len(s)
    BY <1>1, <2>1
  <2>3. grown(s, c)[q] = s[q] /\ grown(s, c)[q + 1] = s[q + 1]
    BY <1>1, <2>2
  <2> QED BY <1>3, <2>1, <2>3 DEF leads, named
<1> QED BY <1>2, <1>3 DEF Loop

LEMMA CompleteKept ==
  ASSUME NEW s \in Text, NEW c \in Token, continues(s, c), NEW b, NEW e, complete(s, b, e)
  PROVE  complete(grown(s, c), b, e)
<1>1. /\ Len(s) \in Nat /\ Len(grown(s, c)) = Len(s) + 1
      /\ \A i \in 1 .. Len(s) : grown(s, c)[i] = s[i]
  BY Grown
<1>2. extensions(grown(s, c)) \subseteq extensions(s)
  BY ExtensionsShrink
<1>3. b \in 1 .. Len(s) /\ s[b] \notin {"}", "]"}
  BY DEF complete
<1>4. /\ b \in 1 .. Len(grown(s, c)) /\ grown(s, c)[b] = s[b]
      /\ e \in b + 1 .. Len(grown(s, c)) + 1
  <2>1. b \in 1 .. Len(s) /\ e \in b + 1 .. Len(s) + 1
    BY DEF complete
  <2> QED BY <1>1, <2>1
<1>5. \A t \in extensions(grown(s, c)) : skip_json_value(t, b) = e
  BY <1>2 DEF complete
<1> QED BY <1>3, <1>4, <1>5 DEF complete

\* A frame that waits stays where it is.
LEMMA FrameKept ==
  ASSUME NEW s \in Text, NEW c \in Token, continues(s, c), NEW f, NEW e, framed(s, f, e)
  PROVE  framed(grown(s, c), f, e)
<1> DEFINE u == grown(s, c)
           m == loop_of(s, f)
<1>1. /\ Len(s) \in Nat /\ Len(u) = Len(s) + 1 /\ u \in Text
      /\ \A i \in 1 .. Len(s) : u[i] = s[i]
  BY Grown
<1>2. extensions(u) \subseteq extensions(s)
  BY ExtensionsShrink
<1>3. /\ f \in Frame /\ f.begin \in 1 .. Len(s) /\ s[f.begin] \in {"{", "["}
      /\ e \in f.begin + 1 .. Len(s) + 1
  BY DEF framed
<1>4. PICK q \in Nat : reached(s, f, q, e)
  BY DEF framed
<1>5. q \in f.begin + 1 .. e /\ turn_at(s, f, q, e)
  BY <1>4 DEF reached
<1>6. m \in Loop /\ e \in Nat /\ e <= Len(s) + 1 /\ q <= Len(s) + 1 /\ 1 <= q
  <2>1. m \in Loop
    BY DEF loop_of, Loop
  <2>2. f.begin \in 1 .. Len(s) /\ e \in f.begin + 1 .. Len(s) + 1 /\ q \in f.begin + 1 .. e
    BY <1>3, <1>5
  <2> HIDE DEF m
  <2> QED BY <1>1, <2>1, <2>2
<1>7. u[f.begin] = s[f.begin] /\ loop_of(u, f) = m
  BY <1>1, <1>3 DEF loop_of
<1> HIDE DEF u, m
<1>8. turn_at(u, f, q, e)
  <2>1. CASE f.next \in {"first key", "key"}
    BY <1>5, <1>7, <2>1 DEF turn_at, m
  <2>2. CASE f.next = "colon"
    <3>1. m = "object" /\ q + 1 = e /\ s[q] \in String
      BY <1>5, <2>2 DEF turn_at, m
    <3>2. q \in 1 .. Len(s)
      BY <1>1, <1>6, <3>1
    <3>3. u[q] \in String
      BY <1>1, <3>1, <3>2
    <3> QED BY <1>7, <2>2, <3>1, <3>3 DEF turn_at
  <2>3. CASE f.next = "value"
    <3>1. leads(s, m, q, e)
      BY <1>5, <2>3 DEF turn_at, m
    <3>2. leads(u, m, q, e)
      BY <1>6, <3>1, LeadsKept DEF u
    <3> QED BY <1>7, <2>3, <3>2 DEF turn_at
  <2>4. CASE f.next = "first element"
    BY <1>5, <1>7, <2>4 DEF turn_at, m
  <2>5. CASE f.next = "more"
    <3>1. PICK b \in 1 .. Len(s) : q <= b /\ leads(s, m, q, b) /\ complete(s, b, e)
      BY <1>5, <2>5 DEF turn_at, m
    <3>2. b \in 1 .. Len(u) /\ b \in Nat /\ b <= Len(s) + 1
      BY <1>1
    <3>3. leads(u, m, q, b)
      BY <1>6, <3>1, <3>2, LeadsKept DEF u
    <3>4. complete(u, b, e)
      BY <3>1, CompleteKept DEF u
    <3> QED BY <1>7, <2>5, <3>1, <3>2, <3>3, <3>4 DEF turn_at
  <2> QED BY <1>3, <2>1, <2>2, <2>3, <2>4, <2>5 DEF Frame, Expected
<1>9. \A t \in extensions(u) : loop_end(t, m, f.begin + 1) = loop_end(t, m, q)
  BY <1>2, <1>4 DEF reached, m
<1>10. reached(u, f, q, e)
  BY <1>5, <1>7, <1>8, <1>9 DEF reached
<1>11. f.begin \in 1 .. Len(u) /\ e \in f.begin + 1 .. Len(u) + 1
  <2>1. f.begin \in 1 .. Len(s) /\ e \in f.begin + 1 .. Len(s) + 1
    BY <1>3
  <2> QED BY <1>1, <2>1
<1> QED BY <1>3, <1>7, <1>10, <1>11 DEF framed, u

\* An object or array that begins has the first turn of its loop before it.
opens_with(c, n) ==
  \/ c = "{" /\ n = "first key"
  \/ c = "[" /\ n = "first element"

LEMMA FrameOpens ==
  ASSUME NEW s \in Text, NEW c \in Token, NEW n \in Expected, opens_with(c, n)
  PROVE  framed(grown(s, c), [begin |-> Len(s) + 1, next |-> n], Len(s) + 2)
<1> DEFINE u == grown(s, c)
           f == [begin |-> Len(s) + 1, next |-> n]
<1>0. c \in {"{", "["}
  BY DEF opens_with
<1>1. u[Len(s) + 1] = c
  BY <1>0, Grown
<1>n. Len(s) \in Nat /\ Len(u) = Len(s) + 1
  BY <1>0, Grown
<1>2. f.begin = Len(s) + 1 /\ f.next = n /\ f \in Frame
  <2>1. Len(s) + 1 \in Nat
    BY ONLY <1>n
  <2> QED BY <1>0, <2>1 DEF Frame
<1> HIDE DEF f, u
<1>3. turn_at(u, f, Len(s) + 2, Len(s) + 2)
  <2>1. CASE c = "{" /\ n = "first key"
    BY <1>1, <1>2, <2>1 DEF turn_at, loop_of
  <2>2. CASE c = "[" /\ n = "first element"
    BY <1>1, <1>2, <2>2 DEF turn_at, loop_of
  <2> QED BY <2>1, <2>2 DEF opens_with
<1>4. /\ f.begin + 1 = Len(s) + 2 /\ Len(s) + 2 \in Nat
      /\ Len(s) + 2 \in f.begin + 1 .. Len(s) + 2
      /\ Len(s) + 2 \in f.begin + 1 .. Len(u) + 1 /\ f.begin \in 1 .. Len(u)
  <2>1. f.begin = Len(s) + 1
    BY <1>2
  <2> QED BY ONLY <1>n, <2>1
<1>5. reached(u, f, Len(s) + 2, Len(s) + 2)
  BY <1>3, <1>4 DEF reached
<1>6. u[f.begin] \in {"{", "["}
  BY <1>0, <1>1, <1>2
<1>7. framed(u, f, Len(s) + 2)
  BY <1>2, <1>4, <1>5, <1>6 DEF framed
<1> QED BY <1>7 DEF u, f

\* The next token of a frame, and what is expected behind it.
punctuates(f, c, n) ==
  \/ f.next \in {"first key", "key"} /\ c \in String /\ n = "colon"
  \/ f.next = "colon" /\ c = ":" /\ n = "value"

LEMMA FramePunctuates ==
  ASSUME NEW s \in Text, NEW c \in Token, continues(s, c), NEW f, framed(s, f, Len(s) + 1),
         NEW n \in Expected, punctuates(f, c, n)
  PROVE  framed(grown(s, c), [f EXCEPT !.next = n], Len(s) + 2)
<1> DEFINE u == grown(s, c)
           g == [f EXCEPT !.next = n]
           e == Len(s) + 1
<1>n. Len(s) \in Nat /\ Len(u) = Len(s) + 1
  BY Grown
<1>1. u[Len(s) + 1] = c /\ \A i \in 1 .. Len(s) : u[i] = s[i]
  BY Grown
<1>2. extensions(u) \subseteq extensions(s)
  BY ExtensionsShrink
<1>3. f \in Frame /\ f.begin \in 1 .. Len(s) /\ s[f.begin] \in {"{", "["}
  BY DEF framed
<1>4. PICK q \in Nat : reached(s, f, q, e)
  BY DEF framed
<1>5. q \in f.begin + 1 .. e /\ turn_at(s, f, q, e)
  BY <1>4 DEF reached
<1>6. g \in Frame /\ g.begin = f.begin /\ g.next = n
  BY <1>3 DEF Frame
<1>7. u[f.begin] = s[f.begin] /\ loop_of(u, g) = loop_of(s, f)
  <2>1. u[f.begin] = s[f.begin]
    BY <1>1, <1>3
  <2> QED BY <1>6, <2>1 DEF loop_of
<1> HIDE DEF u, g
<1>8. turn_at(u, g, q, Len(s) + 2)
  <2>1. CASE f.next \in {"first key", "key"} /\ c \in String /\ n = "colon"
    <3>1. loop_of(s, f) = "object" /\ q = e
      BY <1>5, <2>1 DEF turn_at
    <3>2. q + 1 = Len(s) + 2
      BY ONLY <1>n, <3>1
    <3>3. u[q] \in String
      BY <1>1, <2>1, <3>1
    <3> QED BY <1>6, <1>7, <2>1, <3>1, <3>2, <3>3 DEF turn_at
  <2>2. CASE f.next = "colon" /\ c = ":" /\ n = "value"
    <3>1. loop_of(s, f) = "object" /\ q + 1 = e /\ s[q] \in String
      BY <1>5, <2>2 DEF turn_at
    <3>2. q \in 1 .. Len(s)
      <4>1. f.begin \in 1 .. Len(s) /\ q \in f.begin + 1 .. e /\ q + 1 = e
        BY <1>3, <1>5, <3>1
      <4> QED BY ONLY <1>n, <4>1
    <3>3. u[q] \in String
      BY <1>1, <3>1, <3>2
    <3>4. u[q + 1] = ":"
      BY <1>1, <2>2, <3>1
    <3>5. q + 2 = Len(s) + 2
      BY ONLY <1>n, <3>1, <3>2
    <3>6. leads(u, "object", q, Len(s) + 2)
      BY <3>3, <3>4, <3>5 DEF leads, named
    <3> QED BY <1>6, <1>7, <2>2, <3>1, <3>6 DEF turn_at
  <2> QED BY <2>1, <2>2 DEF punctuates
<1>9. \A t \in extensions(u) :
        loop_end(t, loop_of(u, g), g.begin + 1) = loop_end(t, loop_of(u, g), q)
  BY <1>2, <1>4, <1>6, <1>7 DEF reached
<1>10. /\ q \in g.begin + 1 .. Len(s) + 2 /\ g.begin \in 1 .. Len(u)
       /\ Len(s) + 2 \in g.begin + 1 .. Len(u) + 1
  <2>1. f.begin \in 1 .. Len(s) /\ q \in f.begin + 1 .. e /\ g.begin = f.begin
    BY <1>3, <1>5, <1>6
  <2> QED BY ONLY <1>n, <2>1
<1>11. reached(u, g, q, Len(s) + 2)
  BY <1>8, <1>9, <1>10 DEF reached
<1>12. u[g.begin] \in {"{", "["}
  BY <1>3, <1>6, <1>7
<1>13. framed(u, g, Len(s) + 2)
  BY <1>6, <1>10, <1>11, <1>12 DEF framed
<1> QED BY <1>13 DEF u, g

\* Behind a complete value, the loop goes by the token there.
passed(t, m, p, e) ==
  loop_end(t, m, p) = IF at(t, e) = "," THEN loop_end(t, m, e + 1)
                      ELSE IF at(t, e) = closing(m) THEN e + 1
                      ELSE loop_end(t, m, e)

LEMMA ValuePassed ==
  ASSUME NEW s \in Text, NEW f, NEW e, framed(s, f, e), f.next = "more",
         NEW q \in Nat, reached(s, f, q, e), NEW t \in extensions(s)
  PROVE  passed(t, loop_of(s, f), f.begin + 1, e)
<1> DEFINE m == loop_of(s, f)
<1>1. m \in Loop
  BY DEF loop_of, Loop
<1>2. f.begin \in 1 .. Len(s) /\ e \in f.begin + 1 .. Len(s) + 1 /\ q \in f.begin + 1 .. e
  BY DEF framed, reached
<1>3. loop_end(t, m, f.begin + 1) = loop_end(t, m, q)
  BY DEF reached
<1>4. PICK b \in 1 .. Len(s) : q <= b /\ leads(s, m, q, b) /\ complete(s, b, e)
  BY DEF reached, turn_at
<1> HIDE DEF m
<1>5. /\ t \in Text /\ Len(s) \in Nat /\ Len(t) \in Nat /\ Len(s) <= Len(t)
      /\ \A i \in 1 .. Len(s) : t[i] = s[i] /\ at(t, i) = s[i]
  BY ExtensionItems
<1>6. q \in 1 .. Len(s) /\ q \in 1 .. Len(t) /\ b \in 1 .. Len(t) + 1 /\ b \in 1 .. Len(t)
  <2>1. q <= b
    BY <1>4
  <2> QED BY ONLY <1>2, <1>5, <2>1, q \in Nat, b \in 1 .. Len(s)
<1>7. skip_json_value(t, b) = e
  BY <1>4 DEF complete
<1>8. at(t, b) = s[b] /\ t[b] = s[b] /\ t[q] = s[q] /\ s[b] \in Token
  BY <1>5, <1>6 DEF Text
<1>9. leads(t, m, q, b) /\ t[q] # closing(m)
  <2>1. CASE m = "array"
    <3>1. q = b
      BY <1>4, <2>1 DEF leads
    <3>2. s[b] # "]"
      BY <1>4 DEF complete
    <3> QED BY <1>8, <2>1, <3>1, <3>2 DEF leads, closing
  <2>2. CASE m = "object"
    <3>1. s[q] \in String /\ s[q + 1] = ":" /\ q + 2 = b
      BY <1>4, <2>2 DEF leads, named
    <3>2. q + 1 \in 1 .. Len(s)
      BY ONLY <1>5, <1>6, <3>1, b \in 1 .. Len(s)
    <3>3. t[q + 1] = ":"
      BY <1>5, <3>1, <3>2
    <3>4. t[q] # "}"
      BY <1>8, <3>1, Tokens
    <3> QED BY <1>8, <2>2, <3>1, <3>3, <3>4 DEF leads, named, closing
  <2> QED BY <1>1, <2>1, <2>2 DEF Loop
<1>10. e # endless /\ e # q
  <2>1. e \in b + 1 .. Len(s) + 1 /\ q <= b
    BY <1>4 DEF complete
  <2> QED BY ONLY <1>5, <2>1, q \in Nat, b \in 1 .. Len(s) DEF endless
<1>11. goes_by(t, m, q, e)
  <2>1. goes_by(t, m, q, skip_json_value(t, b))
    BY <1>1, <1>5, <1>6, <1>7, <1>9, <1>10, LoopPasses
  <2> QED BY <1>7, <2>1
<1> QED BY <1>3, <1>10, <1>11 DEF passed, goes_by, m

\* A comma begins the next turn.
LEMMA FrameCommas ==
  ASSUME NEW s \in Text, NEW c \in Token, c = ",", NEW f, framed(s, f, Len(s) + 1),
         f.next = "more", NEW n \in {"key", "value"},
         n = IF loop_of(s, f) = "object" THEN "key" ELSE "value"
  PROVE  framed(grown(s, c), [f EXCEPT !.next = n], Len(s) + 2)
<1> DEFINE u == grown(s, c)
           g == [f EXCEPT !.next = n]
           e == Len(s) + 1
           m == loop_of(s, f)
<1>n. Len(s) \in Nat /\ Len(u) = Len(s) + 1
  BY Grown
<1>1. u \in Text /\ u[Len(s) + 1] = c /\ \A i \in 1 .. Len(s) : u[i] = s[i]
  BY Grown
<1>2. extensions(u) \subseteq extensions(s)
  <2>1. continues(s, c)
    BY DEF continues, delimiters
  <2> QED BY <2>1, ExtensionsShrink
<1>3. f \in Frame /\ f.begin \in 1 .. Len(s) /\ s[f.begin] \in {"{", "["}
  BY DEF framed
<1>4. PICK q \in Nat : reached(s, f, q, e)
  BY DEF framed
<1>5. n \in Expected
  BY DEF Expected
<1>6. g \in Frame /\ g.begin = f.begin /\ g.next = n
  BY <1>3, <1>5 DEF Frame
<1>7. u[f.begin] = s[f.begin] /\ loop_of(u, g) = m /\ m \in Loop
  <2>1. u[f.begin] = s[f.begin]
    BY <1>1, <1>3
  <2> QED BY <1>6, <2>1 DEF loop_of, Loop
<1>8. ASSUME NEW t \in extensions(u)
      PROVE  loop_end(t, m, f.begin + 1) = loop_end(t, m, Len(s) + 2)
  <2>1. passed(t, m, f.begin + 1, e)
    BY <1>2, <1>4, ValuePassed
  <2>2. at(t, e) = ","
    <3> HIDE DEF u
    <3>1. \A i \in 1 .. Len(u) : at(t, i) = u[i]
      BY <1>1, ExtensionItems
    <3>2. e \in 1 .. Len(u)
      BY ONLY <1>n
    <3> QED BY <1>1, <3>1, <3>2
  <2>3. e + 1 = Len(s) + 2
    BY ONLY <1>n
  <2> HIDE DEF m, e
  <2> QED BY <2>1, <2>2, <2>3 DEF passed
<1>9. turn_at(u, g, Len(s) + 2, Len(s) + 2)
  <2>1. CASE m = "object"
    BY <1>6, <1>7, <2>1 DEF turn_at
  <2>2. CASE m = "array"
    BY <1>6, <1>7, <2>2 DEF turn_at, leads
  <2> QED BY <1>7, <2>1, <2>2 DEF Loop
<1> HIDE DEF u, g, m
<1>10. /\ Len(s) + 2 \in g.begin + 1 .. Len(s) + 2 /\ g.begin \in 1 .. Len(u)
       /\ Len(s) + 2 \in g.begin + 1 .. Len(u) + 1 /\ Len(s) + 2 \in Nat
  <2>1. f.begin \in 1 .. Len(s) /\ g.begin = f.begin
    BY <1>3, <1>6
  <2> QED BY ONLY <1>n, <2>1
<1>11. reached(u, g, Len(s) + 2, Len(s) + 2)
  BY <1>6, <1>7, <1>8, <1>9, <1>10 DEF reached
<1>12. u[g.begin] \in {"{", "["}
  BY <1>3, <1>6, <1>7
<1>13. framed(u, g, Len(s) + 2)
  BY <1>6, <1>10, <1>11, <1>12 DEF framed
<1> QED BY <1>13 DEF u, g

\* The value that was being written is complete.
LEMMA FrameCompletes ==
  ASSUME NEW s \in Text, NEW c \in Token, continues(s, c), NEW f, NEW b \in Nat, framed(s, f, b),
         f.next \in {"first element", "value"}, complete(grown(s, c), b, Len(s) + 2)
  PROVE  framed(grown(s, c), [f EXCEPT !.next = "more"], Len(s) + 2)
<1> DEFINE u == grown(s, c)
           g == [f EXCEPT !.next = "more"]
           m == loop_of(s, f)
<1>n. Len(s) \in Nat /\ Len(u) = Len(s) + 1
  BY Grown
<1>1. u \in Text /\ \A i \in 1 .. Len(s) : u[i] = s[i]
  BY Grown
<1>2. extensions(u) \subseteq extensions(s)
  BY ExtensionsShrink
<1>3. f \in Frame /\ f.begin \in 1 .. Len(s) /\ s[f.begin] \in {"{", "["}
  BY DEF framed
<1>4. PICK q \in Nat : reached(s, f, q, b)
  BY DEF framed
<1>5. b \in f.begin + 1 .. Len(s) + 1 /\ q \in f.begin + 1 .. b
  BY <1>4 DEF reached, framed
<1>6. g \in Frame /\ g.begin = f.begin /\ g.next = "more"
  BY <1>3 DEF Frame, Expected
<1>7. u[f.begin] = s[f.begin] /\ loop_of(u, g) = m /\ m \in Loop
  <2>1. u[f.begin] = s[f.begin]
    BY <1>1, <1>3
  <2> QED BY <1>6, <2>1 DEF loop_of, Loop
<1>8. leads(s, m, q, b)
  <2>1. turn_at(s, f, q, b)
    BY <1>4 DEF reached
  <2>2. CASE f.next = "value"
    BY <2>1, <2>2 DEF turn_at
  <2>3. CASE f.next = "first element"
    BY <2>1, <2>3 DEF turn_at, leads
  <2> QED BY <2>2, <2>3
<1>d. b <= Len(s) + 1 /\ 1 <= q /\ q <= b /\ b \in 1 .. Len(u)
  <2>1. f.begin \in 1 .. Len(s)
    BY <1>3
  <2> QED BY ONLY <1>n, <1>5, <2>1
<1>9. leads(u, m, q, b)
  BY <1>7, <1>8, <1>d, LeadsKept
<1>10. \A t \in extensions(u) : loop_end(t, m, f.begin + 1) = loop_end(t, m, q)
  BY <1>2, <1>4 DEF reached
<1> HIDE DEF u, g, m
<1>11. turn_at(u, g, q, Len(s) + 2)
  BY <1>6, <1>7, <1>9, <1>d DEF turn_at, u
<1>12. /\ q \in g.begin + 1 .. Len(s) + 2 /\ g.begin \in 1 .. Len(u)
       /\ Len(s) + 2 \in g.begin + 1 .. Len(u) + 1
  <2>1. f.begin \in 1 .. Len(s) /\ g.begin = f.begin
    BY <1>3, <1>6
  <2> QED BY ONLY <1>n, <1>5, <2>1
<1>13. reached(u, g, q, Len(s) + 2)
  BY <1>6, <1>7, <1>10, <1>11, <1>12 DEF reached
<1>14. u[g.begin] \in {"{", "["}
  BY <1>3, <1>6, <1>7
<1>15. framed(u, g, Len(s) + 2)
  BY <1>6, <1>12, <1>13, <1>14 DEF framed
<1> QED BY <1>15 DEF u, g

LEMMA AtomCompletes ==
  ASSUME NEW s \in Text, NEW c \in String \cup {"n"}
  PROVE  complete(grown(s, c), Len(s) + 1, Len(s) + 2)
<1> DEFINE u == grown(s, c)
<1>0. c \in Token /\ c \notin {"}", "]"}
  BY Tokens DEF Token
<1>n. Len(s) \in Nat /\ Len(u) = Len(s) + 1
  BY <1>0, Grown
<1>1. u[Len(s) + 1] = c
  BY <1>0, Grown
<1>2. \A t \in extensions(u) : skip_json_value(t, Len(s) + 1) = Len(s) + 2
  BY AtomEnds
<1> HIDE DEF u
<1>3. Len(s) + 1 \in 1 .. Len(u) /\ Len(s) + 2 \in (Len(s) + 1) + 1 .. Len(u) + 1
  BY ONLY <1>n
<1>4. complete(u, Len(s) + 1, Len(s) + 2)
  BY <1>0, <1>1, <1>2, <1>3 DEF complete
<1> QED BY <1>4 DEF u

\* What is closed is complete.
LEMMA FrameCloses ==
  ASSUME NEW s \in Text, NEW c \in Token, continues(s, c), NEW f, framed(s, f, Len(s) + 1),
         f.next \in {"first key", "first element", "more"}, c = closing(loop_of(s, f))
  PROVE  complete(grown(s, c), f.begin, Len(s) + 2)
<1> DEFINE u == grown(s, c)
           e == Len(s) + 1
           m == loop_of(s, f)
<1>n. Len(s) \in Nat /\ Len(u) = Len(s) + 1
  BY Grown
<1>1. u \in Text /\ u[Len(s) + 1] = c /\ \A i \in 1 .. Len(s) : u[i] = s[i]
  BY Grown
<1>2. extensions(u) \subseteq extensions(s)
  BY ExtensionsShrink
<1>3. f.begin \in 1 .. Len(s) /\ s[f.begin] \in {"{", "["} /\ m \in Loop
  BY DEF framed, loop_of, Loop
<1>4. PICK q \in Nat : reached(s, f, q, e)
  BY DEF framed
<1>5. u[f.begin] = s[f.begin]
  BY <1>1, <1>3
<1> HIDE DEF u
<1>6. ASSUME NEW t \in extensions(u) PROVE skip_json_value(t, f.begin) = Len(s) + 2
  <2>1. /\ t \in Text /\ Len(t) \in Nat /\ Len(u) <= Len(t)
        /\ \A i \in 1 .. Len(u) : t[i] = u[i] /\ at(t, i) = u[i]
    BY <1>1, ExtensionItems
  <2>2. f.begin \in 1 .. Len(u) /\ f.begin \in 1 .. Len(t) + 1 /\ e \in 1 .. Len(u)
        /\ e \in 1 .. Len(t) + 1 /\ e # Len(t) + 1 /\ e + 1 = Len(s) + 2
    <3>1. f.begin \in 1 .. Len(s) /\ Len(t) \in Nat /\ Len(u) <= Len(t)
      BY <1>3, <2>1
    <3> QED BY ONLY <1>n, <3>1
  <2>3. at(t, f.begin) = s[f.begin] /\ at(t, e) = c
    BY <1>1, <1>5, <2>1, <2>2
  <2>4. skip_json_value(t, f.begin) = loop_end(t, m, f.begin + 1)
    <3>1. CASE s[f.begin] = "{"
      BY <2>1, <2>2, <2>3, <3>1, ValueEnds DEF loop_of
    <3>2. CASE s[f.begin] = "["
      BY <2>1, <2>2, <2>3, <3>2, ValueEnds DEF loop_of
    <3> QED BY <1>3, <3>1, <3>2
  <2>5. CASE f.next \in {"first key", "first element"}
    <3>1. turn_at(s, f, q, e) /\ loop_end(t, m, f.begin + 1) = loop_end(t, m, q)
      BY <1>2, <1>4 DEF reached
    <3>2. q = e
      BY <2>5, <3>1 DEF turn_at
    <3>3. loop_end(t, m, e) = loop_result(t, m, e, skip_json_value(t, value_at(t, m, e)))
      BY <1>3, <2>1, <2>2, LoopEnds
    <3>4. loop_end(t, m, e) = e + 1
      BY <2>2, <2>3, <3>3 DEF loop_result
    <3> QED BY <2>2, <2>4, <3>1, <3>2, <3>4
  <2>6. CASE f.next = "more"
    <3>1. passed(t, m, f.begin + 1, e)
      BY <1>2, <1>4, <2>6, ValuePassed
    <3>2. at(t, e) = closing(m) /\ at(t, e) # ","
      BY <2>3 DEF closing
    <3> QED BY <2>2, <2>4, <3>1, <3>2 DEF passed
  <2> QED BY <2>5, <2>6
<1>7. f.begin \in 1 .. Len(u) /\ Len(s) + 2 \in f.begin + 1 .. Len(u) + 1
  <2>1. f.begin \in 1 .. Len(s)
    BY <1>3
  <2> QED BY ONLY <1>n, <2>1
<1>8. u[f.begin] \notin {"}", "]"}
  BY <1>3, <1>5
<1>9. complete(u, f.begin, Len(s) + 2)
  BY <1>6, <1>7, <1>8 DEF complete
<1> QED BY <1>9 DEF u

-----------------------------------------------------------------------------
\* The objects and arrays being written: the innermost at the end of the text,
\* each other at what is being written in it.
target(s, stack, i) == IF i = 1 THEN Len(s) + 1 ELSE stack[i - 1].begin

nested(s, stack) ==
  \A i \in 1 .. Len(stack) :
    /\ framed(s, stack[i], target(s, stack, i))
    /\ i # 1 => stack[i].next \in {"first element", "value"}

pushed(f, stack) == <<f>> \o stack

LEMMA Pushed ==
  ASSUME NEW f \in Frame, NEW stack \in Seq(Frame)
  PROVE  /\ pushed(f, stack) \in Seq(Frame) /\ Len(pushed(f, stack)) = Len(stack) + 1
         /\ pushed(f, stack)[1] = f /\ Len(stack) \in Nat
         /\ \A i \in 1 .. Len(stack) : pushed(f, stack)[i + 1] = stack[i]
BY DEF pushed

LEMMA GoesOn ==
  ASSUME NEW stack \in Seq(Frame), stack # <<>>, NEW n \in Expected
  PROVE  /\ goes_on(stack, n) \in Seq(Frame) /\ Len(goes_on(stack, n)) = Len(stack)
         /\ goes_on(stack, n)[1] = [stack[1] EXCEPT !.next = n]
         /\ goes_on(stack, n)[1].begin = stack[1].begin /\ goes_on(stack, n)[1].next = n
         /\ Len(stack) \in Nat /\ Len(stack) >= 1 /\ stack[1] \in Frame
         /\ \A i \in 2 .. Len(stack) : goes_on(stack, n)[i] = stack[i]
<1> DEFINE g == [stack[1] EXCEPT !.next = n]
           rest == Tail(stack)
<1>1. Len(stack) \in Nat /\ Len(stack) >= 1 /\ stack[1] \in Frame /\ Head(stack) = stack[1]
  OBVIOUS
<1>2. g \in Frame /\ g.begin = stack[1].begin /\ g.next = n
  BY <1>1 DEF Frame
<1>3. rest \in Seq(Frame) /\ Len(rest) = Len(stack) - 1
      /\ \A i \in 1 .. Len(rest) : rest[i] = stack[i + 1]
  OBVIOUS
<1>4. goes_on(stack, n) = pushed(g, rest)
  BY <1>1 DEF goes_on, pushed
<1> HIDE DEF g, rest
<1>5. /\ pushed(g, rest) \in Seq(Frame) /\ Len(pushed(g, rest)) = Len(rest) + 1
      /\ pushed(g, rest)[1] = g
      /\ \A i \in 1 .. Len(rest) : pushed(g, rest)[i + 1] = rest[i]
  BY <1>2, <1>3, Pushed
<1>6. Len(goes_on(stack, n)) = Len(stack)
  BY <1>1, <1>3, <1>4, <1>5
<1>7. ASSUME NEW i \in 2 .. Len(stack) PROVE goes_on(stack, n)[i] = stack[i]
  <2>1. i - 1 \in 1 .. Len(rest) /\ (i - 1) + 1 = i
    BY <1>1, <1>3
  <2> QED BY <1>3, <1>4, <1>5, <2>1
<1> QED BY <1>1, <1>2, <1>4, <1>5, <1>6, <1>7 DEF g

\* The innermost frame goes on.
LEMMA NestedGoesOn ==
  ASSUME NEW s \in Text, NEW c \in Token, continues(s, c),
         NEW stack \in Seq(Frame), stack # <<>>, nested(s, stack), NEW n \in Expected,
         framed(grown(s, c), [stack[1] EXCEPT !.next = n], Len(s) + 2)
  PROVE  nested(grown(s, c), goes_on(stack, n))
<1> DEFINE u == grown(s, c)
           new == goes_on(stack, n)
<1>1. /\ new \in Seq(Frame) /\ Len(new) = Len(stack) /\ new[1] = [stack[1] EXCEPT !.next = n]
      /\ new[1].begin = stack[1].begin /\ Len(stack) \in Nat
      /\ \A i \in 2 .. Len(stack) : new[i] = stack[i]
  BY GoesOn
<1>2. Len(u) + 1 = Len(s) + 2
  <2>1. Len(u) = Len(s) + 1 /\ Len(s) \in Nat
    BY Grown
  <2> QED BY ONLY <2>1
<1> HIDE DEF new
<1>3. ASSUME NEW i \in 1 .. Len(new)
      PROVE  /\ framed(u, new[i], target(u, new, i))
             /\ i # 1 => new[i].next \in {"first element", "value"}
  <2>1. CASE i = 1
    BY <1>1, <1>2, <2>1 DEF target
  <2>2. CASE i # 1
    <3>1. i \in 2 .. Len(stack) /\ i \in 1 .. Len(stack) /\ i - 1 \in 1 .. Len(stack)
      BY <1>1, <2>2
    <3>2. new[i - 1].begin = stack[i - 1].begin
      <4>1. CASE i = 2
        <5>1. i - 1 = 1
          BY ONLY <4>1
        <5> QED BY <1>1, <5>1
      <4>2. CASE i # 2
        <5>1. i - 1 \in 2 .. Len(stack)
          BY <3>1, <4>2
        <5> QED BY <1>1, <5>1
      <4> QED BY <4>1, <4>2
    <3>3. new[i] = stack[i]
      BY <1>1, <3>1
    <3>4. target(u, new, i) = target(s, stack, i)
      BY <2>2, <3>2 DEF target
    <3>5. framed(s, stack[i], target(s, stack, i)) /\ stack[i].next \in {"first element", "value"}
      BY <2>2, <3>1 DEF nested
    <3>6. framed(u, stack[i], target(s, stack, i))
      BY <3>5, FrameKept
    <3> QED BY <3>3, <3>4, <3>5, <3>6
  <2> QED BY <2>1, <2>2
<1>4. nested(u, new)
  BY <1>3 DEF nested
<1> QED BY <1>4 DEF new

\* Another one begins.
LEMMA NestedOpens ==
  ASSUME NEW s \in Text, NEW c \in Token, continues(s, c),
         NEW stack \in Seq(Frame), nested(s, stack),
         Len(stack) # 0 => stack[1].next \in {"first element", "value"},
         NEW f \in Frame, f.begin = Len(s) + 1, framed(grown(s, c), f, Len(s) + 2)
  PROVE  nested(grown(s, c), pushed(f, stack))
<1> DEFINE u == grown(s, c)
           new == pushed(f, stack)
<1>1. /\ new \in Seq(Frame) /\ Len(new) = Len(stack) + 1 /\ new[1] = f /\ Len(stack) \in Nat
      /\ \A i \in 1 .. Len(stack) : new[i + 1] = stack[i]
  BY Pushed
<1>2. Len(u) + 1 = Len(s) + 2
  <2>1. Len(u) = Len(s) + 1 /\ Len(s) \in Nat
    BY Grown
  <2> QED BY ONLY <2>1
<1> HIDE DEF new
<1>3. ASSUME NEW i \in 1 .. Len(new)
      PROVE  /\ framed(u, new[i], target(u, new, i))
             /\ i # 1 => new[i].next \in {"first element", "value"}
  <2>1. CASE i = 1
    BY <1>1, <1>2, <2>1 DEF target
  <2>2. CASE i # 1
    <3>1. i - 1 \in 1 .. Len(stack) /\ (i - 1) + 1 = i
      <4>1. Len(new) = Len(stack) + 1 /\ Len(stack) \in Nat
        BY <1>1
      <4> QED BY ONLY <2>2, <4>1, i \in 1 .. Len(new)
    <3>2. new[i] = stack[i - 1]
      BY <1>1, <3>1
    <3>3. target(u, new, i) = target(s, stack, i - 1)
      <4>1. CASE i = 2
        <5>1. i - 1 = 1
          BY ONLY <4>1
        <5>2. target(s, stack, i - 1) = Len(s) + 1
          BY <5>1 DEF target
        <5>3. target(u, new, i) = new[i - 1].begin
          BY <2>2 DEF target
        <5>4. new[i - 1] = f
          BY <1>1, <5>1
        <5> QED BY <5>2, <5>3, <5>4
      <4>2. CASE i # 2
        <5>1. i - 2 \in 1 .. Len(stack) /\ (i - 2) + 1 = i - 1 /\ (i - 1) - 1 = i - 2 /\ i - 1 # 1
          <6>1. Len(stack) \in Nat
            BY <1>1
          <6> QED BY ONLY <3>1, <4>2, <6>1, i \in 1 .. Len(new)
        <5>2. new[i - 1] = stack[i - 2]
          BY <1>1, <5>1
        <5> QED BY <2>2, <5>1, <5>2 DEF target
      <4> QED BY <4>1, <4>2
    <3>4. framed(s, stack[i - 1], target(s, stack, i - 1))
      BY <3>1 DEF nested
    <3>5. stack[i - 1].next \in {"first element", "value"}
      <4>1. CASE i - 1 = 1
        <5>1. Len(stack) # 0
          <6>1. Len(stack) \in Nat
            BY <1>1
          <6> QED BY ONLY <3>1, <6>1
        <5> QED BY <4>1, <5>1
      <4>2. CASE i - 1 # 1
        BY <3>1, <4>2 DEF nested
      <4> QED BY <4>1, <4>2
    <3>6. framed(u, stack[i - 1], target(s, stack, i - 1))
      BY <3>4, FrameKept
    <3> QED BY <3>2, <3>3, <3>5, <3>6
  <2> QED BY <2>1, <2>2
<1>4. nested(u, new)
  BY <1>3 DEF nested
<1> QED BY <1>4 DEF new

\* The innermost one is complete, and what contains it goes on.
LEMMA NestedCloses ==
  ASSUME NEW s \in Text, NEW c \in Token, continues(s, c),
         NEW stack \in Seq(Frame), stack # <<>>, nested(s, stack), Tail(stack) # <<>>,
         complete(grown(s, c), stack[1].begin, Len(s) + 2)
  PROVE  nested(grown(s, c), goes_on(Tail(stack), "more"))
<1> DEFINE u == grown(s, c)
           rest == Tail(stack)
           new == goes_on(rest, "more")
<1>1. /\ rest \in Seq(Frame) /\ Len(stack) \in Nat /\ Len(rest) = Len(stack) - 1
      /\ \A i \in 1 .. Len(rest) : rest[i] = stack[i + 1]
  BY SMTT(60)
<1> HIDE DEF rest
<1>2. /\ new \in Seq(Frame) /\ Len(new) = Len(rest) /\ new[1] = [rest[1] EXCEPT !.next = "more"]
      /\ new[1].begin = rest[1].begin /\ Len(rest) \in Nat /\ Len(rest) >= 1
      /\ \A i \in 2 .. Len(rest) : new[i] = rest[i]
  BY <1>1, GoesOn DEF rest, Expected
<1>3. Len(u) + 1 = Len(s) + 2
  BY Grown
<1> HIDE DEF new
<1>4. ASSUME NEW i \in 1 .. Len(new)
      PROVE  /\ framed(u, new[i], target(u, new, i))
             /\ i # 1 => new[i].next \in {"first element", "value"}
  <2>0. i \in 1 .. Len(rest) /\ i + 1 \in 1 .. Len(stack) /\ i + 1 # 1 /\ (i + 1) - 1 = i
    BY <1>1, <1>2, SMTT(60)
  <2>1. /\ rest[i] = stack[i + 1]
        /\ framed(s, stack[i + 1], stack[i].begin)
        /\ stack[i + 1].next \in {"first element", "value"}
    BY <1>1, <2>0 DEF nested, target
  <2>2. CASE i = 1
    <3>1. framed(s, rest[1], stack[1].begin) /\ rest[1].next \in {"first element", "value"}
      BY <2>1, <2>2
    <3>2. stack[1].begin \in Nat
      <4>1. stack[1] \in Frame
        BY <1>1, <1>2
      <4> QED BY <4>1 DEF Frame
    <3>3. framed(u, [rest[1] EXCEPT !.next = "more"], Len(s) + 2)
      BY <3>1, <3>2, FrameCompletes
    <3> QED BY <1>2, <1>3, <2>2, <3>3 DEF target
  <2>3. CASE i # 1
    <3>1. i \in 2 .. Len(rest) /\ i - 1 \in 1 .. Len(rest) /\ (i - 1) + 1 = i
      BY <2>0, <2>3
    <3>2. new[i - 1].begin = rest[i - 1].begin
      <4>1. CASE i = 2
        <5>1. i - 1 = 1
          BY ONLY <4>1
        <5> QED BY <1>2, <5>1
      <4>2. CASE i # 2
        <5>1. i - 1 \in 2 .. Len(rest)
          BY <3>1, <4>2
        <5> QED BY <1>2, <5>1
      <4> QED BY <4>1, <4>2
    <3>3. target(u, new, i) = stack[i].begin
      BY <1>1, <2>3, <3>1, <3>2 DEF target
    <3>4. new[i] = stack[i + 1]
      BY <1>2, <2>1, <3>1
    <3>5. framed(u, stack[i + 1], stack[i].begin)
      BY <2>1, FrameKept
    <3> QED BY <2>1, <3>3, <3>4, <3>5
  <2> QED BY <2>2, <2>3
<1>5. nested(u, new)
  BY <1>4 DEF nested
<1> QED BY <1>5 DEF new, rest

-----------------------------------------------------------------------------
\* The inductive invariant: what is written is read where it is, whatever may
\* follow it, and a scalar is followed by a delimiter.
TypeInv ==
  /\ text \in Text
  /\ open \in Seq(Frame)
  /\ values \subseteq [begin : Nat, end : Nat]

ValuesInv == \A v \in values : complete(text, v.begin, v.end)

OpenInv == nested(text, open)

ScalarInv ==
  Len(text) # 0 => (text[Len(text)] = "n" => (Len(open) # 0 => open[1].next = "more"))

IInv == TypeInv /\ ValuesInv /\ OpenInv /\ ScalarInv

LEMMA OpenText ==
  ASSUME IInv, Len(open) # 0
  PROVE  /\ Len(text) # 0 /\ open # <<>> /\ Head(open) = open[1] /\ open[1] \in Frame
         /\ framed(text, open[1], Len(text) + 1)
<1>1. open \in Seq(Frame) /\ text \in Text
  BY DEF IInv, TypeInv
<1>2. Len(open) \in Nat /\ 1 \in 1 .. Len(open) /\ open # <<>> /\ Head(open) = open[1]
      /\ open[1] \in Frame
  BY <1>1
<1>3. framed(text, open[1], Len(text) + 1)
  BY <1>2 DEF IInv, OpenInv, nested, target
<1>4. Len(text) # 0
  <2>1. open[1].begin \in 1 .. Len(text)
    BY <1>3 DEF framed
  <2>2. Len(text) \in Nat
    BY <1>1 DEF Text
  <2> QED BY ONLY <2>1, <2>2
<1> QED BY <1>2, <1>3, <1>4

LEMMA EmptyOpen ==
  ASSUME IInv
  PROVE  (open = <<>>) <=> (Len(open) = 0)
BY DEF IInv, TypeInv

LEMMA EmptyText ==
  ASSUME IInv
  PROVE  (text = <<>>) <=> (Len(text) = 0)
BY DEF IInv, TypeInv, Text

\* Where a value is expected, no scalar has just been written.
LEMMA ValueExpected ==
  ASSUME IInv, value_expected, NEW c \in Token
  PROVE  /\ continues(text, c)
         /\ Len(open) # 0 => open[1].next \in {"first element", "value"}
<1>1. Len(open) # 0 => open[1].next \in {"first element", "value"}
  <2> SUFFICES ASSUME Len(open) # 0 PROVE open[1].next \in {"first element", "value"}
    OBVIOUS
  <2>1. Len(text) # 0 /\ Head(open) = open[1]
    BY OpenText
  <2>2. text # <<>>
    BY <2>1, EmptyText
  <2> QED BY <2>1, <2>2 DEF value_expected, expects
<1>2. ASSUME Len(text) # 0, text[Len(text)] = "n" PROVE FALSE
  <2>1. text # <<>>
    BY <1>2, EmptyText
  <2>2. open # <<>>
    BY <2>1 DEF value_expected, expects
  <2>3. Len(open) # 0
    BY <2>2, EmptyOpen
  <2>4. open[1].next = "more"
    BY <1>2, <2>3 DEF IInv, ScalarInv
  <2> QED BY <1>1, <2>3, <2>4
<1> QED BY <1>1, <1>2 DEF continues

LEMMA ValuesKept ==
  ASSUME IInv, NEW c \in Token, continues(text, c)
  PROVE  \A v \in values : complete(grown(text, c), v.begin, v.end)
BY CompleteKept DEF IInv, TypeInv, ValuesInv

LEMMA TextGrown ==
  ASSUME IInv, NEW c \in Token, write(c)
  PROVE  /\ text' = grown(text, c) /\ text' \in Text /\ Len(text) \in Nat
         /\ Len(text') = Len(text) + 1 /\ text'[Len(text')] = c
<1>1. text' = grown(text, c) /\ text \in Text
  BY DEF IInv, TypeInv, write, grown
<1>2. /\ grown(text, c) \in Text /\ Len(grown(text, c)) = Len(text) + 1
      /\ grown(text, c)[Len(text) + 1] = c /\ Len(text) \in Nat
  BY <1>1, Grown
<1> QED BY <1>1, <1>2

\* A complete value in what contains it.
LEMMA Completed ==
  ASSUME IInv, NEW c \in Token, continues(text, c), write(c),
         NEW b \in Nat, complete(grown(text, c), b, Len(text) + 2),
         NEW stack \in Seq(Frame), completed(b, stack),
         stack # <<>> => nested(grown(text, c), goes_on(stack, "more"))
  PROVE  IInv'
<1>1. /\ text' = grown(text, c) /\ text' \in Text /\ Len(text) \in Nat
      /\ Len(text') = Len(text) + 1 /\ text'[Len(text')] = c
  BY TextGrown
<1>2. here + 1 = Len(text) + 2 /\ here + 1 \in Nat
  BY <1>1 DEF here
<1>3. values' = values \cup {[begin |-> b, end |-> Len(text) + 2]}
  BY <1>2 DEF completed
<1>4. values' \subseteq [begin : Nat, end : Nat]
  BY <1>2, <1>3 DEF IInv, TypeInv
<1>5. ValuesInv'
  <2> SUFFICES ASSUME NEW v \in values' PROVE complete(text', v.begin, v.end)
    BY DEF ValuesInv
  <2>1. CASE v \in values
    BY <1>1, <2>1, ValuesKept
  <2>2. CASE v = [begin |-> b, end |-> Len(text) + 2]
    BY <1>1, <2>2
  <2> QED BY <1>3, <2>1, <2>2
<1>6. CASE stack = <<>>
  <2>1. open' = <<>>
    BY <1>6 DEF completed
  <2>2. open' \in Seq(Frame) /\ Len(open') = 0
    BY <2>1
  <2>3. OpenInv'
    <3>1. \A i \in 1 .. Len(open') : FALSE
      BY <2>2
    <3> QED BY <3>1 DEF OpenInv, nested
  <2>4. ScalarInv'
    BY <2>2 DEF ScalarInv
  <2>5. TypeInv'
    BY <1>1, <1>4, <2>2 DEF TypeInv
  <2> QED BY <1>5, <2>3, <2>4, <2>5 DEF IInv
<1>7. CASE stack # <<>>
  <2>1. open' = goes_on(stack, "more")
    BY <1>7 DEF completed
  <2>2. open' \in Seq(Frame) /\ open'[1].next = "more"
    BY <1>7, <2>1, GoesOn DEF Expected
  <2>3. OpenInv'
    BY <1>1, <1>7, <2>1 DEF OpenInv
  <2>4. ScalarInv'
    BY <2>2 DEF ScalarInv
  <2>5. TypeInv'
    BY <1>1, <1>4, <2>2 DEF TypeInv
  <2> QED BY <1>5, <2>3, <2>4, <2>5 DEF IInv
<1> QED BY <1>6, <1>7

LEMMA AtomStep ==
  ASSUME IInv, NEW c \in Written \cup {"n"}, Atom(c)
  PROVE  IInv'
<1>1. c \in String \cup {"n"} /\ c \in Token
  BY ScanAssumption DEF ScanAssumption, Written, Token
<1>2. value_expected /\ write(c) /\ completed(here, open)
  BY DEF Atom
<1>3. continues(text, c) /\ (Len(open) # 0 => open[1].next \in {"first element", "value"})
  BY <1>1, <1>2, ValueExpected
<1>4. text \in Text /\ open \in Seq(Frame) /\ Len(text) \in Nat
  BY DEF IInv, TypeInv, Text
<1>5. complete(grown(text, c), Len(text) + 1, Len(text) + 2)
  BY <1>1, <1>4, AtomCompletes
<1>6. ASSUME open # <<>> PROVE nested(grown(text, c), goes_on(open, "more"))
  <2>1. Len(open) # 0
    BY <1>6, EmptyOpen
  <2>2. framed(text, open[1], Len(text) + 1) /\ open[1].next \in {"first element", "value"}
    BY <1>3, <2>1, OpenText
  <2>3. Len(text) + 1 \in Nat
    BY ONLY <1>4
  <2>4. framed(grown(text, c), [open[1] EXCEPT !.next = "more"], Len(text) + 2)
    BY <1>1, <1>3, <1>4, <1>5, <2>2, <2>3, FrameCompletes
  <2>5. nested(text, open)
    BY DEF IInv, OpenInv
  <2>6. "more" \in Expected
    BY DEF Expected
  <2> QED BY <1>1, <1>3, <1>4, <1>6, <2>4, <2>5, <2>6, NestedGoesOn
<1>7. here = Len(text) + 1 /\ here \in Nat
  BY <1>4 DEF here
<1>8. completed(Len(text) + 1, open) /\ Len(text) + 1 \in Nat
  BY <1>2, <1>7
<1> QED BY <1>1, <1>2, <1>3, <1>4, <1>5, <1>6, <1>8, Completed

LEMMA OpenStep ==
  ASSUME IInv, NEW c \in Token, NEW n \in Expected, opens_with(c, n), Open(c, n)
  PROVE  IInv'
<1>1. /\ value_expected /\ write(c) /\ values' = values
      /\ open' = pushed([begin |-> here, next |-> n], open)
  BY DEF Open, pushed
<1>2. continues(text, c) /\ (Len(open) # 0 => open[1].next \in {"first element", "value"})
  BY <1>1, ValueExpected
<1>3. text \in Text /\ open \in Seq(Frame) /\ Len(text) \in Nat
  BY DEF IInv, TypeInv, Text
<1> DEFINE f == [begin |-> Len(text) + 1, next |-> n]
<1>4. here = Len(text) + 1 /\ Len(text) + 1 \in Nat
  BY <1>3 DEF here
<1>5. f \in Frame /\ f.begin = Len(text) + 1
  BY <1>4 DEF Frame
<1>6. framed(grown(text, c), f, Len(text) + 2)
  BY <1>3, FrameOpens
<1>7. open' = pushed(f, open)
  BY <1>1, <1>4
<1> HIDE DEF f
<1>8. nested(text, open)
  BY DEF IInv, OpenInv
<1>9. nested(grown(text, c), pushed(f, open))
  BY <1>2, <1>3, <1>5, <1>6, <1>8, NestedOpens
<1>10. open' \in Seq(Frame)
  BY <1>3, <1>5, <1>7, Pushed
<1>11. /\ text' = grown(text, c) /\ text' \in Text /\ Len(text') = Len(text) + 1
       /\ text'[Len(text')] = c
  BY <1>1, TextGrown
<1>12. TypeInv'
  BY <1>1, <1>10, <1>11 DEF IInv, TypeInv
<1>13. ValuesInv'
  BY <1>1, <1>2, <1>11, ValuesKept DEF ValuesInv
<1>14. OpenInv'
  BY <1>7, <1>9, <1>11 DEF OpenInv
<1>15. ScalarInv'
  <2>1. c # "n"
    BY DEF opens_with
  <2> QED BY <1>11, <2>1 DEF ScalarInv
<1> QED BY <1>12, <1>13, <1>14, <1>15 DEF IInv

\* The innermost frame goes on with punctuation or a name.
LEMMA GoneOn ==
  ASSUME IInv, NEW c \in Token, continues(text, c), c # "n", write(c), UNCHANGED values,
         Len(open) # 0, NEW n \in Expected, open' = goes_on(open, n),
         framed(grown(text, c), [open[1] EXCEPT !.next = n], Len(text) + 2)
  PROVE  IInv'
<1>1. text \in Text /\ open \in Seq(Frame) /\ nested(text, open)
  BY DEF IInv, TypeInv, OpenInv
<1>2. open # <<>>
  BY EmptyOpen
<1>3. nested(grown(text, c), goes_on(open, n))
  BY <1>1, <1>2, NestedGoesOn
<1>4. goes_on(open, n) \in Seq(Frame)
  BY <1>1, <1>2, GoesOn
<1>5. text' = grown(text, c) /\ text' \in Text /\ text'[Len(text')] = c
  BY TextGrown
<1>6. TypeInv'
  BY <1>4, <1>5 DEF IInv, TypeInv
<1>7. ValuesInv'
  BY <1>5, ValuesKept DEF ValuesInv
<1>8. OpenInv'
  BY <1>3, <1>5 DEF OpenInv
<1>9. ScalarInv'
  BY <1>5 DEF ScalarInv
<1> QED BY <1>6, <1>7, <1>8, <1>9 DEF IInv

\* Where a frame expects anything but what follows a value, no scalar has just
\* been written.
LEMMA NotMore ==
  ASSUME IInv, Len(open) # 0, open[1].next # "more", NEW c
  PROVE  continues(text, c)
BY DEF IInv, ScalarInv, continues

LEMMA PunctuateStep ==
  ASSUME IInv, NEW c \in Token, NEW after, NEW n \in Expected, Punctuate(c, after, n),
         \/ after = {"first key", "key"} /\ c \in String /\ n = "colon"
         \/ after = {"colon"} /\ c = ":" /\ n = "value"
  PROVE  IInv'
<1>1. open # <<>> /\ Head(open).next \in after /\ write(c) /\ UNCHANGED values
  BY DEF Punctuate, expects
<1>2. open' = goes_on(open, n)
  BY DEF Punctuate
<1>3. Len(open) # 0
  BY <1>1, EmptyOpen
<1>4. Head(open) = open[1] /\ framed(text, open[1], Len(text) + 1)
  BY <1>3, OpenText
<1>5. punctuates(open[1], c, n) /\ open[1].next # "more" /\ c # "n"
  <2>1. CASE after = {"first key", "key"} /\ c \in String /\ n = "colon"
    BY <1>1, <1>4, <2>1, Tokens DEF punctuates
  <2>2. CASE after = {"colon"} /\ c = ":" /\ n = "value"
    BY <1>1, <1>4, <2>2 DEF punctuates
  <2> QED BY <2>1, <2>2
<1>6. continues(text, c)
  BY <1>3, <1>5, NotMore
<1>7. text \in Text
  BY DEF IInv, TypeInv
<1>8. framed(grown(text, c), [open[1] EXCEPT !.next = n], Len(text) + 2)
  BY <1>4, <1>5, <1>6, <1>7, FramePunctuates
<1> QED BY <1>1, <1>2, <1>3, <1>5, <1>6, <1>8, GoneOn

LEMMA CommaStep ==
  ASSUME IInv, Comma
  PROVE  IInv'
<1>1. PICK n \in {"key", "value"} : /\ Punctuate(",", {"more"}, n) /\ open # <<>>
                                    /\ n = "key" => text[Head(open).begin] = "{"
                                    /\ n = "value" => text[Head(open).begin] = "["
  BY DEF Comma
<1>2. Head(open).next = "more" /\ write(",") /\ UNCHANGED values /\ open' = goes_on(open, n)
  BY <1>1 DEF Punctuate, expects
<1>3. Len(open) # 0
  BY <1>1, EmptyOpen
<1>4. Head(open) = open[1] /\ framed(text, open[1], Len(text) + 1)
  BY <1>3, OpenText
<1>5. text \in Text
  BY DEF IInv, TypeInv
<1>6. n = IF loop_of(text, open[1]) = "object" THEN "key" ELSE "value"
  BY <1>1, <1>4 DEF loop_of
<1>7. "," \in Token /\ n \in Expected /\ continues(text, ",")
  BY DEF Token, Expected, continues, delimiters
<1>8. framed(grown(text, ","), [open[1] EXCEPT !.next = n], Len(text) + 2)
  BY <1>2, <1>4, <1>5, <1>6, <1>7, FrameCommas
<1> QED BY <1>2, <1>3, <1>7, <1>8, GoneOn

LEMMA CloseStep ==
  ASSUME IInv, NEW c \in Token, NEW opening, Close(c, opening),
         \/ c = "}" /\ opening = "{"
         \/ c = "]" /\ opening = "["
  PROVE  IInv'
<1>1. /\ open # <<>> /\ Head(open).next \in {"first key", "first element", "more"}
      /\ text[Head(open).begin] = opening /\ write(c)
      /\ completed(Head(open).begin, Tail(open))
  BY DEF Close, expects
<1>2. Len(open) # 0
  BY <1>1, EmptyOpen
<1>3. Head(open) = open[1] /\ open[1] \in Frame /\ framed(text, open[1], Len(text) + 1)
  BY <1>2, OpenText
<1>4. text \in Text /\ open \in Seq(Frame) /\ nested(text, open)
  BY DEF IInv, TypeInv, OpenInv
<1>5. c = closing(loop_of(text, open[1])) /\ c \in delimiters
  BY <1>1, <1>3 DEF loop_of, closing, delimiters
<1>6. continues(text, c)
  BY <1>5 DEF continues
<1>7. complete(grown(text, c), open[1].begin, Len(text) + 2)
  BY <1>1, <1>3, <1>4, <1>5, <1>6, FrameCloses
<1>8. open[1].begin \in Nat /\ Tail(open) \in Seq(Frame)
  <2>1. open[1].begin \in Nat
    BY <1>3 DEF Frame
  <2>2. Tail(open) \in Seq(Frame)
    <3>1. open # <<>> /\ open \in Seq(Frame)
      BY <1>1, <1>4
    <3> QED BY ONLY <3>1
  <2> QED BY <2>1, <2>2
<1>9. Tail(open) # <<>> => nested(grown(text, c), goes_on(Tail(open), "more"))
  BY <1>1, <1>4, <1>6, <1>7, NestedCloses
<1> QED BY <1>1, <1>3, <1>6, <1>7, <1>8, <1>9, Completed

LEMMA Initially == Init => IInv
<1> SUFFICES ASSUME Init PROVE IInv
  OBVIOUS
<1>1. text = <<>> /\ open = <<>> /\ values = {}
  BY DEF Init
<1>2. TypeInv /\ ValuesInv /\ ScalarInv
  BY <1>1 DEF TypeInv, ValuesInv, ScalarInv, Text
<1>3. OpenInv
  <2>1. \A i \in 1 .. Len(open) : FALSE
    BY <1>1
  <2> QED BY <2>1 DEF OpenInv, nested
<1> QED BY <1>2, <1>3 DEF IInv

LEMMA Inductive == IInv /\ [Next]_vars => IInv'
<1> SUFFICES ASSUME IInv, [Next]_vars PROVE IInv'
  OBVIOUS
<1>0. /\ {"}", "]", "{", "[", ":", ","} \subseteq Token /\ Written \subseteq String
      /\ String \subseteq Token
      /\ {"first key", "first element", "colon", "value"} \subseteq Expected
  BY ScanAssumption DEF ScanAssumption, Written, Token, Expected
<1>1. ASSUME NEW c \in Written \cup {"n"}, Atom(c) PROVE IInv'
  BY <1>1, AtomStep
<1>2. ASSUME Open("{", "first key") \/ Open("[", "first element") PROVE IInv'
  <2>1. opens_with("{", "first key") /\ opens_with("[", "first element")
    BY DEF opens_with
  <2> QED BY <1>0, <1>2, <2>1, OpenStep
<1>3. ASSUME NEW c \in Written, Punctuate(c, {"first key", "key"}, "colon") PROVE IInv'
  BY <1>0, <1>3, PunctuateStep
<1>4. ASSUME Punctuate(":", {"colon"}, "value") PROVE IInv'
  BY <1>0, <1>4, PunctuateStep
<1>5. ASSUME Comma PROVE IInv'
  BY <1>5, CommaStep
<1>6. ASSUME Close("}", "{") \/ Close("]", "[") PROVE IInv'
  BY <1>0, <1>6, CloseStep
<1>7. ASSUME UNCHANGED vars PROVE IInv'
  BY <1>7 DEF vars, IInv, TypeInv, ValuesInv, OpenInv, ScalarInv
<1> QED BY <1>1, <1>2, <1>3, <1>4, <1>5, <1>6, <1>7 DEF Next

\* At every moment, whatever may be written after: each complete value is
\* scanned to its end, and the scan of each open one gets to what is being
\* written of it.
THEOREM Invariance == Spec => []IInv
BY Initially, Inductive, PTL DEF Spec

-----------------------------------------------------------------------------
\* In an object or array that was cut off, every loop runs to the end of the text.
LEMMA LoopAtEnd ==
  ASSUME NEW s \in Text, NEW m \in Loop
  PROVE  loop_end(s, m, Len(s) + 1) = Len(s) + 1 /\ skip_json_value(s, Len(s) + 1) = Len(s) + 1
<1>1. Len(s) + 1 \in 1 .. Len(s) + 1
  BY DEF Text
<1>2. at(s, Len(s) + 1) = "end"
  BY <1>1, AtType
<1>3. loop_end(s, m, Len(s) + 1)
        = loop_result(s, m, Len(s) + 1, skip_json_value(s, value_at(s, m, Len(s) + 1)))
  BY <1>1, LoopEnds
<1> QED BY <1>1, <1>2, <1>3, ValueEnds DEF loop_result

LEMMA RunsOut ==
  ASSUME NEW s \in Text, NEW m \in Loop, NEW q \in 1 .. Len(s), NEW b \in 1 .. Len(s) + 1,
         leads(s, m, q, b), s[q] # closing(m), skip_json_value(s, b) = Len(s) + 1
  PROVE  loop_end(s, m, q) = Len(s) + 1
<1>1. Len(s) \in Nat
  BY DEF Text
<1>2. Len(s) + 1 # endless /\ Len(s) + 1 # q /\ Len(s) + 1 \in 1 .. Len(s) + 1
  BY ONLY <1>1, q \in 1 .. Len(s) DEF endless
<1>3. at(s, Len(s) + 1) = "end"
  BY <1>2, AtType
<1>4. goes_by(s, m, q, Len(s) + 1)
  <2>1. goes_by(s, m, q, skip_json_value(s, b))
    BY <1>2, LoopPasses
  <2> QED BY <2>1
<1>5. closing(m) # "end"
  BY DEF closing
<1> QED BY <1>2, <1>3, <1>4, <1>5, LoopAtEnd DEF goes_by

\* What was being written in f is nothing, or was cut off itself.
cut_off(s, f, e) ==
  e # Len(s) + 1 => /\ f.next \in {"first element", "value"} /\ s[e] # "]"
                    /\ skip_json_value(s, e) = Len(s) + 1

LEMMA CutOff ==
  ASSUME NEW s \in Text, NEW f, NEW e, framed(s, f, e), cut_off(s, f, e)
  PROVE  skip_json_value(s, f.begin) = Len(s) + 1
<1> DEFINE m == loop_of(s, f)
           L == Len(s) + 1
<1>n. Len(s) \in Nat /\ L = Len(s) + 1
  BY DEF Text
<1>1. f \in Frame /\ f.begin \in 1 .. Len(s) /\ s[f.begin] \in {"{", "["} /\ m \in Loop
  BY DEF framed, loop_of, Loop
<1>2. PICK q \in Nat : reached(s, f, q, e)
  BY DEF framed
<1>3. e \in f.begin + 1 .. L /\ q \in f.begin + 1 .. e
  BY <1>2 DEF framed, reached
<1>4. turn_at(s, f, q, e)
  BY <1>2 DEF reached
<1>5. loop_end(s, m, f.begin + 1) = loop_end(s, m, q)
  BY <1>2, ExtendsItself DEF reached
<1>6. skip_json_value(s, f.begin) = loop_end(s, m, f.begin + 1)
  <2>1. f.begin \in 1 .. Len(s) + 1 /\ f.begin # Len(s) + 1
    <3>1. f.begin \in 1 .. Len(s)
      BY <1>1
    <3> QED BY ONLY <1>n, <3>1
  <2>2. at(s, f.begin) = s[f.begin]
    BY <2>1, AtType
  <2>3. CASE s[f.begin] = "{"
    BY <2>1, <2>2, <2>3, ValueEnds DEF loop_of
  <2>4. CASE s[f.begin] = "["
    BY <2>1, <2>2, <2>4, ValueEnds DEF loop_of
  <2> QED BY <1>1, <2>3, <2>4
<1>7. loop_end(s, m, L) = L /\ skip_json_value(s, L) = L /\ L \in 1 .. L
  <2>1. L \in 1 .. L
    BY ONLY <1>n
  <2>2. loop_end(s, m, L) = L /\ skip_json_value(s, L) = L
    BY <1>1, LoopAtEnd
  <2> QED BY <2>1, <2>2
<1>8. at(s, L) = "end"
  BY <1>7, AtType
<1>9. ((q \in 1 .. L /\ q = L) \/ q \in 1 .. Len(s)) /\ e \in 1 .. L
  <2>1. f.begin \in 1 .. Len(s)
    BY <1>1
  <2> QED BY ONLY <1>n, <1>3, <2>1
<1> HIDE DEF m
<1>10. ASSUME leads(s, m, q, e), skip_json_value(s, e) = L, e # L => s[e] # "]"
       PROVE  loop_end(s, m, q) = L
  <2>1. CASE m = "array"
    <3>1. q = e
      BY <1>10, <2>1 DEF leads
    <3>2. CASE e = L
      BY <1>7, <3>1, <3>2
    <3>3. CASE e # L
      <4>1. q \in 1 .. Len(s) /\ s[q] # closing(m)
        BY <1>9, <1>10, <2>1, <3>1, <3>3 DEF closing
      <4> QED BY <1>1, <1>9, <1>10, <4>1, RunsOut
    <3> QED BY <3>2, <3>3
  <2>2. CASE m = "object"
    <3>1. s[q] \in String /\ q + 2 = e
      BY <1>10, <2>2 DEF leads, named
    <3>2. q \in 1 .. Len(s)
      <4>1. q + 2 = e
        BY <3>1
      <4> QED BY ONLY <1>n, <1>9, <4>1, q \in Nat
    <3>3. s[q] # closing(m)
      BY <2>2, <3>1, Tokens DEF closing
    <3> QED BY <1>1, <1>9, <1>10, <3>2, <3>3, RunsOut
  <2> QED BY <1>1, <2>1, <2>2 DEF Loop
<1>11. CASE e # L
  <2>1. f.next \in {"first element", "value"} /\ s[e] # "]" /\ skip_json_value(s, e) = L
    BY <1>11 DEF cut_off
  <2>2. leads(s, m, q, e)
    <3>1. CASE f.next = "value"
      BY <1>4, <3>1 DEF turn_at, m
    <3>2. CASE f.next = "first element"
      BY <1>4, <3>2 DEF turn_at, leads, m
    <3> QED BY <2>1, <3>1, <3>2
  <2> QED BY <1>5, <1>6, <1>10, <2>1, <2>2
<1>12. CASE e = L
  <2>1. CASE f.next \in {"first key", "key", "first element"}
    <3>1. q = e
      <4>1. CASE f.next \in {"first key", "key"}
        BY <1>4, <4>1 DEF turn_at
      <4>2. CASE f.next = "first element"
        BY <1>4, <4>2 DEF turn_at
      <4> QED BY <2>1, <4>1, <4>2
    <3> QED BY <1>5, <1>6, <1>7, <1>12, <3>1
  <2>2. CASE f.next = "colon"
    <3>1. m = "object" /\ q + 1 = L /\ s[q] \in String
      BY <1>4, <1>12, <2>2 DEF turn_at, m
    <3>2. q \in 1 .. Len(s) /\ q \in 1 .. Len(s) + 1 /\ q # L /\ L # endless
      <4>1. q + 1 = L
        BY <3>1
      <4> QED BY ONLY <1>n, <1>9, <4>1 DEF endless
    <3>3. at(s, q) = s[q]
      BY <3>2, AtType
    <3>4. value_at(s, m, q) = L
      BY <1>8, <3>1, <3>3 DEF value_at, skip_json_string, colon_skipped
    <3>5. loop_end(s, m, q) = loop_result(s, m, q, L)
      <4>1. loop_end(s, m, q) = loop_result(s, m, q, skip_json_value(s, value_at(s, m, q)))
        BY <1>1, <3>2, LoopEnds
      <4> QED BY <1>7, <3>4, <4>1
    <3>6. at(s, q) # closing(m) /\ closing(m) = "}"
      BY <3>1, <3>3, Tokens DEF closing
    <3>7. loop_end(s, m, q) = loop_end(s, m, L)
      BY <1>8, <3>2, <3>5, <3>6 DEF loop_result
    <3> QED BY <1>5, <1>6, <1>7, <3>7
  <2>3. CASE f.next = "value"
    <3>1. leads(s, m, q, e)
      BY <1>4, <2>3 DEF turn_at, m
    <3> QED BY <1>5, <1>6, <1>7, <1>10, <1>12, <3>1
  <2>4. CASE f.next = "more"
    <3>1. passed(s, m, f.begin + 1, L)
      BY <1>2, <1>12, <2>4, ExtendsItself, ValuePassed DEF m
    <3>2. closing(m) # "end"
      BY DEF closing
    <3> QED BY <1>6, <1>7, <1>8, <3>1, <3>2 DEF passed
  <2> QED BY <1>1, <2>1, <2>2, <2>3, <2>4 DEF Frame, Expected
<1> QED BY <1>11, <1>12

LEMMA Skipped ==
  ASSUME IInv
  PROVE  SkipsValues
<1>1. text \in Text /\ open \in Seq(Frame) /\ nested(text, open)
  BY DEF IInv, TypeInv, OpenInv
<1>2. \A v \in values : skip_json_value(text, v.begin) = v.end
  BY <1>1, ExtendsItself DEF IInv, ValuesInv, complete
<1> DEFINE good(n) == n + 1 \in 1 .. Len(open)
                        => skip_json_value(text, open[n + 1].begin) = Len(text) + 1
           T == {n \in Nat : good(n)}
<1>3. 0 \in T
  <2>1. ASSUME 0 + 1 \in 1 .. Len(open)
        PROVE  skip_json_value(text, open[0 + 1].begin) = Len(text) + 1
    <3>1. 0 + 1 = 1
      OBVIOUS
    <3>2. framed(text, open[1], Len(text) + 1)
      BY <1>1, <2>1, <3>1 DEF nested, target
    <3>3. cut_off(text, open[1], Len(text) + 1)
      BY DEF cut_off
    <3> QED BY <1>1, <3>1, <3>2, <3>3, CutOff
  <2> QED BY <2>1
<1>4. ASSUME NEW n \in Nat, n \in T PROVE n + 1 \in T
  <2>1. ASSUME (n + 1) + 1 \in 1 .. Len(open)
        PROVE  skip_json_value(text, open[(n + 1) + 1].begin) = Len(text) + 1
    <3>0. /\ Len(open) \in Nat /\ n + 1 \in 1 .. Len(open) /\ ((n + 1) + 1) - 1 = n + 1
          /\ (n + 1) + 1 # 1
      <4>1. Len(open) \in Nat
        BY <1>1
      <4> QED BY ONLY <2>1, <4>1, n \in Nat
    <3> DEFINE f == open[(n + 1) + 1]
               e == open[n + 1].begin
    <3>1. framed(text, f, e) /\ f.next \in {"first element", "value"}
      BY <1>1, <2>1, <3>0 DEF nested, target
    <3>2. framed(text, open[n + 1], target(text, open, n + 1))
      BY <1>1, <3>0 DEF nested
    <3>3. e \in 1 .. Len(text) /\ text[e] # "]"
      BY <3>2 DEF framed
    <3>4. skip_json_value(text, e) = Len(text) + 1
      BY <1>4, <3>0
    <3> HIDE DEF f, e
    <3>5. cut_off(text, f, e)
      BY <3>1, <3>3, <3>4 DEF cut_off
    <3>6. skip_json_value(text, f.begin) = Len(text) + 1
      BY <1>1, <3>1, <3>5, CutOff
    <3> QED BY <3>6 DEF f
  <2> QED BY <2>1
<1> HIDE DEF T
<1>5. Nat \subseteq T
  BY <1>3, <1>4, Induct
<1>6. ASSUME NEW i \in DOMAIN open
      PROVE  skip_json_value(text, open[i].begin) = Len(text) + 1
  <2>1. i \in 1 .. Len(open) /\ i - 1 \in Nat /\ (i - 1) + 1 = i
    BY <1>1
  <2>2. good(i - 1)
    BY <1>5, <2>1 DEF T
  <2> QED BY <2>1, <2>2
<1> QED BY <1>2, <1>6 DEF SkipsValues

-----------------------------------------------------------------------------
\* The search for a key.
found_from(s, key, from) == {i \in from..Len(s) : s[i] = key}
colons_from(s, i) == {c \in (i + 1)..Len(s) : s[c] = ":"}

\* One turn of the search, given what the later ones return.
search_turn(s, key, f, from) ==
  LET found  == {i \in from..Len(s) : s[i] = key}
      i      == Min(found)
      colons == {c \in (i + 1)..Len(s) : s[c] = ":"}
      begin  == Min(colons) + 1
      end    == skip_json_value(s, begin)
  IN
  IF found = {} THEN nowhere
  ELSE IF colons = {} THEN nowhere
  ELSE IF value_found(begin, end) THEN [begin |-> begin, end |-> end]
  ELSE f[i + 1]

searching(s, key) == CHOOSE f : f = [from \in 1..(Len(s) + 1) |-> search_turn(s, key, f, from)]

LEMMA SearchIs ==
  ASSUME NEW s, NEW key
  PROVE  extract_json_value(s, key) = searching(s, key)[1]
BY DEF extract_json_value, searching, search_turn

placed(s, r) == r = nowhere \/ (r \in [begin : Nat, end : Nat] /\ 1 <= r.begin
                                /\ r.begin < r.end /\ r.end <= Len(s) + 1)

\* A turn of it: where the key is, and the value behind the next colon.
LEMMA SearchTurn ==
  ASSUME NEW s \in Text, NEW key, NEW f, NEW from \in 1 .. Len(s) + 1
  PROVE  \/ search_turn(s, key, f, from) = nowhere
         \/ /\ search_turn(s, key, f, from) \in [begin : Nat, end : Nat]
            /\ placed(s, search_turn(s, key, f, from))
            /\ \A g : search_turn(s, key, g, from) = search_turn(s, key, f, from)
         \/ \E j \in from + 1 .. Len(s) + 1 :
              \A g : search_turn(s, key, g, from) = g[j]
<1> DEFINE found == found_from(s, key, from)
           i == Min(found)
           colons == colons_from(s, i)
           begin == Min(colons) + 1
           end == skip_json_value(s, begin)
           here_ == [begin |-> begin, end |-> end]
<1>0. Len(s) \in Nat
  BY DEF Text
<1>1. \A g : search_turn(s, key, g, from) = IF found = {} THEN nowhere
                                            ELSE IF colons = {} THEN nowhere
                                            ELSE IF value_found(begin, end) THEN here_
                                            ELSE g[i + 1]
  BY DEF search_turn, found_from, colons_from
<1>2. found # {} => i \in from .. Len(s) /\ i \in Nat
  <2>1. found \subseteq Nat /\ found \subseteq from .. Len(s)
    BY <1>0 DEF found_from
  <2> HIDE DEF found
  <2> QED BY <2>1, Minimum
<1>3. colons # {} /\ found # {} => Min(colons) \in i + 1 .. Len(s)
  <2> SUFFICES ASSUME colons # {}, found # {} PROVE Min(colons) \in i + 1 .. Len(s)
    OBVIOUS
  <2> HIDE DEF i
  <2>1. colons \subseteq Nat /\ colons \subseteq i + 1 .. Len(s)
    BY <1>0, <1>2 DEF colons_from
  <2> HIDE DEF colons
  <2> QED BY <2>1, Minimum
<1> HIDE DEF found, i, colons
<1>4. CASE found = {} \/ colons = {}
  BY <1>1, <1>4
<1>5. CASE found # {} /\ colons # {}
  <2>1. begin \in 1 .. Len(s) + 1 /\ begin \in Nat
    BY <1>0, <1>2, <1>3, <1>5
  <2>2. end \in ends(s, begin)
    BY <2>1, SkipRange
  <2>3. i + 1 \in from + 1 .. Len(s) + 1
    BY <1>0, <1>2, <1>5
  <2> HIDE DEF begin, end
  <2>4. CASE value_found(begin, end)
    <3>1. begin < end /\ 1 <= begin
      BY <2>1, <2>4 DEF value_found
    <3>2. end \in Nat /\ end <= Len(s) + 1
      BY <1>0, <2>1, <2>2 DEF ends, endless
    <3>3. here_ \in [begin : Nat, end : Nat] /\ here_.begin = begin /\ here_.end = end
      BY <2>1, <3>2
    <3>4. \A g : search_turn(s, key, g, from) = here_
      BY <1>1, <1>5, <2>4
    <3> HIDE DEF here_
    <3> QED BY <3>1, <3>2, <3>3, <3>4 DEF placed
  <2>5. CASE ~ value_found(begin, end)
    <3>1. \A g : search_turn(s, key, g, from) = g[i + 1]
      BY <1>1, <1>5, <2>5
    <3> QED BY <2>3, <3>1
  <2> QED BY <2>4, <2>5
<1> QED BY <1>4, <1>5

Place == [begin : Nat, end : Nat]

\* The search is well defined on every text.
LEMMA Searching ==
  ASSUME NEW s \in Text, NEW key
  PROVE  \A from \in 1 .. Len(s) + 1 :
           searching(s, key)[from] = search_turn(s, key, searching(s, key), from)
<1> DEFINE n == Len(s)
           S == 1 .. (n + 1)
           V == Place
           D == [g \in [S -> V] |-> [from \in S |-> search_turn(s, key, g, from)]]
<1>0. n \in Nat /\ nowhere \in Place
  BY DEF Text, Place, nowhere
<1>1. ASSUME NEW g \in [S -> V], NEW from \in S PROVE search_turn(s, key, g, from) \in V
  <2>1. ASSUME NEW j \in from + 1 .. n + 1 PROVE g[j] \in V
    <3>1. j \in S
      BY ONLY <1>0, <2>1, from \in S
    <3> HIDE DEF S, V
    <3> QED BY <3>1
  <2> HIDE DEF V
  <2> QED BY <1>0, <2>1, SearchTurn, SMTT(60) DEF Place, V
<1>2. ASSUME NEW g \in [S -> V], NEW h \in [S -> V], NEW from \in S,
             \A j \in S : j > from => g[j] = h[j]
      PROVE  search_turn(s, key, g, from) = search_turn(s, key, h, from)
  <2>1. ASSUME NEW j \in from + 1 .. n + 1 PROVE g[j] = h[j]
    <3>1. j \in S /\ j > from
      BY ONLY <1>0, <2>1, from \in S
    <3> QED BY <1>2, <3>1
  <2>2. \/ search_turn(s, key, g, from) = nowhere /\ search_turn(s, key, h, from) = nowhere
        \/ search_turn(s, key, g, from) = search_turn(s, key, h, from)
        \/ \E j \in from + 1 .. n + 1 : /\ search_turn(s, key, g, from) = g[j]
                                        /\ search_turn(s, key, h, from) = h[j]
    BY SearchTurn
  <2> QED BY <2>1, <2>2
<1>3. PICK g \in [S -> V] : g = D[g]
  <2>1. D \in [[S -> V] -> [S -> V]]
    <3> HIDE DEF S, V
    <3> QED BY <1>1
  <2>2. ASSUME NEW g \in [S -> V], NEW h \in [S -> V], NEW from \in S,
               \A j \in S : j > from => g[j] = h[j]
        PROVE  D[g][from] = D[h][from]
    <3> HIDE DEF S, V
    <3> QED BY <1>2, <2>2
  <2>3. V # {}
    BY <1>0
  <2> HIDE DEF D, V, n
  <2>4. reads_on(n, V, D)
    BY <1>0, <2>1, <2>2, <2>3 DEF reads_on
  <2> QED BY <2>4, ReadingOn
<1>4. g = [from \in 1 .. (Len(s) + 1) |-> search_turn(s, key, g, from)]
  BY <1>3
<1>5. searching(s, key) = [from \in 1 .. (Len(s) + 1) |->
                             search_turn(s, key, searching(s, key), from)]
  BY <1>4 DEF searching
<1> QED BY <1>5

\* What is found is a value that is not empty, or nothing.
LEMMA FoundPlaced ==
  ASSUME NEW s \in Text, NEW key
  PROVE  placed(s, extract_json_value(s, key))
<1> DEFINE f == searching(s, key)
           T == {from \in 1 .. (Len(s) + 1) : placed(s, f[from])}
<1>0. Len(s) \in Nat
  BY DEF Text
<1>1. \A from \in 1 .. Len(s) + 1 : f[from] = search_turn(s, key, f, from)
  BY Searching
<1> HIDE DEF f
<1>2. ASSUME NEW from \in 1 .. (Len(s) + 1), \A j \in 1 .. (Len(s) + 1) : j > from => j \in T
      PROVE  from \in T
  <2>1. \/ f[from] = nowhere
        \/ placed(s, f[from])
        \/ \E j \in from + 1 .. Len(s) + 1 : f[from] = f[j]
    BY <1>1, SearchTurn
  <2>2. ASSUME NEW j \in from + 1 .. Len(s) + 1 PROVE placed(s, f[j])
    <3>1. j \in 1 .. (Len(s) + 1) /\ j > from
      BY ONLY <1>0, <2>2, from \in 1 .. (Len(s) + 1)
    <3> QED BY <1>2, <3>1
  <2>3. placed(s, nowhere)
    BY DEF placed
  <2> QED BY <2>1, <2>2, <2>3
<1> HIDE DEF T
<1>3. \A from \in 1 .. (Len(s) + 1) : from \in T
  BY <1>0, <1>2, FromEnd
<1>4. 1 \in 1 .. (Len(s) + 1)
  BY ONLY <1>0
<1> QED BY <1>3, <1>4, SearchIs DEF T, f

\* The whole search, from the first token.
LEMMA Extracted ==
  ASSUME NEW s \in Text, NEW key
  PROVE  /\ found_from(s, key, 1) = {} => extract_json_value(s, key) = nowhere
         /\ \A i, c, begin, end :
              /\ found_from(s, key, 1) # {} /\ i = Min(found_from(s, key, 1))
              /\ colons_from(s, i) # {} /\ c = Min(colons_from(s, i))
              /\ begin = c + 1 /\ end = skip_json_value(s, begin) /\ begin < end
              => extract_json_value(s, key) = [begin |-> begin, end |-> end]
<1>1. 1 \in 1 .. Len(s) + 1
  BY DEF Text
<1>2. extract_json_value(s, key) = search_turn(s, key, searching(s, key), 1)
  BY <1>1, SearchIs, Searching
<1> QED BY <1>2 DEF search_turn, found_from, colons_from, value_found

LEMMA FoundFirst ==
  ASSUME IInv
  PROVE  FindsFirstKey
<1> DEFINE names == {i \in DOMAIN text : text[i] = "k"}
           first == Min(names)
           found == extract_json_value(text, "k")
<1>0. text \in Text /\ Len(text) \in Nat
  BY DEF IInv, TypeInv, Text
<1>1. names = found_from(text, "k", 1)
  BY <1>0 DEF found_from, Text
<1>2. found = nowhere \/ (found.begin < found.end /\ found.end <= Len(text) + 1)
  BY <1>0, FoundPlaced DEF placed
<1>3. names = {} => found = nowhere
  BY <1>0, <1>1, Extracted
<1>4. ASSUME names # {}, NEW v \in values, v.begin = first + 2, text[first + 1] = ":"
      PROVE  found = [begin |-> v.begin, end |-> v.end]
  <2>1. first \in 1 .. Len(text)
    <3>1. names \subseteq Nat /\ names \subseteq 1 .. Len(text)
      BY <1>0 DEF Text
    <3> HIDE DEF names
    <3> QED BY <1>4, <3>1, Minimum
  <2>2. complete(text, v.begin, v.end)
    BY DEF IInv, ValuesInv
  <2>3. v.begin \in 1 .. Len(text) /\ v.end \in v.begin + 1 .. Len(text) + 1
    BY <2>2 DEF complete
  <2>4. skip_json_value(text, v.begin) = v.end
    BY <1>0, <2>2, ExtendsItself DEF complete
  <2> DEFINE colons == colons_from(text, first)
  <2> HIDE DEF names, first, found
  <2>5. first + 1 \in 1 .. Len(text) /\ (first + 1) + 1 = v.begin /\ v.begin < v.end
    <3>1. v.begin = first + 2
      BY <1>4
    <3> QED BY ONLY <1>0, <2>1, <2>3, <3>1
  <2>6. first + 1 \in colons /\ colons \subseteq Nat /\ \A y \in colons : first + 1 <= y
    <3>1. first + 1 \in (first + 1) .. Len(text)
      BY ONLY <1>0, <2>1, <2>5
    <3>2. first + 1 \in colons
      BY <1>4, <3>1 DEF colons_from
    <3>3. \A y \in colons : y \in (first + 1) .. Len(text)
      BY DEF colons_from
    <3> HIDE DEF colons
    <3>4. \A y \in colons : y \in Nat /\ first + 1 <= y
      BY <2>1, <3>3
    <3> QED BY <3>2, <3>4
  <2> HIDE DEF colons
  <2>7. Min(colons) = first + 1
    <3>1. Min(colons) \in colons /\ \A y \in colons : Min(colons) <= y
      BY <2>6, Minimum
    <3>2. Min(colons) \in Nat /\ first + 1 <= Min(colons) /\ Min(colons) <= first + 1
      BY <2>6, <3>1
    <3>3. first + 1 \in Nat
      BY <2>6
    <3> QED BY ONLY <3>2, <3>3
  <2>8. colons # {} /\ v.begin = Min(colons) + 1
    BY <2>5, <2>6, <2>7
  <2>9. first = Min(found_from(text, "k", 1)) /\ found_from(text, "k", 1) # {}
    BY <1>1, <1>4 DEF first
  <2> QED BY <1>0, <2>4, <2>5, <2>8, <2>9, Extracted DEF found, colons
<1> QED BY <1>2, <1>3, <1>4 DEF FindsFirstKey

-----------------------------------------------------------------------------
\* skip_json_value ends every value where the serializer ended it, however deep
\* it is nested, and ends a value that was cut off at the end of the text.
THEOREM ValuesSkipped == Spec => []SkipsValues
BY Skipped, Invariance, PTL

\* extract_json_value returns the value of the first key of the name, nested or
\* not, nothing when there is none, and never a value that is empty.
THEOREM FirstKeyFound == Spec => []FindsFirstKey
BY FoundFirst, Invariance, PTL

\* The two hold of the machine that the documents are written by, too.
THEOREM DocumentsScanned == DocumentsSpec => [](SkipsValues /\ FindsFirstKey)
<1>1. DocumentsInit => Init
  BY DEF DocumentsInit
<1>2. [DocumentsNext]_<<vars, documentVars>> => [Next]_vars
  BY DEF DocumentsNext, WriteToken, WriteClaim, WriteKey, WriteEndpoint
<1> QED BY <1>1, <1>2, ValuesSkipped, FirstKeyFound, PTL DEF DocumentsSpec, Spec

-----------------------------------------------------------------------------
\* A set with the empty sequence that is closed under appending has all sequences.
LEMMA FromBack ==
  ASSUME NEW A, NEW P, <<>> \in P, \A a \in A, s \in Seq(A) : s \in P => s \o <<a>> \in P
  PROVE  Seq(A) \subseteq P
<1> DEFINE S == {n \in Nat : \A s \in Seq(A) : Len(s) = n => s \in P}
<1>1. 0 \in S
  <2>1. \A s \in Seq(A) : Len(s) = 0 => s = <<>>
    OBVIOUS
  <2> QED BY <2>1
<1>2. ASSUME NEW n \in Nat, n \in S PROVE n + 1 \in S
  <2> SUFFICES ASSUME NEW s \in Seq(A), Len(s) = n + 1 PROVE s \in P
    OBVIOUS
  <2> DEFINE t == SubSeq(s, 1, n)
  <2>1. s[n + 1] \in A /\ t \in Seq(A) /\ Len(t) = n
    OBVIOUS
  <2>2. s = t \o <<s[n + 1]>>
    OBVIOUS
  <2>3. t \in P
    BY <1>2, <2>1
  <2> HIDE DEF S, t
  <2> QED BY <2>1, <2>2, <2>3
<1> HIDE DEF S
<1>3. Nat \subseteq S
  BY <1>1, <1>2, Induct
<1> QED BY <1>3 DEF S

-----------------------------------------------------------------------------
\* Concatenation of a sequence of texts.
flattening(seqs) ==
  CHOOSE f : f = [i \in 1 .. Len(seqs) |-> IF i = 1 THEN seqs[i] ELSE f[i - 1] \o seqs[i]]

\* flattening is well defined: every item appends one text to the one before.
LEMMA Flattening ==
  ASSUME NEW A, NEW seqs \in Seq(Seq(A))
  PROVE  /\ Len(seqs) # 0 => flattening(seqs)[1] = seqs[1]
         /\ \A i \in 1 .. Len(seqs) - 1 :
              flattening(seqs)[i + 1] = flattening(seqs)[i] \o seqs[i + 1]
         /\ \A i \in 1 .. Len(seqs) : flattening(seqs)[i] \in Seq(A)
<1> DEFINE S == 1 .. Len(seqs)
           V == Seq(A)
           N == Len(seqs) + 1
           D == [g \in [S -> V] |-> [i \in S |-> IF i = 1 THEN seqs[i] ELSE g[i - 1] \o seqs[i]]]
           r == [i \in S |-> i]
           f == flattening(seqs)
<1>1. D \in [[S -> V] -> [S -> V]]
  <2> SUFFICES ASSUME NEW g \in [S -> V], NEW i \in S
               PROVE  (IF i = 1 THEN seqs[i] ELSE g[i - 1] \o seqs[i]) \in V
    OBVIOUS
  <2>1. seqs[i] \in Seq(A)
    OBVIOUS
  <2>2. i # 1 => i - 1 \in S
    OBVIOUS
  <2>3. i # 1 => g[i - 1] \in Seq(A)
    BY <2>2
  <2> QED BY <2>1, <2>3
<1>2. V # {} /\ r \in [S -> Nat] /\ N \in Nat /\ \A x \in S : r[x] < N
  <2>1. <<>> \in V
    OBVIOUS
  <2>2. N \in Nat /\ r \in [S -> Nat]
    OBVIOUS
  <2>3. \A x \in S : r[x] < N
    OBVIOUS
  <2> HIDE DEF V, r, S, N
  <2> QED BY <2>1, <2>2, <2>3
<1>3. ASSUME NEW g \in [S -> V], NEW h \in [S -> V], NEW x \in S,
             \A y \in S : r[y] < r[x] => g[y] = h[y]
      PROVE  D[g][x] = D[h][x]
  <2>1. CASE x = 1
    BY <2>1
  <2>2. CASE x # 1
    <3>1. x - 1 \in S /\ r[x - 1] < r[x]
      BY <2>2
    <3> QED BY <1>3, <3>1, <2>2
  <2> QED BY <2>1, <2>2
<1>4. \E g \in [S -> V] : g = D[g]
  <2> HIDE DEF S, V, N, D, r
  <2>1. descends(S, V, D, r, N)
    BY <1>1, <1>2, <1>3 DEF descends
  <2> QED BY <2>1, Recursion
<1>5. \E g : g = [i \in S |-> IF i = 1 THEN seqs[i] ELSE g[i - 1] \o seqs[i]]
  BY <1>4
<1>6. f = [i \in S |-> IF i = 1 THEN seqs[i] ELSE f[i - 1] \o seqs[i]]
  BY <1>5 DEF flattening
<1> HIDE DEF f
<1>7. Len(seqs) # 0 => f[1] = seqs[1]
  BY <1>6
<1>8. ASSUME NEW i \in 1 .. Len(seqs) - 1 PROVE f[i + 1] = f[i] \o seqs[i + 1]
  <2>1. i + 1 \in S /\ i + 1 # 1 /\ (i + 1) - 1 = i
    OBVIOUS
  <2> QED BY <1>6, <2>1
<1>9. \A i \in S : f[i] \in Seq(A)
  <2> DEFINE T == {n \in Nat : n \in S => f[n] \in Seq(A)}
  <2>1. 0 \in T
    OBVIOUS
  <2>2. ASSUME NEW n \in Nat, n \in T PROVE n + 1 \in T
    <3> SUFFICES ASSUME n + 1 \in S PROVE f[n + 1] \in Seq(A)
      OBVIOUS
    <3>1. seqs[n + 1] \in Seq(A)
      OBVIOUS
    <3>2. CASE n = 0
      BY <1>7, <3>1, <3>2
    <3>3. CASE n # 0
      <4>1. n \in S /\ f[n] \in Seq(A) /\ n \in 1 .. Len(seqs) - 1
        BY <2>2, <3>3
      <4>2. f[n + 1] = f[n] \o seqs[n + 1]
        BY <1>8, <4>1
      <4> QED BY <3>1, <4>1, <4>2
    <3> QED BY <3>2, <3>3
  <2> HIDE DEF T
  <2>3. Nat \subseteq T
    BY <2>1, <2>2, Induct
  <2> QED BY <2>3 DEF T
<1> QED BY <1>7, <1>8, <1>9 DEF f

LEMMA FlattenEmpty ==
  FlattenSeq(<<>>) = <<>>
BY DEF FlattenSeq

LEMMA FlattenLast ==
  ASSUME NEW seqs, Len(seqs) # 0
  PROVE  FlattenSeq(seqs) = flattening(seqs)[Len(seqs)]
BY DEF FlattenSeq, flattening

LEMMA FlattenType ==
  ASSUME NEW A, NEW seqs \in Seq(Seq(A))
  PROVE  FlattenSeq(seqs) \in Seq(A)
<1>1. CASE seqs = <<>>
  <2>1. FlattenSeq(seqs) = <<>>
    BY <1>1, FlattenEmpty
  <2> QED BY <2>1
<1>2. CASE seqs # <<>>
  <2>1. Len(seqs) # 0 /\ Len(seqs) \in 1 .. Len(seqs)
    BY <1>2
  <2>2. FlattenSeq(seqs) = flattening(seqs)[Len(seqs)]
    BY <2>1, FlattenLast
  <2>3. flattening(seqs)[Len(seqs)] \in Seq(A)
    BY <2>1, Flattening
  <2> QED BY <2>2, <2>3
<1> QED BY <1>1, <1>2

LEMMA FlattenAppend ==
  ASSUME NEW A, NEW seqs \in Seq(Seq(A)), NEW x \in Seq(A)
  PROVE  FlattenSeq(seqs \o <<x>>) = FlattenSeq(seqs) \o x
<1> DEFINE more == seqs \o <<x>>
           n == Len(seqs)
           f == flattening(seqs)
           g == flattening(more)
<1>1. /\ more \in Seq(Seq(A)) /\ Len(more) = n + 1 /\ more[n + 1] = x /\ n \in Nat
      /\ \A i \in 1 .. n : more[i] = seqs[i]
  OBVIOUS
<1>2. FlattenSeq(more) = g[n + 1]
  <2>1. Len(more) # 0
    BY <1>1
  <2>2. FlattenSeq(more) = g[Len(more)]
    BY <2>1, FlattenLast
  <2> QED BY <1>1, <2>2
<1>3. n # 0 => FlattenSeq(seqs) = f[n]
  BY FlattenLast
<1>4. n = 0 => seqs = <<>>
  OBVIOUS
<1>5. /\ n # 0 => f[1] = seqs[1]
      /\ \A i \in 1 .. n - 1 : f[i + 1] = f[i] \o seqs[i + 1]
  BY Flattening
<1> HIDE DEF f
<1>6. /\ Len(more) # 0 => g[1] = more[1]
      /\ \A i \in 1 .. Len(more) - 1 : g[i + 1] = g[i] \o more[i + 1]
  <2> HIDE DEF more
  <2> QED BY <1>1, Flattening
<1> HIDE DEF g, more, n
<1>7. g[1] = more[1] /\ \A i \in 1 .. n : g[i + 1] = g[i] \o more[i + 1]
  <2>1. Len(more) # 0 /\ Len(more) - 1 = n
    BY <1>1
  <2> QED BY <1>6, <2>1
<1>8. CASE n = 0
  <2>1. g[n + 1] = x
    BY <1>1, <1>7, <1>8
  <2>2. FlattenSeq(seqs) \o x = x
    BY <1>4, <1>8, FlattenEmpty
  <2> QED BY <1>2, <2>1, <2>2 DEF more
<1>9. CASE n # 0
  <2> DEFINE T == {k \in Nat : k + 1 \in 1 .. n => g[k + 1] = f[k + 1]}
  <2>1. 0 \in T
    BY <1>1, <1>5, <1>7
  <2>2. ASSUME NEW k \in Nat, k \in T PROVE k + 1 \in T
    <3> SUFFICES ASSUME (k + 1) + 1 \in 1 .. n PROVE g[(k + 1) + 1] = f[(k + 1) + 1]
      OBVIOUS
    <3>1. k + 1 \in 1 .. n - 1 /\ k + 1 \in 1 .. n
      BY <1>1
    <3>2. g[(k + 1) + 1] = g[k + 1] \o more[(k + 1) + 1]
      BY <1>7, <3>1
    <3>3. f[(k + 1) + 1] = f[k + 1] \o seqs[(k + 1) + 1]
      BY <1>5, <1>9, <3>1
    <3> QED BY <3>1, <3>2, <3>3, <2>2, <1>1
  <2> HIDE DEF T
  <2>3. n - 1 \in Nat
    BY <1>1, <1>9
  <2>4. n - 1 \in T
    BY <2>1, <2>2, <2>3, Induct
  <2>5. (n - 1) + 1 = n /\ n \in 1 .. n
    BY <1>1, <1>9
  <2>6. g[n] = f[n]
    BY <2>4, <2>5 DEF T
  <2>7. g[n + 1] = g[n] \o x
    BY <1>1, <1>7, <2>5
  <2> QED BY <1>2, <1>3, <1>9, <2>6, <2>7 DEF more
<1> QED BY <1>8, <1>9

-----------------------------------------------------------------------------
\* Texts and sequences of them, put together.
cat(u, v) == u \o v
front(x, P) == <<x>> \o P
back(P, x) == P \o <<x>>

LEMMA CatIs ==
  ASSUME NEW A, NEW u \in Seq(A), NEW v \in Seq(A)
  PROVE  /\ cat(u, v) \in Seq(A) /\ Len(u) \in Nat /\ Len(v) \in Nat
         /\ Len(cat(u, v)) = Len(u) + Len(v)
         /\ \A i \in 1 .. Len(u) : cat(u, v)[i] = u[i]
         /\ \A i \in 1 .. Len(v) : cat(u, v)[Len(u) + i] = v[i]
BY DEF cat

LEMMA CatCat ==
  ASSUME NEW A, NEW u \in Seq(A), NEW v \in Seq(A), NEW w \in Seq(A)
  PROVE  cat(cat(u, v), w) = cat(u, cat(v, w))
BY DEF cat

LEMMA CatEmpty ==
  ASSUME NEW A, NEW u \in Seq(A)
  PROVE  cat(u, <<>>) = u /\ cat(<<>>, u) = u
BY DEF cat

LEMMA FrontIs ==
  ASSUME NEW A, NEW x \in A, NEW P \in Seq(A)
  PROVE  /\ front(x, P) \in Seq(A) /\ front(x, P) # <<>>
         /\ Len(P) \in Nat /\ Len(front(x, P)) = Len(P) + 1 /\ front(x, P)[1] = x
         /\ \A i \in 1 .. Len(P) : front(x, P)[i + 1] = P[i]
<1>1. front(x, P) \in Seq(A) /\ Len(P) \in Nat /\ Len(front(x, P)) = Len(P) + 1
  BY DEF front
<1>2. front(x, P)[1] = x
  BY DEF front
<1>3. ASSUME NEW i \in 1 .. Len(P) PROVE front(x, P)[i + 1] = P[i]
  BY DEF front
<1>4. front(x, P) # <<>>
  BY <1>1
<1> QED BY <1>1, <1>2, <1>3, <1>4

LEMMA BackIs ==
  ASSUME NEW A, NEW x \in A, NEW P \in Seq(A)
  PROVE  /\ back(P, x) \in Seq(A) /\ back(P, x) # <<>>
         /\ Len(P) \in Nat /\ Len(back(P, x)) = Len(P) + 1 /\ back(P, x)[Len(P) + 1] = x
         /\ \A i \in 1 .. Len(P) : back(P, x)[i] = P[i]
BY DEF back

LEMMA FrontBack ==
  ASSUME NEW A, NEW x \in A, NEW y \in A, NEW P \in Seq(A)
  PROVE  front(x, back(P, y)) = back(front(x, P), y)
BY DEF back, front

LEMMA FrontEmpty ==
  ASSUME NEW A, NEW x \in A
  PROVE  front(x, <<>>) = back(<<>>, x) /\ front(x, <<>>) = <<x>>
BY DEF back, front

\* A set with the empty sequence that is closed under putting an item in front,
\* or under putting one behind, has all sequences.
LEMMA ByFront ==
  ASSUME NEW A, NEW P, <<>> \in P,
         \A a \in A, s \in Seq(A) : s \in P => front(a, s) \in P
  PROVE  Seq(A) \subseteq P
<1> DEFINE S == {n \in Nat : \A s \in Seq(A) : Len(s) = n => s \in P}
<1>1. 0 \in S
  <2>1. \A s \in Seq(A) : Len(s) = 0 => s = <<>>
    OBVIOUS
  <2> QED BY <2>1
<1>2. ASSUME NEW n \in Nat, n \in S PROVE n + 1 \in S
  <2> SUFFICES ASSUME NEW s \in Seq(A), Len(s) = n + 1 PROVE s \in P
    OBVIOUS
  <2> DEFINE t == SubSeq(s, 2, n + 1)
  <2>1. s[1] \in A /\ t \in Seq(A) /\ Len(t) = n
    OBVIOUS
  <2>2. s = front(s[1], t)
    BY DEF front
  <2>3. t \in P
    BY <1>2, <2>1
  <2> HIDE DEF S, t
  <2> QED BY <2>1, <2>2, <2>3
<1> HIDE DEF S
<1>3. Nat \subseteq S
  BY <1>1, <1>2, Induct
<1> QED BY <1>3 DEF S

LEMMA ByBack ==
  ASSUME NEW A, NEW P, <<>> \in P,
         \A a \in A, s \in Seq(A) : s \in P => back(s, a) \in P
  PROVE  Seq(A) \subseteq P
BY FromBack DEF back

-----------------------------------------------------------------------------
\* What listed writes: the texts with a comma between.
comma == <<",">>

LEMMA CommaIs ==
  comma \in Text /\ Len(comma) = 1 /\ comma # <<>> /\ comma[1] = "," /\ "," \in Token
<1>1. ASSUME NEW c \in Token PROVE <<c>> \in Text /\ Len(<<c>>) = 1 /\ <<c>> # <<>> /\ <<c>>[1] = c
  BY DEF Text
<1>2. "," \in Token
  BY DEF Token
<1> QED BY <1>1, <1>2 DEF comma

LEMMA CommaLen ==
  comma \in Text /\ Len(comma) = 1 /\ 1 \in 1 .. Len(comma)
<1>1. Len(comma) = 1
  BY CommaIs
<1>2. 1 \in 1 .. Len(comma)
  BY ONLY <1>1
<1> QED BY <1>1, <1>2, CommaIs

separated(P) == [i \in DOMAIN P |-> IF i = 1 THEN P[i] ELSE cat(comma, P[i])]

LEMMA ListedIs ==
  ASSUME NEW P
  PROVE  listed(P) = FlattenSeq(separated(P))
BY DEF listed, separated, cat, comma

LEMMA Separated ==
  ASSUME NEW P \in Seq(Text)
  PROVE  separated(P) \in Seq(Text)
<1>1. ASSUME NEW i \in DOMAIN P PROVE (IF i = 1 THEN P[i] ELSE cat(comma, P[i])) \in Text
  <2>1. P[i] \in Text
    OBVIOUS
  <2>2. cat(comma, P[i]) \in Text
    BY <2>1, CommaIs, CatIs DEF Text
  <2> QED BY <2>1, <2>2
<1>2. DOMAIN P = 1 .. Len(P) /\ Len(P) \in Nat
  OBVIOUS
<1> QED BY <1>1, <1>2 DEF separated

LEMMA ListedType ==
  ASSUME NEW P \in Seq(Text)
  PROVE  listed(P) \in Text
BY Separated, ListedIs, FlattenType DEF Text

LEMMA ListedEmpty ==
  listed(<<>>) = <<>>
<1>1. separated(<<>>) = <<>>
  BY DEF separated
<1> QED BY <1>1, ListedIs, FlattenEmpty

LEMMA ListedBack ==
  ASSUME NEW P \in Seq(Text), NEW x \in Text
  PROVE  /\ P = <<>> => listed(back(P, x)) = x
         /\ P # <<>> => listed(back(P, x)) = cat(listed(P), cat(comma, x))
<1> DEFINE y == IF P = <<>> THEN x ELSE cat(comma, x)
<1>1. y \in Text
  BY CommaIs, CatIs DEF Text
<1>2. separated(back(P, x)) = back(separated(P), y)
  <2> DEFINE Q == back(P, x)
  <2>1. /\ Q \in Seq(Text) /\ Len(P) \in Nat /\ Len(Q) = Len(P) + 1 /\ Q[Len(P) + 1] = x
        /\ \A i \in 1 .. Len(P) : Q[i] = P[i]
    BY BackIs
  <2> HIDE DEF Q
  <2>2. separated(Q) \in Seq(Text) /\ separated(P) \in Seq(Text)
    BY <2>1, Separated
  <2>3. /\ Len(separated(Q)) = Len(P) + 1 /\ Len(separated(P)) = Len(P)
        /\ \A i \in 1 .. Len(P) : separated(P)[i] = IF i = 1 THEN P[i] ELSE cat(comma, P[i])
        /\ \A i \in 1 .. Len(P) + 1 : separated(Q)[i] = IF i = 1 THEN Q[i] ELSE cat(comma, Q[i])
    BY <2>1, <2>2 DEF separated
  <2>4. \A i \in 1 .. Len(P) : separated(Q)[i] = separated(P)[i]
    BY <2>1, <2>3
  <2>5. separated(Q)[Len(P) + 1] = y
    <3>1. P = <<>> <=> Len(P) + 1 = 1
      OBVIOUS
    <3> QED BY <2>1, <2>3, <3>1
  <2> HIDE DEF y
  <2>6. /\ back(separated(P), y) \in Seq(Text)
        /\ Len(back(separated(P), y)) = Len(P) + 1
        /\ back(separated(P), y)[Len(P) + 1] = y
        /\ \A i \in 1 .. Len(P) : back(separated(P), y)[i] = separated(P)[i]
    <3> DEFINE z == separated(P)
    <3>1. z \in Seq(Text) /\ Len(z) = Len(P)
      BY <2>2, <2>3
    <3> HIDE DEF z
    <3>2. /\ back(z, y) \in Seq(Text) /\ Len(back(z, y)) = Len(z) + 1 /\ back(z, y)[Len(z) + 1] = y
          /\ \A i \in 1 .. Len(z) : back(z, y)[i] = z[i]
      BY <1>1, <3>1 DEF back
    <3> QED BY <3>1, <3>2 DEF z
  <2>7. \A i \in 1 .. Len(P) + 1 : separated(Q)[i] = back(separated(P), y)[i]
    BY <2>1, <2>4, <2>5, <2>6
  <2> QED BY <2>2, <2>3, <2>6, <2>7 DEF Q
<1> HIDE DEF y
<1>3. listed(back(P, x)) = cat(listed(P), y)
  <2>1. separated(P) \in Seq(Seq(Token)) /\ y \in Seq(Token)
    BY <1>1, Separated DEF Text
  <2>2. FlattenSeq(back(separated(P), y)) = cat(FlattenSeq(separated(P)), y)
    BY <2>1, FlattenAppend DEF back, cat
  <2> QED BY <1>2, <2>2, ListedIs
<1>4. CASE P = <<>>
  <2>1. listed(P) = <<>> /\ cat(<<>>, x) = x
    BY <1>4, ListedEmpty, CatEmpty DEF Text
  <2> QED BY <1>3, <1>4, <2>1 DEF y
<1>5. CASE P # <<>>
  BY <1>3, <1>5 DEF y
<1> QED BY <1>4, <1>5

LEMMA ListedFront ==
  ASSUME NEW P \in Seq(Text), NEW x \in Text
  PROVE  /\ P = <<>> => listed(front(x, P)) = x
         /\ P # <<>> => listed(front(x, P)) = cat(x, cat(comma, listed(P)))
<1> DEFINE T == {Q \in Seq(Text) :
                   /\ Q = <<>> => listed(front(x, Q)) = x
                   /\ Q # <<>> => listed(front(x, Q)) = cat(x, cat(comma, listed(Q)))}
<1>1. <<>> \in T
  <2>0. <<>> \in Seq(Text)
    OBVIOUS
  <2>1. listed(back(<<>>, x)) = x
    BY <2>0, ListedBack
  <2> QED BY <2>1, FrontEmpty
<1>2. ASSUME NEW a \in Text, NEW Q \in Seq(Text), Q \in T PROVE back(Q, a) \in T
  <2>1. /\ back(Q, a) \in Seq(Text) /\ back(Q, a) # <<>>
        /\ front(x, Q) \in Seq(Text) /\ front(x, Q) # <<>>
        /\ front(x, back(Q, a)) = back(front(x, Q), a)
    BY BackIs, FrontIs, FrontBack
  <2>2. listed(front(x, back(Q, a))) = cat(listed(front(x, Q)), cat(comma, a))
    BY <2>1, ListedBack
  <2>3. CASE Q = <<>>
    <3>1. listed(back(Q, a)) = a /\ listed(front(x, Q)) = x
      BY <1>2, <2>3, ListedBack
    <3> QED BY <2>1, <2>2, <3>1
  <2>4. CASE Q # <<>>
    <3>1. listed(back(Q, a)) = cat(listed(Q), cat(comma, a))
      BY <2>4, ListedBack
    <3>2. listed(front(x, Q)) = cat(x, cat(comma, listed(Q)))
      BY <1>2, <2>4
    <3>3. listed(Q) \in Seq(Token) /\ comma \in Seq(Token) /\ a \in Seq(Token) /\ x \in Seq(Token)
      BY ListedType, CommaIs DEF Text
    <3> DEFINE l == listed(Q)
               r == cat(comma, a)
               c == cat(comma, l)
    <3>4. r \in Seq(Token) /\ c \in Seq(Token)
      BY <3>3, CatIs
    <3> HIDE DEF r, c
    <3>5. cat(cat(x, c), r) = cat(x, cat(c, r))
      BY <3>3, <3>4, CatCat
    <3>6. cat(c, r) = cat(comma, cat(l, r))
      BY <3>3, <3>4, CatCat DEF c
    <3> QED BY <2>1, <2>2, <3>1, <3>2, <3>5, <3>6 DEF r, c
  <2> QED BY <2>3, <2>4
<1> HIDE DEF T
<1>3. Seq(Text) \subseteq T
  BY <1>1, <1>2, ByBack
<1> QED BY <1>3 DEF T

-----------------------------------------------------------------------------
\* w stands in t behind the first o tokens of it.
held(t, o, w) == o + Len(w) <= Len(t) /\ \A i \in 1 .. Len(w) : t[o + i] = w[i]

\* What follows it ends a bare scalar.
followed(t, p) == p = Len(t) + 1 \/ t[p] \in delimiters
stands(t, o, w) == held(t, o, w) /\ followed(t, o + Len(w) + 1)

LEMMA CatText ==
  ASSUME NEW u \in Text, NEW v \in Text
  PROVE  /\ cat(u, v) \in Text /\ Len(u) \in Nat /\ Len(v) \in Nat
         /\ Len(cat(u, v)) = Len(u) + Len(v)
         /\ \A i \in 1 .. Len(u) : cat(u, v)[i] = u[i]
         /\ \A i \in 1 .. Len(v) : cat(u, v)[Len(u) + i] = v[i]
BY DEF cat, Text

LEMMA CatLen ==
  ASSUME NEW u \in Text, NEW v \in Text
  PROVE  /\ cat(u, v) \in Text /\ Len(u) \in Nat /\ Len(v) \in Nat
         /\ Len(cat(u, v)) = Len(u) + Len(v)
BY CatText

LEMMA CatItem ==
  ASSUME NEW u \in Text, NEW v \in Text, NEW j \in Nat, Len(u) < j, j <= Len(u) + Len(v)
  PROVE  cat(u, v)[j] = v[j - Len(u)]
BY DEF cat, Text

LEMMA HeldCat ==
  ASSUME NEW t \in Text, NEW o \in Nat, NEW u \in Text, NEW v \in Text
  PROVE  held(t, o, cat(u, v)) <=> held(t, o, u) /\ held(t, o + Len(u), v)
<1> DEFINE w == cat(u, v)
<1>1. /\ Len(u) \in Nat /\ Len(v) \in Nat /\ Len(t) \in Nat /\ Len(w) = Len(u) + Len(v)
      /\ \A i \in 1 .. Len(u) : w[i] = u[i]
      /\ \A i \in 1 .. Len(v) : w[Len(u) + i] = v[i]
  <2>1. Len(t) \in Nat
    BY DEF Text
  <2> QED BY <2>1, CatText
<1> HIDE DEF w
<1>2. ASSUME held(t, o, w) PROVE held(t, o, u) /\ held(t, o + Len(u), v)
  <2>1. o + Len(u) <= Len(t) /\ (o + Len(u)) + Len(v) <= Len(t)
    BY <1>1, <1>2 DEF held
  <2>2. ASSUME NEW i \in 1 .. Len(u) PROVE t[o + i] = u[i]
    <3>1. i \in 1 .. Len(w) /\ w[i] = u[i]
      BY <1>1
    <3> QED BY <1>2, <3>1 DEF held
  <2>3. ASSUME NEW i \in 1 .. Len(v) PROVE t[(o + Len(u)) + i] = v[i]
    <3>1. Len(u) + i \in 1 .. Len(w) /\ w[Len(u) + i] = v[i]
      BY <1>1
    <3>2. o + (Len(u) + i) = (o + Len(u)) + i
      BY <1>1
    <3>3. t[o + (Len(u) + i)] = w[Len(u) + i]
      BY <1>2, <3>1 DEF held
    <3> QED BY <3>1, <3>2, <3>3
  <2> QED BY <2>1, <2>2, <2>3 DEF held
<1>3. ASSUME held(t, o, u), held(t, o + Len(u), v) PROVE held(t, o, w)
  <2>1. o + Len(w) <= Len(t)
    <3>1. (o + Len(u)) + Len(v) <= Len(t)
      BY <1>3 DEF held
    <3> QED BY <1>1, <3>1
  <2>2. ASSUME NEW i \in 1 .. Len(w) PROVE t[o + i] = w[i]
    <3>1. CASE i <= Len(u)
      <4>1. i \in 1 .. Len(u)
        BY <1>1, <3>1
      <4> QED BY <1>1, <1>3, <4>1 DEF held
    <3>2. CASE ~ (i <= Len(u))
      <4> DEFINE j == i - Len(u)
      <4>1. j \in 1 .. Len(v) /\ Len(u) + j = i /\ (o + Len(u)) + j = o + i
        BY <1>1, <3>2
      <4> HIDE DEF j
      <4>2. w[Len(u) + j] = v[j] /\ t[(o + Len(u)) + j] = v[j]
        BY <1>1, <1>3, <4>1 DEF held
      <4> QED BY <4>1, <4>2
    <3> QED BY <3>1, <3>2
  <2> QED BY <2>1, <2>2 DEF held
<1> QED BY <1>2, <1>3 DEF w

LEMMA HeldIn ==
  ASSUME NEW t \in Text, NEW o \in Nat, NEW w \in Text, held(t, o, w),
         NEW p \in Nat, NEW v \in Text, held(w, p, v)
  PROVE  held(t, o + p, v)
<1>1. Len(t) \in Nat /\ Len(w) \in Nat /\ Len(v) \in Nat
  BY DEF Text
<1>2. o + Len(w) <= Len(t) /\ p + Len(v) <= Len(w)
  BY DEF held
<1>3. (o + p) + Len(v) <= Len(t)
  BY <1>1, <1>2
<1>4. ASSUME NEW i \in 1 .. Len(v) PROVE t[(o + p) + i] = v[i]
  <2>1. p + i \in 1 .. Len(w) /\ o + (p + i) = (o + p) + i
    BY <1>1, <1>2
  <2>2. w[p + i] = v[i] /\ t[o + (p + i)] = w[p + i]
    BY <2>1 DEF held
  <2> QED BY <2>1, <2>2
<1> QED BY <1>3, <1>4 DEF held

LEMMA HeldAll ==
  ASSUME NEW t \in Text
  PROVE  held(t, 0, t)
BY DEF held, Text

LEMMA HeldFirst ==
  ASSUME NEW t \in Text, NEW o \in Nat, NEW w \in Text, held(t, o, w), w # <<>>
  PROVE  /\ o + 1 \in 1 .. Len(t) /\ o + 1 \in 1 .. Len(t) + 1 /\ 1 \in 1 .. Len(w)
         /\ t[o + 1] = w[1] /\ at(t, o + 1) = w[1]
<1>1. Len(t) \in Nat /\ Len(w) \in Nat /\ Len(w) # 0
  BY DEF Text
<1>2. o + Len(w) <= Len(t)
  BY DEF held
<1>3. 1 \in 1 .. Len(w) /\ o + 1 \in 1 .. Len(t) /\ o + 1 \in 1 .. Len(t) + 1 /\ o + 1 <= Len(t)
  BY <1>1, <1>2
<1>4. t[o + 1] = w[1]
  BY <1>3 DEF held
<1> QED BY <1>3, <1>4 DEF at

LEMMA HeldPart ==
  ASSUME NEW t \in Text, NEW o \in Nat, NEW w \in Text, held(t, o, w)
  PROVE  SubSeq(t, o + 1, o + Len(w)) = w
<1>1. Len(t) \in Nat /\ Len(w) \in Nat /\ o + Len(w) <= Len(t)
  BY DEF Text, held
<1>2. \A i \in 1 .. Len(w) : t[o + i] = w[i]
  BY DEF held
<1> DEFINE u == SubSeq(t, o + 1, o + Len(w))
<1>3. u \in Seq(Token) /\ w \in Seq(Token) /\ Len(u) = Len(w)
  BY <1>1 DEF Text
<1>4. ASSUME NEW i \in 1 .. Len(w) PROVE u[i] = w[i]
  <2>1. u[i] = t[(o + 1) + i - 1]
    BY <1>1 DEF Text
  <2>2. (o + 1) + i - 1 = o + i
    OBVIOUS
  <2> QED BY <1>2, <2>1, <2>2
<1> HIDE DEF u
<1>5. u = w
  BY <1>3, <1>4
<1> QED BY <1>5 DEF u

\* The values, which are passed whole wherever they stand.
Whole ==
  {w \in Text : /\ w # <<>> /\ w[1] \notin {"}", "]"}
                /\ \A t \in Text, o \in Nat :
                     stands(t, o, w) => skip_json_value(t, o + 1) = o + Len(w) + 1}

one(c) == <<c>>

LEMMA OneIs ==
  ASSUME NEW c \in Token
  PROVE  one(c) \in Text /\ Len(one(c)) = 1 /\ one(c)[1] = c /\ one(c) # <<>>
BY DEF one, Text

LEMMA AtomWhole ==
  ASSUME NEW c \in String \cup {"n"}
  PROVE  one(c) \in Whole
<1>1. c \in Token /\ c \notin {"}", "]"}
  <2>1. c \in String => c \notin {"}", "]"}
    BY Tokens
  <2> QED BY <2>1 DEF Token
<1>2. one(c) \in Text /\ Len(one(c)) = 1 /\ one(c)[1] = c /\ one(c) # <<>>
  BY <1>1, OneIs
<1>3. ASSUME NEW t \in Text, NEW o \in Nat, stands(t, o, one(c))
      PROVE  skip_json_value(t, o + 1) = o + Len(one(c)) + 1
  <2> DEFINE s == SubSeq(t, 1, o)
             u == grown(s, c)
  <2>1. Len(t) \in Nat /\ o + 1 <= Len(t) /\ t[o + 1] = c
    <3>1. held(t, o, one(c))
      BY <1>3 DEF stands
    <3>2. t[o + 1] = c /\ o + 1 \in 1 .. Len(t)
      BY <1>2, <3>1, HeldFirst
    <3> QED BY <3>2 DEF Text
  <2>2. s \in Text /\ Len(s) = o /\ \A i \in 1 .. o : s[i] = t[i]
    BY <2>1 DEF Text
  <2> HIDE DEF s
  <2>3. u \in Text /\ Len(u) = o + 1 /\ u[o + 1] = c /\ \A i \in 1 .. o : u[i] = s[i]
    BY <1>1, <2>2, Grown
  <2>4. t \in extensions(u)
    <3> HIDE DEF u
    <3>1. \A i \in 1 .. Len(u) : t[i] = u[i]
      <4>1. \A i \in 1 .. o + 1 : i = o + 1 \/ i \in 1 .. o
        OBVIOUS
      <4> QED BY <2>1, <2>2, <2>3, <4>1
    <3>2. Len(u) <= Len(t)
      BY <2>1, <2>3
    <3>3. Len(u) < Len(t) => t[Len(u) + 1] \in delimiters
      <4>1. followed(t, o + 1 + 1)
        BY <1>2, <1>3 DEF stands
      <4>2. o + 1 < Len(t) => o + 1 + 1 # Len(t) + 1
        BY <2>1
      <4> QED BY <2>3, <4>1, <4>2 DEF followed
    <3> QED BY <3>1, <3>2, <3>3 DEF extensions
  <2>5. skip_json_value(t, Len(s) + 1) = Len(s) + 2
    BY <2>2, <2>4, AtomEnds DEF u
  <2>6. o + Len(one(c)) + 1 = o + 2
    BY <1>2
  <2> QED BY <2>2, <2>5, <2>6
<1> QED BY <1>1, <1>2, <1>3 DEF Whole

-----------------------------------------------------------------------------
\* Objects and arrays.
opening(m) == IF m = "object" THEN "{" ELSE "["

LEMMA Brackets ==
  ASSUME NEW m \in Loop
  PROVE  /\ closing(m) \in Token /\ opening(m) \in Token
         /\ closing(m) \in delimiters /\ closing(m) # "," /\ closing(m) \in {"}", "]"}
         /\ opening(m) \notin {"}", "]"} /\ opening(m) \notin String /\ closing(m) # "end"
BY Tokens DEF closing, opening, Token, delimiters

LEMMA Follows ==
  ASSUME NEW t \in Text, NEW p \in 1 .. Len(t), t[p] \in delimiters
  PROVE  followed(t, p) /\ at(t, p) = t[p]
BY DEF followed, at, Text

\* The texts that a turn of a loop goes by.
Passed(m) ==
  {w \in Text : /\ w # <<>> /\ w[1] # closing(m)
                /\ \A t \in Text, o \in Nat :
                     stands(t, o, w) => goes_by(t, m, o + 1, o + Len(w) + 1)}

LEMMA WholePassed ==
  Whole \subseteq Passed("array")
<1> SUFFICES ASSUME NEW w \in Whole PROVE w \in Passed("array")
  OBVIOUS
<1>1. w \in Text /\ w # <<>> /\ w[1] # closing("array") /\ "array" \in Loop
  BY DEF Whole, closing, Loop
<1>2. ASSUME NEW t \in Text, NEW o \in Nat, stands(t, o, w)
      PROVE  goes_by(t, "array", o + 1, o + Len(w) + 1)
  <2>1. o + 1 \in 1 .. Len(t) /\ o + 1 \in 1 .. Len(t) + 1 /\ t[o + 1] = w[1]
    BY <1>1, <1>2, HeldFirst DEF stands
  <2>2. skip_json_value(t, o + 1) = o + Len(w) + 1
    BY <1>2 DEF Whole
  <2>3. leads(t, "array", o + 1, o + 1)
    BY DEF leads
  <2>4. o + Len(w) + 1 # endless
    BY <1>1 DEF endless, Text
  <2> QED BY <1>1, <2>1, <2>2, <2>3, <2>4, LoopPasses
<1> QED BY <1>1, <1>2 DEF Passed

\* A member: a name, a colon and a value.
pair(n, v) == <<n, ":">> \o v

LEMMA PairIs ==
  ASSUME NEW n \in String, NEW v \in Text
  PROVE  /\ pair(n, v) \in Text /\ Len(v) \in Nat /\ Len(pair(n, v)) = Len(v) + 2
         /\ pair(n, v)[1] = n /\ pair(n, v)[2] = ":" /\ held(pair(n, v), 2, v)
         /\ pair(n, v) # <<>>
<1>1. ASSUME NEW c \in Token, NEW d \in Token
      PROVE  /\ <<c, d>> \o v \in Text /\ Len(v) \in Nat /\ Len(<<c, d>> \o v) = Len(v) + 2
             /\ (<<c, d>> \o v)[1] = c /\ (<<c, d>> \o v)[2] = d
             /\ \A i \in 1 .. Len(v) : (<<c, d>> \o v)[2 + i] = v[i]
             /\ <<c, d>> \o v # <<>>
  BY DEF Text
<1>2. n \in Token /\ ":" \in Token
  BY DEF Token
<1>3. /\ pair(n, v) \in Text /\ Len(v) \in Nat /\ Len(pair(n, v)) = Len(v) + 2
      /\ pair(n, v)[1] = n /\ pair(n, v)[2] = ":" /\ pair(n, v) # <<>>
      /\ \A i \in 1 .. Len(v) : pair(n, v)[2 + i] = v[i]
  BY <1>1, <1>2 DEF pair
<1>4. 2 + Len(v) <= Len(pair(n, v))
  BY <1>3
<1> QED BY <1>3, <1>4 DEF held

\* Where a member stands, its name, colon and value do.
pair_at(t, o, n, v) ==
  /\ o + 1 \in 1 .. Len(t) /\ o + 2 \in 1 .. Len(t) /\ o + 3 \in 1 .. Len(t)
  /\ t[o + 1] = n /\ held(t, o + 2, v) /\ t[o + 3] = v[1]
  /\ leads(t, "object", o + 1, o + 3)
  /\ skip_json_value(t, o + 3) = o + Len(pair(n, v)) + 1
  /\ o + Len(pair(n, v)) + 1 = o + 3 + Len(v)

LEMMA PairStands ==
  ASSUME NEW t \in Text, NEW o \in Nat, NEW n \in String, NEW v \in Whole, stands(t, o, pair(n, v))
  PROVE  pair_at(t, o, n, v) /\ t[o + 2] = ":"
<1> DEFINE w == pair(n, v)
<1>1. v \in Text /\ v # <<>>
  BY DEF Whole
<1>2. /\ w \in Text /\ Len(v) \in Nat /\ Len(w) = Len(v) + 2 /\ w[1] = n
      /\ held(w, 2, v) /\ w # <<>>
  BY <1>1, PairIs
<1>3. w[2] = ":"
  BY <1>1, PairIs
<1>4. held(t, o, w) /\ followed(t, o + Len(w) + 1)
  BY DEF stands
<1> HIDE DEF w
<1>5. o + 1 \in 1 .. Len(t) /\ t[o + 1] = n
  BY <1>2, <1>4, HeldFirst
<1>6. t[o + 2] = ":" /\ o + 2 \in 1 .. Len(t)
  <2>1. 2 \in 1 .. Len(w) /\ o + Len(w) <= Len(t) /\ Len(t) \in Nat
    BY <1>2, <1>4 DEF held, Text
  <2>2. o + 2 \in 1 .. Len(t)
    BY <1>2, <2>1
  <2>3. t[o + 2] = w[2]
    BY <1>4, <2>1 DEF held
  <2> QED BY <1>3, <2>2, <2>3
<1>7. held(t, o + 2, v) /\ o + 2 \in Nat
  BY <1>1, <1>2, <1>4, HeldIn
<1>8. (o + 2) + Len(v) + 1 = o + Len(w) + 1 /\ (o + 2) + 1 = o + 3 /\ (o + 1) + 1 = o + 2
      /\ (o + 1) + 2 = o + 3 /\ o + Len(w) + 1 = o + 3 + Len(v)
  BY <1>2
<1>9. skip_json_value(t, o + 3) = o + Len(w) + 1
  <2>1. stands(t, o + 2, v)
    BY <1>4, <1>7, <1>8 DEF stands
  <2>2. skip_json_value(t, (o + 2) + 1) = (o + 2) + Len(v) + 1
    BY <1>7, <2>1 DEF Whole
  <2> QED BY <1>8, <2>2
<1>10. o + 3 \in 1 .. Len(t) /\ t[o + 3] = v[1]
  <2>1. (o + 2) + 1 \in 1 .. Len(t) /\ t[(o + 2) + 1] = v[1]
    BY <1>1, <1>7, HeldFirst
  <2> QED BY <1>8, <2>1
<1>11. leads(t, "object", o + 1, o + 3)
  BY <1>5, <1>6, <1>8 DEF leads, named
<1> QED BY <1>5, <1>6, <1>7, <1>8, <1>9, <1>10, <1>11 DEF pair_at, w

LEMMA PairPassed ==
  ASSUME NEW n \in String, NEW v \in Whole
  PROVE  pair(n, v) \in Passed("object")
<1> DEFINE w == pair(n, v)
<1>1. v \in Text
  BY DEF Whole
<1>2. w \in Text /\ Len(w) \in Nat /\ w[1] = n /\ w # <<>>
  BY <1>1, PairIs
<1>3. w[1] # closing("object") /\ "object" \in Loop
  BY <1>2, Tokens DEF closing, Loop
<1>4. ASSUME NEW t \in Text, NEW o \in Nat, stands(t, o, w)
      PROVE  goes_by(t, "object", o + 1, o + Len(w) + 1)
  <2>1. /\ o + 1 \in 1 .. Len(t) /\ o + 3 \in 1 .. Len(t) /\ t[o + 1] = n
        /\ leads(t, "object", o + 1, o + 3) /\ skip_json_value(t, o + 3) = o + Len(w) + 1
    BY <1>4, PairStands DEF pair_at
  <2>2. o + 3 \in 1 .. Len(t) + 1
    BY <2>1 DEF Text
  <2>3. o + Len(w) + 1 # endless
    BY <1>2 DEF endless
  <2> QED BY <1>2, <1>3, <2>1, <2>2, <2>3, LoopPasses
<1> QED BY <1>2, <1>3, <1>4 DEF Passed, w

\* A turn of a loop that goes by a text, up to what is behind it.
passes(t, m, o, e) ==
  e \in 1 .. Len(t) => /\ t[e] = "," => loop_end(t, m, o + 1) = loop_end(t, m, e + 1)
                       /\ t[e] = closing(m) => loop_end(t, m, o + 1) = e + 1

LEMMA TurnPasses ==
  ASSUME NEW m \in Loop, NEW t \in Text, NEW o \in Nat, NEW w \in Passed(m), held(t, o, w)
  PROVE  passes(t, m, o, o + Len(w) + 1)
<1> DEFINE e == o + Len(w) + 1
<1> HIDE DEF e
<1> SUFFICES ASSUME e \in 1 .. Len(t)
             PROVE  /\ t[e] = "," => loop_end(t, m, o + 1) = loop_end(t, m, e + 1)
                    /\ t[e] = closing(m) => loop_end(t, m, o + 1) = e + 1
  BY DEF passes, e
<1>1. closing(m) \in delimiters /\ "," \in delimiters /\ closing(m) # ","
  BY Brackets DEF delimiters
<1>2. ASSUME t[e] \in delimiters PROVE at(t, e) = t[e] /\ goes_by(t, m, o + 1, e)
  <2>1. followed(t, e) /\ at(t, e) = t[e]
    BY <1>2, Follows
  <2>2. stands(t, o, w)
    BY <2>1 DEF stands, e
  <2> QED BY <2>1, <2>2 DEF Passed, e
<1>3. CASE t[e] = ","
  BY <1>1, <1>2, <1>3 DEF goes_by
<1>4. CASE t[e] = closing(m)
  BY <1>1, <1>2, <1>4 DEF goes_by
<1> QED BY <1>1, <1>3, <1>4

LEMMA PassedText ==
  ASSUME NEW m, NEW P \in Seq(Passed(m))
  PROVE  P \in Seq(Text) /\ listed(P) \in Text
<1>1. Passed(m) \subseteq Text
  BY DEF Passed
<1>2. P \in Seq(Text)
  BY <1>1
<1> QED BY <1>2, ListedType

\* Where the first of the texts that are listed stands, and the others.
first_held(t, o, w, P, c) ==
  /\ held(t, o, w)
  /\ P = <<>> => held(t, o + Len(w), c) /\ Len(listed(front(w, P))) = Len(w)
  /\ P # <<>> => /\ o + Len(w) + 1 \in 1 .. Len(t) /\ t[o + Len(w) + 1] = ","
                 /\ held(t, o + Len(w) + 1, cat(listed(P), c))
                 /\ Len(listed(front(w, P))) = Len(w) + 1 + Len(listed(P))

LEMMA ListedHeld ==
  ASSUME NEW t \in Text, NEW o \in Nat, NEW w \in Text, NEW P \in Seq(Text), NEW c \in Text,
         held(t, o, cat(listed(front(w, P)), c))
  PROVE  first_held(t, o, w, P, c)
<1> DEFINE l == listed(P)
           lc == cat(l, c)
           cl == cat(comma, l)
           e == o + Len(w)
<1>1. l \in Text /\ Len(l) \in Nat /\ Len(w) \in Nat
  <2>1. l \in Text
    BY ListedType
  <2> QED BY <2>1 DEF Text
<1>2. CASE P = <<>>
  <2>1. listed(front(w, P)) = w
    BY <1>2, ListedFront
  <2>2. held(t, o, w) /\ held(t, o + Len(w), c)
    BY <2>1, HeldCat
  <2> QED BY <1>2, <2>1, <2>2 DEF first_held
<1>3. CASE P # <<>>
  <2>1. listed(front(w, P)) = cat(w, cl)
    BY <1>3, ListedFront
  <2> HIDE DEF l
  <2>2. cl \in Text /\ Len(cl) = Len(comma) + Len(l) /\ lc \in Text /\ comma \in Text
    BY <1>1, CommaLen, CatLen
  <2>3. Len(cat(w, cl)) = Len(w) + Len(cl)
    BY <2>2, CatLen
  <2>4. cat(cat(w, cl), c) = cat(w, cat(comma, lc))
    <3>1. w \in Seq(Token) /\ cl \in Seq(Token) /\ c \in Seq(Token)
          /\ comma \in Seq(Token) /\ l \in Seq(Token)
      BY <1>1, <2>2 DEF Text
    <3>2. cat(cl, c) = cat(comma, lc)
      BY <3>1, CatCat
    <3> HIDE DEF cl, lc
    <3>3. cat(cat(w, cl), c) = cat(w, cat(cl, c))
      BY <3>1, CatCat
    <3> QED BY <3>2, <3>3
  <2>5. cat(comma, lc) \in Text /\ e \in Nat
    <3>1. e \in Nat
      BY <1>1
    <3> HIDE DEF lc, e
    <3> QED BY <2>2, <3>1, CatLen
  <2> HIDE DEF cl, lc
  <2>6. held(t, o, w) /\ held(t, e, comma) /\ held(t, e + 1, lc)
    <3>1. held(t, o, cat(w, cat(comma, lc)))
      BY <2>1, <2>4
    <3>2. held(t, o, w) /\ held(t, e, cat(comma, lc))
      BY <2>5, <3>1, HeldCat
    <3> HIDE DEF e
    <3>3. held(t, e, comma) /\ held(t, e + Len(comma), lc)
      BY <2>2, <2>5, <3>2, HeldCat
    <3> QED BY <3>2, <3>3, CommaLen
  <2>7. e + 1 \in 1 .. Len(t) /\ t[e + 1] = ","
    <3> HIDE DEF e
    <3>1. comma # <<>> /\ comma[1] = ","
      BY CommaIs
    <3> QED BY <2>2, <2>5, <2>6, <3>1, HeldFirst
  <2>8. Len(listed(front(w, P))) = Len(w) + 1 + Len(l)
    <3>1. Len(listed(front(w, P))) = Len(w) + (Len(comma) + Len(l)) /\ Len(comma) = 1
      BY <2>1, <2>2, <2>3, CommaLen
    <3> QED BY ONLY <1>1, <3>1
  <2> QED BY <1>3, <2>6, <2>7, <2>8 DEF first_held, l, lc, e
<1> QED BY <1>2, <1>3

\* The loop over what is listed ends at the closing bracket.
LEMMA ListedLoop ==
  ASSUME NEW m \in Loop, NEW P \in Seq(Passed(m)), NEW t \in Text, NEW o \in Nat,
         held(t, o, cat(listed(P), one(closing(m))))
  PROVE  loop_end(t, m, o + 1) = o + Len(listed(P)) + 2
<1> DEFINE c == one(closing(m))
           S == {Q \in Seq(Passed(m)) : \A p \in Nat :
                   held(t, p, cat(listed(Q), c)) => loop_end(t, m, p + 1) = p + Len(listed(Q)) + 2}
<1>0. c \in Text /\ Len(c) = 1 /\ c[1] = closing(m) /\ c # <<>>
  BY Brackets, OneIs
<1> HIDE DEF c
<1>1. <<>> \in S
  <2>1. ASSUME NEW p \in Nat, held(t, p, cat(<<>>, c)) PROVE loop_end(t, m, p + 1) = p + 2
    <3>1. held(t, p, c)
      BY <1>0, <2>1, CatEmpty DEF Text
    <3>2. p + 1 \in 1 .. Len(t) /\ p + 1 \in 1 .. Len(t) + 1 /\ at(t, p + 1) = closing(m)
      BY <1>0, <3>1, HeldFirst
    <3>3. p + 1 # Len(t) + 1 /\ (p + 1) + 1 = p + 2
      BY <3>2 DEF Text
    <3> QED BY <3>2, <3>3, LoopEnds DEF loop_result
  <2>2. <<>> \in Seq(Passed(m)) /\ Len(<<>>) = 0
    OBVIOUS
  <2>3. \A p \in Nat : p + 0 + 2 = p + 2
    OBVIOUS
  <2> QED BY <2>1, <2>2, <2>3, ListedEmpty
<1>2. ASSUME NEW w \in Passed(m), NEW Q \in Seq(Passed(m)), Q \in S PROVE front(w, Q) \in S
  <2>1. w \in Text /\ Q \in Seq(Text) /\ Len(w) \in Nat /\ Len(listed(Q)) \in Nat
    <3>1. w \in Text /\ Q \in Seq(Text) /\ listed(Q) \in Text
      BY PassedText DEF Passed
    <3>2. Len(w) \in Nat /\ Len(listed(Q)) \in Nat
      BY <3>1 DEF Text
    <3> QED BY <3>1, <3>2
  <2>2. front(w, Q) \in Seq(Passed(m))
    BY FrontIs
  <2>3. ASSUME NEW p \in Nat, held(t, p, cat(listed(front(w, Q)), c))
        PROVE  loop_end(t, m, p + 1) = p + Len(listed(front(w, Q))) + 2
    <3> DEFINE e == p + Len(w) + 1
    <3>1. first_held(t, p, w, Q, c)
      BY <1>0, <2>1, <2>3, ListedHeld
    <3>2. held(t, p, w)
      BY <3>1 DEF first_held
    <3>3. passes(t, m, p, e)
      BY <3>2, TurnPasses
    <3>4. e \in Nat /\ p + Len(w) \in Nat /\ (p + Len(w)) + 1 = e
      BY <2>1
    <3>5. CASE Q = <<>>
      <4>1. held(t, p + Len(w), c) /\ Len(listed(front(w, Q))) = Len(w)
        BY <3>1, <3>5 DEF first_held
      <4>2. e \in 1 .. Len(t) /\ t[e] = closing(m)
        BY <1>0, <3>4, <4>1, HeldFirst
      <4>3. e + 1 = p + Len(w) + 2
        BY <2>1
      <4> HIDE DEF e
      <4>4. loop_end(t, m, p + 1) = e + 1
        BY <3>3, <4>2 DEF passes
      <4> QED BY <4>1, <4>3, <4>4
    <3>6. CASE Q # <<>>
      <4>1. /\ e \in 1 .. Len(t) /\ t[e] = "," /\ held(t, e, cat(listed(Q), c))
        BY <3>1, <3>6 DEF first_held
      <4>2. Len(listed(front(w, Q))) = Len(w) + 1 + Len(listed(Q))
        BY <3>1, <3>6 DEF first_held
      <4>3. e + Len(listed(Q)) + 2 = p + (Len(w) + 1 + Len(listed(Q))) + 2
        BY <2>1
      <4> HIDE DEF e
      <4>4. loop_end(t, m, p + 1) = loop_end(t, m, e + 1)
        BY <3>3, <4>1 DEF passes
      <4>5. loop_end(t, m, e + 1) = e + Len(listed(Q)) + 2
        BY <1>2, <3>4, <4>1
      <4> QED BY <4>2, <4>3, <4>4, <4>5
    <3> QED BY <3>5, <3>6
  <2> QED BY <2>2, <2>3
<1> HIDE DEF S
<1>3. Seq(Passed(m)) \subseteq S
  BY <1>1, <1>2, ByFront
<1>4. held(t, o, cat(listed(P), c))
  BY DEF c
<1> QED BY <1>3, <1>4 DEF S

enclosed(m, P) == cat(one(opening(m)), cat(listed(P), one(closing(m))))

LEMMA EnclosedIs ==
  ASSUME NEW m \in Loop, NEW P \in Seq(Text)
  PROVE  /\ enclosed(m, P) \in Text /\ Len(listed(P)) \in Nat
         /\ Len(enclosed(m, P)) = Len(listed(P)) + 2
         /\ enclosed(m, P)[1] = opening(m) /\ enclosed(m, P) # <<>>
         /\ enclosed(m, P)[Len(listed(P)) + 2] = closing(m)
         /\ \A t \in Text, o \in Nat : held(t, o, enclosed(m, P)) =>
              held(t, o + 1, cat(listed(P), one(closing(m)))) /\ held(t, o, one(opening(m)))
<1> DEFINE a == one(opening(m))
           c == one(closing(m))
           l == listed(P)
           lc == cat(l, c)
<1>1. /\ a \in Text /\ Len(a) = 1 /\ a[1] = opening(m)
      /\ c \in Text /\ Len(c) = 1 /\ c[1] = closing(m) /\ l \in Text
  BY Brackets, OneIs, ListedType
<1>2. enclosed(m, P) = cat(a, lc)
  BY DEF enclosed
<1> HIDE DEF a, c, l
<1>3. lc \in Text /\ Len(l) \in Nat /\ Len(lc) = Len(l) + 1 /\ lc[Len(l) + 1] = closing(m)
  <2>1. lc \in Text /\ Len(l) \in Nat /\ Len(lc) = Len(l) + 1
    BY <1>1, CatLen
  <2>2. lc[Len(l) + 1] = c[(Len(l) + 1) - Len(l)]
    BY <1>1, <2>1, CatItem, SMTT(60)
  <2>3. (Len(l) + 1) - Len(l) = 1
    BY ONLY <2>1
  <2> QED BY <1>1, <2>1, <2>2, <2>3
<1> HIDE DEF lc
<1>4. /\ cat(a, lc) \in Text /\ Len(cat(a, lc)) = 1 + Len(lc) /\ cat(a, lc)[1] = opening(m)
      /\ cat(a, lc)[1 + (Len(l) + 1)] = closing(m)
  <2> DEFINE j == 1 + (Len(l) + 1)
  <2>1. /\ cat(a, lc) \in Text /\ Len(cat(a, lc)) = 1 + Len(lc) /\ cat(a, lc)[1] = opening(m)
    <3>1. cat(a, lc) \in Text /\ Len(cat(a, lc)) = Len(a) + Len(lc)
      BY <1>1, <1>3, CatLen
    <3>2. 1 \in 1 .. Len(a)
      BY <1>1
    <3>3. cat(a, lc)[1] = a[1]
      BY <1>1, <1>3, <3>2, CatText, ZenonT(90)
    <3> QED BY <1>1, <3>1, <3>3
  <2>2. j \in Nat /\ Len(a) < j /\ j <= Len(a) + Len(lc) /\ j - Len(a) = Len(l) + 1
    BY <1>1, <1>3
  <2> HIDE DEF j
  <2>3. cat(a, lc)[j] = lc[j - Len(a)]
    BY <1>1, <1>3, <2>2, CatItem
  <2> QED BY <1>3, <2>1, <2>2, <2>3 DEF j
<1>5. 1 + Len(lc) = Len(l) + 2 /\ 1 + (Len(l) + 1) = Len(l) + 2
  BY <1>3
<1>6. ASSUME NEW t \in Text, NEW o \in Nat, held(t, o, cat(a, lc))
      PROVE  held(t, o + 1, lc) /\ held(t, o, a)
  BY <1>1, <1>3, <1>6, HeldCat
<1>7. cat(a, lc) # <<>>
  BY <1>3, <1>4
<1> QED BY <1>2, <1>3, <1>4, <1>5, <1>6, <1>7 DEF a, c, l, lc

\* An object or array of such texts is passed whole.
LEMMA EnclosedWhole ==
  ASSUME NEW m \in Loop, NEW P \in Seq(Passed(m))
  PROVE  enclosed(m, P) \in Whole
<1> DEFINE w == enclosed(m, P)
<1>0. P \in Seq(Text)
  BY PassedText
<1>1. /\ w \in Text /\ Len(listed(P)) \in Nat /\ Len(w) = Len(listed(P)) + 2
      /\ w[1] = opening(m) /\ w # <<>>
      /\ \A t \in Text, o \in Nat : held(t, o, w) =>
              held(t, o + 1, cat(listed(P), one(closing(m)))) /\ held(t, o, one(opening(m)))
  BY <1>0, EnclosedIs
<1> HIDE DEF w
<1>2. w[1] \notin {"}", "]"}
  BY <1>1, Brackets
<1>3. ASSUME NEW t \in Text, NEW o \in Nat, stands(t, o, w)
      PROVE  skip_json_value(t, o + 1) = o + Len(w) + 1
  <2>1. held(t, o, w) /\ held(t, o + 1, cat(listed(P), one(closing(m))))
    BY <1>1, <1>3 DEF stands
  <2>2. o + 1 \in 1 .. Len(t) + 1 /\ at(t, o + 1) = opening(m)
    BY <1>1, <2>1, HeldFirst
  <2>3. skip_json_value(t, o + 1) = loop_end(t, m, (o + 1) + 1)
    BY <2>2, ValueEnds DEF opening, Loop
  <2>4. loop_end(t, m, (o + 1) + 1) = (o + 1) + Len(listed(P)) + 2
    <3>1. o + 1 \in Nat
      OBVIOUS
    <3> QED BY <2>1, <3>1, ListedLoop
  <2>5. (o + 1) + Len(listed(P)) + 2 = o + Len(w) + 1
    BY ONLY <1>1, o \in Nat
  <2> QED BY <2>3, <2>4, <2>5
<1> QED BY <1>1, <1>2, <1>3 DEF w, Whole

-----------------------------------------------------------------------------
\* Where the texts that are listed stand.
upto(P, k) == SubSeq(P, 1, k)
offset(P, i) == Len(listed(upto(P, i - 1))) + (IF i = 1 THEN 0 ELSE 1)

LEMMA UptoIs ==
  ASSUME NEW A, NEW P \in Seq(A), NEW k \in 0 .. Len(P)
  PROVE  /\ upto(P, k) \in Seq(A) /\ Len(upto(P, k)) = k
         /\ \A i \in 1 .. k : upto(P, k)[i] = P[i]
BY DEF upto

LEMMA UptoBack ==
  ASSUME NEW A, NEW P \in Seq(A), NEW x \in A
  PROVE  /\ \A k \in 0 .. Len(P) : upto(back(P, x), k) = upto(P, k)
         /\ upto(P, Len(P)) = P
<1>1. upto(P, Len(P)) = P
  BY DEF upto
<1>2. ASSUME NEW k \in 0 .. Len(P) PROVE upto(back(P, x), k) = upto(P, k)
  BY DEF upto, back
<1> QED BY <1>1, <1>2

\* What stands in a text stands where that text stands.
LEMMA StandsIn ==
  ASSUME NEW t \in Text, NEW p \in Nat, NEW s \in Text, stands(t, p, s),
         NEW o \in Nat, NEW w \in Text, stands(s, o, w)
  PROVE  stands(t, p + o, w)
<1>1. held(t, p, s) /\ followed(t, p + Len(s) + 1) /\ held(s, o, w) /\ followed(s, o + Len(w) + 1)
  BY DEF stands
<1>2. held(t, p + o, w)
  BY <1>1, HeldIn
<1>3. Len(t) \in Nat /\ Len(s) \in Nat /\ Len(w) \in Nat /\ o + Len(w) <= Len(s)
  BY <1>1 DEF Text, held
<1> DEFINE e == o + Len(w) + 1
<1>4. e \in 1 .. Len(s) + 1 /\ (p + o) + Len(w) + 1 = p + e
  BY <1>3
<1>5. CASE e = Len(s) + 1
  <2>1. p + Len(s) + 1 = p + e
    BY <1>3, <1>5
  <2> QED BY <1>1, <1>2, <1>4, <2>1 DEF stands
<1>6. CASE e # Len(s) + 1
  <2>1. e \in 1 .. Len(s)
    BY <1>3, <1>4, <1>6
  <2>2. s[e] \in delimiters
    BY <1>1, <1>6 DEF followed
  <2> HIDE DEF e
  <2>3. t[p + e] = s[e]
    BY <1>1, <2>1 DEF held
  <2> QED BY <1>2, <1>4, <2>2, <2>3 DEF stands, followed
<1> QED BY <1>5, <1>6

\* A text stands before a delimiter, and at the end.
LEMMA StandsBefore ==
  ASSUME NEW u \in Text, NEW v \in Text, v # <<>>, v[1] \in delimiters
  PROVE  stands(cat(u, v), 0, u)
<1>1. cat(u, v) \in Text /\ Len(u) \in Nat
  BY CatLen
<1>2. held(cat(u, v), 0, u) /\ held(cat(u, v), 0 + Len(u), v)
  BY <1>1, HeldAll, HeldCat
<1>3. 0 + Len(u) = Len(u) /\ 0 + Len(u) + 1 = Len(u) + 1
  BY <1>1
<1>4. cat(u, v)[Len(u) + 1] = v[1]
  BY <1>1, <1>2, <1>3, HeldFirst
<1> QED BY <1>2, <1>3, <1>4 DEF stands, followed

LEMMA StandsBehind ==
  ASSUME NEW u \in Text, NEW v \in Text
  PROVE  stands(cat(u, v), Len(u), v)
<1>1. cat(u, v) \in Text /\ Len(u) \in Nat /\ Len(v) \in Nat /\ Len(cat(u, v)) = Len(u) + Len(v)
  BY CatLen
<1>2. held(cat(u, v), 0 + Len(u), v)
  BY <1>1, HeldAll, HeldCat
<1>3. 0 + Len(u) = Len(u)
  BY <1>1
<1>4. Len(u) + Len(v) + 1 = Len(cat(u, v)) + 1
  BY <1>1
<1> QED BY <1>2, <1>3, <1>4 DEF stands, followed

LEMMA StandsAll ==
  ASSUME NEW t \in Text
  PROVE  stands(t, 0, t)
<1>1. 0 + Len(t) + 1 = Len(t) + 1
  BY DEF Text
<1> QED BY <1>1, HeldAll DEF stands, followed

listed_at(P, i) == offset(P, i) \in Nat /\ stands(listed(P), offset(P, i), P[i])

LEMMA ListedItems ==
  ASSUME NEW P \in Seq(Text)
  PROVE  \A i \in 1 .. Len(P) : listed_at(P, i)
<1> DEFINE S == {Q \in Seq(Text) : \A i \in 1 .. Len(Q) : listed_at(Q, i)}
<1>1. <<>> \in S
  OBVIOUS
<1>2. ASSUME NEW x \in Text, NEW Q \in Seq(Text), Q \in S PROVE back(Q, x) \in S
  <2> DEFINE R == back(Q, x)
             n == Len(Q)
             l == listed(Q)
             cx == cat(comma, x)
  <2>1. /\ R \in Seq(Text) /\ n \in Nat /\ Len(R) = n + 1 /\ R[n + 1] = x
        /\ \A i \in 1 .. n : R[i] = Q[i]
    BY BackIs
  <2>2. \A i \in 1 .. n + 1 : offset(R, i) = offset(Q, i)
    <3>1. ASSUME NEW i \in 1 .. n + 1 PROVE upto(R, i - 1) = upto(Q, i - 1)
      <4>1. i - 1 \in 0 .. Len(Q)
        BY <2>1
      <4> QED BY <4>1, UptoBack
    <3> QED BY <3>1 DEF offset
  <2>3. offset(Q, n + 1) = Len(l) + (IF n = 0 THEN 0 ELSE 1)
    <3>1. (n + 1) - 1 = n /\ (n + 1 = 1 <=> n = 0)
      BY <2>1
    <3>2. upto(Q, n) = Q
      BY UptoBack
    <3> QED BY <3>1, <3>2 DEF offset
  <2>4. l \in Text /\ Len(l) \in Nat /\ cx \in Text
    <3>1. l \in Text
      BY ListedType
    <3>2. Len(l) \in Nat
      BY <3>1 DEF Text
    <3>3. cx \in Text
      BY CommaIs, CatLen
    <3> QED BY <3>1, <3>2, <3>3
  <2>5. CASE Q = <<>>
    <3>1. listed(R) = x /\ l = <<>> /\ n = 0
      BY <2>5, ListedBack, ListedEmpty
    <3>2. offset(R, 1) = 0
      <4>1. offset(Q, 0 + 1) = 0 + 0
        BY <2>3, <3>1
      <4> QED BY <2>2, <3>1, <4>1
    <3>3. stands(x, 0, x)
      BY StandsAll
    <3>4. R[1] = x /\ Len(R) = 1
      BY <2>1, <3>1
    <3> HIDE DEF R
    <3>5. \A i \in 1 .. Len(R) : i = 1
      BY <3>4
    <3>6. listed_at(R, 1)
      BY <3>1, <3>2, <3>3, <3>4 DEF listed_at
    <3> QED BY <2>1, <3>5, <3>6 DEF R
  <2>6. CASE Q # <<>>
    <3>1. listed(R) = cat(l, cx) /\ n # 0
      BY <2>6, ListedBack
    <3>2. cat(l, cx) \in Text
      BY <2>4, CatLen
    <3>3. stands(cat(l, cx), 0, l)
      <4>1. cx # <<>> /\ cx[1] = ","
        <5>1. 1 \in 1 .. Len(comma) /\ comma \in Text /\ Len(comma) = 1
          BY CommaLen
        <5>2. cx[1] = comma[1]
          BY <5>1, CatText
        <5>3. Len(cx) = 1 + Len(x) /\ Len(x) \in Nat
          BY <5>1, CatLen
        <5>4. Len(cx) # 0
          BY <5>3
        <5> HIDE DEF cx
        <5>5. cx # <<>>
          BY <5>4
        <5> QED BY <5>2, <5>5, CommaIs
      <4> HIDE DEF l, cx
      <4> QED BY <2>4, <4>1, StandsBefore DEF delimiters
    <3>4. ASSUME NEW i \in 1 .. n PROVE listed_at(R, i)
      <4>1. offset(Q, i) \in Nat /\ stands(l, offset(Q, i), Q[i]) /\ Q[i] \in Text
        BY <1>2 DEF listed_at
      <4>2. 0 + offset(Q, i) = offset(Q, i)
        BY <4>1
      <4>3. stands(cat(l, cx), 0 + offset(Q, i), Q[i])
        <5> HIDE DEF cx, l
        <5> QED BY <2>4, <3>2, <3>3, <4>1, StandsIn
      <4>4. i \in 1 .. n + 1 /\ R[i] = Q[i] /\ offset(R, i) = offset(Q, i)
        <5>1. i \in 1 .. n + 1
          BY <2>1
        <5> QED BY <2>1, <2>2, <5>1
      <4> HIDE DEF R, cx, l
      <4> QED BY <3>1, <4>1, <4>2, <4>3, <4>4 DEF listed_at
    <3>5. listed_at(R, n + 1)
      <4>1. offset(R, n + 1) = Len(l) + 1
        <5>1. n + 1 \in 1 .. n + 1
          BY <2>1
        <5> QED BY <2>2, <2>3, <3>1, <5>1
      <4>2. stands(cat(l, cx), Len(l), cx) /\ stands(cx, Len(comma), x)
        BY <2>4, CommaIs, StandsBehind
      <4>3. Len(comma) = 1 /\ Len(l) + 1 \in Nat
        BY <2>4, CommaLen
      <4> HIDE DEF l, cx
      <4>4. stands(cat(l, cx), Len(l) + 1, x)
        BY <2>4, <3>2, <4>2, <4>3, StandsIn
      <4> QED BY <2>1, <3>1, <4>1, <4>3, <4>4 DEF listed_at
    <3>6. \A i \in 1 .. Len(R) : i \in 1 .. n \/ i = n + 1
      BY <2>1
    <3> QED BY <2>1, <3>4, <3>5, <3>6
  <2> QED BY <2>5, <2>6
<1> HIDE DEF S
<1>3. Seq(Text) \subseteq S
  BY <1>1, <1>2, ByBack
<1> QED BY <1>3 DEF S

LEMMA EnclosedItems ==
  ASSUME NEW m \in Loop, NEW P \in Seq(Text), NEW i \in 1 .. Len(P)
  PROVE  offset(P, i) \in Nat /\ stands(enclosed(m, P), 1 + offset(P, i), P[i])
<1> DEFINE a == one(opening(m))
           c == one(closing(m))
           l == listed(P)
           lc == cat(l, c)
<1>1. a \in Text /\ Len(a) = 1 /\ c \in Text /\ c # <<>> /\ c[1] \in delimiters /\ l \in Text
  BY Brackets, OneIs, ListedType
<1>2. enclosed(m, P) = cat(a, lc)
  BY DEF enclosed
<1>3. offset(P, i) \in Nat /\ stands(l, offset(P, i), P[i]) /\ P[i] \in Text
  BY ListedItems DEF listed_at
<1> HIDE DEF a, c, l
<1>4. lc \in Text /\ cat(a, lc) \in Text
  BY <1>1, CatLen
<1>5. stands(lc, 0, l)
  BY <1>1, StandsBefore
<1> HIDE DEF lc
<1>6. stands(cat(a, lc), 1, lc)
  BY <1>1, <1>4, StandsBehind
<1>7. stands(lc, 0 + offset(P, i), P[i])
  BY <1>1, <1>3, <1>4, <1>5, StandsIn
<1>8. 0 + offset(P, i) = offset(P, i)
  BY <1>3
<1>9. stands(cat(a, lc), 1 + offset(P, i), P[i])
  BY <1>3, <1>4, <1>6, <1>7, <1>8, StandsIn
<1> QED BY <1>2, <1>3, <1>9

-----------------------------------------------------------------------------
\* The value of a member, as it is found.
Member == [name : String, value : Whole]
pieces(M) == [i \in DOMAIN M |-> pair(M[i].name, M[i].value)]
distinct(M) == \A i, j \in DOMAIN M : M[i].name = M[j].name => i = j

LEMMA Pieces ==
  ASSUME NEW M \in Seq(Member)
  PROVE  /\ pieces(M) \in Seq(Passed("object")) /\ pieces(M) \in Seq(Text)
         /\ Len(pieces(M)) = Len(M)
         /\ \A i \in 1 .. Len(M) : pieces(M)[i] = pair(M[i].name, M[i].value)
<1>1. DOMAIN M = 1 .. Len(M) /\ Len(M) \in Nat /\ \A i \in 1 .. Len(M) : M[i] \in Member
  OBVIOUS
<1>2. \A i \in 1 .. Len(M) : pair(M[i].name, M[i].value) \in Passed("object")
  <2>1. \A x \in Member : x.name \in String /\ x.value \in Whole
    BY DEF Member
  <2> QED BY <1>1, <2>1, PairPassed
<1>3. pieces(M) = [i \in 1 .. Len(M) |-> pair(M[i].name, M[i].value)]
  BY <1>1 DEF pieces
<1>4. pieces(M) \in Seq(Passed("object")) /\ Len(pieces(M)) = Len(M)
  BY <1>1, <1>2, <1>3
<1> QED BY <1>3, <1>4, PassedText

LEMMA ObjectIs ==
  ASSUME NEW M \in Seq(Member)
  PROVE  object(M) = enclosed("object", pieces(M))
<1> DEFINE a == one(opening("object"))
           c == one(closing("object"))
           l == listed(pieces(M))
<1>1. opening("object") = "{" /\ closing("object") = "}"
  BY DEF opening, closing
<1>2. object(M) = cat(cat(a, l), c)
  BY <1>1 DEF object, pieces, pair, cat, one
<1>3. a \in Seq(Token) /\ c \in Seq(Token) /\ l \in Seq(Token)
  <2>1. "object" \in Loop
    BY DEF Loop
  <2>2. opening("object") \in Token /\ closing("object") \in Token
    BY <2>1, Brackets
  <2>3. l \in Text
    BY Pieces, ListedType
  <2> QED BY <2>2, <2>3, OneIs DEF Text
<1> HIDE DEF a, c, l
<1>4. cat(cat(a, l), c) = cat(a, cat(l, c))
  BY <1>3, CatCat
<1> QED BY <1>2, <1>4 DEF a, c, l, enclosed

LEMMA ArrayIs ==
  ASSUME NEW P \in Seq(Text)
  PROVE  array(P) = enclosed("array", P)
<1> DEFINE a == one(opening("array"))
           c == one(closing("array"))
           l == listed(P)
<1>1. opening("array") = "[" /\ closing("array") = "]"
  BY DEF opening, closing
<1>2. array(P) = cat(cat(a, l), c)
  BY <1>1 DEF array, cat, one
<1>3. a \in Seq(Token) /\ c \in Seq(Token) /\ l \in Seq(Token)
  <2>1. "array" \in Loop
    BY DEF Loop
  <2>2. opening("array") \in Token /\ closing("array") \in Token
    BY <2>1, Brackets
  <2>3. l \in Text
    BY ListedType
  <2> QED BY <2>2, <2>3, OneIs DEF Text
<1> HIDE DEF a, c, l
<1>4. cat(cat(a, l), c) = cat(a, cat(l, c))
  BY <1>3, CatCat
<1> QED BY <1>2, <1>4 DEF a, c, l, enclosed

LEMMA ObjectWhole ==
  ASSUME NEW M \in Seq(Member)
  PROVE  object(M) \in Whole /\ object(M) \in Text /\ object(M)[1] = "{"
<1>1. enclosed("object", pieces(M)) \in Whole
  BY Pieces, EnclosedWhole DEF Loop
<1>2. enclosed("object", pieces(M))[1] = opening("object")
  BY Pieces, EnclosedIs DEF Loop
<1> QED BY <1>1, <1>2, ObjectIs DEF Whole, opening

LEMMA NameAt ==
  ASSUME NEW M \in Seq(Member), NEW i \in 1 .. Len(M)
  PROVE  /\ offset(pieces(M), i) \in Nat
         /\ name_at(M, i) = 1 + offset(pieces(M), i) + 1
         /\ stands(object(M), 1 + offset(pieces(M), i), pair(M[i].name, M[i].value))
<1> DEFINE N == upto(M, i - 1)
           k == i - 1
<1>1. k \in 0 .. Len(M) /\ Len(M) \in Nat
  OBVIOUS
<1>2. N \in Seq(Member) /\ Len(N) = k /\ \A j \in 1 .. k : N[j] = M[j]
  BY <1>1, UptoIs
<1>3. pieces(N) = upto(pieces(M), k)
  <2>1. /\ pieces(N) \in Seq(Text) /\ Len(pieces(N)) = k
        /\ \A j \in 1 .. k : pieces(N)[j] = pair(N[j].name, N[j].value)
    <3> HIDE DEF N, k
    <3> QED BY <1>2, Pieces
  <2>2. /\ pieces(M) \in Seq(Text) /\ Len(pieces(M)) = Len(M)
        /\ \A j \in 1 .. Len(M) : pieces(M)[j] = pair(M[j].name, M[j].value)
    BY Pieces
  <2> HIDE DEF N, k
  <2>3. /\ upto(pieces(M), k) \in Seq(Text) /\ Len(upto(pieces(M), k)) = k
        /\ \A j \in 1 .. k : upto(pieces(M), k)[j] = pieces(M)[j]
    BY <1>1, <2>2, UptoIs
  <2>4. \A j \in 1 .. k : pieces(N)[j] = upto(pieces(M), k)[j]
    <3>1. \A j \in 1 .. k : j \in 1 .. Len(M)
      BY <1>1
    <3> QED BY <1>2, <2>1, <2>2, <2>3, <3>1
  <2> QED BY <2>1, <2>3, <2>4
<1> DEFINE b == IF i = 1 THEN 0 ELSE 1
           l == Len(listed(pieces(N)))
<1>4. Len(object(N)) = l + 2 /\ l \in Nat
  <2>1. pieces(N) \in Seq(Text)
    <3> HIDE DEF N, k
    <3> QED BY <1>2, Pieces
  <2> HIDE DEF N, k
  <2> QED BY <1>2, <2>1, EnclosedIs, ObjectIs DEF Loop
<1>5. name_at(M, i) = Len(object(N)) + b
  BY DEF name_at, upto
<1>6. offset(pieces(M), i) = l + b
  BY <1>3 DEF offset
<1>7. b \in Nat
  OBVIOUS
<1> HIDE DEF b, l
<1>8. name_at(M, i) = 1 + offset(pieces(M), i) + 1 /\ offset(pieces(M), i) \in Nat
  BY ONLY <1>4, <1>5, <1>6, <1>7
<1>9. stands(enclosed("object", pieces(M)), 1 + offset(pieces(M), i), pieces(M)[i])
  BY Pieces, EnclosedItems DEF Loop
<1> QED BY <1>8, <1>9, ObjectIs, Pieces

\* The key whose first place is that of the name of a value finds the value.
found_as(t, key, v) ==
  /\ extract_json_value(t, key) # nowhere
  /\ part(t, extract_json_value(t, key)) = v
  /\ t[extract_json_value(t, key).begin] = v[1]

LEMMA KeyFound ==
  ASSUME NEW t \in Text, NEW o \in Nat, NEW n \in String, NEW v \in Whole,
         stands(t, o, pair(n, v)), \A j \in 1 .. Len(t) : t[j] = n => o + 1 <= j
  PROVE  found_as(t, n, v)
<1> DEFINE i == o + 1
           c == o + 2
           b == o + 3
           e == skip_json_value(t, b)
<1>1. v \in Text /\ Len(v) \in Nat /\ Len(v) # 0 /\ Len(t) \in Nat
  <2>1. v \in Text /\ v # <<>>
    BY DEF Whole
  <2> QED BY <2>1 DEF Text
<1>2. pair_at(t, o, n, v) /\ t[c] = ":"
  BY PairStands
<1>3. i \in 1 .. Len(t) /\ t[i] = n /\ c \in 1 .. Len(t)
  BY <1>2 DEF pair_at
<1>4. held(t, c, v) /\ t[b] = v[1] /\ e = b + Len(v)
  BY <1>2 DEF pair_at
<1>5. b = c + 1 /\ i + 1 = c /\ c \in Nat /\ b \in Nat
  OBVIOUS
<1>6. i = Min(found_from(t, n, 1)) /\ found_from(t, n, 1) # {}
  <2> DEFINE F == found_from(t, n, 1)
  <2>1. i \in F /\ F \subseteq Nat /\ \A y \in F : i <= y
    <3>1. \A y \in F : y \in 1 .. Len(t) /\ t[y] = n
      BY DEF found_from
    <3>2. i \in F
      BY <1>3 DEF found_from
    <3> HIDE DEF F
    <3>3. F \subseteq Nat
      BY <3>1
    <3> QED BY <3>1, <3>2, <3>3
  <2> HIDE DEF F
  <2>2. Min(F) \in F /\ \A y \in F : Min(F) <= y
    BY <2>1, Minimum
  <2>3. Min(F) \in Nat /\ Min(F) <= i /\ i <= Min(F)
    BY <2>1, <2>2
  <2>4. Min(F) = i
    BY ONLY <2>3, i \in Nat
  <2> QED BY <2>1, <2>4 DEF F
<1>7. c = Min(colons_from(t, i)) /\ colons_from(t, i) # {}
  <2> DEFINE F == colons_from(t, i)
  <2>1. c \in F /\ F \subseteq Nat /\ \A y \in F : c <= y
    <3>1. \A y \in F : y \in i + 1 .. Len(t)
      BY DEF colons_from
    <3>2. c \in F
      <4>1. c \in i + 1 .. Len(t)
        BY <1>3
      <4> HIDE DEF c, i
      <4> QED BY <1>2, <4>1 DEF colons_from
    <3> HIDE DEF F
    <3>3. \A y \in F : y \in Nat /\ c <= y
      BY <3>1
    <3> QED BY <3>2, <3>3
  <2> HIDE DEF F
  <2>2. Min(F) \in F /\ \A y \in F : Min(F) <= y
    BY <2>1, Minimum
  <2>3. Min(F) \in Nat /\ Min(F) <= c /\ c <= Min(F)
    BY <2>1, <2>2
  <2>4. Min(F) = c
    BY ONLY <2>3, c \in Nat
  <2> QED BY <2>1, <2>4 DEF F
<1>8. b < e /\ b \in Nat /\ e \in Nat /\ e - 1 = c + Len(v)
  <2> HIDE DEF e
  <2> QED BY <1>1, <1>4, <1>5
<1>9. SubSeq(t, c + 1, c + Len(v)) = v
  BY <1>1, <1>4, <1>5, HeldPart
<1> HIDE DEF i, b, c, e
<1>10. extract_json_value(t, n) = [begin |-> b, end |-> e]
  BY <1>5, <1>6, <1>7, <1>8, Extracted DEF e
<1> DEFINE r == extract_json_value(t, n)
<1>11. r.begin = b /\ r.end = e
  BY <1>10
<1>12. r # nowhere
  <2>1. nowhere.begin = 0 /\ b # 0
    BY <1>5 DEF nowhere
  <2> QED BY <1>11, <2>1
<1> HIDE DEF r
<1>13. part(t, r) = v
  BY <1>5, <1>8, <1>9, <1>11 DEF part
<1> QED BY <1>4, <1>11, <1>12, <1>13 DEF found_as, r

\* A member is found, whatever its value is, if first_found says so.
LEMMA MemberFound ==
  ASSUME NEW M \in Seq(Member), distinct(M), NEW i \in 1 .. Len(M), first_found(M, M[i].name)
  PROVE  found_as(object(M), M[i].name, M[i].value)
<1> DEFINE t == object(M)
           o == 1 + offset(pieces(M), i)
           n == M[i].name
<1>1. t \in Text /\ DOMAIN t = 1 .. Len(t) /\ DOMAIN M = 1 .. Len(M)
  <2>1. t \in Text
    BY ObjectWhole
  <2> HIDE DEF t
  <2> QED BY <2>1 DEF Text
<1>2. o \in Nat /\ name_at(M, i) = o + 1 /\ stands(t, o, pair(n, M[i].value))
  <2>1. offset(pieces(M), i) \in Nat
    BY NameAt
  <2>2. o \in Nat
    BY <2>1
  <2> QED BY <2>2, NameAt
<1>3. \A j \in 1 .. Len(t) : t[j] = n => o + 1 <= j
  BY <1>1, <1>2 DEF first_found, distinct
<1>4. n \in String /\ M[i].value \in Whole
  <2>1. M[i] \in Member
    OBVIOUS
  <2> QED BY <2>1 DEF Member
<1> HIDE DEF t, o, n
<1>5. found_as(t, n, M[i].value)
  BY <1>1, <1>2, <1>3, <1>4, KeyFound
<1> QED BY <1>5 DEF t, n

LEMMA MemberMissing ==
  ASSUME NEW M \in Seq(Member), NEW n, first_found(M, n), \A i \in 1 .. Len(M) : M[i].name # n
  PROVE  extract_json_value(object(M), n) = nowhere
<1> DEFINE t == object(M)
<1>1. t \in Text /\ DOMAIN t = 1 .. Len(t) /\ DOMAIN M = 1 .. Len(M)
  <2>1. t \in Text
    BY ObjectWhole
  <2> HIDE DEF t
  <2> QED BY <2>1 DEF Text
<1>2. \A j \in 1 .. Len(t) : t[j] # n
  BY <1>1 DEF first_found
<1> HIDE DEF t
<1>3. found_from(t, n, 1) = {}
  BY <1>2 DEF found_from
<1> QED BY <1>1, <1>3, Extracted DEF t

\* What is read of a value that is found.
LEMMA StringFound ==
  ASSUME NEW t, NEW key, NEW v, found_as(t, key, v)
  PROVE  extract_json_string(t, key) = IF Len(v) = 1 /\ v[1] \in String THEN v[1] ELSE nullopt
BY DEF found_as, extract_json_string

LEMMA PartFound ==
  ASSUME NEW t, NEW key, NEW v, found_as(t, key, v), NEW b
  PROVE  extract_json_part(t, key, b) = IF v[1] = b THEN v ELSE <<>>
BY DEF found_as, extract_json_part

LEMMA NothingFound ==
  ASSUME NEW t, NEW key, extract_json_value(t, key) = nowhere
  PROVE  extract_json_string(t, key) = nullopt /\ \A b : extract_json_part(t, key, b) = <<>>
BY DEF extract_json_string, extract_json_part

-----------------------------------------------------------------------------
\* Concatenation, from the front.
LEMMA FlattenFront ==
  ASSUME NEW A, NEW P \in Seq(Seq(A)), NEW x \in Seq(A)
  PROVE  FlattenSeq(front(x, P)) = cat(x, FlattenSeq(P))
<1> DEFINE S == {Q \in Seq(Seq(A)) : FlattenSeq(front(x, Q)) = cat(x, FlattenSeq(Q))}
           B == Seq(A)
<1>0. \A Q \in Seq(B), y \in B : FlattenSeq(back(Q, y)) = cat(FlattenSeq(Q), y)
  BY FlattenAppend DEF back, cat
<1>1. <<>> \in S
  <2>1. <<>> \in Seq(B) /\ <<>> \in Seq(A)
    OBVIOUS
  <2>2. FlattenSeq(back(<<>>, x)) = cat(<<>>, x)
    BY <1>0, <2>1, FlattenEmpty
  <2>3. cat(<<>>, x) = x /\ cat(x, <<>>) = x /\ front(x, <<>>) = back(<<>>, x)
    BY CatEmpty, FrontEmpty
  <2> QED BY <2>1, <2>2, <2>3, FlattenEmpty
<1>2. ASSUME NEW y \in B, NEW Q \in Seq(B), Q \in S PROVE back(Q, y) \in S
  <2>1. back(Q, y) \in Seq(B) /\ front(x, Q) \in Seq(B) /\ FlattenSeq(Q) \in Seq(A)
    BY BackIs, FrontIs, FlattenType
  <2>2. front(x, back(Q, y)) = back(front(x, Q), y)
    BY FrontBack
  <2>3. FlattenSeq(back(front(x, Q), y)) = cat(FlattenSeq(front(x, Q)), y)
    BY <1>0, <2>1
  <2>4. FlattenSeq(back(Q, y)) = cat(FlattenSeq(Q), y)
    BY <1>0
  <2>5. cat(cat(x, FlattenSeq(Q)), y) = cat(x, cat(FlattenSeq(Q), y))
    BY <2>1, CatCat
  <2>6. FlattenSeq(front(x, Q)) = cat(x, FlattenSeq(Q))
    BY <1>2
  <2> QED BY <2>1, <2>2, <2>3, <2>4, <2>5, <2>6
<1> HIDE DEF S, B
<1>3. Seq(B) \subseteq S
  BY <1>1, <1>2, ByBack
<1> QED BY <1>3 DEF S, B

-----------------------------------------------------------------------------
\* The elements of an array.
Spot(s) == {r \in [begin : Nat, end : Nat] : 1 <= r.begin /\ r.begin < r.end /\ r.end <= Len(s) + 1}

split_turn(s, f, p) ==
  LET end == skip_json_value(s, p) IN
  IF p >= Len(s) \/ at(s, p) = "]" THEN <<>>
  ELSE IF end <= p THEN <<>>
  ELSE <<[begin |-> p, end |-> end]>> \o f[comma_skipped(s, end)]

splitting(s) == CHOOSE f : f = [p \in 1..(Len(s) + 1) |-> split_turn(s, f, p)]

LEMMA SplitIs ==
  ASSUME NEW s
  PROVE  split_json_array_elements(s)
           = IF Len(s) < 2 \/ s[1] # "[" \/ s[Len(s)] # "]" THEN <<>> ELSE splitting(s)[2]
BY DEF split_json_array_elements, splitting, split_turn

spot(p, e) == [begin |-> p, end |-> e]

LEMMA CommaSkipped ==
  ASSUME NEW s \in Text, NEW e \in 1 .. Len(s) + 1
  PROVE  comma_skipped(s, e) \in e .. Len(s) + 1
<1>1. Len(s) \in Nat /\ e \in Nat /\ e <= Len(s) + 1
  BY DEF Text
<1>2. at(s, e) = "," => e # Len(s) + 1
  BY AtType
<1>3. CASE at(s, e) = ","
  <2>1. e # Len(s) + 1
    BY <1>2, <1>3
  <2>2. e + 1 \in e .. Len(s) + 1
    BY ONLY <1>1, <2>1
  <2> QED BY <1>3, <2>2 DEF comma_skipped
<1>4. CASE at(s, e) # ","
  <2>1. e \in e .. Len(s) + 1
    BY ONLY <1>1
  <2> QED BY <1>4, <2>1 DEF comma_skipped
<1> QED BY <1>3, <1>4

\* One turn: nothing, or a value and what follows it.
LEMMA SplitTurn ==
  ASSUME NEW s \in Text, NEW p \in 1 .. Len(s) + 1
  PROVE  \/ \A f : split_turn(s, f, p) = <<>>
         \/ \E e \in p + 1 .. Len(s) + 1 :
              /\ comma_skipped(s, e) \in p + 1 .. Len(s) + 1
              /\ \A f : split_turn(s, f, p) = front(spot(p, e), f[comma_skipped(s, e)])
<1> DEFINE e == skip_json_value(s, p)
<1>0. Len(s) \in Nat /\ p \in Nat
  BY DEF Text
<1>1. \A f : split_turn(s, f, p) = IF p >= Len(s) \/ at(s, p) = "]" THEN <<>>
                                  ELSE IF e <= p THEN <<>>
                                  ELSE front(spot(p, e), f[comma_skipped(s, e)])
  BY DEF split_turn, front, spot
<1>2. e \in ends(s, p)
  BY SkipRange
<1> HIDE DEF e
<1>3. CASE p >= Len(s) \/ at(s, p) = "]" \/ e <= p
  BY <1>1, <1>3
<1>4. CASE ~ (p >= Len(s) \/ at(s, p) = "]" \/ e <= p)
  <2>1. e \in p + 1 .. Len(s) + 1 /\ e \in 1 .. Len(s) + 1
    BY <1>0, <1>2, <1>4 DEF ends, endless
  <2>2. comma_skipped(s, e) \in p + 1 .. Len(s) + 1
    <3>1. comma_skipped(s, e) \in e .. Len(s) + 1
      BY <2>1, CommaSkipped
    <3> QED BY ONLY <1>0, <2>1, <3>1
  <2>3. \A f : split_turn(s, f, p) = front(spot(p, e), f[comma_skipped(s, e)])
    BY <1>1, <1>4
  <2> QED BY <2>1, <2>2, <2>3
<1> QED BY <1>3, <1>4

LEMMA SpotIs ==
  ASSUME NEW s \in Text, NEW p \in 1 .. Len(s) + 1, NEW e \in p + 1 .. Len(s) + 1
  PROVE  spot(p, e) \in Spot(s) /\ spot(p, e).begin = p /\ spot(p, e).end = e
<1>1. Len(s) \in Nat
  BY DEF Text
<1>2. p \in Nat /\ e \in Nat /\ 1 <= p /\ p < e /\ e <= Len(s) + 1
  BY <1>1
<1> QED BY <1>2 DEF spot, Spot

LEMMA Splitting ==
  ASSUME NEW s \in Text
  PROVE  \A p \in 1 .. Len(s) + 1 : /\ splitting(s)[p] = split_turn(s, splitting(s), p)
                                    /\ splitting(s)[p] \in Seq(Spot(s))
<1> DEFINE n == Len(s)
           I == 1 .. (n + 1)
           V == Seq(Spot(s))
           D == [g \in [I -> V] |-> [p \in I |-> split_turn(s, g, p)]]
<1>0. n \in Nat /\ <<>> \in V
  BY DEF Text
<1>1. ASSUME NEW p \in I, NEW j \in p + 1 .. n + 1 PROVE j \in I /\ j > p
  BY <1>0
<1>2. ASSUME NEW g \in [I -> V], NEW p \in I PROVE split_turn(s, g, p) \in V
  <2> HIDE DEF V
  <2>1. ASSUME NEW e \in p + 1 .. n + 1, comma_skipped(s, e) \in p + 1 .. n + 1
        PROVE  front(spot(p, e), g[comma_skipped(s, e)]) \in V
    <3>1. comma_skipped(s, e) \in I
      BY <1>1, <2>1
    <3>2. g[comma_skipped(s, e)] \in V
      <4> HIDE DEF I
      <4> QED BY <3>1
    <3>3. spot(p, e) \in Spot(s)
      BY SpotIs
    <3> QED BY <3>2, <3>3, FrontIs DEF V
  <2>2. \/ split_turn(s, g, p) = <<>>
        \/ \E e \in p + 1 .. n + 1 :
              /\ comma_skipped(s, e) \in p + 1 .. n + 1
              /\ split_turn(s, g, p) = front(spot(p, e), g[comma_skipped(s, e)])
    BY SplitTurn
  <2> QED BY <1>0, <2>1, <2>2
<1>3. ASSUME NEW g \in [I -> V], NEW h \in [I -> V], NEW p \in I,
             \A j \in I : j > p => g[j] = h[j]
      PROVE  split_turn(s, g, p) = split_turn(s, h, p)
  <2>1. ASSUME NEW e \in p + 1 .. n + 1, comma_skipped(s, e) \in p + 1 .. n + 1
        PROVE  g[comma_skipped(s, e)] = h[comma_skipped(s, e)]
    BY <1>1, <1>3, <2>1
  <2>2. \/ split_turn(s, g, p) = <<>> /\ split_turn(s, h, p) = <<>>
        \/ \E e \in p + 1 .. n + 1 :
              /\ comma_skipped(s, e) \in p + 1 .. n + 1
              /\ split_turn(s, g, p) = front(spot(p, e), g[comma_skipped(s, e)])
              /\ split_turn(s, h, p) = front(spot(p, e), h[comma_skipped(s, e)])
    BY SplitTurn
  <2> QED BY <2>1, <2>2
<1>4. PICK g \in [I -> V] : g = D[g]
  <2>1. D \in [[I -> V] -> [I -> V]]
    <3> HIDE DEF I, V
    <3> QED BY <1>2
  <2>2. ASSUME NEW g \in [I -> V], NEW h \in [I -> V], NEW p \in I,
               \A j \in I : j > p => g[j] = h[j]
        PROVE  D[g][p] = D[h][p]
    <3> HIDE DEF I, V
    <3> QED BY <1>3, <2>2
  <2>3. V # {}
    BY <1>0
  <2> HIDE DEF D, V, n
  <2>4. reads_on(n, V, D)
    BY <1>0, <2>1, <2>2, <2>3 DEF reads_on
  <2> QED BY <2>4, ReadingOn
<1>5. g = [p \in 1 .. (Len(s) + 1) |-> split_turn(s, g, p)]
  BY <1>4
<1>6. splitting(s) = [p \in 1 .. (Len(s) + 1) |-> split_turn(s, splitting(s), p)]
  BY <1>5 DEF splitting
<1> DEFINE f == splitting(s)
<1> HIDE DEF f
<1>7. \A p \in I : f[p] = split_turn(s, f, p)
  BY <1>6 DEF f
<1>8. \A p \in I : f[p] \in V
  <2> DEFINE T == {p \in I : f[p] \in V}
  <2>1. ASSUME NEW p \in 1 .. (n + 1), \A j \in 1 .. (n + 1) : j > p => j \in T PROVE p \in T
    <3> HIDE DEF V
    <3>1. ASSUME NEW e \in p + 1 .. n + 1, comma_skipped(s, e) \in p + 1 .. n + 1
          PROVE  front(spot(p, e), f[comma_skipped(s, e)]) \in V
      <4>1. f[comma_skipped(s, e)] \in V
        BY <1>1, <2>1, <3>1
      <4>2. spot(p, e) \in Spot(s)
        BY SpotIs
      <4> QED BY <4>1, <4>2, FrontIs DEF V
    <3>2. \/ f[p] = <<>>
          \/ \E e \in p + 1 .. n + 1 :
                /\ comma_skipped(s, e) \in p + 1 .. n + 1
                /\ f[p] = front(spot(p, e), f[comma_skipped(s, e)])
      BY <1>7, SplitTurn
    <3> QED BY <1>0, <3>1, <3>2
  <2> HIDE DEF T
  <2>2. \A p \in 1 .. (n + 1) : p \in T
    BY <1>0, <2>1, FromEnd
  <2> QED BY <2>2 DEF T
<1> QED BY <1>7, <1>8 DEF f

parts(s, f) == [i \in DOMAIN f |-> part(s, f[i])]

LEMMA ElementsAre ==
  ASSUME NEW s
  PROVE  elements(s) = parts(s, split_json_array_elements(s))
BY DEF elements, parts

LEMMA PartType ==
  ASSUME NEW s \in Text, NEW r \in Spot(s)
  PROVE  part(s, r) \in Text
<1>1. r.begin \in Nat /\ r.end \in Nat /\ 1 <= r.begin /\ r.end <= Len(s) + 1 /\ Len(s) \in Nat
  BY DEF Spot, Text
<1>2. \A b \in Nat, e \in Nat : 1 <= b /\ e <= Len(s) + 1 => SubSeq(s, b, e - 1) \in Text
  BY DEF Text
<1> QED BY <1>1, <1>2 DEF part

LEMMA PartsType ==
  ASSUME NEW s \in Text, NEW f \in Seq(Spot(s))
  PROVE  /\ parts(s, f) \in Seq(Text) /\ Len(parts(s, f)) = Len(f)
         /\ \A i \in 1 .. Len(f) : parts(s, f)[i] = part(s, f[i])
<1>1. DOMAIN f = 1 .. Len(f) /\ Len(f) \in Nat /\ \A i \in 1 .. Len(f) : f[i] \in Spot(s)
  OBVIOUS
<1>2. \A i \in 1 .. Len(f) : part(s, f[i]) \in Text
  BY <1>1, PartType
<1>3. parts(s, f) = [i \in 1 .. Len(f) |-> part(s, f[i])]
  BY <1>1 DEF parts
<1> QED BY <1>1, <1>2, <1>3

LEMMA PartsFront ==
  ASSUME NEW s \in Text, NEW f \in Seq(Spot(s)), NEW r \in Spot(s)
  PROVE  parts(s, front(r, f)) = front(part(s, r), parts(s, f))
<1> DEFINE g == front(r, f)
           P == parts(s, f)
           h == front(part(s, r), P)
<1>1. /\ g \in Seq(Spot(s)) /\ Len(f) \in Nat /\ Len(g) = Len(f) + 1 /\ g[1] = r
      /\ \A i \in 1 .. Len(f) : g[i + 1] = f[i]
  BY FrontIs
<1>2. P \in Seq(Text) /\ Len(P) = Len(f) /\ \A i \in 1 .. Len(f) : P[i] = part(s, f[i])
  BY PartsType
<1>3. part(s, r) \in Text
  BY PartType
<1> HIDE DEF P
<1>4. /\ h \in Seq(Text) /\ Len(h) = Len(P) + 1 /\ h[1] = part(s, r)
      /\ \A i \in 1 .. Len(P) : h[i + 1] = P[i]
  BY <1>2, <1>3, FrontIs
<1> HIDE DEF g, h
<1>5. /\ parts(s, g) \in Seq(Text) /\ Len(parts(s, g)) = Len(g)
      /\ \A i \in 1 .. Len(g) : parts(s, g)[i] = part(s, g[i])
  BY <1>1, PartsType
<1>6. ASSUME NEW i \in 1 .. Len(f) + 1 PROVE parts(s, g)[i] = h[i]
  <2>0. parts(s, g)[i] = part(s, g[i])
    BY <1>1, <1>5
  <2>1. CASE i = 1
    BY <1>1, <1>4, <2>0, <2>1
  <2>2. CASE i # 1
    <3> DEFINE j == i - 1
    <3>1. j \in 1 .. Len(f) /\ j + 1 = i
      BY <1>1, <2>2
    <3> HIDE DEF j
    <3>2. g[j + 1] = f[j] /\ h[j + 1] = P[j] /\ P[j] = part(s, f[j])
      BY <1>1, <1>2, <1>4, <3>1
    <3> QED BY <2>0, <3>1, <3>2
  <2> QED BY <2>1, <2>2
<1>7. parts(s, g) = h
  BY <1>1, <1>2, <1>4, <1>5, <1>6
<1> QED BY <1>7 DEF g, h, P

\* What is listed is split into what it was made of.
LEMMA SplitListed ==
  ASSUME NEW P \in Seq(Whole), NEW s \in Text, NEW o \in Nat,
         held(s, o, cat(listed(P), one(closing("array")))), o + Len(listed(P)) + 1 = Len(s)
  PROVE  parts(s, splitting(s)[o + 1]) = P
<1> DEFINE c == one(closing("array"))
           f == splitting(s)
           S == {Q \in Seq(Whole) : \A p \in Nat :
                   held(s, p, cat(listed(Q), c)) /\ p + Len(listed(Q)) + 1 = Len(s) =>
                     parts(s, f[p + 1]) = Q}
<1>0. c \in Text /\ Len(c) = 1 /\ c[1] = closing("array") /\ c # <<>> /\ Len(s) \in Nat
  <2>1. closing("array") \in Token
    BY Brackets DEF Loop
  <2>2. Len(s) \in Nat
    BY DEF Text
  <2> QED BY <2>1, <2>2, OneIs
<1>a. \A p \in 1 .. Len(s) + 1 : f[p] = split_turn(s, f, p) /\ f[p] \in Seq(Spot(s))
  BY Splitting
<1> HIDE DEF c, f
<1>b. parts(s, <<>>) = <<>>
  BY DEF parts
<1>1. <<>> \in S
  <2>1. ASSUME NEW p \in Nat, p + 0 + 1 = Len(s) PROVE parts(s, f[p + 1]) = <<>>
    <3>1. p + 1 \in 1 .. Len(s) + 1 /\ p + 1 >= Len(s)
      BY <1>0, <2>1
    <3>2. f[p + 1] = <<>>
      BY <1>a, <3>1 DEF split_turn
    <3> QED BY <1>b, <3>2
  <2>2. <<>> \in Seq(Whole) /\ Len(<<>>) = 0
    OBVIOUS
  <2> QED BY <2>1, <2>2, ListedEmpty
<1>2. ASSUME NEW w \in Whole, NEW Q \in Seq(Whole), Q \in S PROVE front(w, Q) \in S
  <2>1. w \in Text /\ w # <<>> /\ Q \in Seq(Text) /\ Len(w) \in Nat /\ Len(w) # 0
        /\ Len(listed(Q)) \in Nat
    <3>1. w \in Text /\ w # <<>> /\ Whole \subseteq Text
      BY DEF Whole
    <3>2. Q \in Seq(Text)
      BY <3>1
    <3>3. listed(Q) \in Text
      BY <3>2, ListedType
    <3>4. Len(w) \in Nat /\ Len(w) # 0 /\ Len(listed(Q)) \in Nat
      BY <3>1, <3>3 DEF Text
    <3> QED BY <3>1, <3>2, <3>4
  <2>2. front(w, Q) \in Seq(Whole)
    BY FrontIs
  <2>3. ASSUME NEW p \in Nat, held(s, p, cat(listed(front(w, Q)), c)),
               p + Len(listed(front(w, Q))) + 1 = Len(s)
        PROVE  parts(s, f[p + 1]) = front(w, Q)
    <3> DEFINE e == p + Len(w) + 1
               b == p + 1
    <3>1. first_held(s, p, w, Q, c)
      BY <1>0, <2>1, <2>3, ListedHeld
    <3>2. held(s, p, w)
      BY <3>1 DEF first_held
    <3>3. e \in Nat /\ p + Len(w) \in Nat /\ (p + Len(w)) + 1 = e /\ b < e /\ e - 1 = p + Len(w)
      BY <2>1
    <3>4. /\ Q = <<>> => e \in 1 .. Len(s) /\ s[e] = closing("array") /\ e = Len(s)
          /\ Q # <<>> => /\ e \in 1 .. Len(s) /\ s[e] = "," /\ held(s, e, cat(listed(Q), c))
                         /\ e + Len(listed(Q)) + 1 = Len(s) /\ e + 1 <= Len(s)
      <4>1. CASE Q = <<>>
        <5>1. held(s, p + Len(w), c) /\ Len(listed(front(w, Q))) = Len(w)
          BY <3>1, <4>1 DEF first_held
        <5>2. e \in 1 .. Len(s) /\ s[e] = closing("array")
          BY <1>0, <3>3, <5>1, HeldFirst
        <5>3. e = Len(s)
          BY <2>3, <5>1
        <5> QED BY <4>1, <5>2, <5>3
      <4>2. CASE Q # <<>>
        <5>1. e \in 1 .. Len(s) /\ s[e] = "," /\ held(s, e, cat(listed(Q), c))
          BY <3>1, <4>2 DEF first_held
        <5>2. Len(listed(front(w, Q))) = Len(w) + 1 + Len(listed(Q))
          BY <3>1, <4>2 DEF first_held
        <5>3. e + Len(listed(Q)) + 1 = Len(s) /\ e + 1 <= Len(s)
          BY <2>1, <2>3, <5>2, SMTT(60)
        <5> QED BY <4>2, <5>1, <5>3
      <4> QED BY <4>1, <4>2
    <3>5. e \in 1 .. Len(s) /\ s[e] \in delimiters
      <4>1. closing("array") \in delimiters /\ "," \in delimiters
        BY Brackets DEF Loop, delimiters
      <4> HIDE DEF e
      <4> QED BY <3>4, <4>1
    <3>6. b \in 1 .. Len(s) + 1 /\ ~ (b >= Len(s)) /\ b \in 1 .. Len(s)
      BY <1>0, <3>3, <3>5
    <3>7. at(s, b) # "]"
      <4>1. at(s, b) = w[1]
        BY <2>1, <3>2, HeldFirst
      <4> QED BY <4>1 DEF Whole
    <3>8. skip_json_value(s, b) = e
      <4>1. stands(s, p, w)
        BY <3>2, <3>5, Follows DEF stands
      <4> QED BY <4>1 DEF Whole
    <3>9. part(s, spot(b, e)) = w
      <4>1. SubSeq(s, p + 1, p + Len(w)) = w
        BY <2>1, <3>2, HeldPart
      <4>2. spot(b, e).begin = b /\ spot(b, e).end = e
        BY DEF spot
      <4> QED BY <3>3, <4>1, <4>2 DEF part
    <3>10. spot(b, e) \in Spot(s)
      <4>1. e \in b + 1 .. Len(s) + 1
        BY <1>0, <3>3, <3>5
      <4> QED BY <3>6, <4>1, SpotIs
    <3> HIDE DEF e, b
    <3>11. f[b] = front(spot(b, e), f[comma_skipped(s, e)])
      <4>1. ~ (e <= b)
        BY <3>3, <3>6
      <4>2. split_turn(s, f, b) = <<[begin |-> b, end |-> e]>> \o f[comma_skipped(s, e)]
        BY <3>6, <3>7, <3>8, <4>1 DEF split_turn
      <4> QED BY <1>a, <3>6, <4>2 DEF front, spot
    <3>12. f[comma_skipped(s, e)] \in Seq(Spot(s)) /\ parts(s, f[comma_skipped(s, e)]) = Q
      <4>1. at(s, e) = s[e]
        BY <3>5, Follows
      <4>2. CASE Q = <<>>
        <5>1. e = Len(s) /\ e \in 1 .. Len(s) + 1 /\ e >= Len(s)
          BY <1>0, <3>4, <4>2
        <5>2. at(s, e) # ","
          BY <3>4, <4>1, <4>2, Brackets DEF Loop
        <5>3. f[e] = <<>>
          BY <1>a, <5>1 DEF split_turn
        <5> QED BY <1>a, <1>b, <4>2, <5>1, <5>2, <5>3 DEF comma_skipped
      <4>3. CASE Q # <<>>
        <5>1. comma_skipped(s, e) = e + 1
          BY <3>4, <4>1, <4>3 DEF comma_skipped
        <5>2. e + 1 \in 1 .. Len(s) + 1
          <6>1. e + 1 <= Len(s)
            BY <3>4, <4>3
          <6> QED BY ONLY <1>0, <3>3, <6>1
        <5>3. parts(s, f[e + 1]) = Q
          BY <1>2, <3>3, <3>4, <4>3
        <5> QED BY <1>a, <5>1, <5>2, <5>3
      <4> QED BY <4>2, <4>3
    <3>13. parts(s, f[b]) = front(part(s, spot(b, e)), parts(s, f[comma_skipped(s, e)]))
      BY <3>10, <3>11, <3>12, PartsFront
    <3> QED BY <3>9, <3>12, <3>13 DEF b
  <2> QED BY <2>2, <2>3
<1> HIDE DEF S
<1>3. Seq(Whole) \subseteq S
  BY <1>1, <1>2, ByFront
<1> QED BY <1>3 DEF S, c, f

LEMMA ElementsOfArray ==
  ASSUME NEW P \in Seq(Whole)
  PROVE  elements(array(P)) = P
<1> DEFINE s == array(P)
           l == Len(listed(P))
<1>1. P \in Seq(Text)
  <2>1. Whole \subseteq Text
    BY DEF Whole
  <2> QED BY <2>1
<1>2. /\ s \in Text /\ l \in Nat /\ Len(s) = l + 2 /\ s[1] = opening("array")
      /\ s[l + 2] = closing("array")
      /\ \A t \in Text, o \in Nat : held(t, o, s) =>
           held(t, o + 1, cat(listed(P), one(closing("array"))))
  BY <1>1, ArrayIs, EnclosedIs DEF Loop
<1> HIDE DEF s, l
<1>3. held(s, 0 + 1, cat(listed(P), one(closing("array"))))
  BY <1>2, HeldAll
<1>4. 1 + l + 1 = Len(s) /\ ~ (Len(s) < 2) /\ 0 + 1 = 1 /\ 1 + 1 = 2
  BY <1>2
<1>5. parts(s, splitting(s)[2]) = P
  BY <1>2, <1>3, <1>4, SplitListed DEF l
<1>6. s[1] = "[" /\ s[Len(s)] = "]"
  BY <1>2 DEF opening, closing
<1> QED BY <1>4, <1>5, <1>6, ElementsAre, SplitIs DEF s

LEMMA ElementsType ==
  ASSUME NEW s \in Text
  PROVE  elements(s) \in Seq(Text)
<1> DEFINE f == split_json_array_elements(s)
<1>1. f \in Seq(Spot(s))
  <2>1. Len(s) \in Nat
    BY DEF Text
  <2>2. CASE Len(s) < 2 \/ s[1] # "[" \/ s[Len(s)] # "]"
    <3>1. f = <<>>
      BY <2>2, SplitIs
    <3>2. <<>> \in Seq(Spot(s))
      OBVIOUS
    <3> QED BY <3>1, <3>2
  <2>3. CASE ~ (Len(s) < 2 \/ s[1] # "[" \/ s[Len(s)] # "]")
    <3>1. 2 \in 1 .. Len(s) + 1
      BY <2>1, <2>3
    <3>2. f = splitting(s)[2]
      BY <2>3, SplitIs
    <3> QED BY <3>1, <3>2, Splitting
  <2> QED BY <2>2, <2>3
<1> HIDE DEF f
<1> QED BY <1>1, ElementsAre, PartsType DEF f

LEMMA ElementsOfNothing ==
  elements(<<>>) = <<>>
<1>1. Len(<<>>) < 2
  OBVIOUS
<1>2. split_json_array_elements(<<>>) = <<>>
  BY <1>1, SplitIs
<1> QED BY <1>2, ElementsAre DEF parts

-----------------------------------------------------------------------------
\* The strings of an array.
is_string(e) == Len(e) = 1 /\ e[1] \in String
kept(found) == [i \in DOMAIN found |-> IF is_string(found[i]) THEN found[i] ELSE <<>>]

LEMMA StringArrayIs ==
  ASSUME NEW s, NEW key
  PROVE  extract_json_string_array(s, key)
           = FlattenSeq(kept(elements(extract_json_part(s, key, "["))))
BY DEF extract_json_string_array, strings_among, kept, is_string

LEMMA KeptType ==
  ASSUME NEW P \in Seq(Text)
  PROVE  kept(P) \in Seq(Seq(String)) /\ FlattenSeq(kept(P)) \in Seq(String)
<1>1. \A e \in Text : (IF is_string(e) THEN e ELSE <<>>) \in Seq(String)
  <2> SUFFICES ASSUME NEW e \in Text PROVE (IF is_string(e) THEN e ELSE <<>>) \in Seq(String)
    OBVIOUS
  <2>1. ASSUME is_string(e) PROVE e \in Seq(String)
    <3>1. Len(e) = 1 /\ e[1] \in String /\ e \in Seq(Token)
      BY <2>1 DEF is_string, Text
    <3>2. e = <<e[1]>>
      BY <3>1
    <3>3. <<e[1]>> \in Seq(String)
      BY <3>1
    <3> QED BY <3>2, <3>3
  <2> QED BY <2>1
<1>2. DOMAIN P = 1 .. Len(P) /\ Len(P) \in Nat /\ \A i \in 1 .. Len(P) : P[i] \in Text
  OBVIOUS
<1>3. kept(P) = [i \in 1 .. Len(P) |-> IF is_string(P[i]) THEN P[i] ELSE <<>>]
  BY <1>2 DEF kept
<1>4. kept(P) \in Seq(Seq(String))
  BY <1>1, <1>2, <1>3
<1> QED BY <1>4, FlattenType

LEMMA PartOrNothing ==
  ASSUME NEW s \in Text, NEW key, NEW b
  PROVE  extract_json_part(s, key, b) \in Text
<1> DEFINE r == extract_json_value(s, key)
<1>1. r = nowhere \/ r \in Spot(s)
  BY FoundPlaced DEF placed, Spot
<1>2. r \in Spot(s) => part(s, r) \in Text
  BY PartType
<1>3. <<>> \in Text
  BY DEF Text
<1> QED BY <1>1, <1>2, <1>3 DEF extract_json_part

LEMMA StringArrayType ==
  ASSUME NEW s \in Text, NEW key
  PROVE  extract_json_string_array(s, key) \in Seq(String)
BY StringArrayIs, PartOrNothing, ElementsType, KeptType

\* The texts of strings.
singles(names) == [i \in DOMAIN names |-> <<names[i]>>]

LEMMA Singles ==
  ASSUME NEW names \in Seq(String)
  PROVE  /\ singles(names) \in Seq(Whole) /\ Len(singles(names)) = Len(names)
         /\ \A i \in 1 .. Len(names) : singles(names)[i] = one(names[i])
         /\ kept(singles(names)) = singles(names)
<1>1. DOMAIN names = 1 .. Len(names) /\ Len(names) \in Nat
      /\ \A i \in 1 .. Len(names) : names[i] \in String
  OBVIOUS
<1>2. \A i \in 1 .. Len(names) : one(names[i]) \in Whole
  BY <1>1, AtomWhole
<1>3. singles(names) = [i \in 1 .. Len(names) |-> one(names[i])]
  BY <1>1 DEF singles, one
<1>4. singles(names) \in Seq(Whole) /\ Len(singles(names)) = Len(names)
  BY <1>1, <1>2, <1>3
<1>5. ASSUME NEW i \in 1 .. Len(names) PROVE is_string(singles(names)[i])
  <2>1. names[i] \in String /\ names[i] \in Token
    BY <1>1 DEF Token
  <2> QED BY <1>3, <2>1, OneIs DEF is_string
<1>6. DOMAIN singles(names) = 1 .. Len(names)
  BY <1>3
<1>7. kept(singles(names)) = [i \in 1 .. Len(names) |-> singles(names)[i]]
  BY <1>5, <1>6 DEF kept
<1>8. singles(names) = [i \in 1 .. Len(names) |-> singles(names)[i]]
  BY <1>3
<1> QED BY <1>3, <1>4, <1>7, <1>8

LEMMA FlattenSingles ==
  ASSUME NEW names \in Seq(String)
  PROVE  FlattenSeq(singles(names)) = names
<1> DEFINE S == {N \in Seq(String) : FlattenSeq(singles(N)) = N}
<1>1. <<>> \in S
  <2>1. singles(<<>>) = <<>>
    BY DEF singles
  <2> QED BY <2>1, FlattenEmpty
<1>2. ASSUME NEW x \in String, NEW N \in Seq(String), N \in S PROVE back(N, x) \in S
  <2>1. back(N, x) \in Seq(String)
    BY BackIs
  <2>2. one(x) \in Seq(String) /\ back(N, x) = cat(N, one(x))
    BY DEF one, back, cat
  <2>3. singles(back(N, x)) = back(singles(N), one(x))
    BY DEF singles, back, one
  <2>4. singles(N) \in Seq(Seq(String))
    <3>1. DOMAIN N = 1 .. Len(N) /\ Len(N) \in Nat /\ \A i \in 1 .. Len(N) : N[i] \in String
      OBVIOUS
    <3>2. \A c \in String : <<c>> \in Seq(String)
      OBVIOUS
    <3>3. singles(N) = [i \in 1 .. Len(N) |-> <<N[i]>>]
      BY <3>1 DEF singles
    <3> QED BY <3>1, <3>2, <3>3
  <2>5. FlattenSeq(back(singles(N), one(x))) = cat(FlattenSeq(singles(N)), one(x))
    BY <2>2, <2>4, FlattenAppend DEF back, cat
  <2> QED BY <1>2, <2>1, <2>2, <2>3, <2>5
<1> HIDE DEF S
<1>3. Seq(String) \subseteq S
  BY <1>1, <1>2, ByBack
<1> QED BY <1>3 DEF S

LEMMA StringsAre ==
  ASSUME NEW names \in Seq(String)
  PROVE  /\ strings(names) = array(singles(names)) /\ strings(names) \in Whole
         /\ strings(names)[1] = "["
         /\ FlattenSeq(kept(elements(strings(names)))) = names
<1>1. strings(names) = array(singles(names))
  BY DEF strings, singles
<1>2. singles(names) \in Seq(Whole) /\ kept(singles(names)) = singles(names)
  BY Singles
<1>3. singles(names) \in Seq(Passed("array")) /\ singles(names) \in Seq(Text)
  <2>1. singles(names) \in Seq(Passed("array"))
    BY <1>2, WholePassed
  <2> QED BY <2>1, PassedText
<1>4. array(singles(names)) \in Whole /\ array(singles(names))[1] = opening("array")
  BY <1>3, ArrayIs, EnclosedWhole, EnclosedIs DEF Loop
<1>5. opening("array") = "["
  BY DEF opening
<1> QED BY <1>1, <1>2, <1>4, <1>5, ElementsOfArray, FlattenSingles

\* What is read as an array of strings, of a value that is found.
LEMMA StringsFound ==
  ASSUME NEW t, NEW key, NEW v, found_as(t, key, v)
  PROVE  /\ \A names \in Seq(String) : v = strings(names) =>
              extract_json_string_array(t, key) = names
         /\ v[1] # "[" => extract_json_string_array(t, key) = <<>>
<1>1. extract_json_part(t, key, "[") = IF v[1] = "[" THEN v ELSE <<>>
  BY PartFound
<1>2. kept(<<>>) = <<>>
  BY DEF kept
<1>3. v[1] # "[" => extract_json_string_array(t, key) = <<>>
  BY <1>1, <1>2, ElementsOfNothing, FlattenEmpty, StringArrayIs
<1>4. ASSUME NEW names \in Seq(String), v = strings(names)
      PROVE  extract_json_string_array(t, key) = names
  BY <1>1, <1>4, StringsAre, StringArrayIs
<1> QED BY <1>3, <1>4

LEMMA NoStringsFound ==
  ASSUME NEW t, NEW key, extract_json_value(t, key) = nowhere
  PROVE  extract_json_string_array(t, key) = <<>>
<1>1. kept(<<>>) = <<>>
  BY DEF kept
<1> QED BY <1>1, NothingFound, ElementsOfNothing, FlattenEmpty, StringArrayIs

-----------------------------------------------------------------------------
\* The first member is found whatever the others are.
LEMMA FirstMember ==
  ASSUME NEW M \in Seq(Member), Len(M) # 0
  PROVE  first_found(M, M[1].name)
<1> DEFINE t == object(M)
<1>1. t \in Text /\ DOMAIN t = 1 .. Len(t) /\ DOMAIN M = 1 .. Len(M) /\ 1 \in DOMAIN M
  <2>1. t \in Text
    BY ObjectWhole
  <2>2. DOMAIN M = 1 .. Len(M) /\ 1 \in DOMAIN M
    OBVIOUS
  <2> HIDE DEF t
  <2> QED BY <2>1, <2>2 DEF Text
<1>2. t[1] = "{"
  BY ObjectWhole
<1>3. name_at(M, 1) = 2
  <2>1. upto(M, 1 - 1) = <<>>
    BY DEF upto
  <2>2. pieces(<<>>) = <<>>
    BY DEF pieces
  <2>3. Len(object(<<>>)) = Len(listed(<<>>)) + 2
    <3>1. <<>> \in Seq(Member) /\ <<>> \in Seq(Text)
      OBVIOUS
    <3> QED BY <2>2, <3>1, ObjectIs, EnclosedIs DEF Loop
  <2>4. Len(listed(<<>>)) = 0
    BY ListedEmpty
  <2>5. name_at(M, 1) = Len(object(upto(M, 1 - 1))) + 0
    BY DEF name_at, upto
  <2> QED BY <2>1, <2>3, <2>4, <2>5
<1>4. M[1].name # "{"
  <2>1. M[1] \in Member
    BY <1>1
  <2>2. M[1].name \in String
    BY <2>1 DEF Member
  <2> QED BY <2>2, Tokens
<1> HIDE DEF t
<1>5. \A j \in DOMAIN t : t[j] = M[1].name => 2 <= j
  <2>1. \A j \in DOMAIN t : j # 1 => 2 <= j
    BY <1>1
  <2> QED BY <1>2, <1>4, <2>1
<1> QED BY <1>1, <1>3, <1>5 DEF first_found, t

\* A member alone.
LEMMA Alone ==
  ASSUME NEW n \in String, NEW v \in Whole
  PROVE  /\ <<member(n, v)>> \in Seq(Member) /\ object(<<member(n, v)>>) \in Whole
         /\ object(<<member(n, v)>>) \in Text
         /\ found_as(object(<<member(n, v)>>), n, v)
<1> DEFINE M == <<member(n, v)>>
<1>1. member(n, v) \in Member /\ member(n, v).name = n /\ member(n, v).value = v
  BY DEF member, Member
<1>2. M \in Seq(Member) /\ Len(M) = 1 /\ M[1] = member(n, v) /\ DOMAIN M = {1}
  BY <1>1
<1> HIDE DEF M
<1>3. distinct(M) /\ 1 \in 1 .. Len(M) /\ Len(M) # 0
  BY <1>2 DEF distinct
<1>4. first_found(M, n)
  BY <1>1, <1>2, <1>3, FirstMember
<1>5. found_as(object(M), n, v)
  BY <1>1, <1>2, <1>3, <1>4, MemberFound
<1> QED BY <1>2, <1>5, ObjectWhole DEF M

LEMMA DocumentStrings ==
  /\ {"sub", "aud", "roles", "realm_access", "resource_access", "keys", "kid", "kty", "x5c",
      "endpoint", "aliases"} \subseteq String
  /\ nullopt \notin String
BY DocumentsAssumption DEF DocumentsAssumption

LEMMA RolesObject ==
  ASSUME NEW roles \in Seq(String)
  PROVE  /\ roles_object(roles) \in Whole /\ roles_object(roles)[1] = "{"
         /\ extract_json_string_array(roles_object(roles), "roles") = roles
<1>1. strings(roles) \in Whole /\ "roles" \in String
  BY StringsAre, DocumentStrings
<1>2. /\ <<member("roles", strings(roles))>> \in Seq(Member)
      /\ roles_object(roles) \in Whole
      /\ found_as(roles_object(roles), "roles", strings(roles))
  BY <1>1, Alone DEF roles_object
<1>3. roles_object(roles)[1] = "{"
  BY <1>2, ObjectWhole DEF roles_object
<1> QED BY <1>2, <1>3, StringsFound

-----------------------------------------------------------------------------
\* The walk over the clients.
walk_turn(s, f, p) ==
  LET key_end   == skip_json_string(s, p)
      pos       == colon_skipped(s, key_end)
      value_end == skip_json_value(s, pos)
  IN
  IF p >= Len(s) \/ at(s, p) = "}" THEN <<>>
  ELSE IF key_end <= p THEN <<>>
  ELSE IF value_end <= pos THEN <<>>
  ELSE (IF s[pos] = "{"
          THEN extract_json_string_array(SubSeq(s, pos, value_end - 1), "roles")
          ELSE <<>>)
       \o f[comma_skipped(s, value_end)]

walking(s) == CHOOSE f : f = [p \in 2 .. (Len(s) + 1) |-> walk_turn(s, f, p)]

LEMMA WalkIs ==
  ASSUME NEW s
  PROVE  client_roles(s) = IF s = <<>> THEN <<>> ELSE walking(s)[2]
BY DEF client_roles, walking, walk_turn

\* The roles that a turn takes of the value between pos and value_end.
taken(s, pos, value_end) ==
  IF s[pos] = "{" THEN extract_json_string_array(SubSeq(s, pos, value_end - 1), "roles") ELSE <<>>

LEMMA WalkTurnIs ==
  ASSUME NEW s, NEW p, NEW f
  PROVE  walk_turn(s, f, p)
           = IF p >= Len(s) \/ at(s, p) = "}" THEN <<>>
             ELSE IF skip_json_string(s, p) <= p THEN <<>>
             ELSE IF skip_json_value(s, value_at(s, "object", p)) <= value_at(s, "object", p)
                    THEN <<>>
             ELSE cat(taken(s, value_at(s, "object", p),
                            skip_json_value(s, value_at(s, "object", p))),
                      f[comma_skipped(s, skip_json_value(s, value_at(s, "object", p)))])
BY DEF walk_turn, cat, taken, value_at

LEMMA WalkTurn ==
  ASSUME NEW s \in Text, NEW p \in 1 .. Len(s) + 1
  PROVE  \/ \A f : walk_turn(s, f, p) = <<>>
         \/ \E r \in Seq(String), j \in p + 1 .. Len(s) + 1 :
              \A f : walk_turn(s, f, p) = cat(r, f[j])
<1> DEFINE b == value_at(s, "object", p)
           e == skip_json_value(s, b)
           j == comma_skipped(s, e)
           quiet == p >= Len(s) \/ at(s, p) = "}" \/ skip_json_string(s, p) <= p \/ e <= b
<1>0. Len(s) \in Nat /\ p \in Nat
  BY DEF Text
<1>1. \A f : walk_turn(s, f, p) = IF p >= Len(s) \/ at(s, p) = "}" THEN <<>>
                                 ELSE IF skip_json_string(s, p) <= p THEN <<>>
                                 ELSE IF e <= b THEN <<>>
                                 ELSE cat(taken(s, b, e), f[j])
  BY WalkTurnIs
<1>2. b \in p .. Len(s) + 1
  BY ValueAt DEF Loop
<1> HIDE DEF b
<1>3. b \in 1 .. Len(s) + 1
  BY <1>0, <1>2
<1>4. e \in ends(s, b)
  BY <1>3, SkipRange
<1> HIDE DEF e, j
<1>5. CASE quiet
  BY <1>1, <1>5
<1>6. CASE ~ quiet
  <2>1. e \in b + 1 .. Len(s) + 1 /\ e \in 1 .. Len(s) + 1 /\ e \in p + 1 .. Len(s) + 1
    <3>1. ~ (e <= b)
      BY <1>6
    <3>2. e \in {0} \cup b .. Len(s) + 1
      BY <1>4 DEF ends, endless
    <3> QED BY ONLY <1>0, <1>2, <3>1, <3>2
  <2>2. j \in p + 1 .. Len(s) + 1
    <3>1. j \in e .. Len(s) + 1
      BY <2>1, CommaSkipped DEF j
    <3> QED BY <1>0, <2>1, <3>1
  <2>3. taken(s, b, e) \in Seq(String)
    <3>1. spot(b, e) \in Spot(s) /\ spot(b, e).begin = b /\ spot(b, e).end = e
      BY <1>3, <2>1, SpotIs
    <3>2. SubSeq(s, b, e - 1) \in Text
      BY <3>1, PartType DEF part
    <3>3. extract_json_string_array(SubSeq(s, b, e - 1), "roles") \in Seq(String)
      BY <3>2, StringArrayType
    <3>4. <<>> \in Seq(String)
      OBVIOUS
    <3>5. taken(s, b, e) = extract_json_string_array(SubSeq(s, b, e - 1), "roles")
          \/ taken(s, b, e) = <<>>
      BY DEF taken
    <3> QED BY <3>3, <3>4, <3>5
  <2>4. \A f : walk_turn(s, f, p) = cat(taken(s, b, e), f[j])
    BY <1>1, <1>6
  <2> QED BY <2>2, <2>3, <2>4
<1> QED BY <1>5, <1>6

LEMMA Walking ==
  ASSUME NEW s \in Text
  PROVE  \A p \in 2 .. Len(s) + 1 : walking(s)[p] = walk_turn(s, walking(s), p)
<1> DEFINE n == Len(s)
           I == 1 .. (n + 1)
           V == Seq(String)
           turn(g, p) == IF p = 1 THEN <<>> ELSE walk_turn(s, g, p)
           D == [g \in [I -> V] |-> [p \in I |-> turn(g, p)]]
<1>0. n \in Nat /\ <<>> \in V
  BY DEF Text
<1>1. ASSUME NEW p \in I, NEW j \in p + 1 .. n + 1 PROVE j \in I /\ j > p
  BY <1>0
<1>2. ASSUME NEW g \in [I -> V], NEW p \in I PROVE walk_turn(s, g, p) \in V
  <2>1. ASSUME NEW r \in Seq(String), NEW j \in p + 1 .. n + 1 PROVE cat(r, g[j]) \in V
    <3>1. j \in I
      BY <1>1
    <3>2. g[j] \in V
      <4> HIDE DEF I, V
      <4> QED BY <3>1
    <3> QED BY <3>2, CatIs
  <2> HIDE DEF V
  <2>2. \/ walk_turn(s, g, p) = <<>>
        \/ \E r \in Seq(String), j \in p + 1 .. n + 1 : walk_turn(s, g, p) = cat(r, g[j])
    BY WalkTurn
  <2> QED BY <1>0, <2>1, <2>2
<1>3. ASSUME NEW g, NEW h, NEW p \in I, \A j \in I : j > p => g[j] = h[j]
      PROVE  walk_turn(s, g, p) = walk_turn(s, h, p)
  <2>1. \A j \in p + 1 .. n + 1 : g[j] = h[j]
    BY <1>1, <1>3
  <2>2. \/ walk_turn(s, g, p) = <<>> /\ walk_turn(s, h, p) = <<>>
        \/ \E r \in Seq(String), j \in p + 1 .. n + 1 :
             walk_turn(s, g, p) = cat(r, g[j]) /\ walk_turn(s, h, p) = cat(r, h[j])
    BY WalkTurn
  <2> QED BY <2>1, <2>2
<1>4. PICK g \in [I -> V] : g = D[g]
  <2>1. D \in [[I -> V] -> [I -> V]]
    <3> HIDE DEF I, V
    <3> QED BY <1>0, <1>2
  <2>2. ASSUME NEW g \in [I -> V], NEW h \in [I -> V], NEW p \in I,
               \A j \in I : j > p => g[j] = h[j]
        PROVE  D[g][p] = D[h][p]
    <3>1. turn(g, p) = turn(h, p)
      BY <1>3, <2>2
    <3> HIDE DEF I, V, turn
    <3> QED BY <3>1
  <2>3. V # {}
    BY <1>0
  <2> HIDE DEF D, V, n
  <2>4. reads_on(n, V, D)
    BY <1>0, <2>1, <2>2, <2>3 DEF reads_on
  <2> QED BY <2>4, ReadingOn
<1>5. \A p \in I : g[p] = turn(g, p)
  <2> HIDE DEF I, V, turn
  <2> QED BY <1>4
<1> DEFINE h == [p \in 2 .. (Len(s) + 1) |-> g[p]]
<1>6. h = [p \in 2 .. (Len(s) + 1) |-> walk_turn(s, h, p)]
  <2>1. ASSUME NEW p \in 2 .. (Len(s) + 1) PROVE g[p] = walk_turn(s, h, p)
    <3>1. p \in I /\ p # 1
      BY <1>0
    <3>2. \A j \in I : j > p => j \in 2 .. (Len(s) + 1)
      BY <1>0
    <3>3. \A j \in I : j > p => g[j] = h[j]
      BY <3>2
    <3> HIDE DEF h
    <3> QED BY <1>3, <1>5, <3>1, <3>3
  <2>2. h = [p \in 2 .. (Len(s) + 1) |-> g[p]]
    OBVIOUS
  <2> HIDE DEF h
  <2> QED BY <2>1, <2>2
<1>7. walking(s) = [p \in 2 .. (Len(s) + 1) |-> walk_turn(s, walking(s), p)]
  BY <1>6 DEF walking
<1> QED BY <1>7

-----------------------------------------------------------------------------
\* What a claim says of the clients: their names and their roles.
Entry == String \X Seq(String)
entry_text(x) == pair(x[1], roles_object(x[2]))
entries(C) == [i \in DOMAIN C |-> entry_text(C[i])]
lists(C) == [i \in DOMAIN C |-> C[i][2]]

LEMMA EntryIs ==
  ASSUME NEW x \in Entry
  PROVE  /\ x[1] \in String /\ x[2] \in Seq(String) /\ entry_text(x) \in Text
         /\ entry_text(x) = pair(x[1], roles_object(x[2])) /\ roles_object(x[2]) \in Whole
         /\ roles_object(x[2])[1] = "{" /\ roles_object(x[2]) \in Text
         /\ extract_json_string_array(roles_object(x[2]), "roles") = x[2]
<1>1. x[1] \in String /\ x[2] \in Seq(String)
  BY DEF Entry
<1>2. /\ roles_object(x[2]) \in Whole /\ roles_object(x[2])[1] = "{"
      /\ extract_json_string_array(roles_object(x[2]), "roles") = x[2]
  BY <1>1, RolesObject
<1>3. roles_object(x[2]) \in Text
  BY <1>2 DEF Whole
<1>4. pair(x[1], roles_object(x[2])) \in Text
  BY <1>1, <1>3, PairIs
<1> QED BY <1>1, <1>2, <1>3, <1>4 DEF entry_text

LEMMA EntriesType ==
  ASSUME NEW C \in Seq(Entry)
  PROVE  /\ entries(C) \in Seq(Text) /\ Len(entries(C)) = Len(C)
         /\ \A i \in 1 .. Len(C) : entries(C)[i] = entry_text(C[i])
         /\ lists(C) \in Seq(Seq(String)) /\ Len(lists(C)) = Len(C)
         /\ \A i \in 1 .. Len(C) : lists(C)[i] = C[i][2]
<1>1. DOMAIN C = 1 .. Len(C) /\ Len(C) \in Nat /\ \A i \in 1 .. Len(C) : C[i] \in Entry
  OBVIOUS
<1>2. \A i \in 1 .. Len(C) : entry_text(C[i]) \in Text /\ C[i][2] \in Seq(String)
  BY <1>1, EntryIs
<1>3. entries(C) = [i \in 1 .. Len(C) |-> entry_text(C[i])]
  BY <1>1 DEF entries
<1>4. lists(C) = [i \in 1 .. Len(C) |-> C[i][2]]
  BY <1>1 DEF lists
<1>5. entries(C) \in Seq(Text) /\ Len(entries(C)) = Len(C)
  BY <1>1, <1>2, <1>3
<1>6. lists(C) \in Seq(Seq(String)) /\ Len(lists(C)) = Len(C)
  BY <1>1, <1>2, <1>4
<1> QED BY <1>3, <1>4, <1>5, <1>6

goes_on_as(u, x, P) == u[1] = x /\ \A i \in 1 .. Len(P) : u[i + 1] = P[i]

\* Two sequences that begin and go on alike are equal.
LEMMA EqualFront ==
  ASSUME NEW A, NEW u \in Seq(A), NEW x \in A, NEW P \in Seq(A), Len(u) = Len(P) + 1,
         goes_on_as(u, x, P)
  PROVE  u = front(x, P)
<1> USE DEF goes_on_as
<1> DEFINE h == front(x, P)
<1>1. /\ h \in Seq(A) /\ Len(P) \in Nat /\ Len(h) = Len(P) + 1 /\ h[1] = x
      /\ \A i \in 1 .. Len(P) : h[i + 1] = P[i]
  BY FrontIs
<1> HIDE DEF h
<1>2. ASSUME NEW i \in 1 .. Len(P) + 1 PROVE u[i] = h[i]
  <2>1. CASE i = 1
    BY <1>1, <2>1
  <2>2. CASE i # 1
    <3> DEFINE j == i - 1
    <3>1. j \in 1 .. Len(P) /\ j + 1 = i
      BY <1>1, <2>2
    <3> HIDE DEF j
    <3>2. u[j + 1] = h[j + 1]
      BY <1>1, <3>1
    <3> QED BY <3>1, <3>2
  <2> QED BY <2>1, <2>2
<1>3. u = h
  BY <1>1, <1>2
<1> QED BY <1>3 DEF h

LEMMA EntriesFront ==
  ASSUME NEW C \in Seq(Entry), NEW x \in Entry
  PROVE  /\ entries(front(x, C)) = front(entry_text(x), entries(C))
         /\ lists(front(x, C)) = front(x[2], lists(C))
<1> DEFINE g == front(x, C)
<1>1. /\ g \in Seq(Entry) /\ Len(C) \in Nat /\ Len(g) = Len(C) + 1 /\ g[1] = x
      /\ \A i \in 1 .. Len(C) : g[i + 1] = C[i]
  BY FrontIs
<1> HIDE DEF g
<1>2. /\ entries(g) \in Seq(Text) /\ Len(entries(g)) = Len(g)
      /\ \A i \in 1 .. Len(g) : entries(g)[i] = entry_text(g[i])
      /\ lists(g) \in Seq(Seq(String)) /\ Len(lists(g)) = Len(g)
      /\ \A i \in 1 .. Len(g) : lists(g)[i] = g[i][2]
  BY <1>1, EntriesType
<1>3. /\ entries(C) \in Seq(Text) /\ Len(entries(C)) = Len(C)
      /\ \A i \in 1 .. Len(C) : entries(C)[i] = entry_text(C[i])
      /\ lists(C) \in Seq(Seq(String)) /\ Len(lists(C)) = Len(C)
      /\ \A i \in 1 .. Len(C) : lists(C)[i] = C[i][2]
  BY EntriesType
<1>4. 1 \in 1 .. Len(g) /\ \A i \in 1 .. Len(C) : i + 1 \in 1 .. Len(g)
  BY <1>1
<1>5. entry_text(x) \in Text /\ x[2] \in Seq(String)
  BY EntryIs
<1>6. entries(g) = front(entry_text(x), entries(C))
  <2>1. entries(g)[1] = entry_text(x)
    BY <1>1, <1>2, <1>4
  <2>2. \A i \in 1 .. Len(entries(C)) : entries(g)[i + 1] = entries(C)[i]
    BY <1>1, <1>2, <1>3, <1>4
  <2>4. goes_on_as(entries(g), entry_text(x), entries(C))
    BY <2>1, <2>2 DEF goes_on_as
  <2>3. Len(entries(g)) = Len(entries(C)) + 1
    BY <1>1, <1>2, <1>3
  <2>5. entries(g) \in Seq(Text) /\ entry_text(x) \in Text /\ entries(C) \in Seq(Text)
    BY <1>2, <1>3, <1>5
  <2> QED BY ONLY <2>3, <2>4, <2>5, EqualFront
<1>7. lists(g) = front(x[2], lists(C))
  <2>1. lists(g)[1] = x[2]
    BY <1>1, <1>2, <1>4
  <2>2. \A i \in 1 .. Len(lists(C)) : lists(g)[i + 1] = lists(C)[i]
    BY <1>1, <1>2, <1>3, <1>4, ZenonT(90)
  <2>4. goes_on_as(lists(g), x[2], lists(C))
    BY <2>1, <2>2 DEF goes_on_as
  <2>3. Len(lists(g)) = Len(lists(C)) + 1
    BY <1>1, <1>2, <1>3
  <2>5. lists(g) \in Seq(Seq(String)) /\ x[2] \in Seq(String) /\ lists(C) \in Seq(Seq(String))
    BY <1>2, <1>3, <1>5
  <2> QED BY ONLY <2>3, <2>4, <2>5, EqualFront
<1> QED BY <1>6, <1>7 DEF g

\* A turn at the member of a client takes its roles.
turn_takes(s, p, x, e) ==
  /\ p + 1 \in 1 .. Len(s)
  /\ walking(s)[p + 1] = cat(x[2], walking(s)[comma_skipped(s, e)])

LEMMA WalkTakes ==
  ASSUME NEW s \in Text, NEW p \in Nat, 1 <= p, NEW x \in Entry, stands(s, p, entry_text(x)),
         p + Len(entry_text(x)) + 1 \in 1 .. Len(s)
  PROVE  turn_takes(s, p, x, p + Len(entry_text(x)) + 1)
<1> DEFINE n == x[1]
           v == roles_object(x[2])
           b == p + 1
           c == p + 3
           e == p + Len(entry_text(x)) + 1
           f == walking(s)
<1>0. /\ n \in String /\ x[2] \in Seq(String) /\ v \in Whole /\ v[1] = "{" /\ v \in Text
      /\ entry_text(x) = pair(n, v) /\ extract_json_string_array(v, "roles") = x[2]
  BY EntryIs
<1> HIDE DEF n, v, f
<1>1. /\ b \in 1 .. Len(s) /\ c \in 1 .. Len(s) /\ s[b] = n /\ held(s, p + 2, v) /\ s[c] = v[1]
      /\ leads(s, "object", b, c) /\ skip_json_value(s, c) = e /\ e = c + Len(v)
  <2>1. pair_at(s, p, n, v)
    BY <1>0, PairStands
  <2> QED BY <1>0, <2>1 DEF pair_at
<1>2. Len(s) \in Nat /\ Len(v) \in Nat /\ Len(v) # 0
  <2>1. v \in Text /\ v # <<>>
    BY <1>0 DEF Whole
  <2> QED BY <2>1 DEF Text
<1>3. (p + 2) + 1 = c /\ (p + 2) + Len(v) = e - 1 /\ p + 2 \in Nat /\ c \in Nat
  <2> HIDE DEF e
  <2> QED BY ONLY <1>1, <1>2, p \in Nat
<1>4. SubSeq(s, c, e - 1) = v
  <2>1. held(s, p + 2, v) /\ p + 2 \in Nat /\ v \in Text
    BY <1>0, <1>1, <1>3
  <2>2. SubSeq(s, (p + 2) + 1, (p + 2) + Len(v)) = v
    BY <2>1, HeldPart
  <2> HIDE DEF c, e
  <2> QED BY <1>3, <2>2
<1>5. ~ (e <= c) /\ ~ (b >= Len(s)) /\ b \in 2 .. Len(s) + 1 /\ b \in 1 .. Len(s) + 1
      /\ c \in 1 .. Len(s) + 1
  BY ONLY <1>1, <1>2, p \in Nat, 1 <= p
<1>6. value_at(s, "object", b) = c
  BY <1>1, <1>5, ValueAtIs DEF Loop
<1>7. at(s, b) = n /\ at(s, b) # "}"
  <2>1. b <= Len(s)
    BY <1>1
  <2> QED BY <1>0, <1>1, <2>1, Tokens DEF at
<1>8. ~ (skip_json_string(s, b) <= b)
  <2>1. skip_json_string(s, b) = b + 1
    BY <1>0, <1>7 DEF skip_json_string
  <2>2. ~ (b + 1 <= b)
    BY ONLY p \in Nat
  <2> QED BY <2>1, <2>2
<1>9. taken(s, c, e) = x[2]
  BY <1>0, <1>1, <1>4 DEF taken
<1> HIDE DEF b, c, e
<1>10. walk_turn(s, f, b) = cat(x[2], f[comma_skipped(s, e)])
  BY <1>1, <1>5, <1>6, <1>7, <1>8, <1>9, WalkTurnIs
<1>11. f[b] = walk_turn(s, f, b)
  BY <1>5, Walking DEF f
<1> QED BY <1>1, <1>10, <1>11 DEF turn_takes, b, e, f

\* The walk over what is listed takes the roles of all clients, in order.
LEMMA WalkListed ==
  ASSUME NEW C \in Seq(Entry), NEW s \in Text, NEW o \in Nat, 1 <= o,
         held(s, o, cat(listed(entries(C)), one(closing("object")))),
         o + Len(listed(entries(C))) + 1 = Len(s)
  PROVE  walking(s)[o + 1] = FlattenSeq(lists(C))
<1> DEFINE c == one(closing("object"))
           f == walking(s)
           S == {Q \in Seq(Entry) : \A p \in Nat :
                   1 <= p /\ held(s, p, cat(listed(entries(Q)), c))
                     /\ p + Len(listed(entries(Q))) + 1 = Len(s) =>
                       f[p + 1] = FlattenSeq(lists(Q))}
<1>0. c \in Text /\ Len(c) = 1 /\ c[1] = closing("object") /\ c # <<>> /\ Len(s) \in Nat
  <2>1. closing("object") \in Token
    BY Brackets DEF Loop
  <2>2. Len(s) \in Nat
    BY DEF Text
  <2> QED BY <2>1, <2>2, OneIs
<1> HIDE DEF c, f
<1>a. ASSUME NEW p \in 2 .. Len(s) + 1, p >= Len(s) PROVE f[p] = <<>>
  <2>1. f[p] = walk_turn(s, f, p)
    BY Walking DEF f
  <2> QED BY <1>a, <2>1, WalkTurnIs
<1>1. <<>> \in S
  <2>1. ASSUME NEW p \in Nat, 1 <= p, p + 0 + 1 = Len(s) PROVE f[p + 1] = <<>>
    <3>1. p + 1 \in 2 .. Len(s) + 1 /\ p + 1 >= Len(s)
      BY ONLY <2>1
    <3> QED BY <1>a, <3>1
  <2>2. <<>> \in Seq(Entry) /\ Len(<<>>) = 0
    OBVIOUS
  <2>3. entries(<<>>) = <<>> /\ lists(<<>>) = <<>>
    BY DEF entries, lists
  <2> QED BY <2>1, <2>2, <2>3, ListedEmpty, FlattenEmpty
<1>2. ASSUME NEW x \in Entry, NEW Q \in Seq(Entry), Q \in S PROVE front(x, Q) \in S
  <2> DEFINE w == entry_text(x)
             P == entries(Q)
  <2>1. w \in Text /\ P \in Seq(Text) /\ Len(w) \in Nat /\ Len(listed(P)) \in Nat
    <3>1. w \in Text
      BY EntryIs
    <3>2. P \in Seq(Text)
      BY EntriesType
    <3> HIDE DEF w, P
    <3>3. listed(P) \in Text
      BY <3>2, ListedType
    <3>4. Len(w) \in Nat /\ Len(listed(P)) \in Nat
      BY <3>1, <3>3 DEF Text
    <3> QED BY <3>1, <3>2, <3>4
  <2>2. front(x, Q) \in Seq(Entry)
    BY FrontIs
  <2>a. entries(front(x, Q)) = front(w, P) /\ lists(front(x, Q)) = front(x[2], lists(Q))
    BY EntriesFront
  <2>b. FlattenSeq(front(x[2], lists(Q))) = cat(x[2], FlattenSeq(lists(Q)))
        /\ (Q = <<>> => FlattenSeq(lists(Q)) = <<>>)
    <3>1. x[2] \in Seq(String) /\ lists(Q) \in Seq(Seq(String))
      BY EntryIs, EntriesType
    <3>2. lists(<<>>) = <<>>
      BY DEF lists
    <3> QED BY <3>1, <3>2, FlattenFront, FlattenEmpty
  <2>c. P = <<>> <=> Q = <<>>
    <3>1. Len(P) = Len(Q)
      BY EntriesType
    <3> HIDE DEF P
    <3> QED BY <2>1, <3>1
  <2> HIDE DEF w, P
  <2>3. ASSUME NEW p \in Nat, 1 <= p, held(s, p, cat(listed(front(w, P)), c)),
               p + Len(listed(front(w, P))) + 1 = Len(s)
        PROVE  f[p + 1] = cat(x[2], FlattenSeq(lists(Q)))
    <3> DEFINE e == p + Len(w) + 1
    <3>1. first_held(s, p, w, P, c)
      BY <1>0, <2>1, <2>3, ListedHeld
    <3>2. held(s, p, w)
      BY <3>1 DEF first_held
    <3>3. e \in Nat /\ p + Len(w) \in Nat /\ (p + Len(w)) + 1 = e /\ 1 <= e
      BY <2>1
    <3>4. CASE P = <<>>
      <4>1. held(s, p + Len(w), c) /\ Len(listed(front(w, P))) = Len(w)
        BY <3>1, <3>4 DEF first_held
      <4>2. e \in 1 .. Len(s) /\ s[e] = closing("object")
        BY <1>0, <3>3, <4>1, HeldFirst
      <4>3. e = Len(s)
        BY <2>3, <4>1
      <4>4. s[e] \in delimiters /\ s[e] # ","
        BY <4>2, Brackets DEF Loop
      <4>5. at(s, e) = s[e] /\ stands(s, p, w)
        BY <3>2, <4>2, <4>4, Follows DEF stands
      <4>6. comma_skipped(s, e) = e
        BY <4>4, <4>5 DEF comma_skipped
      <4>7. turn_takes(s, p, x, e)
        BY <2>3, <4>2, <4>5, WalkTakes DEF w
      <4>8. f[e] = <<>>
        <5>1. e \in 2 .. Len(s) + 1 /\ e >= Len(s)
          BY ONLY <1>0, <2>1, <2>3, <4>3, p \in Nat
        <5> HIDE DEF e
        <5> QED BY <1>a, <5>1
      <4>9. f[p + 1] = cat(x[2], f[e])
        BY <4>6, <4>7 DEF turn_takes, f
      <4> QED BY <2>b, <2>c, <3>4, <4>8, <4>9
    <3>5. CASE P # <<>>
      <4>1. e \in 1 .. Len(s) /\ s[e] = "," /\ held(s, e, cat(listed(P), c))
        BY <3>1, <3>5 DEF first_held
      <4>2. Len(listed(front(w, P))) = Len(w) + 1 + Len(listed(P))
        BY <3>1, <3>5 DEF first_held
      <4>3. e + Len(listed(P)) + 1 = Len(s)
        BY <2>1, <2>3, <4>2, SMTT(60)
      <4>4. s[e] \in delimiters
        BY <4>1 DEF delimiters
      <4>5. at(s, e) = s[e] /\ stands(s, p, w)
        BY <3>2, <4>1, <4>4, Follows DEF stands
      <4>6. comma_skipped(s, e) = e + 1
        BY <4>1, <4>5 DEF comma_skipped
      <4>7. turn_takes(s, p, x, e)
        BY <2>3, <4>1, <4>5, WalkTakes DEF w
      <4>8. f[e + 1] = FlattenSeq(lists(Q))
        BY <1>2, <3>3, <4>1, <4>3 DEF P
      <4>9. f[p + 1] = cat(x[2], f[e + 1])
        BY <4>6, <4>7 DEF turn_takes, f
      <4> QED BY <4>8, <4>9
    <3> QED BY <3>4, <3>5
  <2> QED BY <2>2, <2>3, <2>a, <2>b DEF f
<1> HIDE DEF S
<1>3. Seq(Entry) \subseteq S
  BY <1>1, <1>2, ByFront
<1> QED BY <1>3 DEF S, c, f

-----------------------------------------------------------------------------
members_of(C) == [i \in DOMAIN C |-> member(C[i][1], roles_object(C[i][2]))]

LEMMA MembersOf ==
  ASSUME NEW C \in Seq(Entry)
  PROVE  members_of(C) \in Seq(Member) /\ pieces(members_of(C)) = entries(C)
<1>1. DOMAIN C = 1 .. Len(C) /\ Len(C) \in Nat /\ \A i \in 1 .. Len(C) : C[i] \in Entry
  OBVIOUS
<1>2. \A x \in Entry : /\ member(x[1], roles_object(x[2])) \in Member
                       /\ member(x[1], roles_object(x[2])).name = x[1]
                       /\ member(x[1], roles_object(x[2])).value = roles_object(x[2])
  BY EntryIs DEF member, Member
<1>3. members_of(C) = [i \in 1 .. Len(C) |-> member(C[i][1], roles_object(C[i][2]))]
  BY <1>1 DEF members_of
<1>4. members_of(C) \in Seq(Member) /\ Len(members_of(C)) = Len(C)
  BY <1>1, <1>2, <1>3
<1> DEFINE M == members_of(C)
<1>5. \A i \in 1 .. Len(C) : M[i].name = C[i][1] /\ M[i].value = roles_object(C[i][2])
  BY <1>1, <1>2, <1>3
<1> HIDE DEF M
<1>6. /\ pieces(M) \in Seq(Text) /\ Len(pieces(M)) = Len(C)
      /\ \A i \in 1 .. Len(C) : pieces(M)[i] = pair(M[i].name, M[i].value)
  BY <1>4, Pieces DEF M
<1>7. /\ entries(C) \in Seq(Text) /\ Len(entries(C)) = Len(C)
      /\ \A i \in 1 .. Len(C) : entries(C)[i] = entry_text(C[i])
  BY EntriesType
<1>8. \A i \in 1 .. Len(C) : pieces(M)[i] = entries(C)[i]
  BY <1>5, <1>6, <1>7 DEF entry_text
<1>9. pieces(M) = entries(C)
  BY <1>6, <1>7, <1>8
<1> QED BY <1>4, <1>9 DEF M

\* The walk takes the roles of all clients, in order.
LEMMA ClientRoles ==
  ASSUME NEW C \in Seq(Entry)
  PROVE  /\ client_roles(object(members_of(C))) = FlattenSeq(lists(C))
         /\ object(members_of(C)) \in Whole /\ object(members_of(C))[1] = "{"
<1> DEFINE s == object(members_of(C))
           P == entries(C)
           l == Len(listed(P))
<1>1. members_of(C) \in Seq(Member) /\ pieces(members_of(C)) = P
  BY MembersOf
<1>2. s \in Whole /\ s \in Text /\ s[1] = "{" /\ s = enclosed("object", P) /\ P \in Seq(Text)
  BY <1>1, ObjectWhole, ObjectIs, Pieces
<1> HIDE DEF s, P
<1>3. /\ Len(s) = l + 2 /\ l \in Nat /\ s # <<>>
      /\ held(s, 0, s) => held(s, 0 + 1, cat(listed(P), one(closing("object"))))
  BY <1>2, EnclosedIs DEF Loop
<1>4. held(s, 0, s)
  BY <1>2, HeldAll
<1>5. 0 + 1 = 1 /\ 1 + l + 1 = Len(s) /\ 1 + 1 = 2 /\ 1 <= 1
  BY <1>3
<1>6. walking(s)[1 + 1] = FlattenSeq(lists(C))
  BY <1>2, <1>3, <1>4, <1>5, WalkListed DEF P
<1>7. client_roles(s) = FlattenSeq(lists(C))
  BY <1>3, <1>5, <1>6, WalkIs
<1> QED BY <1>2, <1>7 DEF s

LEMMA NoClientRoles ==
  client_roles(<<>>) = <<>>
BY WalkIs

-----------------------------------------------------------------------------
\* append_unique: every item where it is first.
occurs(source, x) == \E i \in 1 .. Len(source) : source[i] = x
places(source, x) == {i \in 1 .. Len(source) : source[i] = x}
first_of(source, x) == SelectInSeq(source, LAMBDA y : y = x)

LEMMA FirstOf ==
  ASSUME NEW source, NEW x
  PROVE  first_of(source, x) = IF occurs(source, x) THEN Min(places(source, x)) ELSE 0
BY DEF SelectInSeq, first_of, occurs, places

in_order(result, source) ==
  \A i, j \in DOMAIN result : i < j => first_of(source, result[i]) < first_of(source, result[j])

LEMMA WithoutRepeats ==
  ASSUME NEW result, NEW source
  PROVE  is_without_repeats(result, source)
           <=> ToSet(result) = ToSet(source) /\ in_order(result, source)
BY DEF is_without_repeats, first_of, in_order

\* Where an item is first.
is_first(source, x, k) ==
  k \in 1 .. Len(source) /\ source[k] = x /\ \A i \in 1 .. Len(source) : source[i] = x => k <= i

LEMMA FirstIs ==
  ASSUME NEW source, NEW x, NEW k \in Nat, is_first(source, x, k)
  PROVE  first_of(source, x) = k
<1> DEFINE F == places(source, x)
<1>1. k \in F /\ F \subseteq Nat /\ (\A y \in F : k <= y) /\ occurs(source, x)
  <2>1. \A y \in F : y \in 1 .. Len(source) /\ source[y] = x
    BY DEF places
  <2>2. k \in F /\ occurs(source, x)
    BY DEF places, is_first, occurs
  <2>3. \A y \in F : k <= y
    BY <2>1 DEF is_first
  <2> HIDE DEF F
  <2>4. F \subseteq Nat
    BY <2>1
  <2> QED BY <2>2, <2>3, <2>4
<1> HIDE DEF F
<1>2. Min(F) \in F /\ \A y \in F : Min(F) <= y
  BY <1>1, Minimum
<1>3. Min(F) \in Nat /\ Min(F) <= k /\ k <= Min(F)
  BY <1>1, <1>2
<1>4. Min(F) = k
  BY ONLY <1>3, k \in Nat
<1> QED BY <1>1, <1>4, FirstOf DEF F

LEMMA FirstExists ==
  ASSUME NEW A, NEW source \in Seq(A), NEW x, occurs(source, x)
  PROVE  \E k \in Nat : is_first(source, x, k)
<1> DEFINE F == places(source, x)
<1>1. F \subseteq Nat /\ F # {} /\ \A y \in F : y \in 1 .. Len(source) /\ source[y] = x
  BY DEF places, occurs
<1>2. \A i \in 1 .. Len(source) : source[i] = x => i \in F
  BY DEF places
<1> HIDE DEF F
<1>3. Min(F) \in F /\ \A y \in F : Min(F) <= y
  BY <1>1, Minimum
<1>4. is_first(source, x, Min(F)) /\ Min(F) \in Nat
  BY <1>1, <1>2, <1>3 DEF is_first
<1> QED BY <1>4

LEMMA Occurs ==
  ASSUME NEW A, NEW s \in Seq(A), NEW x
  PROVE  occurs(s, x) <=> x \in ToSet(s)
BY DEF occurs, ToSet

\* What is in a sequence is where it was when another item is put behind; a new
\* item comes last.
LEMMA FirstBack ==
  ASSUME NEW A, NEW c \in Seq(A), NEW x \in A
  PROVE  /\ \A y : occurs(c, y) => /\ first_of(back(c, x), y) = first_of(c, y)
                                   /\ first_of(c, y) \in Nat /\ first_of(c, y) < Len(c) + 1
         /\ ~ occurs(c, x) => first_of(back(c, x), x) = Len(c) + 1
<1> DEFINE d == back(c, x)
<1>1. /\ d \in Seq(A) /\ Len(c) \in Nat /\ Len(d) = Len(c) + 1 /\ d[Len(c) + 1] = x
      /\ \A i \in 1 .. Len(c) : d[i] = c[i]
  BY BackIs
<1> HIDE DEF d
<1>2. ASSUME NEW y, occurs(c, y)
      PROVE  /\ first_of(d, y) = first_of(c, y)
             /\ first_of(c, y) \in Nat /\ first_of(c, y) < Len(c) + 1
  <2>1. PICK k \in Nat : is_first(c, y, k)
    BY <1>2, FirstExists
  <2>2. k \in 1 .. Len(c) /\ c[k] = y /\ \A i \in 1 .. Len(c) : c[i] = y => k <= i
    BY <2>1 DEF is_first
  <2>3. k \in 1 .. Len(d) /\ d[k] = y
    BY <1>1, <2>2
  <2>4. ASSUME NEW i \in 1 .. Len(d), d[i] = y PROVE k <= i
    <3>1. CASE i \in 1 .. Len(c)
      BY <1>1, <2>2, <2>4, <3>1
    <3>2. CASE i \notin 1 .. Len(c)
      BY <1>1, <2>2, <3>2
    <3> QED BY <3>1, <3>2
  <2>5. is_first(d, y, k)
    BY <2>3, <2>4 DEF is_first
  <2>6. first_of(d, y) = k /\ first_of(c, y) = k
    BY <2>1, <2>5, FirstIs
  <2>7. k < Len(c) + 1
    BY <1>1, <2>2
  <2> QED BY <2>6, <2>7
<1>3. ASSUME ~ occurs(c, x) PROVE first_of(d, x) = Len(c) + 1
  <2>1. Len(c) + 1 \in Nat /\ Len(c) + 1 \in 1 .. Len(d) /\ d[Len(c) + 1] = x
    BY <1>1
  <2>2. ASSUME NEW i \in 1 .. Len(d), d[i] = x PROVE Len(c) + 1 <= i
    <3>1. i \notin 1 .. Len(c)
      BY <1>1, <1>3, <2>2 DEF occurs
    <3> QED BY <1>1, <3>1
  <2>3. is_first(d, x, Len(c) + 1)
    BY <2>1, <2>2 DEF is_first
  <2> QED BY <2>1, <2>3, FirstIs
<1> QED BY <1>2, <1>3 DEF d

LEMMA SetBack ==
  ASSUME NEW A, NEW c \in Seq(A), NEW x \in A
  PROVE  ToSet(back(c, x)) = ToSet(c) \cup {x}
<1> DEFINE d == back(c, x)
<1>1. /\ d \in Seq(A) /\ Len(c) \in Nat /\ Len(d) = Len(c) + 1 /\ d[Len(c) + 1] = x
      /\ \A i \in 1 .. Len(c) : d[i] = c[i]
  BY BackIs
<1> HIDE DEF d
<1>2. DOMAIN d = 1 .. Len(c) + 1 /\ DOMAIN c = 1 .. Len(c)
  BY <1>1
<1>3. ASSUME NEW y \in ToSet(d) PROVE y \in ToSet(c) \cup {x}
  <2>1. PICK i \in 1 .. Len(c) + 1 : y = d[i]
    BY <1>2 DEF ToSet
  <2>2. i \in 1 .. Len(c) \/ i = Len(c) + 1
    BY <1>1
  <2> QED BY <1>1, <1>2, <2>1, <2>2 DEF ToSet
<1>4. ASSUME NEW y \in ToSet(c) PROVE y \in ToSet(d)
  <2>1. PICK i \in 1 .. Len(c) : y = c[i]
    BY <1>2 DEF ToSet
  <2>2. i \in 1 .. Len(c) + 1 /\ y = d[i]
    BY <1>1, <2>1
  <2> QED BY <1>2, <2>2 DEF ToSet
<1>5. x \in ToSet(d)
  <2>1. Len(c) + 1 \in 1 .. Len(c) + 1
    BY <1>1
  <2> QED BY <1>1, <1>2, <2>1 DEF ToSet
<1> QED BY <1>3, <1>4, <1>5 DEF d

\* One turn of append_unique.
grow(values_, x) == IF x \in ToSet(values_) THEN values_ ELSE back(values_, x)

LEMMA GrowIs ==
  ASSUME NEW A, NEW r \in Seq(A), NEW c \in Seq(A), NEW x \in A, is_without_repeats(r, c)
  PROVE  grow(r, x) \in Seq(A) /\ is_without_repeats(grow(r, x), back(c, x))
<1> DEFINE d == back(c, x)
<1>1. ToSet(r) = ToSet(c) /\ in_order(r, c)
  BY WithoutRepeats
<1>2. d \in Seq(A) /\ ToSet(d) = ToSet(c) \cup {x}
  BY BackIs, SetBack
<1>3. \A i \in DOMAIN r : occurs(c, r[i])
  <2>1. \A i \in DOMAIN r : r[i] \in ToSet(r)
    BY DEF ToSet
  <2> QED BY <1>1, <2>1, Occurs
<1>4. /\ \A y : occurs(c, y) => /\ first_of(d, y) = first_of(c, y)
                                /\ first_of(c, y) \in Nat /\ first_of(c, y) < Len(c) + 1
      /\ ~ occurs(c, x) => first_of(d, x) = Len(c) + 1
  BY FirstBack
<1> HIDE DEF d
<1>5. in_order(r, d)
  BY <1>1, <1>3, <1>4 DEF in_order
<1>6. CASE x \in ToSet(r)
  <2>1. grow(r, x) = r
    BY <1>6 DEF grow
  <2>2. ToSet(r) = ToSet(d)
    BY <1>1, <1>2, <1>6
  <2> QED BY <1>5, <2>1, <2>2, WithoutRepeats DEF d
<1>7. CASE x \notin ToSet(r)
  <2> DEFINE q == back(r, x)
  <2>1. grow(r, x) = q
    BY <1>7 DEF grow
  <2>2. /\ q \in Seq(A) /\ Len(r) \in Nat /\ Len(q) = Len(r) + 1 /\ q[Len(r) + 1] = x
        /\ \A i \in 1 .. Len(r) : q[i] = r[i]
    BY BackIs
  <2>3. ToSet(q) = ToSet(d)
    BY <1>1, <1>2, SetBack
  <2> HIDE DEF q
  <2>4. first_of(d, x) = Len(c) + 1
    BY <1>1, <1>4, <1>7, Occurs
  <2>5. ASSUME NEW i \in DOMAIN q, NEW j \in DOMAIN q, i < j
        PROVE  first_of(d, q[i]) < first_of(d, q[j])
    <3>1. DOMAIN q = 1 .. Len(r) + 1 /\ DOMAIN r = 1 .. Len(r)
      BY <2>2
    <3>2. i \in 1 .. Len(r) /\ q[i] = r[i]
      BY <2>2, <2>5, <3>1
    <3>3. CASE j = Len(r) + 1
      <4>1. q[j] = x
        BY <2>2, <3>3
      <4>2. first_of(d, r[i]) < Len(c) + 1
        BY <1>3, <1>4, <3>1, <3>2
      <4> QED BY <2>4, <3>2, <4>1, <4>2
    <3>4. CASE j # Len(r) + 1
      <4>1. j \in 1 .. Len(r) /\ q[j] = r[j]
        BY <2>2, <3>1, <3>4
      <4> QED BY <1>5, <2>5, <3>1, <3>2, <4>1 DEF in_order
    <3> QED BY <3>3, <3>4
  <2>6. in_order(q, d)
    BY <2>5 DEF in_order
  <2> QED BY <2>1, <2>2, <2>3, <2>6, WithoutRepeats DEF d
<1> QED BY <1>6, <1>7

-----------------------------------------------------------------------------
taking(given, source) ==
  CHOOSE take : take = [i \in 0 .. Len(source) |->
    IF i = 0 THEN given
    ELSE LET values_ == take[i - 1] IN
         IF Contains(values_, source[i]) THEN values_ ELSE Append(values_, source[i])]

LEMMA AppendUniqueIs ==
  ASSUME NEW given, NEW source
  PROVE  append_unique(given, source) = taking(given, source)[Len(source)]
BY DEF append_unique, taking

LEMMA GrowTurn ==
  ASSUME NEW A, NEW v \in Seq(A), NEW x \in A
  PROVE  /\ (IF Contains(v, x) THEN v ELSE Append(v, x)) = grow(v, x)
         /\ grow(v, x) \in Seq(A)
<1>1. Contains(v, x) <=> x \in ToSet(v)
  BY Occurs DEF Contains, occurs
<1>2. Append(v, x) = back(v, x) /\ back(v, x) \in Seq(A)
  BY DEF back
<1> QED BY <1>1, <1>2 DEF grow

\* taking is well defined: every turn grows what the one before has taken.
LEMMA Taking ==
  ASSUME NEW A, NEW given \in Seq(A), NEW source \in Seq(A)
  PROVE  /\ taking(given, source)[0] = given
         /\ \A i \in 0 .. Len(source) - 1 :
              taking(given, source)[i + 1] = grow(taking(given, source)[i], source[i + 1])
<1> DEFINE S == 0 .. Len(source)
           V == Seq(A)
           N == Len(source) + 1
           turn(g, i) == IF i = 0 THEN given ELSE grow(g[i - 1], source[i])
           D == [g \in [S -> V] |-> [i \in S |-> turn(g, i)]]
           r == [i \in S |-> i]
           f == taking(given, source)
<1>0. \A i \in S : i # 0 => i - 1 \in S /\ source[i] \in A /\ r[i - 1] < r[i]
  OBVIOUS
<1>1. ASSUME NEW g \in [S -> V], NEW i \in S PROVE turn(g, i) \in V
  <2>1. i # 0 => i - 1 \in S /\ source[i] \in A
    BY <1>0
  <2>2. i # 0 => g[i - 1] \in Seq(A)
    BY <2>1
  <2>3. i # 0 => grow(g[i - 1], source[i]) \in Seq(A)
    BY <2>1, <2>2, GrowTurn
  <2> QED BY <2>3
<1>2. V # {} /\ r \in [S -> Nat] /\ N \in Nat /\ \A x \in S : r[x] < N
  <2>1. <<>> \in V
    OBVIOUS
  <2>2. N \in Nat /\ r \in [S -> Nat]
    OBVIOUS
  <2>3. \A x \in S : r[x] < N
    OBVIOUS
  <2> HIDE DEF V, r, S, N
  <2> QED BY <2>1, <2>2, <2>3
<1>3. ASSUME NEW g \in [S -> V], NEW h \in [S -> V], NEW x \in S,
             \A y \in S : r[y] < r[x] => g[y] = h[y]
      PROVE  turn(g, x) = turn(h, x)
  <2>1. x # 0 => x - 1 \in S /\ r[x - 1] < r[x]
    BY <1>0
  <2> HIDE DEF S, r
  <2>2. x # 0 => g[x - 1] = h[x - 1]
    BY <1>3, <2>1
  <2> QED BY <2>2
<1>4. PICK g \in [S -> V] : g = D[g]
  <2> HIDE DEF S, V, N, r, turn
  <2>1. D \in [[S -> V] -> [S -> V]]
    BY <1>1
  <2>2. ASSUME NEW g \in [S -> V], NEW h \in [S -> V], NEW x \in S,
               \A y \in S : r[y] < r[x] => g[y] = h[y]
        PROVE  D[g][x] = D[h][x]
    BY <1>3, <2>2
  <2> HIDE DEF D
  <2>3. descends(S, V, D, r, N)
    BY <1>2, <2>1, <2>2 DEF descends
  <2> QED BY <2>3, Recursion
<1>5. \A i \in S : g[i] = turn(g, i)
  <2> HIDE DEF S, V, turn
  <2> QED BY <1>4
<1> DEFINE body(t, i) == IF i = 0 THEN given
                         ELSE LET values_ == t[i - 1] IN
                              IF Contains(values_, source[i]) THEN values_
                              ELSE Append(values_, source[i])
<1>6. ASSUME NEW i \in S PROVE g[i] = body(g, i)
  <2>1. CASE i = 0
    BY <1>5, <2>1
  <2>2. CASE i # 0
    <3>1. i - 1 \in S /\ source[i] \in A
      BY <1>0, <2>2
    <3>2. g[i - 1] \in Seq(A)
      BY <3>1
    <3>3. body(g, i) = grow(g[i - 1], source[i])
      BY <2>2, <3>1, <3>2, GrowTurn
    <3> HIDE DEF body
    <3> QED BY <1>5, <2>2, <3>3
  <2> QED BY <2>1, <2>2
<1>7. g = [i \in S |-> body(g, i)]
  <2> HIDE DEF S, V, D, r, N, turn, body
  <2>1. g \in [S -> V]
    BY <1>4, ZenonT(90)
  <2> QED BY ONLY <2>1, <1>6, SMTT(60)
<1>8. f = [i \in S |-> body(f, i)]
  BY <1>7 DEF taking
<1> HIDE DEF f, body
<1>9. f[0] = given
  <2>1. 0 \in S
    OBVIOUS
  <2> QED BY <1>8, <2>1 DEF body
<1>10. \A i \in S : f[i] \in V
  <2> DEFINE T == {n \in Nat : n \in S => f[n] \in V}
  <2>1. 0 \in T
    BY <1>9
  <2>2. ASSUME NEW n \in Nat, n \in T PROVE n + 1 \in T
    <3> SUFFICES ASSUME n + 1 \in S PROVE f[n + 1] \in V
      OBVIOUS
    <3>1. n \in S /\ n + 1 # 0 /\ (n + 1) - 1 = n /\ source[n + 1] \in A
      OBVIOUS
    <3>2. f[n] \in Seq(A)
      BY <2>2, <3>1
    <3>3. body(f, n + 1) = grow(f[n], source[n + 1])
      BY <3>1, <3>2, GrowTurn DEF body
    <3> HIDE DEF S
    <3> QED BY <1>8, <3>1, <3>2, <3>3, GrowTurn
  <2> HIDE DEF T
  <2>3. Nat \subseteq T
    BY <2>1, <2>2, Induct
  <2> QED BY <2>3 DEF T
<1>11. ASSUME NEW i \in 0 .. Len(source) - 1 PROVE f[i + 1] = grow(f[i], source[i + 1])
  <2>0. Len(source) \in Nat
    OBVIOUS
  <2>a. i \in S /\ i + 1 \in S /\ i + 1 # 0 /\ (i + 1) - 1 = i /\ i + 1 \in 1 .. Len(source)
    BY ONLY <2>0, i \in 0 .. Len(source) - 1 DEF S
  <2>1. i \in S /\ i + 1 \in S /\ i + 1 # 0 /\ (i + 1) - 1 = i /\ source[i + 1] \in A
    BY <2>a
  <2>2. f[i] \in Seq(A)
    BY <1>10, <2>1
  <2>3. body(f, i + 1) = grow(f[i], source[i + 1])
    BY <2>1, <2>2, GrowTurn DEF body
  <2> HIDE DEF S
  <2> QED BY <1>8, <2>1, <2>3
<1> QED BY <1>9, <1>11 DEF f

LEMMA UptoNext ==
  ASSUME NEW A, NEW u \in Seq(A), NEW s \in Seq(A), NEW i \in 0 .. Len(s) - 1
  PROVE  /\ cat(u, upto(s, i + 1)) = back(cat(u, upto(s, i)), s[i + 1])
         /\ s[i + 1] \in A /\ cat(u, upto(s, i)) \in Seq(A)
<1>1. s[i + 1] \in A /\ upto(s, i) \in Seq(A) /\ Len(s) \in Nat
  BY DEF upto
<1>2. upto(s, i + 1) = cat(upto(s, i), <<s[i + 1]>>)
  BY DEF upto, cat
<1>3. cat(u, upto(s, i)) \in Seq(A)
  BY <1>1, CatIs
<1>4. cat(u, cat(upto(s, i), <<s[i + 1]>>)) = cat(cat(u, upto(s, i)), <<s[i + 1]>>)
  <2>1. <<s[i + 1]>> \in Seq(A)
    BY <1>1
  <2> DEFINE v == upto(s, i)
             w == <<s[i + 1]>>
  <2> HIDE DEF v, w
  <2>2. v \in Seq(A) /\ w \in Seq(A)
    BY <1>1, <2>1 DEF v, w
  <2>3. cat(cat(u, v), w) = cat(u, cat(v, w))
    BY <2>2, CatCat
  <2> QED BY <2>3 DEF v, w
<1> QED BY <1>1, <1>2, <1>3, <1>4 DEF back, cat

\* append_unique goes on with what it is given, without repeats.
LEMMA AppendUnique ==
  ASSUME NEW A, NEW given \in Seq(A), NEW c \in Seq(A), NEW source \in Seq(A),
         is_without_repeats(given, c)
  PROVE  /\ append_unique(given, source) \in Seq(A)
         /\ is_without_repeats(append_unique(given, source), cat(c, source))
<1> DEFINE f == taking(given, source)
           n == Len(source)
           T == {k \in Nat : k \in 0 .. n => /\ f[k] \in Seq(A)
                                             /\ is_without_repeats(f[k], cat(c, upto(source, k)))}
<1>0. n \in Nat
  OBVIOUS
<1>1. f[0] = given /\ \A i \in 0 .. n - 1 : f[i + 1] = grow(f[i], source[i + 1])
  BY Taking
<1> HIDE DEF f
<1>2. 0 \in T
  <2>1. upto(source, 0) = <<>> /\ cat(c, <<>>) = c
    BY CatEmpty DEF upto
  <2> QED BY <1>1, <2>1
<1>3. ASSUME NEW k \in Nat, k \in T PROVE k + 1 \in T
  <2> SUFFICES ASSUME k + 1 \in 0 .. n
               PROVE  /\ f[k + 1] \in Seq(A)
                      /\ is_without_repeats(f[k + 1], cat(c, upto(source, k + 1)))
    OBVIOUS
  <2>1. k \in 0 .. n - 1 /\ k \in 0 .. n
    BY <1>0
  <2>2. f[k] \in Seq(A) /\ is_without_repeats(f[k], cat(c, upto(source, k)))
    BY <1>3, <2>1
  <2>3. f[k + 1] = grow(f[k], source[k + 1])
    BY <1>1, <2>1
  <2>4. /\ cat(c, upto(source, k + 1)) = back(cat(c, upto(source, k)), source[k + 1])
        /\ source[k + 1] \in A /\ cat(c, upto(source, k)) \in Seq(A)
    BY <2>1, UptoNext
  <2> HIDE DEF T, n
  <2> QED BY <2>2, <2>3, <2>4, GrowIs
<1> HIDE DEF T
<1>4. n \in T
  BY <1>0, <1>2, <1>3, Induct
<1>5. n \in 0 .. n /\ upto(source, n) = source
  BY <1>0 DEF upto
<1> QED BY <1>4, <1>5, AppendUniqueIs DEF T, f

\* The roles of a token are taken without repeats.
LEMMA RolesTaken ==
  ASSUME NEW a \in Seq(String), NEW b \in Seq(String)
  PROVE  is_without_repeats(append_unique(append_unique(<<>>, a), b), cat(a, b))
<1> DEFINE z == <<>>
           q == append_unique(z, a)
<1>1. is_without_repeats(z, z) /\ z \in Seq(String)
  BY WithoutRepeats DEF in_order
<1>2. cat(z, a) = a
  BY CatEmpty
<1> HIDE DEF z
<1>3. q \in Seq(String) /\ is_without_repeats(q, cat(z, a))
  BY <1>1, AppendUnique
<1> HIDE DEF q
<1>4. q \in Seq(String) /\ is_without_repeats(q, a)
  BY <1>2, <1>3
<1>5. is_without_repeats(append_unique(q, b), cat(a, b))
  BY <1>4, AppendUnique
<1> QED BY <1>5 DEF q, z

-----------------------------------------------------------------------------
\* The documents that can be written.
PayloadInv == payload \in Seq(Claim) /\ distinct(payload)

LEMMA ListsType ==
  ASSUME NEW names, NEW max \in Nat
  PROVE  Lists(names, max) \subseteq Seq(names)
BY DEF Lists

\* What each claim says.
claim_is(c) ==
  /\ c.name \in {"realm_access", "resource_access", "aud", "sub"}
  /\ c.name = "realm_access" => c.says \in Seq(String)
  /\ c.name = "resource_access" => c.says \in Seq(Entry)
  /\ c.name = "aud" => c.says \in Seq(String)
  /\ c.name = "sub" => c.says \in Seq(String) /\ Len(c.says) = 1

LEMMA ClaimIs ==
  ASSUME NEW c \in Claim
  PROVE  claim_is(c)
<1>0. /\ Role \subseteq String /\ Client \subseteq String
      /\ MaxRoles \in Nat /\ MaxClientRoles \in Nat /\ MaxClients \in Nat
  BY DocumentsAssumption DEF DocumentsAssumption
<1>1. Lists(Role, MaxRoles) \subseteq Seq(String)
  <2>1. Lists(Role, MaxRoles) \subseteq Seq(Role)
    BY <1>0, ListsType
  <2>2. Seq(Role) \subseteq Seq(String)
    BY <1>0
  <2> QED BY <2>1, <2>2
<1>2. Lists(Client, MaxClients) \subseteq Seq(String)
  <2>1. Lists(Client, MaxClients) \subseteq Seq(Client)
    BY <1>0, ListsType
  <2>2. Seq(Client) \subseteq Seq(String)
    BY <1>0
  <2> QED BY <2>1, <2>2
<1>3. Lists(Client \X Lists(Role, MaxClientRoles), MaxClients) \subseteq Seq(Entry)
  <2> DEFINE B == Lists(Role, MaxClientRoles)
             E == Client \X B
  <2>1. B \subseteq Seq(Role)
    BY <1>0, ListsType
  <2>2. Seq(Role) \subseteq Seq(String)
    BY <1>0
  <2> HIDE DEF B
  <2>3. E \subseteq Entry
    BY <1>0, <2>1, <2>2 DEF Entry
  <2> HIDE DEF E
  <2>4. Lists(E, MaxClients) \subseteq Seq(E)
    BY <1>0, ListsType
  <2>5. Seq(E) \subseteq Seq(Entry)
    BY <2>3
  <2> QED BY <2>4, <2>5 DEF B, E
<1>4. ASSUME NEW r \in Role PROVE <<r>> \in Seq(String) /\ Len(<<r>>) = 1
  BY <1>0
<1>5. CASE c \in [name: {"realm_access"}, says: Lists(Role, MaxRoles)]
  BY <1>1, <1>5 DEF claim_is
<1>6. CASE c \in [name: {"resource_access"},
                  says: Lists(Client \X Lists(Role, MaxClientRoles), MaxClients)]
  BY <1>3, <1>6 DEF claim_is
<1>7. CASE c \in [name: {"aud"}, says: Lists(Client, MaxClients)]
  BY <1>2, <1>7 DEF claim_is
<1>8. CASE c \in [name: {"sub"}, says: {<<r>> : r \in Role}]
  <2>1. c.name = "sub" /\ \E r \in Role : c.says = <<r>>
    BY <1>8
  <2> QED BY <1>4, <2>1 DEF claim_is
<1> QED BY <1>5, <1>6, <1>7, <1>8 DEF Claim

\* A single string.
LEMMA Single ==
  ASSUME NEW v \in Seq(String), Len(v) = 1
  PROVE  /\ v \in Whole /\ v # <<>> /\ v[1] \in String /\ v[1] # "[" /\ v[1] # "{"
         /\ v[1] # nullopt /\ <<v[1]>> = v
<1>1. v[1] \in String /\ v = <<v[1]>> /\ v # <<>>
  OBVIOUS
<1>2. one(v[1]) \in Whole
  BY <1>1, AtomWhole
<1>3. v \in Whole
  BY <1>1, <1>2 DEF one
<1>4. v[1] # "[" /\ v[1] # "{" /\ v[1] # nullopt
  BY <1>1, Tokens, DocumentStrings
<1> QED BY <1>1, <1>3, <1>4

\* The tokens of each claim.
text_is(c) ==
  /\ claim_text(c) \in Whole
  /\ c.name = "realm_access" => claim_text(c) = roles_object(c.says)
  /\ c.name = "resource_access" => claim_text(c) = object(members_of(c.says))
  /\ c.name = "aud" => claim_text(c) = IF Len(c.says) = 1 THEN c.says ELSE strings(c.says)
  /\ c.name = "sub" => claim_text(c) = c.says

LEMMA TextIs ==
  ASSUME NEW c \in Claim
  PROVE  text_is(c)
<1>0. claim_is(c)
  BY ClaimIs
<1>1. CASE c.name = "realm_access"
  <2>1. claim_text(c) = roles_object(c.says)
    BY <1>1 DEF claim_text
  <2>2. roles_object(c.says) \in Whole
    BY <1>0, <1>1, RolesObject DEF claim_is
  <2> QED BY <1>1, <2>1, <2>2 DEF text_is
<1>2. CASE c.name = "resource_access"
  <2>1. claim_text(c) = object(members_of(c.says))
    BY <1>2 DEF claim_text, members_of
  <2>2. object(members_of(c.says)) \in Whole
    BY <1>0, <1>2, ClientRoles DEF claim_is
  <2> QED BY <1>2, <2>1, <2>2 DEF text_is
<1>3. CASE c.name = "aud"
  <2>1. claim_text(c) = IF Len(c.says) = 1 THEN c.says ELSE strings(c.says)
    BY <1>3 DEF claim_text
  <2>2. Len(c.says) = 1 => c.says \in Whole
    BY <1>0, <1>3, Single DEF claim_is
  <2>3. strings(c.says) \in Whole
    BY <1>0, <1>3, StringsAre DEF claim_is
  <2> QED BY <1>3, <2>1, <2>2, <2>3 DEF text_is
<1>4. CASE c.name = "sub"
  <2>1. claim_text(c) = c.says
    BY <1>4 DEF claim_text
  <2>2. c.says \in Whole
    BY <1>0, <1>4, Single DEF claim_is
  <2> QED BY <1>4, <2>1, <2>2 DEF text_is
<1> QED BY <1>0, <1>1, <1>2, <1>3, <1>4 DEF claim_is

LEMMA ClaimsType ==
  ASSUME PayloadInv
  PROVE  /\ claims \in Seq(Member) /\ distinct(claims) /\ Len(claims) = Len(payload)
         /\ \A i \in 1 .. Len(payload) : /\ payload[i] \in Claim
                                         /\ claims[i].name = payload[i].name
                                         /\ claims[i].value = claim_text(payload[i])
<1>1. DOMAIN payload = 1 .. Len(payload) /\ Len(payload) \in Nat
      /\ \A i \in 1 .. Len(payload) : payload[i] \in Claim
  BY DEF PayloadInv
<1>2. ASSUME NEW c \in Claim
      PROVE  /\ member(c.name, claim_text(c)) \in Member
             /\ member(c.name, claim_text(c)).name = c.name
             /\ member(c.name, claim_text(c)).value = claim_text(c)
  <2>1. claim_is(c) /\ text_is(c)
    BY ClaimIs, TextIs
  <2>2. c.name \in String
    BY <2>1, DocumentStrings DEF claim_is
  <2>3. claim_text(c) \in Whole
    BY <2>1 DEF text_is
  <2> QED BY <2>2, <2>3 DEF member, Member
<1>3. claims = [i \in 1 .. Len(payload) |-> member(payload[i].name, claim_text(payload[i]))]
  BY <1>1 DEF claims
<1>4. \A i \in 1 .. Len(payload) :
        claims[i] \in Member /\ claims[i].name = payload[i].name
        /\ claims[i].value = claim_text(payload[i])
  BY <1>1, <1>2, <1>3
<1>5. claims \in Seq(Member) /\ Len(claims) = Len(payload) /\ DOMAIN claims = 1 .. Len(payload)
  BY <1>1, <1>3, <1>4
<1>6. distinct(claims)
  BY <1>1, <1>4, <1>5 DEF distinct, PayloadInv
<1> QED BY <1>1, <1>4, <1>5, <1>6

LEMMA SaidIs ==
  ASSUME PayloadInv, NEW name
  PROVE  /\ \A i \in 1 .. Len(payload) : payload[i].name = name => said(name) = payload[i].says
         /\ (\A i \in 1 .. Len(payload) : payload[i].name # name) => said(name) = <<>>
<1> DEFINE found == {i \in DOMAIN payload : payload[i].name = name}
<1>1. DOMAIN payload = 1 .. Len(payload)
  BY DEF PayloadInv
<1>2. said(name) = IF found = {} THEN <<>> ELSE payload[Max(found)].says
  BY DEF said
<1>3. ASSUME NEW i \in 1 .. Len(payload), payload[i].name = name
      PROVE  said(name) = payload[i].says
  <2>1. found = {i}
    BY <1>1, <1>3 DEF PayloadInv, distinct
  <2>2. Max({i}) = i
    BY DEF Max
  <2> HIDE DEF found
  <2> QED BY <1>2, <2>1, <2>2
<1>4. (\A i \in 1 .. Len(payload) : payload[i].name # name) => said(name) = <<>>
  BY <1>1, <1>2
<1> QED BY <1>3, <1>4

\* A claim is read, or there is none.
claim_read(name, c) ==
  /\ c \in Claim /\ c.name = name /\ said(name) = c.says
  /\ found_as(object(claims), name, claim_text(c))

LEMMA ClaimRead ==
  ASSUME PayloadInv, NEW name, first_found(claims, name)
  PROVE  \/ \E c \in Claim : claim_read(name, c)
         \/ said(name) = <<>> /\ extract_json_value(object(claims), name) = nowhere
<1>0. /\ claims \in Seq(Member) /\ distinct(claims) /\ Len(claims) = Len(payload)
      /\ \A i \in 1 .. Len(payload) : /\ payload[i] \in Claim
                                      /\ claims[i].name = payload[i].name
                                      /\ claims[i].value = claim_text(payload[i])
  BY ClaimsType
<1> DEFINE M == claims
<1> HIDE DEF M
<1>1. ASSUME NEW i \in 1 .. Len(payload), payload[i].name = name
      PROVE  claim_read(name, payload[i])
  <2>1. M \in Seq(Member) /\ distinct(M) /\ i \in 1 .. Len(M) /\ M[i].name = name
        /\ M[i].value = claim_text(payload[i])
    BY <1>0, <1>1 DEF M
  <2>2. first_found(M, M[i].name)
    BY <2>1 DEF M
  <2>3. found_as(object(M), M[i].name, M[i].value)
    BY <2>1, <2>2, MemberFound
  <2>4. said(name) = payload[i].says
    BY <1>1, SaidIs
  <2> QED BY <1>0, <1>1, <2>1, <2>3, <2>4 DEF claim_read, M
<1>2. ASSUME \A i \in 1 .. Len(payload) : payload[i].name # name
      PROVE  said(name) = <<>> /\ extract_json_value(object(claims), name) = nowhere
  <2>1. said(name) = <<>>
    BY <1>2, SaidIs
  <2>2. \A i \in 1 .. Len(M) : M[i].name # name
    BY <1>0, <1>2 DEF M
  <2>3. extract_json_value(object(M), name) = nowhere
    BY <1>0, <2>2, MemberMissing DEF M
  <2> QED BY <2>1, <2>3 DEF M
<1> QED BY <1>0, <1>1, <1>2

LEMMA RealmRolesRead ==
  ASSUME PayloadInv, first_found(claims, "realm_access")
  PROVE  /\ said("realm_access") \in Seq(String)
         /\ LET part_ == extract_json_part(object(claims), "realm_access", "{")
            IN (IF part_ = <<>> THEN <<>> ELSE extract_json_string_array(part_, "roles"))
                 = said("realm_access")
<1> DEFINE name == "realm_access"
           s == object(claims)
           p == extract_json_part(s, name, "{")
<1> HIDE DEF name, s
<1>1. ASSUME NEW c \in Claim, claim_read(name, c)
      PROVE  /\ said(name) \in Seq(String)
             /\ (IF p = <<>> THEN <<>> ELSE extract_json_string_array(p, "roles")) = said(name)
  <2> DEFINE v == roles_object(c.says)
  <2>1. c.name = "realm_access" /\ said(name) = c.says /\ found_as(s, name, claim_text(c))
    BY <1>1 DEF claim_read, name, s
  <2>2. c.says \in Seq(String) /\ claim_text(c) = v
    BY <2>1, ClaimIs, TextIs DEF claim_is, text_is
  <2>3. v \in Whole /\ v[1] = "{" /\ extract_json_string_array(v, "roles") = c.says
    BY <2>2, RolesObject
  <2>4. v # <<>>
    BY <2>3 DEF Whole
  <2> HIDE DEF v
  <2>5. p = v
    BY <2>1, <2>2, <2>3, PartFound
  <2> QED BY <2>1, <2>2, <2>3, <2>4, <2>5
<1>2. ASSUME said(name) = <<>>, extract_json_value(s, name) = nowhere
      PROVE  /\ said(name) \in Seq(String)
             /\ (IF p = <<>> THEN <<>> ELSE extract_json_string_array(p, "roles")) = said(name)
  <2>1. p = <<>>
    BY <1>2, NothingFound
  <2>2. <<>> \in Seq(String)
    OBVIOUS
  <2> HIDE DEF p
  <2> QED BY <1>2, <2>1, <2>2
<1>3. first_found(claims, name)
  BY DEF name
<1> QED BY <1>1, <1>2, <1>3, ClaimRead DEF name, s

LEMMA ClientRolesRead ==
  ASSUME PayloadInv, first_found(claims, "resource_access")
  PROVE  /\ said("resource_access") \in Seq(Entry)
         /\ client_roles(extract_json_part(object(claims), "resource_access", "{"))
              = FlattenSeq(lists(said("resource_access")))
<1> DEFINE name == "resource_access"
           s == object(claims)
           p == extract_json_part(s, name, "{")
<1> HIDE DEF name, s
<1>1. ASSUME NEW c \in Claim, claim_read(name, c)
      PROVE  said(name) \in Seq(Entry) /\ client_roles(p) = FlattenSeq(lists(said(name)))
  <2> DEFINE v == object(members_of(c.says))
  <2>1. c.name = "resource_access" /\ said(name) = c.says /\ found_as(s, name, claim_text(c))
    BY <1>1 DEF claim_read, name, s
  <2>2. c.says \in Seq(Entry) /\ claim_text(c) = v
    BY <2>1, ClaimIs, TextIs DEF claim_is, text_is
  <2>3. v[1] = "{" /\ client_roles(v) = FlattenSeq(lists(c.says))
    BY <2>2, ClientRoles
  <2> HIDE DEF v
  <2>4. p = v
    BY <2>1, <2>2, <2>3, PartFound
  <2> QED BY <2>1, <2>2, <2>3, <2>4
<1>2. ASSUME said(name) = <<>>, extract_json_value(s, name) = nowhere
      PROVE  said(name) \in Seq(Entry) /\ client_roles(p) = FlattenSeq(lists(said(name)))
  <2>1. p = <<>>
    BY <1>2, NothingFound
  <2>2. lists(<<>>) = <<>> /\ <<>> \in Seq(Entry)
    BY DEF lists
  <2> QED BY <1>2, <2>1, <2>2, NoClientRoles, FlattenEmpty
<1>3. first_found(claims, name)
  BY DEF name
<1> QED BY <1>1, <1>2, <1>3, ClaimRead DEF name, s

LEMMA AudiencesRead ==
  ASSUME PayloadInv, first_found(claims, "aud")
  PROVE  extract_audience_values(object(claims)) = said("aud")
<1> DEFINE name == "aud"
           s == object(claims)
           a == extract_json_string_array(s, name)
           x == extract_json_string(s, name)
<1>0. extract_audience_values(s) = IF a = <<>> /\ x # nullopt THEN <<x>> ELSE a
  BY DEF extract_audience_values
<1> HIDE DEF name, s
<1>1. ASSUME NEW c \in Claim, claim_read(name, c)
      PROVE  (IF a = <<>> /\ x # nullopt THEN <<x>> ELSE a) = said(name)
  <2> DEFINE v == claim_text(c)
  <2>1. c.name = "aud" /\ said(name) = c.says /\ found_as(s, name, v)
    BY <1>1 DEF claim_read, name, s
  <2>2. c.says \in Seq(String) /\ v = IF Len(c.says) = 1 THEN c.says ELSE strings(c.says)
    BY <2>1, ClaimIs, TextIs DEF claim_is, text_is
  <2> HIDE DEF v
  <2>3. /\ v[1] # "[" => a = <<>>
        /\ \A names \in Seq(String) : v = strings(names) => a = names
        /\ x = IF Len(v) = 1 /\ v[1] \in String THEN v[1] ELSE nullopt
    BY <2>1, StringsFound, StringFound
  <2>4. CASE Len(c.says) = 1
    <3>1. v[1] \in String /\ v[1] # "[" /\ v[1] # nullopt /\ <<v[1]>> = v /\ v = c.says
      BY <2>2, <2>4, Single
    <3>2. a = <<>> /\ x = v[1]
      BY <2>2, <2>3, <2>4, <3>1
    <3> HIDE DEF a, x
    <3> QED BY <2>1, <3>1, <3>2
  <2>5. CASE Len(c.says) # 1
    <3>1. v = strings(c.says) /\ v[1] = "["
      BY <2>2, <2>5, StringsAre
    <3>2. a = c.says
      BY <2>2, <2>3, <3>1
    <3>3. x = nullopt
      BY <2>3, <3>1, Tokens
    <3> HIDE DEF a, x
    <3> QED BY <2>1, <3>2, <3>3
  <2> QED BY <2>4, <2>5
<1>2. ASSUME said(name) = <<>>, extract_json_value(s, name) = nowhere
      PROVE  (IF a = <<>> /\ x # nullopt THEN <<x>> ELSE a) = said(name)
  <2>1. a = <<>> /\ x = nullopt
    BY <1>2, NothingFound, NoStringsFound
  <2> HIDE DEF a, x
  <2> QED BY <1>2, <2>1
<1>3. first_found(claims, name)
  BY DEF name
<1> QED BY <1>0, <1>1, <1>2, <1>3, ClaimRead DEF name, s

LEMMA SubjectRead ==
  ASSUME PayloadInv, first_found(claims, "sub")
  PROVE  extract_json_string(object(claims), "sub")
           = IF said("sub") = <<>> THEN nullopt ELSE said("sub")[1]
<1> DEFINE name == "sub"
           s == object(claims)
           x == extract_json_string(s, name)
<1> HIDE DEF name, s
<1>1. ASSUME NEW c \in Claim, claim_read(name, c)
      PROVE  x = IF said(name) = <<>> THEN nullopt ELSE said(name)[1]
  <2> DEFINE v == claim_text(c)
  <2>1. c.name = "sub" /\ said(name) = c.says /\ found_as(s, name, v)
    BY <1>1 DEF claim_read, name, s
  <2>2. c.says \in Seq(String) /\ Len(c.says) = 1 /\ v = c.says
    BY <2>1, ClaimIs, TextIs DEF claim_is, text_is
  <2> HIDE DEF v
  <2>3. x = IF Len(v) = 1 /\ v[1] \in String THEN v[1] ELSE nullopt
    BY <2>1, StringFound
  <2>4. v # <<>> /\ v[1] \in String
    BY <2>2, Single
  <2> QED BY <2>1, <2>2, <2>3, <2>4
<1>2. ASSUME said(name) = <<>>, extract_json_value(s, name) = nowhere
      PROVE  x = IF said(name) = <<>> THEN nullopt ELSE said(name)[1]
  BY <1>2, NothingFound
<1>3. first_found(claims, name)
  BY DEF name
<1> QED BY <1>1, <1>2, <1>3, ClaimRead DEF name, s

LEMMA RolesRead ==
  ASSUME PayloadInv, first_found(claims, "realm_access"), first_found(claims, "resource_access")
  PROVE  is_without_repeats(extract_all_roles(object(claims)),
                            said("realm_access") \o FlattenSeq(lists(said("resource_access"))))
<1> DEFINE s == object(claims)
           p == extract_json_part(s, "realm_access", "{")
           a == IF p = <<>> THEN <<>> ELSE extract_json_string_array(p, "roles")
           b == client_roles(extract_json_part(s, "resource_access", "{"))
<1>1. extract_all_roles(s) = append_unique(append_unique(<<>>, a), b)
  BY DEF extract_all_roles
<1>2. a = said("realm_access") /\ said("realm_access") \in Seq(String)
  BY RealmRolesRead
<1>3. b = FlattenSeq(lists(said("resource_access"))) /\ said("resource_access") \in Seq(Entry)
  BY ClientRolesRead
<1>4. FlattenSeq(lists(said("resource_access"))) \in Seq(String)
  BY <1>3, EntriesType, FlattenType
<1> HIDE DEF a, b
<1>5. is_without_repeats(append_unique(append_unique(<<>>, a), b), cat(a, b))
  BY <1>2, <1>3, <1>4, RolesTaken
<1> QED BY <1>1, <1>2, <1>3, <1>5 DEF cat, s

LEMMA ClaimsRead ==
  ASSUME PayloadInv
  PROVE  ClaimsExact
<1> DEFINE L == [i \in DOMAIN said("resource_access") |-> said("resource_access")[i][2]]
<1>1. L = lists(said("resource_access"))
  BY DEF lists
<1>2. ClaimsExact =
        (/\ first_found(claims, "realm_access") /\ first_found(claims, "resource_access") =>
              is_without_repeats(extract_all_roles(object(claims)),
                                 said("realm_access") \o FlattenSeq(L))
         /\ first_found(claims, "aud") => extract_audience_values(object(claims)) = said("aud")
         /\ first_found(claims, "sub") =>
              extract_json_string(object(claims), "sub")
                = IF said("sub") = <<>> THEN nullopt ELSE said("sub")[1])
  BY Zenon DEF ClaimsExact
<1> HIDE DEF L
<1> QED BY <1>1, <1>2, RolesRead, AudiencesRead, SubjectRead

-----------------------------------------------------------------------------
\* The keys that can be written.
KeysInv == key_set \in Seq(Key \cup {<<>>})
EndpointsInv == discovery \in Seq(Endpoint) /\ distinct(discovery)

\* A key: members of which kid and kty are single strings.
key_is(k) ==
  /\ k \in Seq(Member) /\ distinct(k) /\ Len(k) # 0
  /\ \A i \in 1 .. Len(k) : k[i].name \in {"kid", "kty"} =>
       k[i].value \in Seq(String) /\ Len(k[i].value) = 1

LEMMA KeyIs ==
  ASSUME NEW k \in Key
  PROVE  key_is(k)
<1> DEFINE names_of == UNION {Injection(1 .. n, {"kid", "kty", "x5c"}) : n \in 1 .. 3}
           values_of == [kid: {<<v>> : v \in KeyId}, kty: {<<v>> : v \in KeyType},
                         x5c: {strings(v) : v \in Chain}]
<1>1. PICK names \in names_of, values_ \in values_of :
        k = [i \in DOMAIN names |-> member(names[i], values_[names[i]])]
  BY DEF Key
<1>0. KeyId \subseteq String /\ KeyType \subseteq String /\ Chain \subseteq Seq(String)
  BY DocumentsAssumption DEF DocumentsAssumption
<1>2. PICK n \in 1 .. 3 : /\ names \in [1 .. n -> {"kid", "kty", "x5c"}]
                          /\ \A i, j \in 1 .. n : names[i] = names[j] => i = j
  BY DEF Injection, IsInjective
<1>3. /\ values_["kid"] \in Seq(String) /\ Len(values_["kid"]) = 1
      /\ values_["kty"] \in Seq(String) /\ Len(values_["kty"]) = 1
      /\ values_["x5c"] \in Whole
  <2>1. /\ \E v \in KeyId : values_["kid"] = <<v>>
        /\ \E v \in KeyType : values_["kty"] = <<v>>
        /\ \E v \in Chain : values_["x5c"] = strings(v)
    <3>1. values_.kid \in {<<v>> : v \in KeyId} /\ values_.kty \in {<<v>> : v \in KeyType}
          /\ values_.x5c \in {strings(v) : v \in Chain}
      OBVIOUS
    <3>2. /\ \E v \in KeyId : values_.kid = <<v>>
          /\ \E v \in KeyType : values_.kty = <<v>>
          /\ \E v \in Chain : values_.x5c = strings(v)
      BY <3>1
    <3> QED BY <3>2
  <2>2. \A v \in String : <<v>> \in Seq(String) /\ Len(<<v>>) = 1
    OBVIOUS
  <2>3. \A v \in Chain : strings(v) \in Whole
    BY <1>0, StringsAre
  <2> QED BY <1>0, <2>1, <2>2, <2>3
<1>4. ASSUME NEW m \in {"kid", "kty", "x5c"}
      PROVE  /\ member(m, values_[m]) \in Member /\ member(m, values_[m]).name = m
             /\ member(m, values_[m]).value = values_[m]
  <2>1. values_[m] \in Whole
    <3>1. m = "kid" \/ m = "kty" \/ m = "x5c"
      OBVIOUS
    <3>2. values_["kid"] \in Whole /\ values_["kty"] \in Whole
      BY <1>3, Single
    <3> QED BY <1>3, <3>1, <3>2
  <2>2. m \in String
    BY DocumentStrings
  <2> QED BY <2>1, <2>2 DEF member, Member
<1>5. k = [i \in 1 .. n |-> member(names[i], values_[names[i]])]
  BY <1>1, <1>2
<1>6. \A i \in 1 .. n : /\ k[i] \in Member /\ k[i].name = names[i]
                        /\ k[i].value = values_[names[i]] /\ names[i] \in {"kid", "kty", "x5c"}
  <2>1. \A i \in 1 .. n : names[i] \in {"kid", "kty", "x5c"}
    BY <1>2
  <2> QED BY <1>4, <1>5, <2>1
<1>7. k \in Seq(Member) /\ Len(k) = n /\ DOMAIN k = 1 .. n /\ n # 0
  <2>1. n \in Nat /\ n # 0
    OBVIOUS
  <2>2. \A i \in 1 .. n : k[i] \in Member
    BY <1>6
  <2>3. k = [i \in 1 .. n |-> k[i]]
    BY <1>5
  <2>4. DOMAIN k = 1 .. n
    BY <1>5
  <2>5. k \in [1 .. n -> Member]
    BY <2>2, <2>3
  <2>6. k \in Seq(Member) /\ Len(k) = n
    BY <2>1, <2>4, <2>5
  <2> QED BY <2>1, <2>4, <2>6
<1>8. distinct(k)
  BY <1>2, <1>6, <1>7 DEF distinct
<1>9. ASSUME NEW i \in 1 .. Len(k), k[i].name \in {"kid", "kty"}
      PROVE  k[i].value \in Seq(String) /\ Len(k[i].value) = 1
  <2>1. i \in 1 .. n
    BY <1>7
  <2>2. k[i].name = names[i] /\ k[i].value = values_[names[i]]
    BY <1>6, <2>1
  <2>3. names[i] = "kid" \/ names[i] = "kty"
    BY <1>9, <2>2
  <2> QED BY <1>3, <2>2, <2>3
<1> QED BY <1>7, <1>8, <1>9 DEF key_is

\* What a key has as a member, and what is read of its tokens.
first_named(k, name) == SelectInSeq(k, LAMBDA m : m.name = name)
read_of(k, name) == LET i == first_named(k, name) IN IF i = 0 THEN "" ELSE k[i].value[1]
named_at(k, name) == {i \in 1 .. Len(k) : k[i].name = name}

LEMMA FirstNamed ==
  ASSUME NEW k, NEW name
  PROVE  first_named(k, name) = IF named_at(k, name) # {} THEN Min(named_at(k, name)) ELSE 0
BY DEF SelectInSeq, first_named, named_at

LEMMA ReadIs ==
  ASSUME NEW k, key_is(k), NEW name
  PROVE  /\ \A i \in 1 .. Len(k) : k[i].name = name => read_of(k, name) = k[i].value[1]
         /\ (\A i \in 1 .. Len(k) : k[i].name # name) => read_of(k, name) = ""
<1> DEFINE F == named_at(k, name)
<1>0. DOMAIN k = 1 .. Len(k) /\ Len(k) \in Nat
  BY DEF key_is
<1>1. ASSUME NEW i \in 1 .. Len(k), k[i].name = name PROVE read_of(k, name) = k[i].value[1]
  <2>1. F = {i}
    BY <1>0, <1>1 DEF key_is, distinct, named_at
  <2>2. Min({i}) = i /\ {i} # {} /\ i # 0
    BY DEF Min
  <2>3. first_named(k, name) = i
    BY <2>1, <2>2, FirstNamed
  <2> QED BY <2>2, <2>3 DEF read_of
<1>2. ASSUME \A i \in 1 .. Len(k) : k[i].name # name PROVE read_of(k, name) = ""
  <2>1. F = {}
    BY <1>2 DEF named_at
  <2>2. first_named(k, name) = 0
    BY <2>1, FirstNamed
  <2> QED BY <2>2 DEF read_of
<1> QED BY <1>1, <1>2

\* A member of a key is read of the tokens of the key.
LEMMA JwkMember ==
  ASSUME NEW k, key_is(k), NEW name \in {"kid", "kty"}, first_found(k, name)
  PROVE  value_or(extract_json_string(object(k), name), "") = read_of(k, name)
<1>0. k \in Seq(Member) /\ distinct(k)
  BY DEF key_is
<1> DEFINE s == object(k)
           x == extract_json_string(s, name)
<1>1. ASSUME NEW i \in 1 .. Len(k), k[i].name = name PROVE value_or(x, "") = read_of(k, name)
  <2> DEFINE v == k[i].value
  <2>1. found_as(s, name, v)
    <3>1. first_found(k, k[i].name)
      BY <1>1
    <3> HIDE DEF s
    <3> QED BY <1>0, <1>1, <3>1, MemberFound DEF s
  <2>2. v \in Seq(String) /\ Len(v) = 1
    BY <1>1 DEF key_is
  <2>3. read_of(k, name) = v[1]
    BY <1>1, ReadIs
  <2> HIDE DEF v, s
  <2>4. v[1] \in String /\ v[1] # nullopt
    BY <2>2, Single
  <2>5. x = v[1]
    BY <2>1, <2>2, <2>4, StringFound
  <2> HIDE DEF x
  <2> QED BY <2>3, <2>4, <2>5 DEF value_or
<1>2. ASSUME \A i \in 1 .. Len(k) : k[i].name # name PROVE value_or(x, "") = read_of(k, name)
  <2>1. extract_json_value(s, name) = nowhere
    BY <1>0, <1>2, MemberMissing
  <2>2. x = nullopt
    BY <2>1, NothingFound
  <2>3. read_of(k, name) = ""
    BY <1>2, ReadIs
  <2> HIDE DEF x
  <2> QED BY <2>2, <2>3 DEF value_or
<1> QED BY <1>1, <1>2

\* The key that is read of the tokens of an element, and that of a key.
jwk_of(e) == [kid |-> value_or(jwk_member(<<>>, e, "kid"), ""),
              kty |-> value_or(jwk_member(<<>>, e, "kty"), "")]
jwk_read(k) == [kid |-> read_of(k, "kid"), kty |-> read_of(k, "kty")]
item_of(e) == IF e[1] = "{" /\ jwk_of(e).kty # "" THEN <<jwk_of(e)>> ELSE <<>>
item_read(k) == IF k # <<>> /\ read_of(k, "kty") # "" THEN <<jwk_read(k)>> ELSE <<>>
items_of(P) == [i \in DOMAIN P |-> item_of(P[i])]
items_read(K) == [i \in DOMAIN K |-> item_read(K[i])]

\* The search in a key for either member finds the member.
searched(k) == k # <<>> => first_found(k, "kid") /\ first_found(k, "kty")

LEMMA ItemRead ==
  ASSUME NEW k \in Key \cup {<<>>}, searched(k)
  PROVE  key_text(k) \in Whole /\ item_of(key_text(k)) = item_read(k)
<1>1. CASE k = <<>>
  <2>1. key_text(k) = one("n")
    BY <1>1 DEF key_text, one
  <2>2. one("n") \in Whole /\ one("n")[1] = "n"
    BY AtomWhole DEF one
  <2>3. item_of(key_text(k)) = <<>>
    BY <2>1, <2>2 DEF item_of
  <2>4. item_read(k) = <<>>
    BY <1>1 DEF item_read
  <2> QED BY <2>1, <2>2, <2>3, <2>4
<1>2. CASE k # <<>>
  <2> DEFINE e == object(k)
  <2>1. key_is(k) /\ key_text(k) = e
    BY <1>2, KeyIs DEF key_text
  <2>2. e \in Whole /\ e[1] = "{"
    BY <2>1, ObjectWhole DEF key_is
  <2>3. /\ value_or(extract_json_string(e, "kid"), "") = read_of(k, "kid")
        /\ value_or(extract_json_string(e, "kty"), "") = read_of(k, "kty")
    BY <1>2, <2>1, JwkMember DEF searched
  <2> HIDE DEF e
  <2>4. jwk_of(e) = jwk_read(k) /\ jwk_of(e).kty = read_of(k, "kty")
    BY <2>3 DEF jwk_of, jwk_read, jwk_member
  <2>5. item_of(e) = item_read(k)
    BY <1>2, <2>2, <2>4 DEF item_of, item_read
  <2> QED BY <2>1, <2>2, <2>5
<1> QED BY <1>1, <1>2

LEMMA JwksAre ==
  ASSUME NEW s
  PROVE  extract_jwks(s) = FlattenSeq(items_of(elements(extract_json_part(s, "keys", "["))))
BY DEF extract_jwks, items_of, item_of, jwk_of, jwk_member

LEMMA KeysRead ==
  ASSUME KeysInv, \A i \in DOMAIN key_set : searched(key_set[i])
  PROVE  extract_jwks(key_set_text) = FlattenSeq(items_read(key_set))
<1> DEFINE P == [i \in DOMAIN key_set |-> key_text(key_set[i])]
           v == array(P)
           s == key_set_text
<1>1. DOMAIN key_set = 1 .. Len(key_set) /\ Len(key_set) \in Nat
      /\ \A i \in 1 .. Len(key_set) : key_set[i] \in Key \cup {<<>>}
  BY DEF KeysInv
<1>2. \A i \in 1 .. Len(key_set) : /\ key_text(key_set[i]) \in Whole
                                   /\ item_of(key_text(key_set[i])) = item_read(key_set[i])
  BY <1>1, ItemRead
<1>3. P \in Seq(Whole) /\ DOMAIN P = 1 .. Len(key_set)
      /\ \A i \in 1 .. Len(key_set) : P[i] = key_text(key_set[i])
  BY <1>1, <1>2
<1>4. s = object(<<member("keys", v)>>)
  BY DEF key_set_text
<1> HIDE DEF P, s
<1>5. items_of(P) = items_read(key_set)
  BY <1>1, <1>2, <1>3 DEF items_of, items_read
<1>6. v \in Whole /\ v[1] = "[" /\ elements(v) = P
  <2>1. P \in Seq(Passed("array")) /\ P \in Seq(Text)
    <3>1. P \in Seq(Passed("array"))
      BY <1>3, WholePassed
    <3> QED BY <3>1, PassedText
  <2>2. v = enclosed("array", P)
    BY <2>1, ArrayIs
  <2>3. enclosed("array", P) \in Whole /\ enclosed("array", P)[1] = opening("array")
    BY <2>1, EnclosedWhole, EnclosedIs DEF Loop
  <2>4. opening("array") = "["
    BY DEF opening
  <2> QED BY <1>3, <2>2, <2>3, <2>4, ElementsOfArray
<1> HIDE DEF v
<1>7. extract_json_part(s, "keys", "[") = v
  <2>1. found_as(s, "keys", v)
    BY <1>4, <1>6, Alone, DocumentStrings
  <2> QED BY <1>6, <2>1, PartFound
<1> QED BY <1>5, <1>6, <1>7, JwksAre DEF s

-----------------------------------------------------------------------------
\* The discovery document.
LEMMA EndpointIs ==
  ASSUME NEW e \in Endpoint
  PROVE  /\ e \in Member
         /\ \/ e.name = "endpoint" /\ e.value = one("s")
            \/ e.name = "aliases" /\ e.value = object(<<member("endpoint", one("k"))>>)
<1>1. one("s") \in Whole /\ one("k") \in Whole
  BY AtomWhole, ScanAssumption DEF ScanAssumption
<1>2. object(<<member("endpoint", one("k"))>>) \in Whole
  BY <1>1, Alone, DocumentStrings
<1>3. ASSUME NEW n \in String, NEW v \in Whole
      PROVE  member(n, v) \in Member /\ member(n, v).name = n /\ member(n, v).value = v
  BY DEF member, Member
<1>4. e = member("endpoint", one("s"))
      \/ e = member("aliases", object(<<member("endpoint", one("k"))>>))
  BY DEF Endpoint, one
<1> QED BY <1>1, <1>2, <1>3, <1>4, DocumentStrings

\* The first member stands behind the opening bracket.
LEMMA FirstStands ==
  ASSUME NEW M \in Seq(Member), Len(M) # 0
  PROVE  stands(object(M), 1, pair(M[1].name, M[1].value))
<1>1. 1 \in 1 .. Len(M)
  OBVIOUS
<1>2. offset(pieces(M), 1) = 0
  <2>1. upto(pieces(M), 1 - 1) = <<>>
    BY DEF upto
  <2>2. Len(listed(<<>>)) = 0
    BY ListedEmpty
  <2>3. offset(pieces(M), 1) = Len(listed(upto(pieces(M), 1 - 1))) + 0
    BY DEF offset
  <2> QED BY <2>1, <2>2, <2>3
<1>3. 1 + 0 = 1
  OBVIOUS
<1> QED BY <1>1, <1>2, <1>3, NameAt

LEMMA PairEnds ==
  ASSUME NEW n \in String, NEW v \in Text
  PROVE  pair(n, v) \in Text /\ stands(pair(n, v), 2, v)
<1>1. /\ pair(n, v) \in Text /\ Len(v) \in Nat /\ Len(pair(n, v)) = Len(v) + 2
      /\ held(pair(n, v), 2, v)
  BY PairIs
<1>2. 2 + Len(v) + 1 = Len(pair(n, v)) + 1
  BY ONLY <1>1
<1> QED BY <1>1, <1>2 DEF stands, followed

LEMMA AliasRead ==
  ASSUME NEW M \in Seq(Member), Len(M) # 0, M[1].name = "aliases",
         M[1].value = object(<<member("endpoint", one("k"))>>)
  PROVE  found_as(object(M), "endpoint", one("k"))
<1> DEFINE t == object(M)
           N == <<member("endpoint", one("k"))>>
           v == object(N)
           w == pair("endpoint", one("k"))
           u == pair("aliases", v)
<1>0. one("k") \in Whole /\ one("k") \in Text /\ "endpoint" \in String /\ "aliases" \in String
  <2>1. one("k") \in Whole
    BY AtomWhole, ScanAssumption DEF ScanAssumption
  <2> QED BY <2>1, DocumentStrings DEF Whole
<1>1. N \in Seq(Member) /\ Len(N) # 0 /\ N[1].name = "endpoint" /\ N[1].value = one("k")
  <2>1. member("endpoint", one("k")) \in Member
        /\ member("endpoint", one("k")).name = "endpoint"
        /\ member("endpoint", one("k")).value = one("k")
    BY <1>0 DEF member, Member
  <2> QED BY <2>1
<1> HIDE DEF N
<1>2. v \in Text /\ v # <<>> /\ v[1] = "{" /\ stands(v, 1, w)
  <2>1. v \in Whole /\ v \in Text /\ v[1] = "{"
    BY <1>1, ObjectWhole
  <2>2. stands(v, 1, w)
    BY <1>1, FirstStands
  <2> QED BY <2>1, <2>2 DEF Whole
<1>3. t \in Text /\ t[1] = "{" /\ stands(t, 1, u)
  <2>1. t \in Text /\ t[1] = "{"
    BY ObjectWhole
  <2>2. stands(t, 1, pair(M[1].name, M[1].value))
    BY FirstStands
  <2> QED BY <2>1, <2>2 DEF N
<1>4. w \in Text
  BY <1>0, PairEnds
<1>5. u \in Text /\ stands(u, 2, v) /\ u[1] = "aliases" /\ u[2] = ":" /\ 1 \in 1 .. Len(u)
      /\ 2 \in 1 .. Len(u)
  <2> HIDE DEF v
  <2>1. u \in Text /\ stands(u, 2, v)
    BY <1>0, <1>2, PairEnds
  <2>2. u[1] = "aliases" /\ u[2] = ":"
    BY <1>0, <1>2, PairIs
  <2>3. Len(u) = Len(v) + 2 /\ Len(v) \in Nat
    BY <1>0, <1>2, PairIs, ZenonT(90)
  <2>4. 1 \in 1 .. Len(u) /\ 2 \in 1 .. Len(u)
    BY ONLY <2>3
  <2> QED BY <2>1, <2>2, <2>4
<1> HIDE DEF t, u, v, w
<1>6. stands(t, 3, v)
  <2>1. stands(t, 1 + 2, v)
    BY <1>2, <1>3, <1>5, StandsIn
  <2> QED BY <2>1
<1>7. stands(t, 4, w)
  <2>1. stands(t, 3 + 1, w)
    BY <1>2, <1>3, <1>4, <1>6, StandsIn
  <2> QED BY <2>1
<1>8. t[2] = "aliases" /\ t[3] = ":" /\ t[4] = "{"
  <2>1. \A i \in 1 .. Len(u) : t[1 + i] = u[i]
    BY <1>3 DEF stands, held
  <2>2. t[1 + 1] = "aliases" /\ t[1 + 2] = ":"
    BY <1>5, <2>1
  <2>3. held(t, 3, v)
    BY <1>6 DEF stands
  <2>4. t[3 + 1] = v[1]
    BY <1>2, <1>3, <2>3, HeldFirst
  <2>5. 1 + 1 = 2 /\ 1 + 2 = 3 /\ 3 + 1 = 4
    OBVIOUS
  <2> QED BY <1>2, <2>2, <2>4, <2>5
<1>9. t[1] # "endpoint" /\ t[2] # "endpoint" /\ t[3] # "endpoint" /\ t[4] # "endpoint"
  BY <1>0, <1>3, <1>8, Tokens
<1>10. \A j \in 1 .. Len(t) : t[j] = "endpoint" => 4 + 1 <= j
  <2>1. \A j \in 1 .. Len(t) : j = 1 \/ j = 2 \/ j = 3 \/ j = 4 \/ 4 + 1 <= j
    <3>1. Len(t) \in Nat
      <4>1. t \in Text
        BY <1>3
      <4> QED BY <4>1 DEF Text
    <3> QED BY ONLY <3>1
  <2> QED BY <1>9, <2>1
<1>11. found_as(t, "endpoint", one("k"))
  <2>1. 4 \in Nat
    OBVIOUS
  <2> QED BY <1>0, <1>3, <1>7, <1>10, <2>1, KeyFound DEF w
<1> QED BY <1>11 DEF t

\* An object without members has no names.
LEMMA NoMembers ==
  ASSUME NEW n \in String
  PROVE  extract_json_value(object(<<>>), n) = nowhere
<1> DEFINE M == <<>>
           t == object(M)
<1>1. M \in Seq(Member) /\ Len(M) = 0
  OBVIOUS
<1>2. pieces(M) = <<>> /\ Len(listed(<<>>)) = 0
  BY ListedEmpty DEF pieces
<1> HIDE DEF M
<1>3. /\ t \in Text /\ Len(t) = Len(listed(pieces(M))) + 2 /\ t[1] = opening("object")
      /\ t[Len(listed(pieces(M))) + 2] = closing("object")
  <2>1. pieces(M) \in Seq(Text)
    BY <1>1, Pieces
  <2> QED BY <1>1, <2>1, ObjectIs, EnclosedIs DEF Loop
<1>4. Len(t) = 2
  BY <1>2, <1>3
<1>5. t[1] = "{" /\ t[2] = "}"
  <2>1. Len(listed(pieces(M))) + 2 = 2
    BY <1>2
  <2>2. opening("object") = "{" /\ closing("object") = "}"
    BY DEF opening, closing
  <2>3. t[1] = opening("object") /\ t[Len(listed(pieces(M))) + 2] = closing("object")
    BY <1>3
  <2> QED BY ONLY <2>1, <2>2, <2>3
<1>6. \A j \in 1 .. 2 : j = 1 \/ j = 2
  OBVIOUS
<1> HIDE DEF t
<1>7. \A j \in 1 .. Len(t) : t[j] # n
  BY <1>4, <1>5, <1>6, Tokens
<1>8. found_from(t, n, 1) = {}
  BY <1>7 DEF found_from
<1> QED BY <1>3, <1>8, Extracted DEF t, M

endpoint_read == value_or(extract_json_string(object(discovery), "endpoint"), "constructed")

LEMMA EndpointRead ==
  ASSUME EndpointsInv
  PROVE  /\ discovery = <<>> => endpoint_read = "constructed"
         /\ discovery # <<>> =>
              endpoint_read = IF discovery[1].name = "endpoint" THEN "s" ELSE "k"
<1> DEFINE M == discovery
           s == object(M)
           x == extract_json_string(s, "endpoint")
<1>0. "endpoint" \in String /\ "s" \in String /\ "k" \in String
      /\ nullopt # "s" /\ nullopt # "k" /\ endpoint_read = value_or(x, "constructed")
  BY DocumentStrings, ScanAssumption DEF ScanAssumption, endpoint_read
<1>1. ASSUME NEW c \in String, found_as(s, "endpoint", one(c)) PROVE x = c
  <2>1. Len(one(c)) = 1 /\ one(c)[1] = c
    BY DEF one
  <2> HIDE DEF s
  <2> QED BY <1>1, <2>1, StringFound
<1>2. CASE discovery = <<>>
  <2>1. extract_json_value(s, "endpoint") = nowhere
    BY <1>0, <1>2, NoMembers
  <2>2. x = nullopt
    BY <2>1, NothingFound
  <2> HIDE DEF x
  <2> QED BY <1>0, <1>2, <2>2 DEF value_or
<1>3. CASE discovery # <<>>
  <2>1. M \in Seq(Endpoint) /\ distinct(M) /\ Len(M) # 0 /\ 1 \in 1 .. Len(M) /\ M[1] \in Endpoint
    BY <1>3 DEF EndpointsInv
  <2>2. M \in Seq(Member)
    <3>1. Endpoint \subseteq Member
      BY EndpointIs
    <3> QED BY <2>1, <3>1
  <2>3. CASE M[1].name = "endpoint"
    <3>1. M[1].value = one("s")
      BY <2>1, <2>3, EndpointIs
    <3> HIDE DEF M
    <3>2. first_found(M, M[1].name)
      BY <2>1, <2>2, FirstMember
    <3>3. found_as(object(M), M[1].name, M[1].value)
      BY <2>1, <2>2, <3>2, MemberFound
    <3>4. x = "s"
      BY <1>0, <1>1, <2>3, <3>1, <3>3
    <3> HIDE DEF x
    <3> QED BY <1>0, <1>3, <2>3, <3>4 DEF value_or, M
  <2>4. CASE M[1].name # "endpoint"
    <3>1. M[1].name = "aliases" /\ M[1].value = object(<<member("endpoint", one("k"))>>)
      BY <2>1, <2>4, EndpointIs
    <3> HIDE DEF M
    <3>2. found_as(object(M), "endpoint", one("k"))
      BY <2>1, <2>2, <3>1, AliasRead
    <3>3. x = "k"
      BY <1>0, <1>1, <3>2
    <3> HIDE DEF x
    <3> QED BY <1>0, <1>3, <2>4, <3>3 DEF value_or, M
  <2> QED BY <2>3, <2>4
<1> QED BY <1>2, <1>3

LEMMA DiscoverIs ==
  ASSUME NEW status, NEW s
  PROVE  discover(status, s).endpoint
           = value_or(extract_json_string(s, "endpoint"), "constructed")
BY DEF discover

discovered(status) ==
  LET result == discover(status, object(discovery)) IN
  /\ discovery = <<>> => result.endpoint = "constructed"
  /\ discovery # <<>> => result.endpoint = IF discovery[1].name = "endpoint" THEN "s" ELSE "k"

LEMMA Discovered ==
  ASSUME EndpointsInv, NEW status \in {0, 200, 404}
  PROVE  discovered(status)
<1>1. discover(status, object(discovery)).endpoint = endpoint_read
  BY DiscoverIs DEF endpoint_read
<1> QED BY <1>1, EndpointRead DEF discovered

LEMMA PublishedIs ==
  PublishedExact
    <=> /\ (\A i \in DOMAIN key_set : \A name \in {"kid", "kty"} :
              key_set[i] # <<>> => first_found(key_set[i], name)) =>
             extract_jwks(key_set_text) = FlattenSeq(items_read(key_set))
        /\ \A status \in {0, 200, 404} : discovered(status)
BY DEF PublishedExact, items_read, item_read, jwk_read, read_of, first_named, discovered

LEMMA PublishedRead ==
  ASSUME KeysInv, EndpointsInv
  PROVE  PublishedExact
<1>1. ASSUME \A i \in DOMAIN key_set : \A name \in {"kid", "kty"} :
               key_set[i] # <<>> => first_found(key_set[i], name)
      PROVE  extract_jwks(key_set_text) = FlattenSeq(items_read(key_set))
  <2>1. \A i \in DOMAIN key_set : searched(key_set[i])
    BY <1>1 DEF searched
  <2> QED BY <2>1, KeysRead
<1>2. \A status \in {0, 200, 404} : discovered(status)
  BY Discovered
<1> QED BY <1>1, <1>2, PublishedIs

-----------------------------------------------------------------------------
WrittenInv == PayloadInv /\ KeysInv /\ EndpointsInv

LEMMA DistinctBack ==
  ASSUME NEW A, NEW M \in Seq(A), NEW x \in A, distinct(M),
         \A i \in DOMAIN M : M[i].name # x.name
  PROVE  Append(M, x) \in Seq(A) /\ distinct(Append(M, x))
<1> DEFINE R == Append(M, x)
<1>1. /\ R \in Seq(A) /\ Len(M) \in Nat /\ DOMAIN M = 1 .. Len(M)
      /\ DOMAIN R = 1 .. Len(M) + 1 /\ R[Len(M) + 1] = x /\ \A i \in 1 .. Len(M) : R[i] = M[i]
  OBVIOUS
<1> HIDE DEF R
<1>2. ASSUME NEW i \in 1 .. Len(M) + 1, NEW j \in 1 .. Len(M) + 1, R[i].name = R[j].name
      PROVE  i = j
  <2>1. \A k \in 1 .. Len(M) + 1 : k \in 1 .. Len(M) \/ k = Len(M) + 1
    BY <1>1
  <2>2. CASE i \in 1 .. Len(M) /\ j \in 1 .. Len(M)
    BY <1>1, <1>2, <2>2 DEF distinct
  <2>3. CASE i \in 1 .. Len(M) /\ j = Len(M) + 1
    BY <1>1, <1>2, <2>3
  <2>4. CASE j \in 1 .. Len(M) /\ i = Len(M) + 1
    BY <1>1, <1>2, <2>4
  <2> QED BY <2>1, <2>2, <2>3, <2>4
<1> QED BY <1>1, <1>2 DEF distinct, R

\* A document is written member by member, each name once.
LEMMA Writing == WrittenInv /\ [DocumentsNext]_<<vars, documentVars>> => WrittenInv'
<1> SUFFICES ASSUME WrittenInv, [DocumentsNext]_<<vars, documentVars>> PROVE WrittenInv'
  OBVIOUS
<1>1. CASE UNCHANGED documentVars
  BY <1>1 DEF WrittenInv, PayloadInv, KeysInv, EndpointsInv, documentVars
<1>2. ASSUME NEW c \in Claim, WriteClaim(c) PROVE WrittenInv'
  <2>1. UNCHANGED <<key_set, discovery>> /\ payload' = Append(payload, c)
        /\ \A i \in DOMAIN payload : payload[i].name # c.name
    BY <1>2 DEF WriteClaim
  <2>2. payload \in Seq(Claim) /\ distinct(payload)
    BY DEF WrittenInv, PayloadInv
  <2>3. Append(payload, c) \in Seq(Claim) /\ distinct(Append(payload, c))
    BY <2>1, <2>2, DistinctBack
  <2> QED BY <2>1, <2>3 DEF WrittenInv, PayloadInv, KeysInv, EndpointsInv
<1>3. ASSUME NEW k \in Key \cup {<<>>}, WriteKey(k) PROVE WrittenInv'
  <2>1. UNCHANGED <<payload, discovery>> /\ key_set' = Append(key_set, k)
    BY <1>3 DEF WriteKey
  <2>2. Append(key_set, k) \in Seq(Key \cup {<<>>})
    BY DEF WrittenInv, KeysInv
  <2> QED BY <2>1, <2>2 DEF WrittenInv, PayloadInv, KeysInv, EndpointsInv
<1>4. ASSUME NEW e \in Endpoint, WriteEndpoint(e) PROVE WrittenInv'
  <2>1. UNCHANGED <<payload, key_set>> /\ discovery' = Append(discovery, e)
        /\ \A i \in DOMAIN discovery : discovery[i].name # e.name
    BY <1>4 DEF WriteEndpoint
  <2>2. discovery \in Seq(Endpoint) /\ distinct(discovery)
    BY DEF WrittenInv, EndpointsInv
  <2>3. Append(discovery, e) \in Seq(Endpoint) /\ distinct(Append(discovery, e))
    BY <2>1, <2>2, DistinctBack
  <2> QED BY <2>1, <2>3 DEF WrittenInv, PayloadInv, KeysInv, EndpointsInv
<1> QED BY <1>1, <1>2, <1>3, <1>4 DEF DocumentsNext, WriteToken

LEMMA DocumentsWritten == DocumentsSpec => []WrittenInv
<1>1. DocumentsInit => WrittenInv
  BY DEF DocumentsInit, WrittenInv, PayloadInv, KeysInv, EndpointsInv, distinct
<1> QED BY <1>1, Writing, PTL DEF DocumentsSpec

\* The roles, audiences and subject of a token are those of its claims, whatever
\* their number and their order, and also when roles and clients have the names of
\* claims, as long as none of those precedes the claim.
THEOREM ClaimsReadExactly == DocumentsSpec => []ClaimsExact
<1>1. WrittenInv => ClaimsExact
  BY ClaimsRead DEF WrittenInv
<1> QED BY <1>1, DocumentsWritten, PTL

\* The keys of a key set and the endpoint of a discovery document are those that
\* were published, whatever the number of keys and the order of members.
THEOREM PublishedReadExactly == DocumentsSpec => []PublishedExact
<1>1. WrittenInv => PublishedExact
  BY PublishedRead DEF WrittenInv
<1> QED BY <1>1, DocumentsWritten, PTL
=============================================================================
