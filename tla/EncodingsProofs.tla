--------------------------- MODULE EncodingsProofs ---------------------------
(***************************************************************************)
(* What Encodings says of the texts this program writes and reads, for     *)
(* texts of every length over all 256 bytes, where TLC has a few bytes of  *)
(* each kind.                                                              *)
(*                                                                         *)
(* Every reader is a loop over positions.  It is given a name of its own   *)
(* here (decoding, reading, scanning, parsing, accumulating), shown to be  *)
(* well defined on every text, and to go on behind a text x it has passed  *)
(* just as on what follows x alone.  A writer puts one piece for each byte *)
(* (expanded), so a text is read back by induction from its front: reading *)
(* what is written of a byte and a text gives that byte, then the text.    *)
(*                                                                         *)
(* A URL is cut at its first ://, slash, colon and question mark, so what  *)
(* is written is a URL to be read when each part has none of the marks it  *)
(* is cut at (Uri): the base URLs are such, what url_encode writes is made *)
(* of none, and so is every endpoint and request built of them.            *)
(*                                                                         *)
(* The inductions over texts and positions are proved here, from the       *)
(* well-foundedness of < on the naturals: Smallest, Induct, FromFront,     *)
(* FromBack and FromEnd take the set of what is to be shown.               *)
(***************************************************************************)
EXTENDS Encodings, SequenceTheorems, WellFoundedInduction, TLAPS

\* A set of numbers that is not empty has a smallest one.
LEMMA Smallest ==
  ASSUME NEW T, T \subseteq Nat, T # {}
  PROVE  \E x \in T : \A y \in T : ~ (y < x)
<1>1. IsWellFoundedOn(OpToRel(<, Nat), Nat)
  BY NatLessThanWellFounded
<1>2. PICK x \in T : \A y \in T : ~ (<<y, x>> \in OpToRel(<, Nat))
  BY <1>1, WFMin
<1> QED BY <1>2 DEF OpToRel

\* A set of numbers with 0, and with n + 1 whenever it has n, has all.
LEMMA Induct ==
  ASSUME NEW S, 0 \in S, \A n \in Nat : n \in S => n + 1 \in S
  PROVE  Nat \subseteq S
<1> SUFFICES ASSUME Nat \ S # {} PROVE FALSE
  OBVIOUS
<1>1. PICK x \in Nat \ S : \A y \in Nat \ S : ~ (y < x)
  BY Smallest
<1>2. x # 0 /\ x - 1 \in Nat /\ x - 1 < x /\ x = (x - 1) + 1
  BY <1>1
<1>3. x - 1 \in S
  BY <1>1, <1>2
<1> QED BY <1>1, <1>2, <1>3

\* The sequence s with a before it.
onto(a, s) == <<a>> \o s

LEMMA Onto ==
  ASSUME NEW A, NEW a \in A, NEW s \in Seq(A)
  PROVE  /\ onto(a, s) \in Seq(A) /\ Len(onto(a, s)) = Len(s) + 1 /\ onto(a, s)[1] = a
         /\ onto(a, s) = <<a>> \o s
         /\ \A i \in 1 .. Len(s) : onto(a, s)[i + 1] = s[i]
         /\ \A t \in Seq(A) : onto(a, s) \o t = onto(a, s \o t)
BY DEF onto

LEMMA OntoItems ==
  ASSUME NEW A, NEW a \in A, NEW s \in Seq(A)
  PROVE  /\ onto(a, s) \in Seq(A) /\ Len(onto(a, s)) = Len(s) + 1 /\ onto(a, s)[1] = a
         /\ \A i \in 1 .. Len(s) : onto(a, s)[i + 1] = s[i]
BY DEF onto

\* What holds of the empty sequence, and of a sequence when it holds of its tail.
LEMMA FromFront ==
  ASSUME NEW A, NEW P, <<>> \in P, \A a \in A, s \in Seq(A) : s \in P => onto(a, s) \in P
  PROVE  Seq(A) \subseteq P
<1> DEFINE S == {n \in Nat : \A s \in Seq(A) : Len(s) = n => s \in P}
<1>1. 0 \in S
  <2>1. \A s \in Seq(A) : Len(s) = 0 => s = <<>>
    OBVIOUS
  <2> QED BY <2>1
<1>2. ASSUME NEW n \in Nat, n \in S PROVE n + 1 \in S
  <2> SUFFICES ASSUME NEW s \in Seq(A), Len(s) = n + 1 PROVE s \in P
    OBVIOUS
  <2>1. s[1] \in A /\ Tail(s) \in Seq(A) /\ Len(Tail(s)) = n
    OBVIOUS
  <2>2. s = onto(s[1], Tail(s))
    BY DEF onto
  <2>3. Tail(s) \in P
    BY <1>2, <2>1
  <2> HIDE DEF S
  <2> QED BY <2>1, <2>2, <2>3
<1> HIDE DEF S
<1>3. Nat \subseteq S
  BY <1>1, <1>2, Induct
<1> QED BY <1>3 DEF S

\* The same, where texts grow at their end.
LEMMA FromBack ==
  ASSUME NEW A, NEW P, <<>> \in P, \A a \in A, s \in Seq(A) : s \in P => s \o <<a>> \in P
  PROVE  Seq(A) \subseteq P
<1> DEFINE S == {n \in Nat : \A s \in Seq(A) : Len(s) = n => s \in P}
<1>1. 0 \in S
  <2>1. \A s \in Seq(A) : Len(s) = 0 => s = <<>>
    OBVIOUS
  <2> QED BY <2>1
<1>2. ASSUME NEW n \in Nat, n \in S PROVE n + 1 \in S
  <2> SUFFICES ASSUME NEW s \in Seq(A), Len(s) = n + 1 PROVE s \in P
    OBVIOUS
  <2> DEFINE t == SubSeq(s, 1, n)
  <2>1. s[n + 1] \in A /\ t \in Seq(A) /\ Len(t) = n
    OBVIOUS
  <2>2. s = t \o <<s[n + 1]>>
    OBVIOUS
  <2>3. t \in P
    BY <1>2, <2>1
  <2> HIDE DEF S, t
  <2> QED BY <2>1, <2>2, <2>3
<1> HIDE DEF S
<1>3. Nat \subseteq S
  BY <1>1, <1>2, Induct
<1> QED BY <1>3 DEF S

\* D makes a function from S to V of another one, and of its values only those at
\* arguments of lower rank.
descends(S, V, D, r, N) ==
  /\ V # {}
  /\ D \in [[S -> V] -> [S -> V]]
  /\ r \in [S -> Nat] /\ N \in Nat /\ \A x \in S : r[x] < N
  /\ \A g, h \in [S -> V], x \in S :
       (\A y \in S : r[y] < r[x] => g[y] = h[y]) => D[g][x] = D[h][x]

\* A function that is defined by recursion exists.
LEMMA Recursion ==
  ASSUME NEW S, NEW V, NEW D, NEW r, NEW N, descends(S, V, D, r, N)
  PROVE  \E f \in [S -> V] : f = D[f]
<1> USE DEF descends
<1>0. PICK v \in V : TRUE
  OBVIOUS
<1> DEFINE good(g, n) == \A x \in S : r[x] < n => g[x] = D[g][x]
           T == {n \in Nat : \E g \in [S -> V] : good(g, n)}
<1>1. 0 \in T
  <2>1. [x \in S |-> v] \in [S -> V]
    OBVIOUS
  <2>2. good([x \in S |-> v], 0)
    OBVIOUS
  <2> QED BY <2>1, <2>2
<1>2. ASSUME NEW n \in Nat, n \in T PROVE n + 1 \in T
  <2>1. PICK g \in [S -> V] : good(g, n)
    BY <1>2
  <2>2. D[g] \in [S -> V]
    OBVIOUS
  <2>3. ASSUME NEW x \in S, r[x] < n + 1 PROVE D[g][x] = D[D[g]][x]
    <3>1. \A y \in S : r[y] < r[x] => g[y] = D[g][y]
      BY <2>1, <2>3
    <3> QED BY <2>2, <3>1
  <2> QED BY <2>2, <2>3
<1> HIDE DEF T
<1>3. N \in T
  BY <1>1, <1>2, Induct
<1>4. PICK g \in [S -> V] : good(g, N)
  BY <1>3 DEF T
<1>5. \A x \in S : g[x] = D[g][x]
  BY <1>4
<1>6. D[g] \in [S -> V]
  OBVIOUS
<1>7. g = D[g]
  BY <1>5, <1>6
<1> QED BY <1>7

-----------------------------------------------------------------------------
\* Concatenation of a sequence of texts.
flattening(seqs) ==
  CHOOSE f : f = [i \in 1 .. Len(seqs) |-> IF i = 1 THEN seqs[i] ELSE f[i - 1] \o seqs[i]]

\* flattening is well defined: every item appends one text to the one before.
LEMMA Flattening ==
  ASSUME NEW A, NEW seqs \in Seq(Seq(A))
  PROVE  /\ Len(seqs) # 0 => flattening(seqs)[1] = seqs[1]
         /\ \A i \in 1 .. Len(seqs) - 1 :
              flattening(seqs)[i + 1] = flattening(seqs)[i] \o seqs[i + 1]
         /\ \A i \in 1 .. Len(seqs) : flattening(seqs)[i] \in Seq(A)
<1> DEFINE S == 1 .. Len(seqs)
           V == Seq(A)
           N == Len(seqs) + 1
           D == [g \in [S -> V] |-> [i \in S |-> IF i = 1 THEN seqs[i] ELSE g[i - 1] \o seqs[i]]]
           r == [i \in S |-> i]
           f == flattening(seqs)
<1>1. D \in [[S -> V] -> [S -> V]]
  <2> SUFFICES ASSUME NEW g \in [S -> V], NEW i \in S
               PROVE  (IF i = 1 THEN seqs[i] ELSE g[i - 1] \o seqs[i]) \in V
    OBVIOUS
  <2>1. seqs[i] \in Seq(A)
    OBVIOUS
  <2>2. i # 1 => i - 1 \in S
    OBVIOUS
  <2>3. i # 1 => g[i - 1] \in Seq(A)
    BY <2>2
  <2> QED BY <2>1, <2>3
<1>2. V # {} /\ r \in [S -> Nat] /\ N \in Nat /\ \A x \in S : r[x] < N
  <2>1. <<>> \in V
    OBVIOUS
  <2>2. N \in Nat /\ r \in [S -> Nat]
    OBVIOUS
  <2>3. \A x \in S : r[x] < N
    OBVIOUS
  <2> HIDE DEF V, r, S, N
  <2> QED BY <2>1, <2>2, <2>3
<1>3. ASSUME NEW g \in [S -> V], NEW h \in [S -> V], NEW x \in S,
             \A y \in S : r[y] < r[x] => g[y] = h[y]
      PROVE  D[g][x] = D[h][x]
  <2>1. CASE x = 1
    BY <2>1
  <2>2. CASE x # 1
    <3>1. x - 1 \in S /\ r[x - 1] < r[x]
      BY <2>2
    <3> QED BY <1>3, <3>1, <2>2
  <2> QED BY <2>1, <2>2
<1>4. \E g \in [S -> V] : g = D[g]
  <2> HIDE DEF S, V, N, D, r
  <2>1. descends(S, V, D, r, N)
    BY <1>1, <1>2, <1>3 DEF descends
  <2> QED BY <2>1, Recursion
<1>5. \E g : g = [i \in S |-> IF i = 1 THEN seqs[i] ELSE g[i - 1] \o seqs[i]]
  BY <1>4
<1>6. f = [i \in S |-> IF i = 1 THEN seqs[i] ELSE f[i - 1] \o seqs[i]]
  BY <1>5 DEF flattening
<1> HIDE DEF f
<1>7. Len(seqs) # 0 => f[1] = seqs[1]
  BY <1>6
<1>8. ASSUME NEW i \in 1 .. Len(seqs) - 1 PROVE f[i + 1] = f[i] \o seqs[i + 1]
  <2>1. i + 1 \in S /\ i + 1 # 1 /\ (i + 1) - 1 = i
    OBVIOUS
  <2> QED BY <1>6, <2>1
<1>9. \A i \in S : f[i] \in Seq(A)
  <2> DEFINE T == {n \in Nat : n \in S => f[n] \in Seq(A)}
  <2>1. 0 \in T
    OBVIOUS
  <2>2. ASSUME NEW n \in Nat, n \in T PROVE n + 1 \in T
    <3> SUFFICES ASSUME n + 1 \in S PROVE f[n + 1] \in Seq(A)
      OBVIOUS
    <3>1. seqs[n + 1] \in Seq(A)
      OBVIOUS
    <3>2. CASE n = 0
      BY <1>7, <3>1, <3>2
    <3>3. CASE n # 0
      <4>1. n \in S /\ f[n] \in Seq(A) /\ n \in 1 .. Len(seqs) - 1
        BY <2>2, <3>3
      <4>2. f[n + 1] = f[n] \o seqs[n + 1]
        BY <1>8, <4>1
      <4> QED BY <3>1, <4>1, <4>2
    <3> QED BY <3>2, <3>3
  <2> HIDE DEF T
  <2>3. Nat \subseteq T
    BY <2>1, <2>2, Induct
  <2> QED BY <2>3 DEF T
<1> QED BY <1>7, <1>8, <1>9 DEF f

LEMMA FlattenEmpty ==
  FlattenSeq(<<>>) = <<>>
BY DEF FlattenSeq

LEMMA FlattenLast ==
  ASSUME NEW seqs, Len(seqs) # 0
  PROVE  FlattenSeq(seqs) = flattening(seqs)[Len(seqs)]
BY DEF FlattenSeq, flattening

LEMMA FlattenType ==
  ASSUME NEW A, NEW seqs \in Seq(Seq(A))
  PROVE  FlattenSeq(seqs) \in Seq(A)
<1>1. CASE seqs = <<>>
  <2>1. FlattenSeq(seqs) = <<>>
    BY <1>1, FlattenEmpty
  <2> QED BY <2>1
<1>2. CASE seqs # <<>>
  <2>1. Len(seqs) # 0 /\ Len(seqs) \in 1 .. Len(seqs)
    BY <1>2
  <2>2. FlattenSeq(seqs) = flattening(seqs)[Len(seqs)]
    BY <2>1, FlattenLast
  <2>3. flattening(seqs)[Len(seqs)] \in Seq(A)
    BY <2>1, Flattening
  <2> QED BY <2>2, <2>3
<1> QED BY <1>1, <1>2

LEMMA FlattenAppend ==
  ASSUME NEW A, NEW seqs \in Seq(Seq(A)), NEW x \in Seq(A)
  PROVE  FlattenSeq(seqs \o <<x>>) = FlattenSeq(seqs) \o x
<1> DEFINE more == seqs \o <<x>>
           n == Len(seqs)
           f == flattening(seqs)
           g == flattening(more)
<1>1. /\ more \in Seq(Seq(A)) /\ Len(more) = n + 1 /\ more[n + 1] = x /\ n \in Nat
      /\ \A i \in 1 .. n : more[i] = seqs[i]
  OBVIOUS
<1>2. FlattenSeq(more) = g[n + 1]
  <2>1. Len(more) # 0
    BY <1>1
  <2>2. FlattenSeq(more) = g[Len(more)]
    BY <2>1, FlattenLast
  <2> QED BY <1>1, <2>2
<1>3. n # 0 => FlattenSeq(seqs) = f[n]
  BY FlattenLast
<1>4. n = 0 => seqs = <<>>
  OBVIOUS
<1>5. /\ n # 0 => f[1] = seqs[1]
      /\ \A i \in 1 .. n - 1 : f[i + 1] = f[i] \o seqs[i + 1]
  BY Flattening
<1> HIDE DEF f
<1>6. /\ Len(more) # 0 => g[1] = more[1]
      /\ \A i \in 1 .. Len(more) - 1 : g[i + 1] = g[i] \o more[i + 1]
  <2> HIDE DEF more
  <2> QED BY <1>1, Flattening
<1> HIDE DEF g, more, n
<1>7. g[1] = more[1] /\ \A i \in 1 .. n : g[i + 1] = g[i] \o more[i + 1]
  <2>1. Len(more) # 0 /\ Len(more) - 1 = n
    BY <1>1
  <2> QED BY <1>6, <2>1
<1>8. CASE n = 0
  <2>1. g[n + 1] = x
    BY <1>1, <1>7, <1>8
  <2>2. FlattenSeq(seqs) \o x = x
    BY <1>4, <1>8, FlattenEmpty
  <2> QED BY <1>2, <2>1, <2>2 DEF more
<1>9. CASE n # 0
  <2> DEFINE T == {k \in Nat : k + 1 \in 1 .. n => g[k + 1] = f[k + 1]}
  <2>1. 0 \in T
    BY <1>1, <1>5, <1>7
  <2>2. ASSUME NEW k \in Nat, k \in T PROVE k + 1 \in T
    <3> SUFFICES ASSUME (k + 1) + 1 \in 1 .. n PROVE g[(k + 1) + 1] = f[(k + 1) + 1]
      OBVIOUS
    <3>1. k + 1 \in 1 .. n - 1 /\ k + 1 \in 1 .. n
      BY <1>1
    <3>2. g[(k + 1) + 1] = g[k + 1] \o more[(k + 1) + 1]
      BY <1>7, <3>1
    <3>3. f[(k + 1) + 1] = f[k + 1] \o seqs[(k + 1) + 1]
      BY <1>5, <1>9, <3>1
    <3> QED BY <3>1, <3>2, <3>3, <2>2, <1>1
  <2> HIDE DEF T
  <2>3. n - 1 \in Nat
    BY <1>1, <1>9
  <2>4. n - 1 \in T
    BY <2>1, <2>2, <2>3, Induct
  <2>5. (n - 1) + 1 = n /\ n \in 1 .. n
    BY <1>1, <1>9
  <2>6. g[n] = f[n]
    BY <2>4, <2>5 DEF T
  <2>7. g[n + 1] = g[n] \o x
    BY <1>1, <1>7, <2>5
  <2> QED BY <1>2, <1>3, <1>9, <2>6, <2>7 DEF more
<1> QED BY <1>8, <1>9

\* Three sequences one behind the other, whichever two are put together first.
regroup(x, y, z) == x \o (y \o z) = (x \o y) \o z

LEMMA Regroup ==
  ASSUME NEW A, NEW x \in Seq(A), NEW y \in Seq(A), NEW z \in Seq(A)
  PROVE  regroup(x, y, z)
BY ConcatAssociative, SMTT(60) DEF regroup

\* A text before the others comes out before them.
LEMMA FlattenPrepend ==
  ASSUME NEW A, NEW seqs \in Seq(Seq(A)), NEW x \in Seq(A)
  PROVE  FlattenSeq(onto(x, seqs)) = x \o FlattenSeq(seqs)
<1> DEFINE P == {s \in Seq(Seq(A)) : FlattenSeq(onto(x, s)) = x \o FlattenSeq(s)}
<1>1. <<>> \in P
  <2>1. onto(x, <<>>) = <<>> \o <<x>> /\ x \o <<>> = <<>> \o x /\ <<>> \in Seq(Seq(A))
    BY DEF onto
  <2>2. FlattenSeq(<<>> \o <<x>>) = FlattenSeq(<<>>) \o x
    BY <2>1, FlattenAppend
  <2> QED BY <2>1, <2>2, FlattenEmpty
<1>2. ASSUME NEW y \in Seq(A), NEW s \in Seq(Seq(A)), s \in P PROVE s \o <<y>> \in P
  <2>1. onto(x, s \o <<y>>) = onto(x, s) \o <<y>> /\ onto(x, s) \in Seq(Seq(A))
    BY DEF onto
  <2>2. FlattenSeq(onto(x, s \o <<y>>)) = FlattenSeq(onto(x, s)) \o y
    BY <2>1, FlattenAppend
  <2>3. FlattenSeq(s \o <<y>>) = FlattenSeq(s) \o y /\ FlattenSeq(s) \in Seq(A)
    BY FlattenAppend, FlattenType
  <2>4. x \o (FlattenSeq(s) \o y) = (x \o FlattenSeq(s)) \o y
    <3>1. regroup(x, FlattenSeq(s), y)
      BY <2>3, Regroup
    <3> QED BY <3>1 DEF regroup
  <2>5. s \o <<y>> \in Seq(Seq(A))
    OBVIOUS
  <2>6. FlattenSeq(onto(x, s)) = x \o FlattenSeq(s)
    BY <1>2
  <2> QED BY <2>2, <2>3, <2>4, <2>5, <2>6
<1> HIDE DEF P
<1>3. Seq(Seq(A)) \subseteq P
  BY <1>1, <1>2, FromBack
<1> QED BY <1>3 DEF P

-----------------------------------------------------------------------------
\* A sequence is known by its first item and the others.
LEMMA FrontAndRest ==
  ASSUME NEW A, NEW x \in A, NEW s \in Seq(A), NEW t \in Seq(A), Len(t) = Len(s) + 1, t[1] = x,
         \A i \in 1 .. Len(s) : t[i + 1] = s[i]
  PROVE  t = onto(x, s)
<1>1. /\ onto(x, s) \in Seq(A) /\ Len(onto(x, s)) = Len(s) + 1 /\ (onto(x, s))[1] = x
      /\ Len(s) \in Nat
  BY DEF onto
<1>2. ASSUME NEW i \in 1 .. Len(t) PROVE t[i] = (onto(x, s))[i]
  <2>1. CASE i = 1
    BY <1>1, <2>1
  <2>2. CASE i # 1
    <3>1. i - 1 \in 1 .. Len(s) /\ (i - 1) + 1 = i
      BY <2>2
    <3>2. (onto(x, s))[i] = s[i - 1]
      BY <3>1, <2>2 DEF onto
    <3> QED BY <3>1, <3>2
  <2> QED BY <2>1, <2>2
<1> QED BY <1>1, <1>2, SeqEqual

\* The values of a function along a sequence.
maps(A, B, F) == F \in [A -> B]

image(s, F) == [i \in DOMAIN s |-> F[s[i]]]

LEMMA MapType ==
  ASSUME NEW A, NEW B, NEW F, maps(A, B, F), NEW a \in A
  PROVE  F[a] \in B
BY DEF maps

LEMMA ImageType ==
  ASSUME NEW A, NEW B, NEW F, maps(A, B, F), NEW s \in Seq(A)
  PROVE  image(s, F) \in Seq(B) /\ Len(image(s, F)) = Len(s)
<1>1. DOMAIN s = 1 .. Len(s) /\ Len(s) \in Nat /\ \A i \in 1 .. Len(s) : F[s[i]] \in B
  BY DEF maps
<1> QED BY <1>1 DEF image

LEMMA ImageEmpty ==
  ASSUME NEW F
  PROVE  image(<<>>, F) = <<>>
BY DEF image

LEMMA ImageFront ==
  ASSUME NEW A, NEW B, NEW F, maps(A, B, F), NEW a \in A, NEW s \in Seq(A)
  PROVE  image(onto(a, s), F) = onto(F[a], image(s, F))
<1> DEFINE x == F[a]
           t == image(s, F)
           u == image(onto(a, s), F)
<1>1. /\ onto(a, s) \in Seq(A) /\ Len(onto(a, s)) = Len(s) + 1 /\ onto(a, s)[1] = a
      /\ \A i \in 1 .. Len(s) : onto(a, s)[i + 1] = s[i]
  BY DEF onto
<1>2. u \in Seq(B) /\ t \in Seq(B) /\ x \in B
  BY <1>1, MapType, ImageType
<1>3. Len(u) = Len(s) + 1 /\ Len(t) = Len(s)
  BY <1>1, ImageType
<1>4. u[1] = x
  BY <1>1 DEF image
<1>5. \A i \in 1 .. Len(s) : u[i + 1] = t[i]
  BY <1>1 DEF image
<1> HIDE DEF x, t, u
<1>6. Len(u) = Len(t) + 1 /\ \A i \in 1 .. Len(t) : u[i + 1] = t[i]
  BY <1>3, <1>5
<1>7. u = onto(x, t)
  BY <1>2, <1>4, <1>6, FrontAndRest
<1> QED BY <1>7 DEF x, t, u

\* A text written byte by byte: each byte as its piece.
expanded(s, piece) == FlattenSeq(image(s, piece))

LEMMA ExpandedEmpty ==
  ASSUME NEW piece
  PROVE  expanded(<<>>, piece) = <<>>
BY ImageEmpty, FlattenEmpty DEF expanded

LEMMA ExpandedType ==
  ASSUME NEW A, NEW B, NEW piece, maps(A, Seq(B), piece), NEW s \in Seq(A)
  PROVE  expanded(s, piece) \in Seq(B)
<1>1. image(s, piece) \in Seq(Seq(B))
  BY ImageType
<1> QED BY <1>1, FlattenType DEF expanded

\* What is written of an item and a sequence: the piece of one, then of the other.
LEMMA ExpandedFront ==
  ASSUME NEW A, NEW B, NEW piece, maps(A, Seq(B), piece), NEW a \in A, NEW s \in Seq(A)
  PROVE  expanded(onto(a, s), piece) = piece[a] \o expanded(s, piece)
<1> DEFINE x == piece[a]
           t == image(s, piece)
<1>1. x \in Seq(B) /\ t \in Seq(Seq(B))
  <2>1. t \in Seq(Seq(B))
    BY ImageType
  <2>2. x \in Seq(B)
    BY MapType
  <2> QED BY <2>1, <2>2
<1>2. image(onto(a, s), piece) = onto(x, t)
  BY ImageFront
<1> HIDE DEF x, t
<1>3. FlattenSeq(onto(x, t)) = x \o FlattenSeq(t)
  BY <1>1, FlattenPrepend
<1> QED BY <1>2, <1>3 DEF expanded, x, t

concat(s, t) == s \o t

LEMMA ConcatRegrouped ==
  ASSUME NEW A, NEW x \in Seq(A), NEW y \in Seq(A), NEW z \in Seq(A)
  PROVE  concat(x, concat(y, z)) = concat(concat(x, y), z)
<1>1. regroup(x, y, z)
  BY Regroup
<1> QED BY <1>1 DEF regroup, concat

\* What is written of two sequences, one behind the other.
LEMMA ExpandedConcat ==
  ASSUME NEW A, NEW B, NEW piece, maps(A, Seq(B), piece), NEW s \in Seq(A), NEW t \in Seq(A)
  PROVE  expanded(s \o t, piece) = expanded(s, piece) \o expanded(t, piece)
<1> DEFINE P == {u \in Seq(A) :
                   expanded(u \o t, piece) = expanded(u, piece) \o expanded(t, piece)}
<1>1. <<>> \in P
  <2>1. <<>> \o t = t /\ <<>> \in Seq(A)
    OBVIOUS
  <2>2. expanded(t, piece) \in Seq(B)
    BY ExpandedType
  <2>3. <<>> \o expanded(t, piece) = expanded(t, piece)
    BY <2>2
  <2> QED BY <2>1, <2>3, ExpandedEmpty
<1>2. ASSUME NEW a \in A, NEW u \in Seq(A), u \in P PROVE onto(a, u) \in P
  <2>1. onto(a, u) \o t = onto(a, u \o t) /\ u \o t \in Seq(A) /\ onto(a, u) \in Seq(A)
    BY DEF onto
  <2>2. expanded(onto(a, u \o t), piece) = piece[a] \o expanded(u \o t, piece)
    BY <2>1, ExpandedFront
  <2>3. expanded(onto(a, u), piece) = piece[a] \o expanded(u, piece)
    BY ExpandedFront
  <2>4. expanded(u, piece) \in Seq(B) /\ expanded(t, piece) \in Seq(B) /\ piece[a] \in Seq(B)
    BY ExpandedType, MapType
  <2>5. piece[a] \o (expanded(u, piece) \o expanded(t, piece))
          = (piece[a] \o expanded(u, piece)) \o expanded(t, piece)
    <3> DEFINE x == piece[a]
               y == expanded(u, piece)
               z == expanded(t, piece)
    <3>1. x \in Seq(B) /\ y \in Seq(B) /\ z \in Seq(B)
      BY <2>4
    <3> HIDE DEF x, y, z
    <3>2. concat(x, concat(y, z)) = concat(concat(x, y), z)
      BY <3>1, ConcatRegrouped
    <3> QED BY <3>2 DEF x, y, z, concat
  <2>6. expanded(u \o t, piece) = expanded(u, piece) \o expanded(t, piece)
    BY <1>2
  <2> QED BY <2>1, <2>2, <2>3, <2>5, <2>6
<1> HIDE DEF P
<1>3. Seq(A) \subseteq P
  BY <1>1, <1>2, FromFront
<1> QED BY <1>3 DEF P

\* A function of the positions of a text, and the one past it, that reads on.
reads_on(n, V, D) ==
  /\ n \in Nat /\ V # {}
  /\ D \in [[1 .. (n + 1) -> V] -> [1 .. (n + 1) -> V]]
  /\ \A g, h \in [1 .. (n + 1) -> V], i \in 1 .. (n + 1) :
       (\A j \in 1 .. (n + 1) : j > i => g[j] = h[j]) => D[g][i] = D[h][i]

\* A loop that only reads on has a result at every position.
LEMMA ReadingOn ==
  ASSUME NEW n, NEW V, NEW D, reads_on(n, V, D)
  PROVE  \E f \in [1 .. (n + 1) -> V] : f = D[f]
<1> DEFINE S == 1 .. (n + 1)
           r == [i \in S |-> n + 1 - i]
           N == n + 1
<1>1. N \in Nat /\ r \in [S -> Nat]
  BY DEF reads_on
<1>2. \A i \in S : r[i] < N
  BY DEF reads_on
<1>3. \A i, j \in S : r[j] < r[i] <=> j > i
  BY DEF reads_on
<1>4. D \in [[S -> V] -> [S -> V]] /\ V # {}
  BY DEF reads_on
<1>5. ASSUME NEW g \in [S -> V], NEW h \in [S -> V], NEW i \in S,
             \A j \in S : r[j] < r[i] => g[j] = h[j]
      PROVE  D[g][i] = D[h][i]
  <2>1. \A j \in S : j > i => g[j] = h[j]
    BY <1>3, <1>5
  <2> QED BY <2>1 DEF reads_on
<1> HIDE DEF r, N, S
<1>6. descends(S, V, D, r, N)
  BY <1>1, <1>2, <1>4, <1>5 DEF descends
<1>7. \E f \in [S -> V] : f = D[f]
  BY <1>6, Recursion
<1> QED BY <1>7 DEF S

\* What holds of a position when it holds of all later ones.
LEMMA FromEnd ==
  ASSUME NEW n \in Nat, NEW T,
         \A i \in 1 .. (n + 1) : (\A j \in 1 .. (n + 1) : j > i => j \in T) => i \in T
  PROVE  \A i \in 1 .. (n + 1) : i \in T
<1> DEFINE S == {k \in Nat : \A i \in 1 .. (n + 1) : i > n + 1 - k => i \in T}
<1>1. 0 \in S
  OBVIOUS
<1>2. ASSUME NEW k \in Nat, k \in S PROVE k + 1 \in S
  <2> SUFFICES ASSUME NEW i \in 1 .. (n + 1), i > n + 1 - (k + 1) PROVE i \in T
    OBVIOUS
  <2>1. \A j \in 1 .. (n + 1) : j > i => j > n + 1 - k
    OBVIOUS
  <2>2. \A j \in 1 .. (n + 1) : j > i => j \in T
    BY <1>2, <2>1
  <2> QED BY <2>2
<1> HIDE DEF S
<1>3. n + 1 \in S
  BY <1>1, <1>2, Induct
<1> QED BY <1>3 DEF S

-----------------------------------------------------------------------------
Octet == 0 .. 255
Text == Seq(Octet)

\* No byte and no text is nullopt.
LEMMA NotNone ==
  /\ \A c \in Octet : c # None
  /\ \A s \in Text : s # None
<1>1. None \notin Int /\ None \notin Seq(Int)
  BY EncodingsAssumption
<1>2. \A c \in Octet : c \in Int
  BY DEF Octet
<1>3. ASSUME NEW s \in Text PROVE s \in Seq(Int)
  <2>1. Octet \subseteq Int
    BY <1>2
  <2> QED BY <2>1, SeqMonotonic DEF Text
<1> QED BY <1>1, <1>2, <1>3

LEMMA HexNumber ==
  ASSUME NEW a \in Octet, NEW b \in Octet
  PROVE  hex_number(a, b) # None => hex_number(a, b) \in Octet
<1>1. \A c \in HexDigit : hex_value(c) \in 0 .. 15
  BY DEF hex_value, HexDigit, Digit, zero
<1>2. \A c \in 0 .. 15 : (256 - c) % 256 \in Octet
  BY DEF Octet
<1>3. \A c, d \in 0 .. 15 : 16 * c + d \in Octet /\ c \in Octet
  BY DEF Octet
<1>4. \/ hex_number(a, b) = None
      \/ a \in HexDigit /\ b \in HexDigit /\ hex_number(a, b) = 16 * hex_value(a) + hex_value(b)
      \/ a \in HexDigit /\ hex_number(a, b) = hex_value(a)
      \/ b \in HexDigit /\ hex_number(a, b) = hex_value(b)
      \/ b \in HexDigit /\ hex_number(a, b) = (256 - hex_value(b)) % 256
  BY DEF hex_number
<1> QED BY <1>1, <1>2, <1>3, <1>4

-----------------------------------------------------------------------------
\* Percent decoding.

\* The table that url_decode reads its result from.
decoding(s) ==
  CHOOSE f : f = [i \in 1 .. (Len(s) + 1) |->
    IF i > Len(s) THEN <<>>
    ELSE IF is_escape(s, i) THEN <<hex_number(s[i + 1], s[i + 2])>> \o f[i + 3]
    ELSE <<s[i]>> \o f[i + 1]]

\* An escape lies within the text and gives a byte.
LEMMA Escape ==
  ASSUME NEW s \in Text, NEW i \in 1 .. Len(s), is_escape(s, i)
  PROVE  i + 3 \in 1 .. (Len(s) + 1) /\ hex_number(s[i + 1], s[i + 2]) \in Octet
<1>1. s[i + 1] \in Octet /\ s[i + 2] \in Octet /\ i + 3 \in 1 .. (Len(s) + 1)
  BY DEF is_escape, Text
<1> QED BY <1>1, HexNumber DEF is_escape

\* url_decode's loop has a result at every position of every text.
LEMMA Decoding ==
  ASSUME NEW s \in Text
  PROVE  /\ decoding(s)[Len(s) + 1] = <<>>
         /\ \A i \in 1 .. Len(s) :
              decoding(s)[i] = IF is_escape(s, i)
                                 THEN <<hex_number(s[i + 1], s[i + 2])>> \o decoding(s)[i + 3]
                                 ELSE <<s[i]>> \o decoding(s)[i + 1]
         /\ \A i \in 1 .. (Len(s) + 1) : decoding(s)[i] \in Text
<1> DEFINE n == Len(s)
           S == 1 .. (n + 1)
           body(f, i) == IF i > n THEN <<>>
                         ELSE IF is_escape(s, i) THEN <<hex_number(s[i + 1], s[i + 2])>> \o f[i + 3]
                         ELSE <<s[i]>> \o f[i + 1]
           D == [g \in [S -> Text] |-> [i \in S |-> body(g, i)]]
           f == decoding(s)
<1>0. n \in Nat /\ \A i \in S : i > n <=> i = n + 1
  BY DEF Text
<1>1. ASSUME NEW i \in S, NEW g, \A j \in S : j > i => g[j] \in Text
      PROVE  body(g, i) \in Text
  <2>1. CASE i > n
    BY <2>1 DEF Text
  <2>2. CASE i <= n /\ is_escape(s, i)
    <3>1. i + 3 \in S /\ i + 3 > i /\ hex_number(s[i + 1], s[i + 2]) \in Octet
      BY <2>2, Escape
    <3>2. g[i + 3] \in Text
      BY <1>1, <3>1
    <3> QED BY <1>0, <2>2, <3>1, <3>2 DEF Text
  <2>3. CASE i <= n /\ ~ is_escape(s, i)
    <3>1. i + 1 \in S /\ i + 1 > i /\ s[i] \in Octet
      BY <2>3 DEF Text
    <3>2. g[i + 1] \in Text
      BY <1>1, <3>1
    <3> QED BY <1>0, <2>3, <3>1, <3>2 DEF Text
  <2> QED BY <1>0, <2>1, <2>2, <2>3
<1>2. ASSUME NEW g, NEW h, NEW i \in S, \A j \in S : j > i => g[j] = h[j]
      PROVE  body(g, i) = body(h, i)
  <2>1. i <= n /\ is_escape(s, i) => g[i + 3] = h[i + 3]
    <3> SUFFICES ASSUME i <= n, is_escape(s, i) PROVE g[i + 3] = h[i + 3]
      OBVIOUS
    <3>1. i + 3 \in S /\ i + 3 > i
      BY Escape
    <3> QED BY <1>2, <3>1
  <2>2. i <= n => g[i + 1] = h[i + 1]
    <3>1. i <= n => i + 1 \in S /\ i + 1 > i
      BY <1>0
    <3> QED BY <1>2, <3>1
  <2> QED BY <1>0, <2>1, <2>2
<1>3. reads_on(n, Text, D)
  <2> HIDE DEF body
  <2>1. D \in [[S -> Text] -> [S -> Text]]
    BY <1>1
  <2>2. \A g, h \in [S -> Text], i \in S :
          (\A j \in S : j > i => g[j] = h[j]) => D[g][i] = D[h][i]
    BY <1>2
  <2>3. Text # {}
    <3>1. <<>> \in Text
      BY DEF Text
    <3> QED BY <3>1
  <2> QED BY <1>0, <2>1, <2>2, <2>3 DEF reads_on
<1>4. PICK g \in [S -> Text] : g = D[g]
  <2> HIDE DEF D, n
  <2> QED BY <1>3, ReadingOn
<1>5. \E h : h = [i \in S |-> body(h, i)]
  BY <1>4
<1>6. f = [i \in S |-> body(f, i)]
  BY <1>5 DEF decoding
<1> HIDE DEF f
<1>7. \A i \in S : f[i] = body(f, i)
  BY <1>6
<1>8. \A i \in S : f[i] \in Text
  <2> DEFINE T == {i \in S : f[i] \in Text}
  <2>1. ASSUME NEW i \in S, \A j \in S : j > i => j \in T PROVE i \in T
    <3> HIDE DEF body
    <3>1. body(f, i) \in Text
      BY <1>1, <2>1
    <3> QED BY <1>7, <3>1
  <2> HIDE DEF T
  <2>2. \A i \in S : i \in T
    BY <1>0, <2>1, FromEnd
  <2> QED BY <2>2 DEF T
<1>9. f[n + 1] = <<>>
  <2>1. n + 1 \in S /\ n + 1 > n
    BY <1>0
  <2> QED BY <1>7, <2>1
<1>10. \A i \in 1 .. n : f[i] = IF is_escape(s, i)
                                  THEN <<hex_number(s[i + 1], s[i + 2])>> \o f[i + 3]
                                  ELSE <<s[i]>> \o f[i + 1]
  BY <1>0, <1>7
<1> QED BY <1>8, <1>9, <1>10 DEF f

\* What url_decode reads behind a text does not depend on that text.
LEMMA DecodingAfter ==
  ASSUME NEW x \in Text, NEW t \in Text
  PROVE  \A i \in 1 .. (Len(t) + 1) : decoding(x \o t)[Len(x) + i] = decoding(t)[i]
<1> DEFINE n == Len(t)
           k == Len(x)
           w == x \o t
           f == decoding(w)
           g == decoding(t)
           T == {i \in 1 .. (n + 1) : f[k + i] = g[i]}
<1>1. /\ w \in Text /\ Len(w) = k + n /\ n \in Nat /\ k \in Nat
      /\ \A i \in 1 .. n : w[k + i] = t[i]
  BY DEF Text
<1>2. /\ g[n + 1] = <<>>
      /\ \A i \in 1 .. n :
           g[i] = IF is_escape(t, i) THEN <<hex_number(t[i + 1], t[i + 2])>> \o g[i + 3]
                                     ELSE <<t[i]>> \o g[i + 1]
  BY Decoding
<1> HIDE DEF w
<1>3. /\ f[Len(w) + 1] = <<>>
      /\ \A i \in 1 .. Len(w) :
           f[i] = IF is_escape(w, i) THEN <<hex_number(w[i + 1], w[i + 2])>> \o f[i + 3]
                                     ELSE <<w[i]>> \o f[i + 1]
  BY <1>1, Decoding
<1> HIDE DEF f, g
<1>4. ASSUME NEW i \in 1 .. (n + 1), \A j \in 1 .. (n + 1) : j > i => j \in T PROVE i \in T
  <2>1. CASE i = n + 1
    BY <1>1, <1>2, <1>3, <2>1
  <2>2. CASE i # n + 1
    <3>1. i \in 1 .. n /\ k + i \in 1 .. Len(w) /\ w[k + i] = t[i]
      BY <1>1, <2>2
    <3>2. is_escape(w, k + i) <=> is_escape(t, i)
      <4>1. (k + i) + 2 <= Len(w) <=> i + 2 <= n
        BY <1>1
      <4>2. i + 2 <= n => w[(k + i) + 1] = t[i + 1] /\ w[(k + i) + 2] = t[i + 2]
        <5>1. (k + i) + 1 = k + (i + 1) /\ (k + i) + 2 = k + (i + 2)
          BY <1>1
        <5>2. i + 2 <= n => i + 1 \in 1 .. n /\ i + 2 \in 1 .. n
          BY <1>1
        <5> QED BY <1>1, <5>1, <5>2
      <4> QED BY <3>1, <4>1, <4>2 DEF is_escape
    <3>3. CASE is_escape(t, i)
      <4>1. i + 1 \in 1 .. n /\ i + 2 \in 1 .. n /\ i + 3 \in 1 .. (n + 1) /\ i + 3 > i
        BY <1>1, <3>1, <3>3 DEF is_escape
      <4>2. f[k + (i + 3)] = g[i + 3]
        BY <1>4, <4>1
      <4>3. k + (i + 3) = (k + i) + 3 /\ k + (i + 1) = (k + i) + 1 /\ k + (i + 2) = (k + i) + 2
        BY <1>1
      <4>4. w[(k + i) + 1] = t[i + 1] /\ w[(k + i) + 2] = t[i + 2]
        BY <1>1, <4>1, <4>3
      <4>5. f[k + i] = <<hex_number(w[(k + i) + 1], w[(k + i) + 2])>> \o f[(k + i) + 3]
        BY <1>3, <3>1, <3>2, <3>3
      <4>6. g[i] = <<hex_number(t[i + 1], t[i + 2])>> \o g[i + 3]
        BY <1>2, <3>1, <3>3
      <4> QED BY <4>2, <4>3, <4>4, <4>5, <4>6
    <3>4. CASE ~ is_escape(t, i)
      <4>1. i + 1 \in 1 .. (n + 1) /\ i + 1 > i /\ k + (i + 1) = (k + i) + 1
        BY <1>1, <3>1
      <4>2. f[k + (i + 1)] = g[i + 1]
        BY <1>4, <4>1
      <4>3. f[k + i] = <<w[k + i]>> \o f[(k + i) + 1]
        BY <1>3, <3>1, <3>2, <3>4
      <4>4. g[i] = <<t[i]>> \o g[i + 1]
        BY <1>2, <3>1, <3>4
      <4> QED BY <3>1, <4>1, <4>2, <4>3, <4>4
    <3> QED BY <3>3, <3>4
  <2> QED BY <2>1, <2>2
<1> HIDE DEF T
<1>5. \A i \in 1 .. (n + 1) : i \in T
  BY <1>1, <1>4, FromEnd
<1> QED BY <1>5 DEF T, f, g, w

LEMMA UrlDecodes ==
  ASSUME NEW s
  PROVE  url_decode(s) = decoding(s)[1]
BY DEF url_decode, decoding

LEMMA DecodeType ==
  ASSUME NEW s \in Text
  PROVE  url_decode(s) \in Text
<1>1. 1 \in 1 .. (Len(s) + 1)
  BY DEF Text
<1> QED BY <1>1, UrlDecodes, Decoding

LEMMA DecodeEmpty ==
  url_decode(<<>>) = <<>>
<1>1. <<>> \in Text /\ Len(<<>>) + 1 = 1
  BY DEF Text
<1>2. decoding(<<>>)[Len(<<>>) + 1] = <<>>
  BY <1>1, Decoding
<1> QED BY <1>1, <1>2, UrlDecodes

\* A byte other than % stands for itself.
LEMMA DecodeByte ==
  ASSUME NEW c \in Octet, NEW t \in Text, c # percent
  PROVE  url_decode(<<c>> \o t) = <<c>> \o url_decode(t)
<1> DEFINE x == <<c>>
           w == x \o t
<1>1. /\ x \in Text /\ Len(x) = 1 /\ w \in Text /\ w[1] = c
      /\ 1 \in 1 .. Len(w) /\ 1 \in 1 .. (Len(t) + 1)
  BY DEF Text
<1>2. decoding(w)[2] = decoding(t)[1]
  <2>1. \A i \in 1 .. (Len(t) + 1) : decoding(x \o t)[Len(x) + i] = decoding(t)[i]
    BY <1>1, DecodingAfter
  <2> QED BY <1>1, <2>1
<1>3. ~ is_escape(w, 1)
  BY <1>1 DEF is_escape
<1> HIDE DEF w
<1>4. decoding(w)[1] = <<w[1]>> \o decoding(w)[1 + 1]
  BY <1>1, <1>3, Decoding
<1> QED BY <1>1, <1>2, <1>4, UrlDecodes, SMTT(60) DEF w

\* An escape stands for its byte.
LEMMA DecodeEscape ==
  ASSUME NEW a \in Octet, NEW b \in Octet, NEW t \in Text, hex_number(a, b) # None
  PROVE  url_decode(<<percent, a, b>> \o t) = <<hex_number(a, b)>> \o url_decode(t)
<1> DEFINE x == <<percent, a, b>>
           w == x \o t
<1>1. /\ x \in Text /\ Len(x) = 3 /\ w \in Text /\ w[1] = percent /\ w[2] = a /\ w[3] = b
      /\ Len(w) = Len(t) + 3 /\ 1 \in 1 .. Len(w) /\ 1 \in 1 .. (Len(t) + 1) /\ Len(t) \in Nat
  BY DEF Text, Octet, percent
<1>2. decoding(w)[4] = decoding(t)[1]
  <2>1. \A i \in 1 .. (Len(t) + 1) : decoding(x \o t)[Len(x) + i] = decoding(t)[i]
    BY <1>1, DecodingAfter
  <2> QED BY <1>1, <2>1
<1> HIDE DEF w
<1>3. is_escape(w, 1)
  BY <1>1 DEF is_escape
<1>4. decoding(w)[1] = <<hex_number(w[1 + 1], w[1 + 2])>> \o decoding(w)[1 + 3]
  BY <1>1, <1>3, Decoding
<1>5. 1 + 1 = 2 /\ 1 + 2 = 3 /\ 1 + 3 = 4
  OBVIOUS
<1>6. decoding(w)[1] = <<hex_number(a, b)>> \o decoding(t)[1]
  BY <1>1, <1>2, <1>4, <1>5
<1> QED BY <1>6, UrlDecodes DEF w

\* Of what a byte is written as, decode reads that byte, whatever follows.
reads_pieces(decode, piece) ==
  /\ maps(Octet, Seq(Octet), piece)
  /\ decode[<<>>] = <<>>
  /\ \A c \in Octet, t \in Text : decode[piece[c] \o t] = onto(c, decode[t])

\* If a reader takes a piece for its byte, it takes what is written for the text.
LEMMA ReadBack ==
  ASSUME NEW decode, NEW piece, reads_pieces(decode, piece), NEW s \in Text
  PROVE  decode[expanded(s, piece)] = s
<1> DEFINE P == {u \in Text : decode[expanded(u, piece)] = u}
<1>1. <<>> \in P
  BY ExpandedEmpty DEF Text, reads_pieces
<1>2. ASSUME NEW c \in Octet, NEW u \in Seq(Octet), u \in P PROVE onto(c, u) \in P
  <2>1. expanded(onto(c, u), piece) = piece[c] \o expanded(u, piece)
    BY ExpandedFront DEF reads_pieces
  <2>2. expanded(u, piece) \in Text
    BY ExpandedType DEF reads_pieces, Text
  <2>3. decode[piece[c] \o expanded(u, piece)] = onto(c, decode[expanded(u, piece)])
    BY <2>2 DEF reads_pieces
  <2>4. onto(c, u) \in Text
    BY Onto DEF Text
  <2> QED BY <1>2, <2>1, <2>3, <2>4
<1> HIDE DEF P
<1>3. Seq(Octet) \subseteq P
  BY <1>1, <1>2, FromFront
<1> QED BY <1>3 DEF P, Text

-----------------------------------------------------------------------------
\* Percent encoding.
Safe == unreserved \cup {percent}

url_piece ==
  [c \in Octet |-> IF should_encode(c) THEN <<percent, hex_char(c \div 16), hex_char(c % 16)>>
                                       ELSE <<c>>]

\* What percent encoding writes has no byte that any of the formats gives a meaning to.
LEMMA Bytes ==
  /\ Safe \subseteq Octet
  /\ Safe \cap (Space \cup {plus, ampersand, semicolon, equals, slash, quote, backslash}) = {}
  /\ percent \notin unreserved
BY DEF Safe, Octet, unreserved, Letter, Digit, Space, plus, ampersand, semicolon, equals, slash,
  quote, backslash, percent, minus, dot, space

LEMMA HexChar ==
  ASSUME NEW n \in 0 .. 15
  PROVE  hex_char(n) \in HexDigit \cap unreserved /\ hex_value(hex_char(n)) = n
BY DEF hex_char, hex_value, HexDigit, unreserved, Digit, Letter, zero

\* Two hexadecimal digits are read back as the byte they are written for.
LEMMA HexChars ==
  ASSUME NEW c \in Octet
  PROVE  /\ c \div 16 \in 0 .. 15 /\ c % 16 \in 0 .. 15
         /\ hex_number(hex_char(c \div 16), hex_char(c % 16)) = c
<1>1. c \div 16 \in 0 .. 15 /\ c % 16 \in 0 .. 15 /\ 16 * (c \div 16) + (c % 16) = c
  BY DEF Octet
<1> DEFINE h == c \div 16
           l == c % 16
<1> HIDE DEF h, l
<1>2. h \in 0 .. 15 /\ l \in 0 .. 15 /\ 16 * h + l = c
  BY <1>1 DEF h, l
<1>3. /\ hex_char(h) \in HexDigit /\ hex_value(hex_char(h)) = h
      /\ hex_char(l) \in HexDigit /\ hex_value(hex_char(l)) = l
  BY <1>2, HexChar
<1>4. \A d \in HexDigit : d \notin {88, 120} \cup Space \cup {plus, minus}
  BY DEF HexDigit, Digit, Space, space, plus, minus
<1>5. hex_number(hex_char(h), hex_char(l)) = c
  <2> DEFINE a == hex_char(h)
             b == hex_char(l)
  <2>1. a \in HexDigit /\ b \in HexDigit /\ hex_value(a) = h /\ hex_value(b) = l
    BY <1>3
  <2>2. a \notin Space \cup {plus} /\ a # minus /\ b \notin {88, 120}
    BY <1>4, <2>1
  <2> HIDE DEF a, b
  <2>3. hex_number(a, b) = 16 * hex_value(a) + hex_value(b)
    BY <2>1, <2>2 DEF hex_number
  <2> QED BY <1>2, <2>1, <2>3 DEF a, b
<1> QED BY <1>2, <1>5 DEF h, l

LEMMA UrlPieceType ==
  maps(Octet, Seq(Safe), url_piece) /\ maps(Octet, Seq(Octet), url_piece)
<1>1. ASSUME NEW c \in Octet PROVE url_piece[c] \in Seq(Safe) /\ url_piece[c] \in Seq(Octet)
  <2>1. hex_char(c \div 16) \in unreserved /\ hex_char(c % 16) \in unreserved
    BY HexChars, HexChar
  <2>2. unreserved \subseteq Safe /\ percent \in Safe /\ Safe \subseteq Octet
    BY Bytes DEF Safe
  <2> QED BY <2>1, <2>2 DEF url_piece, should_encode
<1> QED BY <1>1 DEF maps, url_piece

\* url_encode writes a piece for each byte.
LEMMA UrlEncodes ==
  ASSUME NEW s \in Text
  PROVE  url_encode(s) = expanded(s, url_piece)
<1>1. DOMAIN s = 1 .. Len(s) /\ \A i \in DOMAIN s : s[i] \in Octet
  BY DEF Text
<1>2. [i \in DOMAIN s |-> IF should_encode(s[i])
                            THEN <<percent, hex_char(s[i] \div 16), hex_char(s[i] % 16)>>
                            ELSE <<s[i]>>]
        = [i \in DOMAIN s |-> url_piece[s[i]]]
  BY <1>1 DEF url_piece
<1> QED BY <1>2 DEF url_encode, expanded, image

LEMMA UrlEncodeType ==
  ASSUME NEW s \in Text
  PROVE  url_encode(s) \in Seq(Safe) /\ url_encode(s) \in Text
BY UrlEncodes, UrlPieceType, ExpandedType DEF Text

decoder == [s \in Text |-> url_decode(s)]

LEMMA UrlReads ==
  reads_pieces(decoder, url_piece)
<1>1. decoder[<<>>] = <<>>
  BY DecodeEmpty DEF decoder, Text
<1>2. ASSUME NEW c \in Octet, NEW t \in Text
      PROVE  decoder[url_piece[c] \o t] = onto(c, decoder[t])
  <2>1. url_piece[c] \in Seq(Octet)
    BY UrlPieceType, MapType
  <2>2. url_piece[c] \o t \in Text
    BY <2>1 DEF Text
  <2>3. CASE should_encode(c)
    <3> DEFINE a == hex_char(c \div 16)
               b == hex_char(c % 16)
    <3>1. url_piece[c] = <<percent, a, b>>
      BY <2>3 DEF url_piece
    <3>2. a \in Octet /\ b \in Octet /\ hex_number(a, b) = c /\ c # None
      <4>1. a \in unreserved /\ b \in unreserved
        BY HexChars, HexChar
      <4>2. a \in Octet /\ b \in Octet
        BY <4>1, Bytes DEF Safe
      <4>3. c # None
        BY NotNone
      <4> QED BY <4>2, <4>3, HexChars
    <3> HIDE DEF a, b
    <3>3. url_decode(<<percent, a, b>> \o t) = <<c>> \o url_decode(t)
      BY <3>2, DecodeEscape
    <3> QED BY <2>2, <3>1, <3>3 DEF decoder, onto
  <2>4. CASE ~ should_encode(c)
    <3>1. url_piece[c] = <<c>> /\ c # percent
      BY <2>4, Bytes DEF url_piece, should_encode
    <3>2. url_decode(<<c>> \o t) = <<c>> \o url_decode(t)
      BY <3>1, DecodeByte
    <3> QED BY <2>2, <3>1, <3>2 DEF decoder, onto
  <2> QED BY <2>3, <2>4
<1> QED BY <1>1, <1>2, UrlPieceType DEF reads_pieces

\* url_decode reads what url_encode wrote.
LEMMA UrlReadBack ==
  ASSUME NEW s \in Text
  PROVE  url_decode(url_encode(s)) = s
<1>1. decoder[expanded(s, url_piece)] = s
  BY UrlReads, ReadBack
<1> QED BY <1>1, UrlEncodes, UrlEncodeType DEF decoder

\* Forms: a plus is a space.
despaced(s) == [i \in DOMAIN s |-> IF s[i] = plus THEN space ELSE s[i]]

form_decoder == [s \in Text |-> decode_form_component(s)]

form_piece == [c \in Octet |-> IF c = space THEN <<plus>> ELSE url_piece[c]]

LEMMA Despaced ==
  ASSUME NEW s \in Text
  PROVE  /\ despaced(s) \in Text /\ Len(despaced(s)) = Len(s)
         /\ \A i \in 1 .. Len(s) : despaced(s)[i] = IF s[i] = plus THEN space ELSE s[i]
         /\ s \in Seq(Safe) => despaced(s) = s
<1>1. DOMAIN s = 1 .. Len(s) /\ Len(s) \in Nat
  BY DEF Text
<1>2. \A i \in 1 .. Len(s) : (IF s[i] = plus THEN space ELSE s[i]) \in Octet
  <2>1. space \in Octet
    BY DEF space, Octet
  <2> QED BY <2>1 DEF Text
<1>3. despaced(s) \in Text
  BY <1>1, <1>2 DEF despaced, Text
<1>4. s \in Seq(Safe) => despaced(s) = s
  <2> SUFFICES ASSUME s \in Seq(Safe) PROVE despaced(s) = s
    OBVIOUS
  <2>1. \A i \in 1 .. Len(s) : s[i] # plus
    BY Bytes
  <2> QED BY <1>1, <2>1 DEF despaced
<1> QED BY <1>1, <1>3, <1>4 DEF despaced

\* The replacement of + is done byte by byte.
LEMMA DespacedConcat ==
  ASSUME NEW s \in Text, NEW t \in Text
  PROVE  despaced(s \o t) = despaced(s) \o despaced(t)
<1> DEFINE u == despaced(s)
           v == despaced(t)
           w == despaced(s \o t)
<1>1. /\ s \o t \in Text /\ Len(s \o t) = Len(s) + Len(t) /\ Len(s) \in Nat /\ Len(t) \in Nat
      /\ \A i \in 1 .. Len(s) + Len(t) : (s \o t)[i] = IF i <= Len(s) THEN s[i] ELSE t[i - Len(s)]
  BY DEF Text
<1>2. u \in Text /\ Len(u) = Len(s) /\ v \in Text /\ Len(v) = Len(t)
  BY Despaced
<1>3. w \in Text /\ Len(w) = Len(s) + Len(t)
  BY <1>1, Despaced
<1>4. ASSUME NEW i \in 1 .. Len(s) + Len(t) PROVE w[i] = (u \o v)[i]
  <2>1. w[i] = IF (s \o t)[i] = plus THEN space ELSE (s \o t)[i]
    BY <1>1, Despaced
  <2>2. CASE i <= Len(s)
    <3>1. i \in 1 .. Len(s)
      BY <1>1, <2>2
    <3>2. u[i] = IF s[i] = plus THEN space ELSE s[i]
      BY <3>1, Despaced
    <3> HIDE DEF u, v, w
    <3>3. (u \o v)[i] = u[i]
      BY <1>2, <3>1 DEF Text
    <3> QED BY <1>1, <2>1, <2>2, <3>2, <3>3
  <2>3. CASE i > Len(s)
    <3>1. i - Len(s) \in 1 .. Len(t)
      BY <1>1, <2>3
    <3>2. v[i - Len(s)] = IF t[i - Len(s)] = plus THEN space ELSE t[i - Len(s)]
      BY <3>1, Despaced
    <3> HIDE DEF u, v, w
    <3>3. (u \o v)[i] = v[i - Len(s)]
      BY <1>1, <1>2, <2>3 DEF Text
    <3> QED BY <1>1, <2>1, <2>3, <3>2, <3>3
  <2>4. i <= Len(s) \/ i > Len(s)
    BY <1>1
  <2> QED BY <2>2, <2>3, <2>4
<1>5. u \o v \in Text /\ Len(u \o v) = Len(s) + Len(t)
  <2> HIDE DEF u, v, w
  <2> QED BY <1>2, SMTT(60) DEF Text
<1> HIDE DEF u, v, w
<1>6. w = u \o v
  BY <1>3, <1>4, <1>5, SeqEqual DEF Text
<1> QED BY <1>6 DEF u, v, w

LEMMA FormDecodes ==
  ASSUME NEW s \in Text
  PROVE  decode_form_component(s) = url_decode(despaced(s))
BY DEF decode_form_component, despaced

LEMMA FormPieceType ==
  maps(Octet, Seq(Safe \cup {plus}), form_piece) /\ maps(Octet, Seq(Octet), form_piece)
<1>1. ASSUME NEW c \in Octet
      PROVE  form_piece[c] \in Seq(Safe \cup {plus}) /\ form_piece[c] \in Seq(Octet)
  <2>1. url_piece[c] \in Seq(Safe) /\ url_piece[c] \in Seq(Octet)
    BY UrlPieceType, MapType
  <2>2. url_piece[c] \in Seq(Safe \cup {plus})
    <3>1. Safe \subseteq Safe \cup {plus}
      OBVIOUS
    <3> QED BY <2>1, <3>1, SeqMonotonic
  <2>3. <<plus>> \in Seq(Safe \cup {plus}) /\ <<plus>> \in Seq(Octet)
    BY DEF plus, Octet
  <2> QED BY <2>1, <2>2, <2>3 DEF form_piece
<1> QED BY <1>1 DEF maps, form_piece

\* A form component is read back, its spaces written %20 or +.
LEMMA FormReads ==
  reads_pieces(form_decoder, url_piece) /\ reads_pieces(form_decoder, form_piece)
<1>1. form_decoder[<<>>] = <<>>
  <2>1. <<>> \in Text /\ Len(<<>>) = 0
    BY DEF Text
  <2>2. despaced(<<>>) = <<>>
    BY DEF despaced
  <2> QED BY <2>1, <2>2, FormDecodes, DecodeEmpty DEF form_decoder
<1>2. ASSUME NEW c \in Octet, NEW t \in Text
      PROVE  form_decoder[url_piece[c] \o t] = onto(c, form_decoder[t])
  <2> DEFINE p == url_piece[c]
  <2>1. p \in Text /\ p \in Seq(Safe)
    BY UrlPieceType, MapType DEF Text
  <2>2. \A u \in Text : url_decode(p \o u) = onto(c, url_decode(u))
    <3> SUFFICES ASSUME NEW u \in Text PROVE url_decode(p \o u) = onto(c, url_decode(u))
      OBVIOUS
    <3>1. decoder[p \o u] = onto(c, decoder[u])
      BY UrlReads DEF reads_pieces
    <3>2. p \o u \in Text
      BY <2>1 DEF Text
    <3> QED BY <3>1, <3>2 DEF decoder
  <2> HIDE DEF p
  <2>3. p \o t \in Text
    BY <2>1 DEF Text
  <2>4. despaced(p \o t) = p \o despaced(t) /\ despaced(t) \in Text
    BY <2>1, Despaced, DespacedConcat
  <2>5. form_decoder[p \o t] = onto(c, form_decoder[t])
    BY <2>2, <2>3, <2>4, FormDecodes DEF form_decoder
  <2> QED BY <2>5 DEF p
<1>3. ASSUME NEW c \in Octet, NEW t \in Text
      PROVE  form_decoder[form_piece[c] \o t] = onto(c, form_decoder[t])
  <2>1. CASE c # space
    BY <1>2, <2>1 DEF form_piece
  <2>2. CASE c = space
    <3>1. form_piece[c] = <<plus>>
      BY <2>2 DEF form_piece
    <3>2. <<plus>> \in Text /\ <<plus>> \o t \in Text
      BY DEF Text, plus, Octet
    <3>3. despaced(<<plus>>) = <<space>>
      BY DEF despaced
    <3>4. despaced(<<plus>> \o t) = <<space>> \o despaced(t) /\ despaced(t) \in Text
      <4>1. despaced(<<plus>> \o t) = despaced(<<plus>>) \o despaced(t)
        BY <3>2, DespacedConcat
      <4>2. despaced(t) \in Text
        BY Despaced
      <4> QED BY <3>3, <4>1, <4>2
    <3>5. url_decode(<<space>> \o despaced(t)) = <<space>> \o url_decode(despaced(t))
      <4>1. space \in Octet /\ space # percent
        BY DEF space, percent, Octet
      <4> QED BY <3>4, <4>1, DecodeByte
    <3> QED BY <2>2, <3>1, <3>2, <3>4, <3>5, FormDecodes DEF form_decoder, onto
  <2> QED BY <2>1, <2>2
<1> QED BY <1>1, <1>2, <1>3, UrlPieceType, FormPieceType DEF reads_pieces

LEMMA FormReadBack ==
  ASSUME NEW s \in Text
  PROVE  /\ decode_form_component(url_encode(s)) = s
         /\ decode_form_component(expanded(s, form_piece)) = s
<1>1. form_decoder[expanded(s, url_piece)] = s /\ form_decoder[expanded(s, form_piece)] = s
  BY FormReads, ReadBack
<1>2. expanded(s, form_piece) \in Text
  BY FormPieceType, ExpandedType DEF Text
<1> QED BY <1>1, <1>2, UrlEncodes, UrlEncodeType DEF form_decoder

-----------------------------------------------------------------------------
\* Searching and cutting.
LEMMA Minimum ==
  ASSUME NEW T, T \subseteq Nat, T # {}
  PROVE  Min(T) \in T /\ \A y \in T : Min(T) <= y
<1>1. PICK x \in T : \A y \in T : ~ (y < x)
  BY Smallest
<1>2. \A y \in T : x <= y
  BY <1>1
<1> QED BY <1>1, <1>2 DEF Min

LEMMA Maximum ==
  ASSUME NEW n \in Nat, NEW T, T \subseteq 0 .. n, T # {}
  PROVE  Max(T) \in T /\ \A y \in T : Max(T) >= y
<1> DEFINE U == {n - y : y \in T}
<1>1. U \subseteq Nat /\ U # {}
  <2>1. \A y \in T : n - y \in Nat
    OBVIOUS
  <2> QED BY <2>1
<1>2. PICK u \in U : \A y \in U : ~ (y < u)
  BY <1>1, Smallest
<1>3. PICK x \in T : u = n - x
  BY <1>2
<1>4. \A y \in T : x >= y
  <2> SUFFICES ASSUME NEW y \in T PROVE x >= y
    OBVIOUS
  <2>1. n - y \in U /\ y \in 0 .. n /\ x \in 0 .. n
    OBVIOUS
  <2>2. ~ (n - y < n - x)
    BY <1>2, <1>3, <2>1
  <2> QED BY <2>1, <2>2
<1> QED BY <1>3, <1>4 DEF Max

\* What find returns, and when.
LEMMA Find ==
  ASSUME NEW A, NEW s \in Seq(A), NEW c, NEW i \in 1 .. (Len(s) + 1)
  PROVE  /\ find(s, c, i) \in i .. (Len(s) + 1)
         /\ find(s, c, i) <= Len(s) => s[find(s, c, i)] = c
         /\ \A j \in i .. (find(s, c, i) - 1) : s[j] # c
<1> DEFINE T == {j \in i .. Len(s) : s[j] = c} \cup {Len(s) + 1}
           m == Min(T)
<1>1. Len(s) \in Nat
  OBVIOUS
<1>2. T \subseteq Nat /\ T # {}
  BY <1>1
<1>3. m \in T /\ \A y \in T : m <= y
  <2> HIDE DEF T
  <2> QED BY <1>2, Minimum
<1> HIDE DEF m
<1>4. m \in i .. (Len(s) + 1)
  BY <1>1, <1>3
<1>5. m <= Len(s) => s[m] = c
  BY <1>1, <1>3, <1>4
<1>6. ASSUME NEW j \in i .. (m - 1) PROVE s[j] # c
  <2>1. j \in i .. Len(s) /\ ~ (m <= j)
    BY <1>1, <1>4
  <2> QED BY <1>3, <2>1
<1> QED BY <1>4, <1>5, <1>6 DEF find, m

LEMMA FoundAt ==
  ASSUME NEW A, NEW s \in Seq(A), NEW c, NEW i \in 1 .. (Len(s) + 1), NEW k \in i .. (Len(s) + 1),
         k <= Len(s) => s[k] = c, \A j \in i .. (k - 1) : s[j] # c
  PROVE  find(s, c, i) = k
<1> DEFINE m == find(s, c, i)
<1>1. /\ m \in i .. (Len(s) + 1)
      /\ m <= Len(s) => s[m] = c
      /\ \A j \in i .. (m - 1) : s[j] # c
  BY Find
<1>2. Len(s) \in Nat
  OBVIOUS
<1> HIDE DEF m
<1>3. ~ (m < k)
  <2>1. m < k => m \in i .. (k - 1) /\ m <= Len(s)
    BY <1>1, <1>2
  <2> QED BY <1>1, <2>1
<1>4. ~ (k < m)
  <2>1. k < m => k \in i .. (m - 1) /\ k <= Len(s)
    BY <1>1, <1>2
  <2> QED BY <1>1, <2>1
<1>5. m = k
  BY <1>1, <1>2, <1>3, <1>4
<1> QED BY <1>5 DEF m

\* Texts without a byte.
Without(c) == Seq(Octet \ {c})

LEMMA WithoutIsText ==
  ASSUME NEW c, NEW s \in Without(c)
  PROVE  /\ s \in Text /\ Len(s) \in Nat
         /\ \A i \in 1 .. Len(s) : s[i] # c
<1>1. Octet \ {c} \subseteq Octet
  OBVIOUS
<1>2. s \in Text
  BY <1>1, SeqMonotonic DEF Text, Without
<1> QED BY <1>2 DEF Without, Text

\* The text x, a delimiter and the text t: find and SubSeq take them apart.
LEMMA Cut ==
  ASSUME NEW c \in Octet, NEW x \in Without(c), NEW t \in Text
  PROVE  /\ x \o <<c>> \o t \in Text
         /\ Len(x \o <<c>> \o t) = Len(x) + 1 + Len(t)
         /\ find(x \o <<c>> \o t, c, 1) = Len(x) + 1
         /\ SubSeq(x \o <<c>> \o t, 1, Len(x)) = x
         /\ SubSeq(x \o <<c>> \o t, Len(x) + 2, Len(x \o <<c>> \o t)) = t
<1> DEFINE w == x \o <<c>> \o t
           n == Len(x)
<1>1. x \in Text /\ n \in Nat /\ \A i \in 1 .. n : x[i] # c
  BY WithoutIsText
<1>2. /\ w \in Text /\ Len(w) = n + 1 + Len(t) /\ Len(t) \in Nat /\ w[n + 1] = c
      /\ \A i \in 1 .. n : w[i] = x[i]
      /\ \A i \in 1 .. Len(t) : w[n + 1 + i] = t[i]
  BY <1>1 DEF Text
<1> HIDE DEF w
<1>3. find(w, c, 1) = n + 1
  <2>1. 1 \in 1 .. (Len(w) + 1) /\ n + 1 \in 1 .. (Len(w) + 1) /\ w \in Seq(Octet)
    BY <1>1, <1>2 DEF Text
  <2>2. \A j \in 1 .. ((n + 1) - 1) : w[j] # c
    BY <1>1, <1>2
  <2>3. w[n + 1] = c
    BY <1>2
  <2> HIDE DEF n
  <2> QED BY <2>1, <2>2, <2>3, FoundAt
<1>4. SubSeq(w, 1, n) = x
  <2>1. SubSeq(w, 1, n) \in Seq(Octet) /\ Len(SubSeq(w, 1, n)) = n
    BY <1>1, <1>2 DEF Text
  <2>2. \A i \in 1 .. n : SubSeq(w, 1, n)[i] = x[i]
    BY <1>1, <1>2 DEF Text
  <2> QED BY <1>1, <2>1, <2>2, SeqEqual DEF Text
<1>5. SubSeq(w, n + 2, Len(w)) = t
  <2> DEFINE u == SubSeq(w, n + 2, Len(w))
  <2>1. u \in Seq(Octet) /\ Len(u) = Len(t)
    BY <1>1, <1>2 DEF Text
  <2>2. \A i \in 1 .. Len(t) : u[i] = t[i]
    BY <1>1, <1>2 DEF Text
  <2> HIDE DEF u
  <2>3. u = t
    BY <2>1, <2>2, SeqEqual DEF Text
  <2> QED BY <2>3 DEF u
<1> QED BY <1>2, <1>3, <1>4, <1>5 DEF w

-----------------------------------------------------------------------------
\* Parts and their names and values.

Pair == [name: Text, value: Text]

LEMMA NameValueType ==
  ASSUME NEW part \in Text
  PROVE  name_value(part) \in Pair
<1> DEFINE eq == find(part, equals, 1)
<1>1. eq \in 1 .. (Len(part) + 1) /\ Len(part) \in Nat
  <2>1. 1 \in 1 .. (Len(part) + 1)
    BY DEF Text
  <2> QED BY <2>1, Find DEF Text
<1> HIDE DEF eq
<1>2. SubSeq(part, 1, eq - 1) \in Text
  BY <1>1 DEF Text
<1>3. SubSeq(part, eq + 1, Len(part)) \in Text
  BY <1>1 DEF Text
<1> QED BY <1>2, <1>3 DEF name_value, eq, from, Pair

\* name_value cuts at the first equals sign.
LEMMA NameValue ==
  ASSUME NEW n \in Without(equals), NEW v \in Text
  PROVE  /\ name_value(n \o <<equals>> \o v) = [name |-> n, value |-> v]
         /\ n \o <<equals>> \o v # <<>>
<1>1. equals \in Octet
  BY DEF equals, Octet
<1> DEFINE w == n \o <<equals>> \o v
<1>2. /\ Len(w) = Len(n) + 1 + Len(v)
      /\ find(w, equals, 1) = Len(n) + 1
      /\ SubSeq(w, 1, Len(n)) = n
      /\ SubSeq(w, Len(n) + 2, Len(w)) = v
  BY <1>1, Cut
<1>3. Len(n) \in Nat /\ Len(v) \in Nat
  BY WithoutIsText DEF Text
<1> HIDE DEF w
<1>4. (Len(n) + 1) - 1 = Len(n) /\ (Len(n) + 1) + 1 = Len(n) + 2
  BY <1>3
<1>5. name_value(w) = [name |-> n, value |-> v]
  BY <1>2, <1>4 DEF name_value, from
<1>6. w # <<>>
  BY <1>2, <1>3
<1> QED BY <1>5, <1>6 DEF w

\* The table that parts reads its result from, and the part that is read first.
whole(part) == IF part = <<>> THEN <<>> ELSE <<name_value(part)>>

reading(raw, d) ==
  CHOOSE f : f = [i \in 1 .. (Len(raw) + 1) |->
    (IF SubSeq(raw, i, find(raw, d, i) - 1) = <<>> THEN <<>>
       ELSE <<name_value(SubSeq(raw, i, find(raw, d, i) - 1))>>)
      \o (IF find(raw, d, i) > Len(raw) THEN <<>> ELSE f[find(raw, d, i) + 1])]

LEMMA PartsRead ==
  ASSUME NEW raw, NEW d
  PROVE  parts(raw, d) = reading(raw, d)[1]
BY DEF parts, reading

\* parts' loop has a result at every position of every text.
LEMMA Reading ==
  ASSUME NEW raw \in Text, NEW d
  PROVE  \A i \in 1 .. (Len(raw) + 1) :
           /\ reading(raw, d)[i]
                = whole(SubSeq(raw, i, find(raw, d, i) - 1))
                    \o IF find(raw, d, i) > Len(raw) THEN <<>>
                       ELSE reading(raw, d)[find(raw, d, i) + 1]
           /\ reading(raw, d)[i] \in Seq(Pair)
<1> DEFINE n == Len(raw)
           S == 1 .. (n + 1)
           V == Seq(Pair)
           end(i) == find(raw, d, i)
           first(i) == whole(SubSeq(raw, i, end(i) - 1))
           body(f, i) == first(i) \o IF end(i) > n THEN <<>> ELSE f[end(i) + 1]
           D == [g \in [S -> V] |-> [i \in S |-> body(g, i)]]
           f == reading(raw, d)
<1>0. n \in Nat
  BY DEF Text
<1>a. ASSUME NEW i \in S
      PROVE  /\ end(i) \in i .. (n + 1)
             /\ SubSeq(raw, i, end(i) - 1) \in Text
  <2>1. end(i) \in i .. (n + 1)
    BY Find DEF Text
  <2> HIDE DEF end
  <2>2. SubSeq(raw, i, end(i) - 1) \in Text
    BY <1>0, <2>1 DEF Text
  <2> QED BY <2>1, <2>2
<1>b. ASSUME NEW i \in S PROVE first(i) \in V
  <2>1. SubSeq(raw, i, end(i) - 1) \in Text
    BY <1>a
  <2>2. name_value(SubSeq(raw, i, end(i) - 1)) \in Pair
    BY <2>1, NameValueType
  <2> HIDE DEF end
  <2> QED BY <2>2 DEF whole
<1> HIDE DEF end, first
<1>1. ASSUME NEW i \in S, NEW g, \A j \in S : j > i => g[j] \in V
      PROVE  body(g, i) \in V
  <2>1. CASE end(i) > n
    BY <1>b, <2>1
  <2>2. CASE ~ (end(i) > n)
    <3>1. end(i) + 1 \in S /\ end(i) + 1 > i
      BY <1>0, <1>a, <2>2
    <3>2. g[end(i) + 1] \in V
      BY <1>1, <3>1
    <3> QED BY <1>b, <2>2, <3>2
  <2> QED BY <2>1, <2>2
<1>2. ASSUME NEW g, NEW h, NEW i \in S, \A j \in S : j > i => g[j] = h[j]
      PROVE  body(g, i) = body(h, i)
  <2>1. ~ (end(i) > n) => end(i) + 1 \in S /\ end(i) + 1 > i
    BY <1>0, <1>a
  <2> QED BY <1>2, <2>1
<1>3. reads_on(n, V, D)
  <2> HIDE DEF body
  <2>1. D \in [[S -> V] -> [S -> V]]
    <3> HIDE DEF V
    <3> QED BY <1>1
  <2>2. \A g, h \in [S -> V], i \in S :
          (\A j \in S : j > i => g[j] = h[j]) => D[g][i] = D[h][i]
    BY <1>2
  <2>3. V # {}
    <3>1. <<>> \in V
      OBVIOUS
    <3> QED BY <3>1
  <2> QED BY <1>0, <2>1, <2>2, <2>3 DEF reads_on
<1>4. PICK g \in [S -> V] : g = D[g]
  <2> HIDE DEF D, n, V
  <2> QED BY <1>3, ReadingOn
<1>5. \E h : h = [i \in S |-> body(h, i)]
  BY <1>4, SMTT(60)
<1>6. f = [i \in S |-> body(f, i)]
  BY <1>5 DEF reading, end, first, whole
<1> HIDE DEF f
<1>7. \A i \in S : f[i] = body(f, i)
  BY <1>6
<1>8. \A i \in S : f[i] \in V
  <2> DEFINE T == {i \in S : f[i] \in V}
  <2>1. ASSUME NEW i \in S, \A j \in S : j > i => j \in T PROVE i \in T
    <3> HIDE DEF body, V
    <3>1. body(f, i) \in V
      BY <1>1, <2>1
    <3> QED BY <1>7, <3>1
  <2> HIDE DEF T
  <2>2. \A i \in S : i \in T
    BY <1>0, <2>1, FromEnd
  <2> QED BY <2>2 DEF T
<1> QED BY <1>7, <1>8 DEF f, end, first

LEMMA PartsType ==
  ASSUME NEW raw \in Text, NEW d
  PROVE  parts(raw, d) \in Seq(Pair)
<1>1. 1 \in 1 .. (Len(raw) + 1)
  BY DEF Text
<1> QED BY <1>1, PartsRead, Reading

\* What parts reads behind a text does not depend on that text.
LEMMA ReadingAfter ==
  ASSUME NEW x \in Text, NEW t \in Text, NEW d
  PROVE  \A i \in 1 .. (Len(t) + 1) : reading(x \o t, d)[Len(x) + i] = reading(t, d)[i]
<1> DEFINE n == Len(t)
           k == Len(x)
           w == x \o t
           f == reading(w, d)
           g == reading(t, d)
           T == {i \in 1 .. (n + 1) : f[k + i] = g[i]}
<1>1. /\ w \in Text /\ Len(w) = k + n /\ n \in Nat /\ k \in Nat
      /\ \A i \in 1 .. n : w[k + i] = t[i]
  BY DEF Text
<1>2. \A i \in 1 .. (n + 1) :
        g[i] = whole(SubSeq(t, i, find(t, d, i) - 1))
                 \o IF find(t, d, i) > n THEN <<>> ELSE g[find(t, d, i) + 1]
  BY Reading
<1> HIDE DEF w
<1>3. \A i \in 1 .. (Len(w) + 1) :
        f[i] = whole(SubSeq(w, i, find(w, d, i) - 1))
                 \o IF find(w, d, i) > Len(w) THEN <<>> ELSE f[find(w, d, i) + 1]
  BY <1>1, Reading
<1> HIDE DEF f, g
<1>4. ASSUME NEW i \in 1 .. (n + 1), \A j \in 1 .. (n + 1) : j > i => j \in T PROVE i \in T
  <2> DEFINE e == find(t, d, i)
  <2>1. /\ e \in i .. (n + 1)
        /\ e <= n => t[e] = d
        /\ \A j \in i .. (e - 1) : t[j] # d
    BY Find DEF Text
  <2> HIDE DEF e
  <2>2. k + i \in 1 .. (Len(w) + 1)
    BY <1>1
  <2>3. find(w, d, k + i) = k + e
    <3>1. k + e \in (k + i) .. (Len(w) + 1)
      BY <1>1, <2>1
    <3>2. k + e <= Len(w) => w[k + e] = d
      BY <1>1, <2>1
    <3>3. ASSUME NEW j \in (k + i) .. ((k + e) - 1) PROVE w[j] # d
      <4>1. j - k \in i .. (e - 1) /\ j - k \in 1 .. n /\ k + (j - k) = j
        BY <1>1, <2>1
      <4> QED BY <1>1, <2>1, <4>1
    <3>4. w \in Seq(Octet)
      BY <1>1 DEF Text
    <3> HIDE DEF n, k
    <3> QED BY <2>2, <3>1, <3>2, <3>3, <3>4, FoundAt, ZenonT(90)
  <2>4. SubSeq(w, k + i, (k + e) - 1) = SubSeq(t, i, e - 1)
    <3> DEFINE u == SubSeq(w, k + i, (k + e) - 1)
               v == SubSeq(t, i, e - 1)
    <3>1. u \in Seq(Octet) /\ Len(u) = e - i
      BY <1>1, <2>1, SMTT(60) DEF Text
    <3>2. v \in Seq(Octet) /\ Len(v) = e - i
      BY <1>1, <2>1 DEF Text
    <3>3. ASSUME NEW j \in 1 .. (e - i) PROVE u[j] = v[j]
      <4>1. u[j] = w[k + (i + j - 1)]
        BY <1>1, <2>1, SMTT(60) DEF Text
      <4>2. v[j] = t[i + j - 1]
        BY <1>1, <2>1 DEF Text
      <4>3. i + j - 1 \in 1 .. n
        BY <1>1, <2>1
      <4> QED BY <1>1, <4>1, <4>2, <4>3
    <3> HIDE DEF u, v
    <3>4. u = v
      BY <3>1, <3>2, <3>3, SeqEqual
    <3> QED BY <3>4 DEF u, v
  <2>5. k + e > Len(w) <=> e > n
    BY <1>1, <2>1
  <2>6. e <= n => f[(k + e) + 1] = g[e + 1]
    <3> SUFFICES ASSUME e <= n PROVE f[(k + e) + 1] = g[e + 1]
      BY <1>1, <2>1
    <3>1. e + 1 \in 1 .. (n + 1) /\ e + 1 > i /\ k + (e + 1) = (k + e) + 1
      BY <1>1, <2>1
    <3> QED BY <1>4, <3>1
  <2>7. f[k + i] = whole(SubSeq(t, i, e - 1)) \o IF e > n THEN <<>> ELSE f[(k + e) + 1]
    BY <1>3, <2>2, <2>3, <2>4, <2>5
  <2>8. g[i] = whole(SubSeq(t, i, e - 1)) \o IF e > n THEN <<>> ELSE g[e + 1]
    BY <1>2 DEF e
  <2>9. f[k + i] = g[i]
    <3>1. CASE e > n
      BY <2>7, <2>8, <3>1
    <3>2. CASE e <= n
      <4>1. ~ (e > n)
        BY <1>1, <2>1, <3>2
      <4> QED BY <2>6, <2>7, <2>8, <3>2, <4>1
    <3>3. e > n \/ e <= n
      BY <1>1, <2>1
    <3> QED BY <3>1, <3>2, <3>3
  <2> QED BY <2>9
<1> HIDE DEF T
<1>5. \A i \in 1 .. (n + 1) : i \in T
  BY <1>1, <1>4, FromEnd
<1> QED BY <1>5 DEF T, f, g, w

\* What follows a delimiter is read by itself.
LEMMA PartsOfOne ==
  ASSUME NEW d \in Octet, NEW x \in Without(d)
  PROVE  parts(x, d) = whole(x)
<1>1. x \in Text /\ Len(x) \in Nat /\ \A i \in 1 .. Len(x) : x[i] # d
  BY WithoutIsText
<1> DEFINE n == Len(x)
<1>2. find(x, d, 1) = n + 1
  <2>1. 1 \in 1 .. (n + 1) /\ n + 1 \in 1 .. (n + 1) /\ \A j \in 1 .. ((n + 1) - 1) : x[j] # d
    BY <1>1
  <2>2. ~ (n + 1 <= n)
    BY <1>1
  <2>3. x \in Seq(Octet)
    BY <1>1 DEF Text
  <2> QED BY <2>1, <2>2, <2>3, FoundAt
<1>3. reading(x, d)[1] = whole(SubSeq(x, 1, (n + 1) - 1)) \o <<>>
  <2>1. 1 \in 1 .. (Len(x) + 1) /\ n + 1 > Len(x)
    BY <1>1
  <2>2. reading(x, d)[1]
          = whole(SubSeq(x, 1, find(x, d, 1) - 1))
            \o IF find(x, d, 1) > Len(x) THEN <<>> ELSE reading(x, d)[find(x, d, 1) + 1]
    BY <1>1, <2>1, Reading
  <2> HIDE DEF n
  <2> QED BY ONLY <1>2, <2>1, <2>2
<1>4. SubSeq(x, 1, (n + 1) - 1) = x
  BY <1>1 DEF Text
<1>5. whole(x) \o <<>> = whole(x)
  BY DEF whole
<1> QED BY <1>3, <1>4, <1>5, PartsRead

\* A part, a delimiter and a text: the part, then the parts of the text.
LEMMA PartsOfMore ==
  ASSUME NEW d \in Octet, NEW x \in Without(d), NEW t \in Text
  PROVE  parts(x \o <<d>> \o t, d) = whole(x) \o parts(t, d)
<1> DEFINE y == x \o <<d>>
           w == x \o <<d>> \o t
           n == Len(x)
<1>1. /\ w \in Text /\ Len(w) = n + 1 + Len(t) /\ find(w, d, 1) = n + 1
      /\ SubSeq(w, 1, n) = x
  BY Cut
<1>2. x \in Text /\ n \in Nat /\ Len(t) \in Nat
  BY WithoutIsText DEF Text
<1>3. y \in Text /\ Len(y) = n + 1
  BY <1>2 DEF Text
<1>4. reading(w, d)[(n + 1) + 1] = reading(t, d)[1]
  <2>1. 1 \in 1 .. (Len(t) + 1)
    BY <1>2
  <2>2. reading(y \o t, d)[Len(y) + 1] = reading(t, d)[1]
    BY <1>3, <2>1, ReadingAfter
  <2> QED BY <1>3, <2>2
<1> HIDE DEF w, y
<1>5. reading(w, d)[1]
        = whole(SubSeq(w, 1, (n + 1) - 1)) \o reading(w, d)[(n + 1) + 1]
  <2>1. 1 \in 1 .. (Len(w) + 1) /\ ~ (n + 1 > Len(w))
    BY <1>1, <1>2
  <2>2. reading(w, d)[1]
          = whole(SubSeq(w, 1, find(w, d, 1) - 1))
              \o IF find(w, d, 1) > Len(w) THEN <<>> ELSE reading(w, d)[find(w, d, 1) + 1]
    BY <1>1, <2>1, Reading
  <2>3. find(w, d, 1) = n + 1
    BY <1>1
  <2> QED BY <2>1, <2>2, <2>3
<1>6. (n + 1) - 1 = n
  BY <1>2
<1>7. reading(w, d)[1] = whole(x) \o reading(t, d)[1]
  BY <1>1, <1>4, <1>5, <1>6
<1> QED BY <1>7, PartsRead DEF w

-----------------------------------------------------------------------------
\* Parts that were joined.
prefixing(dl) == [x \in Text |-> dl \o x]

LEMMA PrefixingMaps ==
  ASSUME NEW dl \in Text
  PROVE  maps(Text, Seq(Octet), prefixing(dl)) /\ maps(Text, Text, prefixing(dl))
BY DEF maps, prefixing, Text

\* Each text with a delimiter before it.
tailed(texts, dl) == expanded(texts, prefixing(dl))

LEMMA TailedType ==
  ASSUME NEW dl \in Text, NEW texts \in Seq(Text)
  PROVE  tailed(texts, dl) \in Text
BY PrefixingMaps, ExpandedType DEF tailed, Text

\* join writes the first text, then each other behind a delimiter.
LEMMA JoinFront ==
  ASSUME NEW dl \in Text, NEW x \in Text, NEW texts \in Seq(Text)
  PROVE  join(onto(x, texts), dl) = x \o tailed(texts, dl)
<1> DEFINE w == onto(x, texts)
           u == [i \in DOMAIN w |-> IF i = 1 THEN w[i] ELSE dl \o w[i]]
           t == image(texts, prefixing(dl))
<1>1. /\ w \in Seq(Text) /\ Len(w) = Len(texts) + 1 /\ w[1] = x
      /\ \A i \in 1 .. Len(texts) : w[i + 1] = texts[i]
      /\ Len(texts) \in Nat
  BY DEF onto
<1>2. t \in Seq(Text) /\ Len(t) = Len(texts)
  BY PrefixingMaps, ImageType
<1>3. DOMAIN w = 1 .. (Len(texts) + 1)
  BY <1>1
<1> HIDE DEF w
<1>4. u \in Seq(Text) /\ Len(u) = Len(texts) + 1
  <2>1. \A i \in 1 .. (Len(texts) + 1) : w[i] \in Text /\ dl \o w[i] \in Text
    BY <1>1, <1>3 DEF Text
  <2>2. \A i \in 1 .. (Len(texts) + 1) : (IF i = 1 THEN w[i] ELSE dl \o w[i]) \in Text
    BY <2>1
  <2> QED BY <1>1, <1>3, <2>2
<1>5. u[1] = x
  BY <1>1, <1>3
<1>6. ASSUME NEW i \in 1 .. Len(texts) PROVE u[i + 1] = t[i]
  <2>1. i + 1 \in DOMAIN w /\ i + 1 # 1
    BY <1>1, <1>3
  <2>2. u[i + 1] = dl \o texts[i]
    BY <1>1, <2>1
  <2>3. texts[i] \in Text /\ i \in DOMAIN texts
    OBVIOUS
  <2>4. t[i] = dl \o texts[i]
    BY <2>3 DEF image, prefixing
  <2> QED BY <2>2, <2>4
<1> HIDE DEF u, t
<1>7. Len(u) = Len(t) + 1 /\ \A i \in 1 .. Len(t) : u[i + 1] = t[i]
  BY <1>2, <1>4, <1>6
<1>8. u = onto(x, t)
  BY <1>2, <1>4, <1>5, <1>7, FrontAndRest
<1>9. FlattenSeq(onto(x, t)) = x \o FlattenSeq(t)
  BY <1>2, FlattenPrepend DEF Text
<1> QED BY <1>8, <1>9 DEF join, tailed, expanded, u, t, w

LEMMA JoinEmpty ==
  ASSUME NEW dl
  PROVE  join(<<>>, dl) = <<>>
<1>1. [i \in DOMAIN <<>> |-> IF i = 1 THEN <<>>[i] ELSE dl \o <<>>[i]] = <<>>
  OBVIOUS
<1> QED BY <1>1, FlattenEmpty DEF join

LEMMA TailedFront ==
  ASSUME NEW dl \in Text, NEW x \in Text, NEW texts \in Seq(Text)
  PROVE  tailed(onto(x, texts), dl) = (dl \o x) \o tailed(texts, dl)
<1>1. expanded(onto(x, texts), prefixing(dl)) = prefixing(dl)[x] \o expanded(texts, prefixing(dl))
  BY PrefixingMaps, ExpandedFront
<1> QED BY <1>1 DEF tailed, prefixing

\* The parts that are not empty, and what is read of each.
PartOf(d) == Without(d) \ {<<>>}

LEMMA PartIsText ==
  ASSUME NEW d, NEW x \in PartOf(d)
  PROVE  x \in Text /\ x \in Without(d) /\ whole(x) = <<name_value(x)>> /\ name_value(x) \in Pair
BY WithoutIsText, NameValueType DEF PartOf, whole

after_blank(d, b) == [x \in PartOf(d) |-> name_value(b \o x)]

LEMMA Blanked ==
  ASSUME NEW d, NEW b \in Without(d), NEW x \in PartOf(d)
  PROVE  b \o x \in PartOf(d)
<1>1. x \in Seq(Octet \ {d}) /\ b \in Seq(Octet \ {d}) /\ x # <<>>
  BY DEF PartOf, Without
<1>2. b \o x \in Seq(Octet \ {d}) /\ Len(b \o x) = Len(b) + Len(x)
  BY <1>1
<1>3. Len(x) # 0 /\ Len(x) \in Nat /\ Len(b) \in Nat
  BY <1>1
<1>4. b \o x # <<>>
  BY <1>2, <1>3
<1> QED BY <1>2, <1>4 DEF PartOf, Without

LEMMA AfterBlankMaps ==
  ASSUME NEW d, NEW b \in Without(d)
  PROVE  maps(PartOf(d), Pair, after_blank(d, b))
BY Blanked, PartIsText DEF maps, after_blank

LEMMA TailedParts ==
  ASSUME NEW d \in Octet, NEW b \in Without(d), NEW texts \in Seq(PartOf(d))
  PROVE  \A x \in PartOf(d) :
           parts(x \o tailed(texts, <<d>> \o b), d)
             = onto(name_value(x), image(texts, after_blank(d, b)))
<1> DEFINE dl == <<d>> \o b
           F == after_blank(d, b)
           P == {ts \in Seq(PartOf(d)) :
                   \A x \in PartOf(d) :
                     parts(x \o tailed(ts, dl), d) = onto(name_value(x), image(ts, F))}
<1>0. /\ b \in Text /\ dl \in Text
      /\ PartOf(d) \subseteq Text
  <2>1. b \in Text
    BY WithoutIsText
  <2> QED BY <2>1, PartIsText DEF Text
<1>1. <<>> \in P
  <2> SUFFICES ASSUME NEW x \in PartOf(d)
               PROVE  parts(x \o tailed(<<>>, dl), d) = onto(name_value(x), image(<<>>, F))
    OBVIOUS
  <2>1. tailed(<<>>, dl) = <<>>
    BY ExpandedEmpty DEF tailed
  <2>2. x \in Text /\ x \in Without(d) /\ whole(x) = <<name_value(x)>>
    BY PartIsText
  <2>3. x \o <<>> = x
    BY <2>2 DEF Text
  <2>4. parts(x, d) = <<name_value(x)>>
    BY <2>2, PartsOfOne
  <2>5. image(<<>>, F) = <<>>
    BY ImageEmpty
  <2> DEFINE y == name_value(x)
  <2> HIDE DEF y
  <2>6. <<y>> = onto(y, <<>>)
    BY DEF onto
  <2> QED BY <2>1, <2>3, <2>4, <2>5, <2>6 DEF y
<1>2. ASSUME NEW h \in PartOf(d), NEW r \in Seq(PartOf(d)), r \in P PROVE onto(h, r) \in P
  <2> SUFFICES ASSUME NEW x \in PartOf(d)
               PROVE  parts(x \o tailed(onto(h, r), dl), d)
                        = onto(name_value(x), image(onto(h, r), F))
    BY Onto
  <2>1. r \in Seq(Text) /\ h \in Text
    BY <1>0, SeqMonotonic
  <2>2. tailed(onto(h, r), dl) = (dl \o h) \o tailed(r, dl)
    BY <1>0, <2>1, TailedFront
  <2> DEFINE z == tailed(r, dl)
             y == b \o h
  <2>3. z \in Text
    BY <1>0, <2>1, TailedType
  <2>4. y \in PartOf(d)
    BY Blanked
  <2>5. x \in Text /\ x \in Without(d) /\ whole(x) = <<name_value(x)>> /\ y \in Text
    BY <2>4, PartIsText
  <2>6. x \o ((dl \o h) \o z) = x \o <<d>> \o (y \o z)
    <3> HIDE DEF z
    <3> DEFINE q == <<d>>
    <3>1. /\ q \in Seq(Octet) /\ b \in Seq(Octet) /\ h \in Seq(Octet) /\ z \in Seq(Octet)
          /\ x \in Seq(Octet) /\ y \in Seq(Octet)
      BY <1>0, <2>1, <2>3, <2>5 DEF Text
    <3> HIDE DEF q
    <3>2. (q \o b) \o h = q \o y
      <4>1. regroup(q, b, h)
        BY <3>1, Regroup
      <4> QED BY <4>1 DEF regroup, y
    <3> HIDE DEF y
    <3>3. (q \o y) \o z = q \o (y \o z)
      <4>1. regroup(q, y, z)
        BY <3>1, Regroup
      <4> QED BY <4>1 DEF regroup
    <3> DEFINE v == y \o z
    <3>4. v \in Seq(Octet)
      BY <3>1
    <3> HIDE DEF v
    <3>5. q \in Seq(Octet) /\ x \in Seq(Octet)
      BY <3>1
    <3>6. x \o (q \o v) = (x \o q) \o v
      <4>1. regroup(x, q, v)
        BY <3>4, <3>5, Regroup
      <4> QED BY <4>1 DEF regroup
    <3> QED BY <3>2, <3>3, <3>6 DEF q, v
  <2>7. y \o z \in Text
    <3> HIDE DEF y, z
    <3> QED BY <2>3, <2>5 DEF Text
  <2>8. parts(x \o <<d>> \o (y \o z), d) = whole(x) \o parts(y \o z, d)
    <3> HIDE DEF y, z
    <3> QED BY <2>5, <2>7, PartsOfMore
  <2>9. parts(y \o z, d) = onto(name_value(y), image(r, F))
    BY <1>2, <2>4
  <2>10. image(onto(h, r), F) = onto(F[h], image(r, F))
    BY AfterBlankMaps, ImageFront
  <2>11. F[h] = name_value(y)
    BY DEF after_blank
  <2>12. parts(x \o tailed(onto(h, r), dl), d)
           = <<name_value(x)>> \o onto(name_value(y), image(r, F))
    BY <2>2, <2>5, <2>6, <2>8, <2>9
  <2> QED BY <2>10, <2>11, <2>12 DEF onto
<1> HIDE DEF P
<1>3. Seq(PartOf(d)) \subseteq P
  BY <1>1, <1>2, FromFront
<1> QED BY <1>3 DEF P

\* The names and values of parts joined by a delimiter and a blank.
read_of(texts, d, b) ==
  [i \in DOMAIN texts |-> name_value(IF i = 1 THEN texts[i] ELSE b \o texts[i])]

\* Parts that are not empty and hold no delimiter are read one for one.
LEMMA JoinedParts ==
  ASSUME NEW d \in Octet, NEW b \in Without(d), NEW texts \in Seq(PartOf(d))
  PROVE  parts(join(texts, <<d>> \o b), d) = read_of(texts, d, b)
<1>1. CASE texts = <<>>
  <2>1. join(texts, <<d>> \o b) = <<>>
    BY <1>1, JoinEmpty
  <2>2. <<>> \in Without(d) /\ whole(<<>>) = <<>>
    BY DEF Without, whole
  <2>3. parts(<<>>, d) = <<>>
    BY <2>2, PartsOfOne
  <2>4. read_of(texts, d, b) = <<>>
    BY <1>1 DEF read_of
  <2> QED BY <2>1, <2>3, <2>4
<1>2. CASE texts # <<>>
  <2> DEFINE x == texts[1]
             r == Tail(texts)
             dl == <<d>> \o b
             F == after_blank(d, b)
  <2>1. /\ x \in PartOf(d) /\ r \in Seq(PartOf(d)) /\ texts = onto(x, r)
        /\ Len(texts) = Len(r) + 1 /\ Len(r) \in Nat
        /\ \A i \in 1 .. Len(r) : texts[i + 1] = r[i]
    BY <1>2 DEF onto
  <2> HIDE DEF x, r
  <2>2. x \in Text /\ r \in Seq(Text) /\ dl \in Text
    <3>1. PartOf(d) \subseteq Text
      BY PartIsText
    <3>2. b \in Text
      BY WithoutIsText
    <3> QED BY <2>1, <3>1, <3>2, SeqMonotonic DEF Text
  <2>3. join(texts, dl) = x \o tailed(r, dl)
    BY <2>1, <2>2, JoinFront
  <2>4. parts(x \o tailed(r, dl), d) = onto(name_value(x), image(r, F))
    BY <2>1, TailedParts
  <2>5. image(r, F) \in Seq(Pair) /\ Len(image(r, F)) = Len(r)
    BY <2>1, AfterBlankMaps, ImageType
  <2>6. read_of(texts, d, b) = onto(name_value(x), image(r, F))
    <3> DEFINE t == image(r, F)
               u == read_of(texts, d, b)
               y == name_value(x)
    <3>1. y \in Pair
      BY <2>1, PartIsText
    <3>2. u \in Seq(Pair) /\ Len(u) = Len(r) + 1
      <4>1. \A i \in 1 .. Len(texts) : texts[i] \in PartOf(d)
        OBVIOUS
      <4>2. \A i \in 1 .. Len(texts) :
              name_value(texts[i]) \in Pair /\ name_value(b \o texts[i]) \in Pair
        BY <4>1, PartIsText, Blanked
      <4>3. DOMAIN texts = 1 .. Len(texts) /\ Len(texts) \in Nat
        OBVIOUS
      <4>4. \A i \in 1 .. Len(texts) :
              name_value(IF i = 1 THEN texts[i] ELSE b \o texts[i]) \in Pair
        BY <4>2
      <4> QED BY <2>1, <4>3, <4>4 DEF read_of
    <3>3. u[1] = y
      BY <2>1, <1>2 DEF read_of, x
    <3>4. ASSUME NEW i \in 1 .. Len(r) PROVE u[i + 1] = t[i]
      <4>1. i + 1 \in DOMAIN texts /\ i + 1 # 1 /\ texts[i + 1] = r[i]
        BY <2>1
      <4>2. u[i + 1] = name_value(b \o r[i])
        BY <4>1 DEF read_of
      <4>3. r[i] \in PartOf(d) /\ i \in DOMAIN r
        BY <2>1
      <4> QED BY <4>2, <4>3 DEF image, after_blank
    <3> HIDE DEF t, u, y
    <3>5. t \in Seq(Pair) /\ Len(u) = Len(t) + 1 /\ \A i \in 1 .. Len(t) : u[i + 1] = t[i]
      BY <2>5, <3>2, <3>4 DEF t
    <3>6. u = onto(y, t)
      BY <3>1, <3>2, <3>3, <3>5, FrontAndRest
    <3> QED BY <3>6 DEF t, u, y
  <2> QED BY <2>3, <2>4, <2>6
<1> QED BY <1>1, <1>2

-----------------------------------------------------------------------------
\* Names and values.
field_text(f, piece) == expanded(f.name, piece) \o <<equals>> \o expanded(f.value, piece)

field_texts(pairs, piece) == [i \in DOMAIN pairs |-> field_text(pairs[i], piece)]

\* A piece that is written without the delimiter and the equals sign.
delimited(d, piece) ==
  /\ d \in Octet \ {equals}
  /\ maps(Octet, Seq(Octet \ {d, equals}), piece)

\* What is written of a field is a part, and is cut into its name and value.
LEMMA FieldText ==
  ASSUME NEW d, NEW piece, delimited(d, piece), NEW f \in Pair, NEW b \in Seq(Octet \ {d, equals})
  PROVE  /\ expanded(f.name, piece) \in Text /\ expanded(f.value, piece) \in Text
         /\ field_text(f, piece) \in PartOf(d)
         /\ name_value(b \o field_text(f, piece))
              = [name |-> b \o expanded(f.name, piece), value |-> expanded(f.value, piece)]
         /\ name_value(field_text(f, piece))
              = [name |-> expanded(f.name, piece), value |-> expanded(f.value, piece)]
<1> DEFINE B == Octet \ {d, equals}
           n == expanded(f.name, piece)
           v == expanded(f.value, piece)
<1>0. f.name \in Seq(Octet) /\ f.value \in Seq(Octet)
  BY DEF Pair, Text
<1>1. n \in Seq(B) /\ v \in Seq(B)
  BY <1>0, ExpandedType DEF delimited
<1> HIDE DEF n, v
<1>2. B \subseteq Octet /\ B \subseteq Octet \ {d} /\ B \subseteq Octet \ {equals}
  OBVIOUS
<1> HIDE DEF B
<1>a. b \in Seq(B)
  BY DEF B
<1>3. n \in Text /\ v \in Text /\ n \in Without(equals) /\ n \in Without(d) /\ v \in Without(d)
  BY <1>1, <1>2, SeqMonotonic DEF Text, Without
<1>b. b \in Text /\ b \in Without(equals)
  BY <1>a, <1>2, SeqMonotonic DEF Text, Without
<1>4. name_value(n \o <<equals>> \o v) = [name |-> n, value |-> v] /\ n \o <<equals>> \o v # <<>>
  BY <1>3, NameValue
<1>5. n \o <<equals>> \o v \in Without(d)
  <2>1. equals \in Octet \ {d}
    BY DEF delimited, equals, Octet
  <2> QED BY <1>3, <2>1 DEF Without
<1>6. b \o n \in Without(equals)
  BY <1>3, <1>b DEF Without
<1>7. name_value((b \o n) \o <<equals>> \o v) = [name |-> b \o n, value |-> v]
  BY <1>3, <1>6, NameValue
<1>8. b \o (n \o <<equals>> \o v) = (b \o n) \o <<equals>> \o v
  <2> DEFINE q == <<equals>>
  <2>1. q \in Seq(Octet) /\ b \in Seq(Octet) /\ n \in Seq(Octet) /\ v \in Seq(Octet)
    BY <1>3, <1>b DEF Text, equals, Octet
  <2> HIDE DEF q
  <2> DEFINE u == n \o q
  <2>2. u \in Seq(Octet)
    BY <2>1
  <2>3. b \o u = (b \o n) \o q
    <3>1. regroup(b, n, q)
      BY <2>1, Regroup
    <3> QED BY <3>1 DEF regroup, u
  <2> HIDE DEF u
  <2>4. b \o (u \o v) = (b \o u) \o v
    <3>1. regroup(b, u, v)
      BY <2>1, <2>2, Regroup
    <3> QED BY <3>1 DEF regroup
  <2> QED BY <2>3, <2>4 DEF u, q
<1> QED BY <1>3, <1>4, <1>5, <1>7, <1>8 DEF field_text, PartOf, n, v

\* Names and values that were joined, and what is read of them: each name with the
\* blank before it, if it is not the first.
joined(pairs, piece, d, b) == join(field_texts(pairs, piece), <<d>> \o b)

read_fields(pairs, piece, b) ==
  [i \in DOMAIN pairs |->
     [name |-> (IF i = 1 THEN <<>> ELSE b) \o expanded(pairs[i].name, piece),
      value |-> expanded(pairs[i].value, piece)]]

\* Fields that were written and joined are read one for one.
LEMMA WrittenParts ==
  ASSUME NEW d, NEW piece, delimited(d, piece), NEW pairs \in Seq(Pair),
         NEW b \in Seq(Octet \ {d, equals})
  PROVE  /\ parts(joined(pairs, piece, d, b), d) = read_fields(pairs, piece, b)
         /\ \A i \in DOMAIN pairs : /\ expanded(pairs[i].name, piece) \in Text
                                    /\ expanded(pairs[i].value, piece) \in Text
<1> DEFINE texts == field_texts(pairs, piece)
           name(i) == expanded(pairs[i].name, piece)
           value(i) == expanded(pairs[i].value, piece)
<1>0. /\ <<>> \in Seq(Octet \ {d, equals}) /\ d \in Octet
      /\ DOMAIN pairs = 1 .. Len(pairs) /\ Len(pairs) \in Nat
  BY DEF delimited
<1>1. b \in Without(d)
  <2>1. Octet \ {d, equals} \subseteq Octet \ {d}
    OBVIOUS
  <2> QED BY <2>1, SeqMonotonic DEF Without
<1>2. ASSUME NEW i \in DOMAIN pairs
      PROVE  /\ texts[i] \in PartOf(d)
             /\ name(i) \in Text /\ value(i) \in Text
             /\ name_value(texts[i]) = [name |-> name(i), value |-> value(i)]
             /\ name_value(b \o texts[i]) = [name |-> b \o name(i), value |-> value(i)]
  <2>1. pairs[i] \in Pair
    OBVIOUS
  <2>2. texts[i] = field_text(pairs[i], piece)
    BY DEF field_texts
  <2> QED BY <2>1, <2>2, FieldText, ZenonT(90)
<1>3. texts \in Seq(PartOf(d)) /\ DOMAIN texts = DOMAIN pairs
  <2>1. DOMAIN texts = 1 .. Len(pairs) /\ texts = [i \in 1 .. Len(pairs) |-> texts[i]]
    BY <1>0 DEF field_texts
  <2> HIDE DEF texts
  <2>2. \A i \in 1 .. Len(pairs) : texts[i] \in PartOf(d)
    BY <1>0, <1>2
  <2> QED BY <1>0, <2>1, <2>2
<1> HIDE DEF texts, name, value
<1>4. parts(join(texts, <<d>> \o b), d) = read_of(texts, d, b)
  BY <1>0, <1>1, <1>3, JoinedParts
<1>5. ASSUME NEW i \in DOMAIN pairs
      PROVE  name_value(IF i = 1 THEN texts[i] ELSE b \o texts[i])
               = [name |-> (IF i = 1 THEN <<>> ELSE b) \o name(i), value |-> value(i)]
  <2>1. CASE i = 1
    <3>1. <<>> \o name(i) = name(i)
      BY <1>2 DEF Text
    <3> QED BY <1>2, <2>1, <3>1
  <2>2. CASE i # 1
    BY <1>2, <2>2
  <2> QED BY <2>1, <2>2
<1>6. read_of(texts, d, b)
        = [i \in DOMAIN pairs |->
             [name |-> (IF i = 1 THEN <<>> ELSE b) \o name(i), value |-> value(i)]]
  BY <1>3, <1>5 DEF read_of
<1> QED BY <1>2, <1>4, <1>6 DEF texts, name, value, joined, read_fields

\* Percent encoding, and that of forms, write neither delimiter and no equals sign.
LEMMA Delimited ==
  ASSUME NEW d \in {ampersand, semicolon}
  PROVE  delimited(d, url_piece) /\ delimited(d, form_piece)
<1>1. /\ d \in Octet \ {equals} /\ Safe \subseteq Octet \ {d, equals}
      /\ plus \in Octet \ {d, equals}
  <2>1. d \in Octet \ {equals} /\ plus \in Octet \ {d, equals}
    BY DEF ampersand, semicolon, equals, Octet, plus
  <2> QED BY <2>1, Bytes
<1>2. ASSUME NEW B, B \subseteq Octet \ {d, equals}, NEW p, maps(Octet, Seq(B), p)
      PROVE  maps(Octet, Seq(Octet \ {d, equals}), p)
  <2>1. Seq(B) \subseteq Seq(Octet \ {d, equals})
    BY <1>2, SeqMonotonic
  <2> QED BY <1>2, <2>1 DEF maps
<1>3. Safe \cup {plus} \subseteq Octet \ {d, equals}
  BY <1>1
<1>4. maps(Octet, Seq(Octet \ {d, equals}), url_piece)
  BY <1>1, <1>2, UrlPieceType
<1>5. maps(Octet, Seq(Octet \ {d, equals}), form_piece)
  BY <1>2, <1>3, FormPieceType
<1> QED BY <1>1, <1>4, <1>5 DEF delimited

TypeOK == fields \in Seq(Pair)

LEMMA UrlEncodesByte ==
  ASSUME NEW c \in Octet
  PROVE  url_encode(<<c>>) = url_piece[c]
<1>1. <<>> \in Seq(Octet) /\ <<c>> = onto(c, <<>>) /\ <<c>> \in Text
  BY DEF onto, Text
<1>2. expanded(onto(c, <<>>), url_piece) = url_piece[c] \o expanded(<<>>, url_piece)
  BY <1>1, UrlPieceType, ExpandedFront
<1>3. url_piece[c] \in Seq(Octet)
  BY UrlPieceType, MapType
<1>4. url_piece[c] \o <<>> = url_piece[c]
  BY <1>3
<1> QED BY <1>1, <1>2, <1>4, ExpandedEmpty, UrlEncodes

-----------------------------------------------------------------------------
(***************************************************************************)
(* Whatever is written, the fields are names and values of bytes: what is  *)
(* proved of such fields below is proved of every reachable state.         *)
(***************************************************************************)
LEMMA FieldsTyped == Spec => []TypeOK
<1>1. Init => TypeOK
  BY DEF Init, TypeOK
<1>2. TypeOK /\ [Next]_fields => TypeOK'
  <2> SUFFICES ASSUME TypeOK, [Next]_fields PROVE TypeOK'
    OBVIOUS
  <2> USE DEF TypeOK
  <2>0. <<>> \in Text /\ Byte \subseteq Octet
    BY EncodingsAssumption DEF Text, Octet
  <2>1. CASE Field
    <3>1. [name |-> <<>>, value |-> <<>>] \in Pair
      BY <2>0 DEF Pair
    <3> QED BY <2>1, <3>1 DEF Field
  <2>2. ASSUME NEW e, e \in Pair, fields # <<>>, fields' = [fields EXCEPT ![Len(fields)] = e]
        PROVE  TypeOK'
    BY <2>2
  <2>3. fields # <<>> => fields[Len(fields)] \in Pair
    OBVIOUS
  <2>4. ASSUME NEW b \in Byte, NameByte(b) PROVE TypeOK'
    <3> DEFINE f == fields[Len(fields)]
               e == [f EXCEPT !.name = Append(@, b)]
    <3>1. f.name \in Text /\ f \in Pair /\ b \in Octet
      BY <2>0, <2>3, <2>4 DEF NameByte, Pair
    <3>2. Append(f.name, b) \in Text
      BY <3>1 DEF Text
    <3>3. e \in Pair
      BY <3>1, <3>2 DEF Pair
    <3>4. fields # <<>> /\ fields' = [fields EXCEPT ![Len(fields)] = e]
      BY <2>4 DEF NameByte
    <3> QED BY <2>2, <3>3, <3>4
  <2>5. ASSUME NEW b \in Byte, ValueByte(b) PROVE TypeOK'
    <3> DEFINE f == fields[Len(fields)]
               e == [f EXCEPT !.value = Append(@, b)]
    <3>1. f.value \in Text /\ f \in Pair /\ b \in Octet
      BY <2>0, <2>3, <2>5 DEF ValueByte, Pair
    <3>2. Append(f.value, b) \in Text
      BY <3>1 DEF Text
    <3>3. e \in Pair
      BY <3>1, <3>2 DEF Pair
    <3>4. fields # <<>> /\ fields' = [fields EXCEPT ![Len(fields)] = e]
      BY <2>5 DEF ValueByte
    <3> QED BY <2>2, <3>3, <3>4
  <2>6. CASE UNCHANGED fields
    BY <2>6
  <2> QED BY <2>1, <2>4, <2>5, <2>6 DEF Next
<1> QED BY <1>1, <1>2, PTL DEF Spec

LEMMA FieldRecord ==
  ASSUME NEW f \in Pair
  PROVE  f = [name |-> f.name, value |-> f.value] /\ f.name \in Text /\ f.value \in Text
BY DEF Pair

\* A form is read as the fields it was written from.
LEMMA FormRead ==
  ASSUME NEW piece, delimited(ampersand, piece), NEW pairs \in Seq(Pair),
         \A s \in Text : decode_form_component(expanded(s, piece)) = s
  PROVE  parse_form_encoded(join(field_texts(pairs, piece), <<ampersand>>)) = assigned(pairs)
<1> DEFINE raw == join(field_texts(pairs, piece), <<ampersand>>)
           read == parts(raw, ampersand)
           b == <<>>
<1>1. b \in Seq(Octet \ {ampersand, equals}) /\ <<ampersand>> \o b = <<ampersand>>
      /\ \A s \in Text : b \o s = s
  BY DEF Text
<1> HIDE DEF b
<1>2. /\ read = read_fields(pairs, piece, b)
      /\ \A i \in DOMAIN pairs : expanded(pairs[i].name, piece) \in Text
  <2>1. b \in Seq(Octet \ {ampersand, equals})
    BY <1>1
  <2>2. parts(joined(pairs, piece, ampersand, b), ampersand) = read_fields(pairs, piece, b)
    BY <2>1, WrittenParts
  <2>3. \A i \in DOMAIN pairs : expanded(pairs[i].name, piece) \in Text
    BY <2>1, WrittenParts
  <2> QED BY <1>1, <2>2, <2>3 DEF joined
<1> HIDE DEF read
<1>3. ASSUME NEW i \in DOMAIN pairs
      PROVE  /\ read[i].name = expanded(pairs[i].name, piece)
             /\ read[i].value = expanded(pairs[i].value, piece)
  <2>1. \A s \in Text : <<>> \o s = s
    BY DEF Text
  <2> QED BY <1>1, <1>2, <2>1 DEF read_fields, b
<1>4. ASSUME NEW i \in DOMAIN pairs
      PROVE  [name |-> decode_form_component(read[i].name),
              value |-> decode_form_component(read[i].value)] = pairs[i]
  <2>1. pairs[i] \in Pair
    OBVIOUS
  <2>2. /\ pairs[i] = [name |-> pairs[i].name, value |-> pairs[i].value]
        /\ pairs[i].name \in Text /\ pairs[i].value \in Text
    BY <2>1, FieldRecord
  <2> QED BY <1>3, <2>2
<1>5. DOMAIN read = DOMAIN pairs /\ pairs = [i \in DOMAIN pairs |-> pairs[i]]
  BY <1>2 DEF read_fields
<1>6. decoded(read, decode_form_component) = pairs
  BY <1>4, <1>5 DEF decoded
<1> QED BY <1>6 DEF parse_form_encoded, read

LEMMA OntoText ==
  ASSUME NEW c \in Octet, NEW u \in Seq(Octet), NEW v \in Seq(Octet)
  PROVE  onto(c, u) \o v = onto(c, u \o v)
<1> DEFINE x == <<c>>
<1>1. x \in Seq(Octet) /\ onto(c, u) = x \o u /\ onto(c, u \o v) = x \o (u \o v)
  BY DEF onto
<1> HIDE DEF x
<1>2. regroup(x, u, v)
  BY <1>1, Regroup
<1> QED BY <1>1, <1>2 DEF regroup

LEMMA ThreeBytes ==
  ASSUME NEW p \in Octet, NEW a \in Octet, NEW b \in Octet
  PROVE  <<p>> \o <<a, b>> = <<p, a, b>> /\ <<a, b>> \in Seq(Octet)
<1> DEFINE x == <<p>>
           y == <<a, b>>
           z == <<p, a, b>>
<1>1. /\ x \in Seq(Octet) /\ Len(x) = 1 /\ x[1] = p
      /\ y \in Seq(Octet) /\ Len(y) = 2 /\ y[1] = a /\ y[2] = b
      /\ z \in Seq(Octet) /\ Len(z) = 3 /\ z[1] = p /\ z[2] = a /\ z[3] = b
  OBVIOUS
<1> HIDE DEF x, y, z
<1>2. /\ x \o y \in Seq(Octet) /\ Len(x \o y) = 3
      /\ (x \o y)[1] = p /\ (x \o y)[2] = a /\ (x \o y)[3] = b
  <2>1. x \in Seq(Octet) /\ y \in Seq(Octet)
    BY <1>1
  <2>2. /\ x \o y \in Seq(Octet) /\ Len(x \o y) = Len(x) + Len(y)
        /\ \A i \in 1 .. Len(x) + Len(y) :
             (x \o y)[i] = IF i <= Len(x) THEN x[i] ELSE y[i - Len(x)]
    BY ONLY <2>1
  <2>3. Len(x) = 1 /\ Len(y) = 2
    BY <1>1
  <2>4. /\ x \o y \in Seq(Octet) /\ Len(x \o y) = 3
        /\ (x \o y)[1] = x[1] /\ (x \o y)[2] = y[1] /\ (x \o y)[3] = y[2]
    BY ONLY <2>2, <2>3
  <2> QED BY <1>1, <2>4
<1>3. \A i \in 1 .. 3 : (x \o y)[i] = z[i]
  BY <1>1, <1>2
<1>4. x \o y = z
  BY <1>1, <1>2, <1>3, SeqEqual
<1> QED BY <1>1, <1>4 DEF x, y, z

\* The text that follows one that was written is read as it is by itself.
LEMMA ReadBackBefore ==
  ASSUME NEW decode, NEW piece, reads_pieces(decode, piece), NEW s \in Text, NEW t \in Text,
         decode[t] \in Text
  PROVE  decode[expanded(s, piece) \o t] = s \o decode[t]
<1> DEFINE d == decode[t]
           P == {u \in Text : decode[expanded(u, piece) \o t] = u \o d}
<1>1. <<>> \in P
  <2>1. <<>> \o t = t /\ <<>> \o d = d /\ <<>> \in Text
    BY DEF Text
  <2> QED BY <2>1, ExpandedEmpty
<1>2. ASSUME NEW c \in Octet, NEW u \in Seq(Octet), u \in P PROVE onto(c, u) \in P
  <2> DEFINE x == piece[c]
             y == expanded(u, piece)
  <2>1. expanded(onto(c, u), piece) = x \o y
    BY ExpandedFront DEF reads_pieces
  <2>2. x \in Seq(Octet) /\ y \in Seq(Octet) /\ t \in Seq(Octet) /\ d \in Seq(Octet)
    BY ExpandedType, MapType DEF reads_pieces, Text
  <2>3. y \o t \in Text
    <3> HIDE DEF y
    <3> QED BY <2>2 DEF Text
  <2>4. decode[x \o (y \o t)] = onto(c, decode[y \o t])
    BY <2>3 DEF reads_pieces
  <2>5. decode[y \o t] = u \o d
    BY <1>2
  <2> HIDE DEF x, y, d
  <2>6. onto(c, u) \in Text /\ onto(c, u) \o d = onto(c, u \o d)
    <3>1. onto(c, u) \in Seq(Octet)
      BY Onto
    <3>2. onto(c, u) \o d = onto(c, u \o d)
      BY <2>2, OntoText
    <3> QED BY <2>2, <3>1, <3>2 DEF Text
  <2>7. regroup(x, y, t)
    BY <2>2, Regroup
  <2>8. decode[expanded(onto(c, u), piece) \o t] = onto(c, u) \o d
    BY <2>1, <2>4, <2>5, <2>6, <2>7 DEF regroup
  <2> QED BY <2>6, <2>8
<1> HIDE DEF P, d
<1>3. Seq(Octet) \subseteq P
  BY <1>1, <1>2, FromFront
<1> QED BY <1>3 DEF P, d, Text

\* Which two bytes are a number.
LEMMA Numbers ==
  ASSUME NEW a \in Octet, NEW b \in Octet
  PROVE  /\ a \in HexDigit /\ b \in HexDigit => hex_number(a, b) # None
         /\ hex_number(a, b) # None =>
              a \in HexDigit \/ (a \in Space \cup {plus, minus} /\ b \in HexDigit)
<1>1. /\ a \in HexDigit /\ b \in HexDigit => ~ (a = zero /\ b \in {88, 120})
      /\ minus \notin HexDigit /\ HexDigit \cap (Space \cup {plus}) = {}
  BY DEF HexDigit, Digit, Space, space, plus, minus
<1>2. a \in HexDigit /\ b \in HexDigit => hex_number(a, b) = 16 * hex_value(a) + hex_value(b)
  BY <1>1 DEF hex_number
<1>3. \A c \in HexDigit : hex_value(c) \in Int
  BY DEF hex_value, HexDigit, Digit, zero
<1>4. \A n \in Int : n # None
  BY EncodingsAssumption
<1>5. a \in HexDigit /\ b \in HexDigit => hex_number(a, b) # None
  <2> SUFFICES ASSUME a \in HexDigit, b \in HexDigit PROVE hex_number(a, b) # None
    OBVIOUS
  <2>1. hex_value(a) \in Int /\ hex_value(b) \in Int
    BY <1>3
  <2>2. 16 * hex_value(a) + hex_value(b) \in Int
    BY <2>1
  <2> QED BY <1>2, <1>4, <2>2
<1>6. hex_number(a, b) # None =>
        a \in HexDigit \/ (a \in Space \cup {plus, minus} /\ b \in HexDigit)
  BY <1>1 DEF hex_number
<1> QED BY <1>5, <1>6

\* The first two bytes of a text, and the others.
LEMMA FromThird ==
  ASSUME NEW s \in Text, Len(s) >= 2
  PROVE  /\ from(s, 3) \in Seq(Octet) /\ Len(from(s, 3)) = Len(s) - 2
         /\ \A i \in 1 .. (Len(s) - 2) : from(s, 3)[i] = s[i + 2]
<1> DEFINE n == Len(s)
           t == SubSeq(s, 3, n)
<1>1. n \in Int /\ n >= 2 /\ 3 \in Int /\ \A i \in 3 .. n : s[i] \in Octet
  BY DEF Text
<1> HIDE DEF n
<1>2. /\ t \in Seq(Octet) /\ Len(t) = (IF 3 <= n THEN n - 3 + 1 ELSE 0)
      /\ \A i \in 1 .. (n - 3 + 1) : t[i] = s[3 + i - 1]
  BY <1>1, SubSeqProperties
<1>3. /\ (IF 3 <= n THEN n - 3 + 1 ELSE 0) = n - 2 /\ n - 3 + 1 = n - 2
      /\ \A i \in 1 .. (n - 2) : 3 + i - 1 = i + 2
  BY <1>1
<1> HIDE DEF t
<1>4. t \in Seq(Octet) /\ Len(t) = n - 2 /\ \A i \in 1 .. (n - 2) : t[i] = s[i + 2]
  BY <1>2, <1>3
<1> QED BY <1>4 DEF from, t, n

LEMMA TwoCut ==
  ASSUME NEW s \in Text, Len(s) >= 2
  PROVE  /\ s[1] \in Octet /\ s[2] \in Octet /\ from(s, 3) \in Text
         /\ s = <<s[1], s[2]>> \o from(s, 3)
<1> DEFINE n == Len(s)
           t == from(s, 3)
           x == <<s[1], s[2]>>
<1>1. n \in Nat /\ n >= 2 /\ s \in Seq(Octet) /\ \A i \in 1 .. n : s[i] \in Octet
  BY DEF Text
<1>2. t \in Seq(Octet) /\ Len(t) = n - 2 /\ \A i \in 1 .. (n - 2) : t[i] = s[i + 2]
  BY FromThird
<1>3. 1 \in 1 .. n /\ 2 \in 1 .. n
  BY <1>1
<1>4. s[1] \in Octet /\ s[2] \in Octet
  BY <1>1, <1>3
<1>5. x \in Seq(Octet) /\ Len(x) = 2 /\ x[1] = s[1] /\ x[2] = s[2]
  BY <1>4
<1> HIDE DEF t, x, n
<1>6. /\ x \o t \in Seq(Octet) /\ Len(x \o t) = 2 + (n - 2)
      /\ \A i \in 1 .. (2 + (n - 2)) : (x \o t)[i] = IF i <= 2 THEN x[i] ELSE t[i - 2]
  <2>1. x \in Seq(Octet) /\ t \in Seq(Octet)
    BY <1>2, <1>5
  <2>2. /\ x \o t \in Seq(Octet) /\ Len(x \o t) = Len(x) + Len(t)
        /\ \A i \in 1 .. Len(x) + Len(t) :
             (x \o t)[i] = IF i <= Len(x) THEN x[i] ELSE t[i - Len(x)]
    BY ONLY <2>1
  <2>3. Len(x) = 2 /\ Len(t) = n - 2
    BY <1>2, <1>5
  <2> QED BY ONLY <2>2, <2>3
<1>7. \A i \in 1 .. n : s[i] = (x \o t)[i]
  <2> SUFFICES ASSUME NEW i \in 1 .. n PROVE s[i] = (x \o t)[i]
    OBVIOUS
  <2>1. i \in 1 .. (2 + (n - 2)) /\ (i <= 2 => i = 1 \/ i = 2)
        /\ (i > 2 => i - 2 \in 1 .. (n - 2) /\ (i - 2) + 2 = i) /\ (i <= 2 \/ i > 2)
    BY <1>1
  <2> QED BY <1>2, <1>5, <1>6, <2>1
<1>8. Len(s) = Len(x \o t)
  <2>1. 2 + (n - 2) = n
    BY <1>1
  <2> QED BY <1>6, <2>1 DEF n
<1>9. s = x \o t
  BY <1>1, <1>6, <1>7, <1>8, SeqEqual DEF n
<1> QED BY <1>2, <1>4, <1>9 DEF t, x, Text

is_number(s) == Len(s) >= 2 /\ hex_number(s[1], s[2]) # None

\* A percent sign stays unless a number follows.
LEMMA DecodePercent ==
  ASSUME NEW s \in Text
  PROVE  /\ ~ is_number(s) => url_decode(<<percent>> \o s) = <<percent>> \o url_decode(s)
         /\ is_number(s) =>
              url_decode(<<percent>> \o s) = <<hex_number(s[1], s[2])>> \o url_decode(from(s, 3))
<1> DEFINE x == <<percent>>
           w == x \o s
<1>1. /\ x \in Text /\ Len(x) = 1 /\ w \in Text /\ w[1] = percent /\ Len(w) = Len(s) + 1
      /\ 1 \in 1 .. Len(w) /\ 1 \in 1 .. (Len(s) + 1) /\ Len(s) \in Nat
      /\ (Len(s) >= 2 => w[2] = s[1] /\ w[3] = s[2])
  BY DEF Text, Octet, percent
<1>2. ASSUME ~ is_number(s) PROVE url_decode(w) = x \o url_decode(s)
  <2>1. \A i \in 1 .. (Len(s) + 1) : decoding(x \o s)[Len(x) + i] = decoding(s)[i]
    BY <1>1, DecodingAfter
  <2>2. decoding(w)[2] = decoding(s)[1]
    BY <1>1, <2>1
  <2> HIDE DEF w, x
  <2>3. ~ is_escape(w, 1)
    <3>1. 1 + 2 <= Len(w) => Len(s) >= 2
      BY <1>1
    <3>2. 1 + 1 = 2 /\ 1 + 2 = 3
      OBVIOUS
    <3> QED BY <1>1, <1>2, <3>1, <3>2 DEF is_escape, is_number
  <2>4. decoding(w)[1] = <<w[1]>> \o decoding(w)[1 + 1]
    BY <1>1, <2>3, Decoding
  <2>5. 1 + 1 = 2
    OBVIOUS
  <2>6. decoding(w)[1] = x \o decoding(s)[1]
    BY <1>1, <2>2, <2>4, <2>5 DEF x
  <2> QED BY <2>6, UrlDecodes
<1>3. ASSUME is_number(s)
      PROVE  url_decode(w) = <<hex_number(s[1], s[2])>> \o url_decode(from(s, 3))
  <2> DEFINE a == s[1]
             b == s[2]
             t == from(s, 3)
             y == <<a, b>>
  <2>1. /\ a \in Octet /\ b \in Octet /\ t \in Text /\ s = y \o t /\ hex_number(a, b) # None
    BY <1>3, TwoCut DEF is_number
  <2>2. y \in Seq(Octet) /\ x \in Seq(Octet) /\ x \o y = <<percent, a, b>>
    <3>1. percent \in Octet /\ a \in Octet /\ b \in Octet
      BY <2>1 DEF percent, Octet
    <3> HIDE DEF a, b
    <3>2. x \in Seq(Octet)
      BY <3>1
    <3> QED BY <3>1, <3>2, ThreeBytes
  <2> HIDE DEF a, b, t, x, y
  <2>3. regroup(x, y, t)
    BY <2>1, <2>2, Regroup DEF Text
  <2>4. w = <<percent, a, b>> \o t
    BY <2>1, <2>2, <2>3 DEF regroup
  <2>5. url_decode(<<percent, a, b>> \o t) = <<hex_number(a, b)>> \o url_decode(t)
    BY <2>1, DecodeEscape
  <2> HIDE DEF w
  <2> QED BY <2>4, <2>5 DEF a, b, t
<1> QED BY <1>2, <1>3 DEF w, x

\* A form's pluses are blanks: the bytes that may start a number still may.
LEMMA NumberDespaced ==
  ASSUME NEW s \in Text, is_number(despaced(s))
  PROVE  /\ Len(s) >= 2
         /\ \/ s[1] \in HexDigit
            \/ s[1] \in Space \cup {plus, minus} /\ s[2] \in HexDigit
         /\ hex_number(despaced(s)[1], despaced(s)[2]) \in Octet
         /\ from(despaced(s), 3) = despaced(from(s, 3)) /\ from(s, 3) \in Text
<1> DEFINE u == despaced(s)
           t == from(s, 3)
           x == <<s[1], s[2]>>
<1>1. /\ u \in Text /\ Len(u) = Len(s)
      /\ \A i \in 1 .. Len(s) : u[i] = IF s[i] = plus THEN space ELSE s[i]
  BY Despaced
<1>2. Len(u) >= 2 /\ hex_number(u[1], u[2]) # None /\ Len(s) >= 2
  BY <1>1 DEF is_number
<1>3. u[1] \in Octet /\ u[2] \in Octet /\ s[1] \in Octet /\ s[2] \in Octet /\ t \in Text
  <2>1. u[1] \in Octet /\ u[2] \in Octet
    <3> HIDE DEF u
    <3> QED BY <1>1, <1>2, TwoCut
  <2>2. s[1] \in Octet /\ s[2] \in Octet /\ t \in Text
    BY <1>2, TwoCut
  <2> QED BY <2>1, <2>2
<1>4. \/ u[1] \in HexDigit
      \/ u[1] \in Space \cup {plus, minus} /\ u[2] \in HexDigit
  <2> HIDE DEF u
  <2> QED BY <1>2, <1>3, Numbers
<1>5. /\ u[1] = IF s[1] = plus THEN space ELSE s[1]
      /\ u[2] = IF s[2] = plus THEN space ELSE s[2]
  <2>1. Len(s) \in Nat
    BY DEF Text
  <2>2. 1 \in 1 .. Len(s) /\ 2 \in 1 .. Len(s)
    BY <1>2, <2>1
  <2> QED BY <1>1, <2>2
<1>6. space \notin HexDigit
  BY DEF HexDigit, Digit, space
<1>7. \/ s[1] \in HexDigit
      \/ s[1] \in Space \cup {plus, minus} /\ s[2] \in HexDigit
  <2> HIDE DEF u
  <2> QED BY <1>4, <1>5, <1>6
<1>8. hex_number(u[1], u[2]) \in Octet
  <2> HIDE DEF u
  <2> QED BY <1>2, <1>3, HexNumber
<1>9. from(u, 3) = despaced(t)
  <2> DEFINE v == despaced(t)
             n == Len(s)
  <2>1. /\ v \in Text /\ Len(v) = Len(t)
        /\ \A i \in 1 .. Len(t) : v[i] = IF t[i] = plus THEN space ELSE t[i]
    BY <1>3, Despaced
  <2>2. n \in Nat /\ n >= 2 /\ s \in Seq(Octet) /\ u \in Seq(Octet)
    BY <1>1, <1>2 DEF Text
  <2>3. Len(t) = n - 2 /\ \A i \in 1 .. (n - 2) : t[i] = s[i + 2]
    BY <1>2, FromThird
  <2> HIDE DEF t, v
  <2>4. from(u, 3) \in Seq(Octet) /\ Len(from(u, 3)) = n - 2
        /\ \A i \in 1 .. (n - 2) : from(u, 3)[i] = u[i + 2]
    <3> HIDE DEF u
    <3> QED BY <1>1, <1>2, FromThird
  <2> HIDE DEF u
  <2>5. \A i \in 1 .. (n - 2) : i + 2 \in 1 .. n
    BY <2>2
  <2>6. \A i \in 1 .. (n - 2) : from(u, 3)[i] = v[i]
    BY <1>1, <2>1, <2>3, <2>4, <2>5
  <2>7. from(u, 3) = v
    BY <2>1, <2>3, <2>4, <2>6, SeqEqual DEF Text
  <2> QED BY <2>7 DEF v
<1> QED BY <1>2, <1>3, <1>7, <1>8, <1>9

\* Two hexadecimal digits are a number, pluses or not.
LEMMA DigitsDespaced ==
  ASSUME NEW s \in Text, Len(s) >= 2, {s[1], s[2]} \subseteq HexDigit
  PROVE  is_number(despaced(s))
<1>1. /\ Len(despaced(s)) = Len(s) /\ Len(s) \in Nat
      /\ \A i \in 1 .. Len(s) : despaced(s)[i] = IF s[i] = plus THEN space ELSE s[i]
  BY Despaced DEF Text
<1>2. plus \notin HexDigit
  BY DEF HexDigit, Digit, plus
<1>3. 1 \in 1 .. Len(s) /\ 2 \in 1 .. Len(s)
  BY <1>1
<1>4. despaced(s)[1] = s[1] /\ despaced(s)[2] = s[2]
  BY <1>1, <1>2, <1>3
<1>5. s[1] \in Octet /\ s[2] \in Octet
  BY TwoCut
<1>6. hex_number(s[1], s[2]) # None
  BY <1>5, Numbers
<1> QED BY <1>1, <1>4, <1>6 DEF is_number

\* A percent sign that nobody encoded, between two texts.
LEMMA EscapesKept ==
  ASSUME NEW value \in Text, NEW rest \in Text
  PROVE  EscapeKept(value, rest)
<1> DEFINE x == url_encode(value)
           m == <<percent>>
           t == m \o rest
           u == despaced(rest)
           read == decode_form_component(x \o m \o rest)
<1>1. x \in Seq(Octet) /\ m \in Seq(Octet) /\ rest \in Seq(Octet) /\ u \in Text /\ t \in Text
  <2>1. x \in Text
    BY UrlEncodeType
  <2>2. m \in Text
    BY DEF Text, Octet, percent
  <2>3. u \in Text
    BY Despaced
  <2> HIDE DEF x, m, u
  <2> QED BY <2>1, <2>2, <2>3 DEF Text
<1>2. x \o m \o rest = x \o t
  <2> HIDE DEF x, m
  <2>1. regroup(x, m, rest)
    BY <1>1, Regroup
  <2> QED BY <2>1 DEF regroup
<1>3. despaced(t) = m \o u
  <2>1. despaced(m) = m
    BY DEF despaced, percent, plus
  <2>2. m \in Text
    BY <1>1 DEF Text
  <2> HIDE DEF m
  <2> QED BY <2>1, <2>2, DespacedConcat
<1>4. form_decoder[t] = url_decode(m \o u)
  BY <1>1, <1>3, FormDecodes DEF form_decoder
<1>5. m \o u \in Text /\ url_decode(m \o u) \in Text
  <2>1. m \o u \in Text
    <3> HIDE DEF m, u
    <3> QED BY <1>1 DEF Text
  <2> QED BY <2>1, DecodeType
<1>6. read = value \o url_decode(m \o u)
  <2>1. reads_pieces(form_decoder, url_piece)
    BY FormReads
  <2>2. x = expanded(value, url_piece)
    BY UrlEncodes
  <2> HIDE DEF t
  <2>3. form_decoder[t] \in Text
    BY <1>4, <1>5
  <2>4. form_decoder[expanded(value, url_piece) \o t] = value \o form_decoder[t]
    BY <1>1, <2>1, <2>3, ReadBackBefore
  <2> HIDE DEF x
  <2>5. x \o t \in Text
    BY <1>1 DEF Text
  <2>6. form_decoder[x \o t] = decode_form_component(x \o t)
    BY <2>5 DEF form_decoder
  <2> QED BY <1>2, <1>4, <2>2, <2>4, <2>6
<1>7. CASE ~ is_number(u)
  <2>1. url_decode(m \o u) = m \o url_decode(u)
    BY <1>1, <1>7, DecodePercent
  <2>2. url_decode(u) = decode_form_component(rest)
    BY FormDecodes
  <2>3. Len(rest) >= 2 => ~ {rest[1], rest[2]} \subseteq HexDigit
    BY <1>7, DigitsDespaced
  <2> DEFINE d == decode_form_component(rest)
  <2>4. d \in Seq(Octet) /\ value \in Seq(Octet)
    BY <1>1, <2>2, DecodeType DEF Text
  <2>5. read = value \o (m \o d)
    BY <1>6, <2>1, <2>2
  <2> HIDE DEF read, m, d
  <2>6. regroup(value, m, d)
    BY <1>1, <2>4, Regroup
  <2>7. read = value \o m \o d
    BY <2>5, <2>6 DEF regroup
  <2> QED BY <2>3, <2>7 DEF EscapeKept, read, m, d, x
<1>8. CASE is_number(u)
  <2> DEFINE c == hex_number(u[1], u[2])
             k == <<c>>
             d == decode_form_component(from(rest, 3))
  <2>1. url_decode(m \o u) = k \o url_decode(from(u, 3))
    BY <1>1, <1>8, DecodePercent
  <2>2. /\ Len(rest) >= 2 /\ c \in Octet
        /\ \/ rest[1] \in HexDigit
           \/ rest[1] \in Space \cup {plus, minus} /\ rest[2] \in HexDigit
        /\ from(u, 3) = despaced(from(rest, 3)) /\ from(rest, 3) \in Text
    BY <1>8, NumberDespaced
  <2>3. url_decode(from(u, 3)) = d /\ d \in Text
    <3>1. despaced(from(rest, 3)) \in Text
      BY <2>2, Despaced
    <3> QED BY <2>2, <3>1, FormDecodes, DecodeType
  <2>4. k \in Seq(Octet)
    <3> HIDE DEF c
    <3> QED BY <2>2
  <2>5. read = value \o (k \o d)
    BY <1>6, <2>1, <2>3
  <2> HIDE DEF k, d, read
  <2>6. regroup(value, k, d)
    BY <2>3, <2>4, Regroup DEF Text
  <2>7. read = value \o k \o d
    BY <2>5, <2>6 DEF regroup
  <2> HIDE DEF c
  <2>8. \E b \in 0 .. 255 : read = value \o <<b>> \o d
    BY <2>2, <2>7 DEF k, Octet
  <2> QED BY <2>2, <2>8 DEF EscapeKept, read, d, x, m
<1> QED BY <1>7, <1>8

\* Both writers of forms are read back.
LEMMA FormsRead ==
  ASSUME NEW pairs \in Seq(Pair)
  PROVE  /\ parse_form_encoded(build_form_body(pairs)) = assigned(pairs)
         /\ parse_form_encoded(form_urlencoded(pairs)) = assigned(pairs)
<1>1. ASSUME NEW i \in DOMAIN pairs
      PROVE  pairs[i].name \in Text /\ pairs[i].value \in Text
  <2>1. pairs[i] \in Pair
    OBVIOUS
  <2> QED BY <2>1, FieldRecord
<1>2. build_form_body(pairs) = join(field_texts(pairs, url_piece), <<ampersand>>)
  <2>1. ASSUME NEW i \in DOMAIN pairs
        PROVE  url_encode(pairs[i].name) \o <<equals>> \o url_encode(pairs[i].value)
                 = field_text(pairs[i], url_piece)
    BY <1>1, UrlEncodes DEF field_text
  <2>2. [i \in DOMAIN pairs |->
           url_encode(pairs[i].name) \o <<equals>> \o url_encode(pairs[i].value)]
          = field_texts(pairs, url_piece)
    BY <2>1 DEF field_texts
  <2> QED BY <2>2 DEF build_form_body
<1>3. form_urlencoded(pairs) = join(field_texts(pairs, form_piece), <<ampersand>>)
  <2> DEFINE component(t) == FlattenSeq([i \in DOMAIN t |->
                        IF t[i] = space THEN <<plus>> ELSE url_encode(<<t[i]>>)])
  <2>1. ASSUME NEW t \in Text PROVE component(t) = expanded(t, form_piece)
    <3>1. \A i \in DOMAIN t : t[i] \in Octet
      BY DEF Text
    <3>2. \A i \in DOMAIN t :
            (IF t[i] = space THEN <<plus>> ELSE url_encode(<<t[i]>>)) = form_piece[t[i]]
      BY <3>1, UrlEncodesByte DEF form_piece
    <3> QED BY <3>2 DEF expanded, image
  <2> HIDE DEF component
  <2>2. ASSUME NEW i \in DOMAIN pairs
        PROVE  component(pairs[i].name) \o <<equals>> \o component(pairs[i].value)
                 = field_text(pairs[i], form_piece)
    BY <1>1, <2>1 DEF field_text
  <2>3. [i \in DOMAIN pairs |-> component(pairs[i].name) \o <<equals>> \o component(pairs[i].value)]
          = field_texts(pairs, form_piece)
    BY <2>2 DEF field_texts
  <2> QED BY <2>3 DEF form_urlencoded, component
<1>4. delimited(ampersand, url_piece) /\ delimited(ampersand, form_piece)
  BY Delimited
<1>5. /\ \A s \in Text : decode_form_component(expanded(s, url_piece)) = s
      /\ \A s \in Text : decode_form_component(expanded(s, form_piece)) = s
  BY FormReadBack, UrlEncodes
<1> QED BY <1>2, <1>3, <1>4, <1>5, FormRead

(***************************************************************************)
(* Whatever bytes the fields of a form hold, parse_form_encoded reads them *)
(* back from what the form writers of this program write, the last field   *)
(* of a name winning: no byte of a name or a value is taken for a          *)
(* delimiter, an equals sign, a plus or an escape.                         *)
(* A percent sign that is no escape loses nothing of what is around it.    *)
(***************************************************************************)
THEOREM FormsReadBack == Spec => []FormRoundTrip
<1>1. TypeOK => FormRoundTrip
  <2> SUFFICES ASSUME TypeOK PROVE FormRoundTrip
    OBVIOUS
  <2>1. /\ parse_form_encoded(build_form_body(fields)) = assigned(fields)
        /\ parse_form_encoded(form_urlencoded(fields)) = assigned(fields)
    BY FormsRead DEF TypeOK
  <2>2. ASSUME NEW i \in DOMAIN fields, NEW k \in DOMAIN fields
        PROVE  EscapeKept(fields[i].value, fields[k].value)
    <3>1. fields[i] \in Pair /\ fields[k] \in Pair
      BY DEF TypeOK
    <3>2. fields[i].value \in Text /\ fields[k].value \in Text
      BY <3>1, FieldRecord
    <3> QED BY <3>2, EscapesKept
  <2> QED BY <2>1, <2>2 DEF FormRoundTrip
<1> QED BY <1>1, FieldsTyped, PTL

-----------------------------------------------------------------------------
\* The last one of a name is assigned.
LEMMA AssignedLast ==
  ASSUME NEW pairs \in Seq(Pair), NEW kept \in SUBSET DOMAIN pairs, NEW i \in kept,
         \A j \in kept : pairs[j].name = pairs[i].name => j <= i
  PROVE  /\ pairs[i].name \in DOMAIN assigned_of(pairs, kept)
         /\ assigned_of(pairs, kept)[pairs[i].name] = pairs[i].value
<1> DEFINE n == pairs[i].name
           T == {j \in kept : pairs[j].name = n}
<1>1. T \subseteq 0 .. Len(pairs) /\ i \in T /\ Len(pairs) \in Nat /\ kept \subseteq 1 .. Len(pairs)
  OBVIOUS
<1>2. Max(T) \in T /\ \A y \in T : Max(T) >= y
  <2> HIDE DEF T
  <2> QED BY <1>1, Maximum
<1>3. Max(T) = i
  <2>1. Max(T) >= i /\ Max(T) <= i
    BY <1>1, <1>2
  <2>2. Max(T) \in Nat /\ i \in Nat
    BY <1>1, <1>2
  <2> HIDE DEF T
  <2> QED BY <2>1, <2>2
<1>4. n \in {pairs[j].name : j \in kept}
  OBVIOUS
<1> QED BY <1>3, <1>4 DEF assigned_of

\* A text without escapes is decoded as itself.
LEMMA DecodePlain ==
  ASSUME NEW s \in Seq(Octet \ {percent})
  PROVE  url_decode(s) = s
<1> DEFINE A == Octet \ {percent}
           P == {u \in Seq(A) : url_decode(u) = u}
<1>1. <<>> \in P
  BY DecodeEmpty
<1>2. ASSUME NEW c \in A, NEW u \in Seq(A), u \in P PROVE onto(c, u) \in P
  <2>1. u \in Text
    <3>1. A \subseteq Octet
      OBVIOUS
    <3> QED BY <3>1, SeqMonotonic DEF Text
  <2>2. url_decode(<<c>> \o u) = <<c>> \o url_decode(u)
    BY <2>1, DecodeByte
  <2>3. onto(c, u) \in Seq(A)
    BY Onto
  <2> QED BY <1>2, <2>2, <2>3 DEF onto
<1> HIDE DEF P
<1>3. Seq(A) \subseteq P
  BY <1>1, <1>2, FromFront
<1> QED BY <1>3 DEF P

LEMMA NameOnly ==
  ASSUME NEW s \in Without(equals)
  PROVE  name_value(s) = [name |-> s, value |-> <<>>]
<1>1. s \in Text /\ Len(s) \in Nat /\ \A i \in 1 .. Len(s) : s[i] # equals
  BY WithoutIsText
<1> DEFINE n == Len(s)
<1>2. find(s, equals, 1) = n + 1
  <2>1. 1 \in 1 .. (n + 1) /\ n + 1 \in 1 .. (n + 1) /\ \A j \in 1 .. ((n + 1) - 1) : s[j] # equals
    BY <1>1
  <2>2. ~ (n + 1 <= n)
    BY <1>1
  <2>3. s \in Seq(Octet)
    BY <1>1 DEF Text
  <2> QED BY <2>1, <2>2, <2>3, FoundAt
<1>3. SubSeq(s, 1, (n + 1) - 1) = s /\ SubSeq(s, (n + 1) + 1, n) = <<>>
  BY <1>1 DEF Text
<1> QED BY <1>2, <1>3 DEF name_value, from

-----------------------------------------------------------------------------
\* Login states in Redis.

\* The keys of a login state in Redis are plain, and are two.
LEMMA Keys ==
  /\ verifier_key \in Seq(unreserved) /\ realm_key \in Seq(unreserved)
  /\ verifier_key # realm_key /\ verifier_key # <<>>
<1>1. /\ 118 \in unreserved /\ 101 \in unreserved /\ 114 \in unreserved /\ 105 \in unreserved
      /\ 102 \in unreserved /\ 97 \in unreserved /\ 108 \in unreserved /\ 109 \in unreserved
  BY DEF unreserved, Letter, Digit
<1>2. Len(verifier_key) = 8 /\ Len(realm_key) = 5
  BY DEF verifier_key, realm_key
<1> QED BY <1>1, <1>2 DEF verifier_key, realm_key

LEMMA Unreserved ==
  ASSUME NEW s \in Seq(unreserved)
  PROVE  /\ s \in Text /\ s \in Without(equals) /\ s \in Without(ampersand)
         /\ s \in Seq(Octet \ {percent})
<1>1. /\ unreserved \subseteq Octet /\ unreserved \subseteq Octet \ {equals}
      /\ unreserved \subseteq Octet \ {ampersand} /\ unreserved \subseteq Octet \ {percent}
  BY Bytes DEF Safe
<1> QED BY <1>1, SeqMonotonic DEF Text, Without

LEMMA SafeText ==
  ASSUME NEW s \in Seq(Safe)
  PROVE  s \in Text /\ s \in Without(ampersand) /\ s \in Without(equals) /\ s \in Without(semicolon)
<1>1. /\ Safe \subseteq Octet /\ Safe \subseteq Octet \ {ampersand}
      /\ Safe \subseteq Octet \ {equals} /\ Safe \subseteq Octet \ {semicolon}
  BY Bytes
<1> QED BY <1>1, SeqMonotonic DEF Text, Without

LEMMA OntoOne ==
  ASSUME NEW A, NEW x \in A, NEW y \in A
  PROVE  onto(x, <<y>>) = <<x, y>>
<1> DEFINE s == <<y>>
           t == <<x, y>>
<1>1. s \in Seq(A) /\ Len(s) = 1 /\ t \in Seq(A) /\ Len(t) = Len(s) + 1 /\ t[1] = x
  OBVIOUS
<1>2. \A i \in 1 .. Len(s) : t[i + 1] = s[i]
  <2> SUFFICES ASSUME NEW i \in 1 .. Len(s) PROVE t[i + 1] = s[i]
    OBVIOUS
  <2>1. i = 1
    BY <1>1
  <2> QED BY <2>1
<1> HIDE DEF s, t
<1>3. t = onto(x, s)
  BY <1>1, <1>2, FrontAndRest
<1> QED BY <1>3 DEF s, t

\* A login state that was encoded is decoded.
LEMMA EntryParts ==
  ASSUME NEW v \in Text, NEW r \in Text
  PROVE  parts(encode_state_entry([code_verifier |-> v, realm |-> r]), ampersand)
           = <<[name |-> verifier_key, value |-> url_encode(v)],
               [name |-> realm_key, value |-> url_encode(r)]>>
<1> DEFINE a == verifier_key \o <<equals>> \o url_encode(v)
           b == realm_key \o <<equals>> \o url_encode(r)
<1>1. /\ url_encode(v) \in Seq(Safe) /\ url_encode(r) \in Seq(Safe)
      /\ verifier_key \in Seq(unreserved) /\ realm_key \in Seq(unreserved)
  BY UrlEncodeType, Keys
<1>2. /\ url_encode(v) \in Text /\ url_encode(v) \in Without(ampersand)
      /\ url_encode(r) \in Text /\ url_encode(r) \in Without(ampersand)
  BY <1>1, SafeText
<1>3. /\ verifier_key \in Without(equals) /\ verifier_key \in Without(ampersand)
      /\ realm_key \in Without(equals) /\ realm_key \in Without(ampersand)
  BY <1>1, Unreserved
<1>4. name_value(a) = [name |-> verifier_key, value |-> url_encode(v)] /\ a # <<>>
  BY <1>2, <1>3, NameValue
<1>5. name_value(b) = [name |-> realm_key, value |-> url_encode(r)] /\ b # <<>>
  BY <1>2, <1>3, NameValue
<1>6. a \in Without(ampersand) /\ b \in Without(ampersand)
  <2>1. equals \in Octet \ {ampersand}
    BY DEF equals, ampersand, Octet
  <2> QED BY <1>2, <1>3, <2>1 DEF Without
<1>7. ampersand \in Octet /\ b \in Text
  BY <1>6, WithoutIsText DEF ampersand, Octet
<1>8. encode_state_entry([code_verifier |-> v, realm |-> r]) = a \o <<ampersand>> \o b
  <2> DEFINE p == a \o <<ampersand>>
             k == realm_key
             q == <<equals>>
             w == url_encode(r)
  <2>1. p \in Seq(Octet) /\ k \in Seq(Octet) /\ q \in Seq(Octet) /\ w \in Seq(Octet)
    <3>1. a \in Text /\ k \in Text
      BY <1>3, <1>6, WithoutIsText
    <3> HIDE DEF a
    <3> QED BY <1>2, <1>7, <3>1 DEF Text, equals, Octet
  <2>2. encode_state_entry([code_verifier |-> v, realm |-> r]) = ((p \o k) \o q) \o w
    BY DEF encode_state_entry
  <2> HIDE DEF p, k, q, w
  <2>3. (p \o k) \o q = p \o (k \o q)
    <3>1. regroup(p, k, q)
      BY <2>1, Regroup
    <3> QED BY <3>1 DEF regroup
  <2> DEFINE u == k \o q
  <2>4. u \in Seq(Octet)
    BY <2>1
  <2> HIDE DEF u
  <2>5. (p \o u) \o w = p \o (u \o w)
    <3>1. regroup(p, u, w)
      BY <2>1, <2>4, Regroup
    <3> QED BY <3>1 DEF regroup
  <2> QED BY <2>2, <2>3, <2>5 DEF p, k, q, w, u
<1> HIDE DEF a, b
<1>9. parts(a \o <<ampersand>> \o b, ampersand) = whole(a) \o parts(b, ampersand)
  BY <1>6, <1>7, PartsOfMore
<1>10. parts(b, ampersand) = whole(b)
  BY <1>6, <1>7, PartsOfOne
<1> DEFINE x == [name |-> verifier_key, value |-> url_encode(v)]
           y == [name |-> realm_key, value |-> url_encode(r)]
<1>11. whole(a) = <<x>> /\ whole(b) = <<y>>
  BY <1>4, <1>5 DEF whole
<1>13. x \in Pair /\ y \in Pair
  <2>1. verifier_key \in Text /\ realm_key \in Text
    BY <1>1, Unreserved
  <2> QED BY <1>2, <2>1 DEF Pair
<1> HIDE DEF x, y
<1>14. onto(x, <<y>>) = <<x, y>>
  BY <1>13, OntoOne
<1>12. <<x>> \o <<y>> = <<x, y>>
  BY <1>14 DEF onto
<1> QED BY <1>8, <1>9, <1>10, <1>11, <1>12 DEF x, y

LEMMA EntryRead ==
  ASSUME NEW v \in Text, NEW r \in Text, NEW raw,
         raw = encode_state_entry([code_verifier |-> v, realm |-> r])
  PROVE  decoded(parts(raw, ampersand), url_decode)
           = <<[name |-> verifier_key, value |-> v], [name |-> realm_key, value |-> r]>>
<1> DEFINE ps == <<[name |-> verifier_key, value |-> url_encode(v)],
                   [name |-> realm_key, value |-> url_encode(r)]>>
<1>1. parts(raw, ampersand) = ps
  BY EntryParts
<1>2. url_decode(url_encode(v)) = v /\ url_decode(url_encode(r)) = r
  BY UrlReadBack
<1>3. url_decode(verifier_key) = verifier_key /\ url_decode(realm_key) = realm_key
  BY Keys, Unreserved, DecodePlain
<1>4. decoded(ps, url_decode)
        = <<[name |-> url_decode(verifier_key), value |-> url_decode(url_encode(v))],
            [name |-> url_decode(realm_key), value |-> url_decode(url_encode(r))]>>
  <2> DEFINE k == verifier_key
             q == realm_key
             x == url_encode(v)
             y == url_encode(r)
  <2> HIDE DEF k, q, x, y
  <2>1. decoded(<<[name |-> k, value |-> x], [name |-> q, value |-> y]>>, url_decode)
          = <<[name |-> url_decode(k), value |-> url_decode(x)],
              [name |-> url_decode(q), value |-> url_decode(y)]>>
    BY DEF decoded
  <2> QED BY <2>1 DEF k, q, x, y
<1> HIDE DEF ps
<1> QED BY <1>1, <1>2, <1>3, <1>4

LEMMA EntryDecoded ==
  ASSUME NEW v \in Text, NEW r \in Text, NEW raw, v # <<>>,
         raw = encode_state_entry([code_verifier |-> v, realm |-> r])
  PROVE  decode_state_entry(raw) = [code_verifier |-> v, realm |-> r]
<1> DEFINE pairs == <<[name |-> verifier_key, value |-> v], [name |-> realm_key, value |-> r]>>
           read == assigned(decoded(parts(raw, ampersand), url_decode))
<1>1. read = assigned_of(pairs, DOMAIN pairs)
  BY EntryRead DEF assigned
<1>2. /\ verifier_key \in Text /\ realm_key \in Text /\ verifier_key # realm_key
  BY Keys, Unreserved
<1>3. /\ pairs \in Seq(Pair) /\ 1 \in DOMAIN pairs /\ 2 \in DOMAIN pairs
      /\ \A j \in DOMAIN pairs : j = 1 \/ j = 2
      /\ pairs[1].name = verifier_key /\ pairs[1].value = v
      /\ pairs[2].name = realm_key /\ pairs[2].value = r
  BY <1>2 DEF Pair
<1> HIDE DEF pairs, read
<1>4. verifier_key \in DOMAIN read /\ read[verifier_key] = v
  <2>1. \A j \in DOMAIN pairs : pairs[j].name = pairs[1].name => j <= 1
    BY <1>2, <1>3
  <2>2. /\ pairs[1].name \in DOMAIN assigned_of(pairs, DOMAIN pairs)
        /\ assigned_of(pairs, DOMAIN pairs)[pairs[1].name] = pairs[1].value
    BY <1>3, <2>1, AssignedLast
  <2> QED BY <1>1, <1>3, <2>2
<1>5. realm_key \in DOMAIN read /\ read[realm_key] = r
  <2>1. \A j \in DOMAIN pairs : pairs[j].name = pairs[2].name => j <= 2
    BY <1>3
  <2>2. /\ pairs[2].name \in DOMAIN assigned_of(pairs, DOMAIN pairs)
        /\ assigned_of(pairs, DOMAIN pairs)[pairs[2].name] = pairs[2].value
    BY <1>3, <2>1, AssignedLast
  <2> QED BY <1>1, <1>3, <2>2
<1> QED BY <1>4, <1>5 DEF decode_state_entry, read

\* An entry with a verifier comes back with its verifier and its realm.
LEMMA EntryReadBack ==
  ASSUME NEW v \in Text, NEW r \in Text, NEW raw, v # <<>>,
         raw = encode_state_entry([code_verifier |-> v, realm |-> r])
  PROVE  consumed_entry(raw) = [code_verifier |-> v, realm |-> r]
<1> DEFINE entry == [code_verifier |-> v, realm |-> r]
<1>1. decode_state_entry(raw) = entry
  BY EntryDecoded
<1>2. entry # None
  <2>1. Seq(Octet) \subseteq Seq(Int)
    <3>1. Octet \subseteq Int
      BY DEF Octet
    <3> QED BY <3>1, SeqMonotonic
  <2>2. entry \in [code_verifier: Seq(Int), realm: Seq(Int)]
    BY <2>1 DEF Text
  <2> QED BY <2>2, EncodingsAssumption
<1> QED BY <1>1, <1>2 DEF consumed_entry

LEMMA Concat ==
  ASSUME NEW A, NEW s \in Seq(A), NEW t \in Seq(A)
  PROVE  concat(s, t) \in Seq(A) /\ Len(concat(s, t)) = Len(s) + Len(t)
BY DEF concat

\* A bare verifier, of the alphabet of generate_random_string, has no member.
LEMMA Charset ==
  kCharset \in Seq(unreserved) /\ Len(kCharset) = 66
<1> DEFINE a == [i \in 1 .. 26 |-> 64 + i]
           b == [i \in 1 .. 26 |-> 96 + i]
           c == [i \in 1 .. 10 |-> 47 + i]
           d == <<minus, dot, 95, 126>>
<1>1. a \in Seq(unreserved) /\ Len(a) = 26
  <2>1. \A i \in 1 .. 26 : 64 + i \in unreserved
    BY DEF unreserved, Letter
  <2>2. a \in [1 .. 26 -> unreserved]
    BY <2>1
  <2> QED BY <2>2
<1>2. b \in Seq(unreserved) /\ Len(b) = 26
  <2>1. \A i \in 1 .. 26 : 96 + i \in unreserved
    BY DEF unreserved, Letter
  <2>2. b \in [1 .. 26 -> unreserved]
    BY <2>1
  <2> QED BY <2>2
<1>3. c \in Seq(unreserved) /\ Len(c) = 10
  <2>1. \A i \in 1 .. 10 : 47 + i \in unreserved
    BY DEF unreserved, Digit
  <2>2. c \in [1 .. 10 -> unreserved]
    BY <2>1
  <2> QED BY <2>2
<1>4. d \in Seq(unreserved) /\ Len(d) = 4
  BY DEF unreserved
<1> DEFINE ab == concat(a, b)
           abc == concat(ab, c)
           all == concat(abc, d)
<1> HIDE DEF a, b, c, d
<1>6. ab \in Seq(unreserved) /\ Len(ab) = 52
  <2>1. concat(a, b) \in Seq(unreserved) /\ Len(concat(a, b)) = Len(a) + Len(b)
    BY ONLY <1>1, <1>2, Concat
  <2> QED BY <1>1, <1>2, <2>1
<1> HIDE DEF ab
<1>7. abc \in Seq(unreserved) /\ Len(abc) = 62
  <2>1. concat(ab, c) \in Seq(unreserved) /\ Len(concat(ab, c)) = Len(ab) + Len(c)
    BY ONLY <1>3, <1>6, Concat, ZenonT(90)
  <2> QED BY <1>3, <1>6, <2>1
<1> HIDE DEF abc
<1>5. all \in Seq(unreserved) /\ Len(all) = 66
  <2>1. concat(abc, d) \in Seq(unreserved) /\ Len(concat(abc, d)) = Len(abc) + Len(d)
    BY ONLY <1>4, <1>7, Concat, ZenonT(90)
  <2> QED BY <1>4, <1>7, <2>1
<1> QED BY <1>5 DEF kCharset, a, b, c, d, ab, abc, all, concat

LEMMA CharsetByte ==
  ASSUME NEW b \in Octet
  PROVE  kCharset[(b % Len(kCharset)) + 1] \in unreserved
<1> DEFINE k == (b % 66) + 1
<1>1. k \in 1 .. 66
  BY DEF Octet
<1> HIDE DEF k
<1>2. k \in 1 .. Len(kCharset) /\ kCharset \in Seq(unreserved)
  BY <1>1, Charset
<1>3. kCharset[k] \in unreserved
  BY <1>2
<1> QED BY <1>3, Charset DEF k

\* generate_random_string writes plain characters, one for each byte.
LEMMA RandomString ==
  ASSUME NEW bytes \in Text, bytes # <<>>
  PROVE  /\ generate_random_string(bytes) \in Seq(unreserved)
         /\ generate_random_string(bytes) # <<>>
<1> DEFINE g == generate_random_string(bytes)
           n == Len(bytes)
<1>1. n \in Nat /\ n # 0 /\ DOMAIN bytes = 1 .. n /\ \A i \in 1 .. n : bytes[i] \in Octet
  BY DEF Text
<1>2. \A i \in 1 .. n : kCharset[(bytes[i] % Len(kCharset)) + 1] \in unreserved
  BY <1>1, CharsetByte
<1>3. g = [i \in 1 .. n |-> kCharset[(bytes[i] % Len(kCharset)) + 1]]
  BY <1>1 DEF generate_random_string
<1>4. g \in [1 .. n -> unreserved]
  BY <1>2, <1>3
<1>5. g \in Seq(unreserved) /\ Len(g) = n
  BY <1>1, <1>4
<1> QED BY <1>1, <1>5

\* A bare verifier, as older versions stored it, is read as an entry without a realm.
LEMMA BareVerifier ==
  ASSUME NEW s \in Seq(unreserved), s # <<>>
  PROVE  consumed_entry(s) = [code_verifier |-> s, realm |-> <<>>]
<1> DEFINE read == assigned(decoded(parts(s, ampersand), url_decode))
<1>1. parts(s, ampersand) = <<[name |-> s, value |-> <<>>]>>
  <2>1. parts(s, ampersand) = whole(s)
    BY Unreserved, PartsOfOne DEF ampersand, Octet
  <2> QED BY <2>1, Unreserved, NameOnly DEF whole
<1>2. decoded(parts(s, ampersand), url_decode) = <<[name |-> s, value |-> <<>>]>>
  <2>1. url_decode(s) = s /\ url_decode(<<>>) = <<>>
    BY Unreserved, DecodePlain, DecodeEmpty
  <2>2. decoded(<<[name |-> s, value |-> <<>>]>>, url_decode)
          = <<[name |-> url_decode(s), value |-> url_decode(<<>>)]>>
    BY DEF decoded
  <2> QED BY <1>1, <2>1, <2>2
<1> DEFINE pairs == <<[name |-> s, value |-> <<>>]>>
<1>3. pairs \in Seq(Pair) /\ DOMAIN pairs = {1} /\ pairs[1].name = s /\ pairs[1].value = <<>>
  <2>1. s \in Text /\ <<>> \in Text
    BY Unreserved DEF Text
  <2> QED BY <2>1 DEF Pair
<1>4. read = assigned_of(pairs, DOMAIN pairs)
  BY <1>2 DEF assigned
<1> HIDE DEF pairs, read
<1>5. DOMAIN read = {s}
  BY <1>3, <1>4 DEF assigned_of
<1>6. read[s] = <<>>
  <2>1. \A j \in DOMAIN pairs : pairs[j].name = pairs[1].name => j <= 1
    BY <1>3
  <2>2. assigned_of(pairs, DOMAIN pairs)[pairs[1].name] = pairs[1].value
    BY <1>3, <2>1, AssignedLast
  <2> QED BY <1>3, <1>4, <2>2
<1>7. decode_state_entry(s) = None
  BY <1>5, <1>6 DEF decode_state_entry, read
<1> QED BY <1>7 DEF consumed_entry

(***************************************************************************)
(* Whatever code verifier and realm a login is stored with in Redis,       *)
(* consume returns exactly these, and a bare verifier of                   *)
(* generate_random_string, as older versions stored it, is read as an      *)
(* entry without a realm.                                                  *)
(***************************************************************************)
THEOREM StateEntriesReadBack == Spec => []StateEntryRoundTrip
<1>1. TypeOK => StateEntryRoundTrip
  <2> SUFFICES ASSUME TypeOK, NEW i \in DOMAIN fields, fields[i].value # <<>>
               PROVE  LET entry == [code_verifier |-> fields[i].value, realm |-> fields[i].name]
                          older == generate_random_string(fields[i].value)
                      IN /\ consumed_entry(encode_state_entry(entry)) = entry
                         /\ consumed_entry(older) = [code_verifier |-> older, realm |-> <<>>]
    BY DEF StateEntryRoundTrip
  <2> DEFINE v == fields[i].value
             r == fields[i].name
             older == generate_random_string(v)
             raw == encode_state_entry([code_verifier |-> v, realm |-> r])
  <2>1. v \in Text /\ r \in Text /\ v # <<>>
    <3>1. fields[i] \in Pair
      BY DEF TypeOK
    <3> QED BY <3>1 DEF Pair
  <2> HIDE DEF v, r
  <2>2. older \in Seq(unreserved) /\ older # <<>>
    BY <2>1, RandomString
  <2> HIDE DEF older, raw
  <2>3. consumed_entry(older) = [code_verifier |-> older, realm |-> <<>>]
    BY <2>2, BareVerifier
  <2>4. raw = encode_state_entry([code_verifier |-> v, realm |-> r])
    BY DEF raw
  <2>5. consumed_entry(raw) = [code_verifier |-> v, realm |-> r]
    BY <2>1, <2>4, EntryReadBack
  <2> QED BY <2>3, <2>5 DEF older, raw, v, r
<1> QED BY <1>1, FieldsTyped, PTL

-----------------------------------------------------------------------------
\* Cookies.

\* What is trimmed of a text.
inked(s) == {i \in DOMAIN s : s[i] \notin Space}

\* trim_copy keeps what lies between the first and the last byte that is no space.
LEMMA Trims ==
  ASSUME NEW s
  PROVE  trim_copy(s) = IF inked(s) = {} THEN <<>> ELSE SubSeq(s, Min(inked(s)), Max(inked(s)))
BY DEF trim_copy, inked

LEMMA Ends ==
  ASSUME NEW n \in Nat, NEW T, NEW a \in 1 .. n, NEW z \in 1 .. n, a \in T, z \in T,
         \A i \in T : i \in 1 .. n /\ a <= i /\ i <= z
  PROVE  Min(T) = a /\ Max(T) = z
<1>1. T \subseteq Nat /\ T \subseteq 0 .. n /\ T # {}
  OBVIOUS
<1>2. Min(T) \in T /\ Min(T) <= a
  BY <1>1, Minimum
<1>3. Max(T) \in T /\ Max(T) >= z
  BY <1>1, Maximum
<1> DEFINE m == Min(T)
           k == Max(T)
<1>4. m \in 1 .. n /\ a <= m
  BY <1>2
<1>5. k \in 1 .. n /\ k <= z
  BY <1>3
<1>6. m <= a /\ z <= k
  BY <1>2, <1>3, <1>5
<1> HIDE DEF m, k
<1>7. m = a /\ k = z
  BY <1>4, <1>5, <1>6
<1> QED BY <1>7 DEF m, k

\* What percent encoding writes has nothing to trim.
LEMMA TrimSafe ==
  ASSUME NEW s \in Seq(Safe)
  PROVE  trim_copy(s) = s
<1>1. Len(s) \in Nat /\ DOMAIN s = 1 .. Len(s) /\ \A i \in 1 .. Len(s) : s[i] \notin Space
  BY Bytes
<1>2. inked(s) = 1 .. Len(s)
  BY <1>1 DEF inked
<1>3. CASE Len(s) = 0
  <2>1. inked(s) = {}
    BY <1>2, <1>3
  <2>2. s = <<>>
    BY <1>3
  <2> QED BY <2>1, <2>2, Trims
<1>4. CASE Len(s) # 0
  <2>1. Min(inked(s)) = 1 /\ Max(inked(s)) = Len(s) /\ inked(s) # {}
    <3>1. /\ 1 \in inked(s) /\ Len(s) \in inked(s)
          /\ 1 \in 1 .. Len(s) /\ Len(s) \in 1 .. Len(s)
          /\ \A i \in inked(s) : i \in 1 .. Len(s) /\ 1 <= i /\ i <= Len(s)
      BY <1>1, <1>2, <1>4
    <3> QED BY <1>1, <3>1, Ends
  <2>2. SubSeq(s, 1, Len(s)) = s
    OBVIOUS
  <2> QED BY <2>1, <2>2, Trims
<1> QED BY <1>3, <1>4

LEMMA Inked ==
  ASSUME NEW s \in Text, inked(s) # {}
  PROVE  \E a, z \in inked(s) : /\ a \in 1 .. Len(s) /\ z \in a .. Len(s)
                                /\ \A i \in inked(s) : a <= i /\ i <= z
<1>1. Len(s) \in Nat /\ inked(s) \subseteq 1 .. Len(s)
  BY DEF inked, Text
<1>2. inked(s) \subseteq Nat /\ inked(s) \subseteq 0 .. Len(s)
  BY <1>1
<1>3. Min(inked(s)) \in inked(s) /\ \A y \in inked(s) : Min(inked(s)) <= y
  BY <1>2, Minimum
<1>4. Max(inked(s)) \in inked(s) /\ \A y \in inked(s) : Max(inked(s)) >= y
  BY <1>1, <1>2, Maximum
<1> DEFINE a == Min(inked(s))
           z == Max(inked(s))
<1>5. a \in 1 .. Len(s) /\ z \in 1 .. Len(s) /\ a <= z
  BY <1>1, <1>3, <1>4
<1>6. \A i \in inked(s) : a <= i /\ i <= z
  BY <1>1, <1>3, <1>4
<1> HIDE DEF a, z
<1> QED BY <1>1, <1>3, <1>4, <1>5, <1>6 DEF a, z

\* A blank before a text is trimmed away.
LEMMA TrimBlank ==
  ASSUME NEW s \in Text
  PROVE  trim_copy(onto(space, s)) = trim_copy(s)
<1> DEFINE t == onto(space, s)
           n == Len(s)
<1>1. /\ n \in Nat /\ DOMAIN s = 1 .. n /\ s \in Seq(Octet)
      /\ t \in Seq(Octet) /\ DOMAIN t = 1 .. (n + 1) /\ Len(t) = n + 1
      /\ t[1] = space /\ \A i \in 1 .. n : t[i + 1] = s[i]
  <2>1. space \in Octet /\ s \in Seq(Octet) /\ n \in Nat
    BY DEF space, Octet, Text
  <2>2. /\ t \in Seq(Octet) /\ Len(t) = n + 1 /\ t[1] = space
        /\ \A i \in 1 .. n : t[i + 1] = s[i]
    <3> DEFINE c == space
    <3> HIDE DEF n, c
    <3>1. c \in Octet /\ s \in Seq(Octet)
      BY <2>1 DEF c
    <3>2. /\ onto(c, s) \in Seq(Octet) /\ Len(onto(c, s)) = Len(s) + 1 /\ onto(c, s)[1] = c
          /\ \A i \in 1 .. Len(s) : onto(c, s)[i + 1] = s[i]
      BY ONLY <3>1, OntoItems
    <3> QED BY <3>2 DEF n, c
  <2> HIDE DEF t
  <2> QED BY <2>1, <2>2
<1> HIDE DEF t, n
<1>2. \A i \in 1 .. n : i \in inked(s) <=> i + 1 \in inked(t)
  BY <1>1 DEF inked
<1>3. 1 \notin inked(t) /\ inked(t) \subseteq 1 .. (n + 1) /\ inked(s) \subseteq 1 .. n
  BY <1>1 DEF inked, Space
<1>4. \A i \in inked(t) : i - 1 \in 1 .. n /\ i - 1 \in inked(s) /\ i = (i - 1) + 1
  BY <1>1, <1>2, <1>3
<1>5. CASE inked(s) = {}
  <2>1. inked(t) = {}
    BY <1>4, <1>5
  <2> QED BY <1>5, <2>1, Trims DEF t
<1>6. CASE inked(s) # {}
  <2>1. PICK a \in inked(s), z \in inked(s) :
             /\ a \in 1 .. n /\ z \in a .. n
             /\ \A i \in inked(s) : a <= i /\ i <= z
    BY <1>1, <1>6, Inked DEF n
  <2>2. a + 1 \in inked(t) /\ z + 1 \in inked(t)
    BY <1>1, <1>2, <2>1
  <2>3. \A i \in inked(t) : a + 1 <= i /\ i <= z + 1
    <3> SUFFICES ASSUME NEW i \in inked(t) PROVE a + 1 <= i /\ i <= z + 1
      OBVIOUS
    <3>1. a <= i - 1 /\ i - 1 <= z /\ i \in Int
      BY <1>3, <1>4, <2>1
    <3> QED BY <1>1, <2>1, <3>1
  <2>4. Min(inked(s)) = a /\ Max(inked(s)) = z
    <3>1. a \in 1 .. n /\ z \in 1 .. n /\ \A i \in inked(s) : i \in 1 .. n /\ a <= i /\ i <= z
      BY <1>1, <1>3, <2>1
    <3> QED BY <1>1, <3>1, Ends
  <2>5. Min(inked(t)) = a + 1 /\ Max(inked(t)) = z + 1
    <3>1. /\ n + 1 \in Nat /\ a + 1 \in 1 .. (n + 1) /\ z + 1 \in 1 .. (n + 1)
          /\ \A i \in inked(t) : i \in 1 .. (n + 1) /\ a + 1 <= i /\ i <= z + 1
      BY <1>1, <1>3, <2>1, <2>3
    <3> QED BY <2>2, <3>1, Ends
  <2>6. SubSeq(t, a + 1, z + 1) = SubSeq(s, a, z)
    <3> DEFINE u == SubSeq(t, a + 1, z + 1)
               w == SubSeq(s, a, z)
    <3>1. u \in Seq(Octet) /\ w \in Seq(Octet) /\ Len(u) = z + 1 - a /\ Len(w) = z + 1 - a
      BY <1>1, <2>1, SubSeqProperties, SMTT(60) DEF n
    <3>2. \A j \in 1 .. (z + 1 - a) : u[j] = w[j]
      <4> SUFFICES ASSUME NEW j \in 1 .. (z + 1 - a) PROVE u[j] = w[j]
        OBVIOUS
      <4>1. u[j] = t[(a + 1) + j - 1]
        BY <1>1, <2>1, SMTT(60)
      <4>2. w[j] = s[a + j - 1]
        BY <1>1, <2>1 DEF n
      <4>3. a + j - 1 \in 1 .. n /\ (a + 1) + j - 1 = (a + j - 1) + 1
        BY <1>1, <2>1
      <4> QED BY <1>1, <4>1, <4>2, <4>3
    <3> HIDE DEF u, w
    <3>3. u = w
      BY <3>1, <3>2, SeqEqual
    <3> QED BY <3>3 DEF u, w
  <2> QED BY <1>6, <2>2, <2>4, <2>5, <2>6, Trims DEF t
<1> QED BY <1>5, <1>6

\* A component of a cookie is read back, with or without a blank before it.
LEMMA CookieReadBack ==
  ASSUME NEW s \in Text
  PROVE  /\ cookie_component(url_encode(s)) = s
         /\ cookie_component(onto(space, url_encode(s))) = s
         /\ s # <<>> => trim_copy(url_encode(s)) # <<>>
         /\ s # <<>> => trim_copy(onto(space, url_encode(s))) # <<>>
<1> DEFINE e == url_encode(s)
<1>1. e \in Seq(Safe) /\ e \in Text
  BY UrlEncodeType
<1>2. url_decode(e) = s
  BY UrlReadBack
<1> HIDE DEF e
<1>3. trim_copy(e) = e /\ trim_copy(onto(space, e)) = e
  BY <1>1, TrimSafe, TrimBlank
<1>4. s # <<>> => e # <<>>
  BY <1>2, DecodeEmpty
<1> QED BY <1>2, <1>3, <1>4 DEF cookie_component, e

\* A text with a delimiter in it, or without one.
cut(x, c, t) == x \o <<c>> \o t

LEMMA OntoCut ==
  ASSUME NEW a \in Octet, NEW c \in Octet, NEW x \in Text, NEW t \in Text
  PROVE  onto(a, cut(x, c, t)) = cut(onto(a, x), c, t)
<1> DEFINE h == <<a>>
           q == <<c>>
           xq == x \o q
           y == x
<1>1. x \in Seq(Octet) /\ q \in Seq(Octet) /\ t \in Seq(Octet) /\ h \in Seq(Octet)
      /\ xq \in Seq(Octet)
  BY DEF Text
<1> HIDE DEF h, q, xq
<1>2. h \in Seq(Octet) /\ xq \in Seq(Octet) /\ t \in Seq(Octet)
  BY <1>1
<1>3. h \o (xq \o t) = (h \o xq) \o t
  <2>1. regroup(h, xq, t)
    BY <1>2, Regroup
  <2> QED BY <2>1 DEF regroup
<1>4. h \in Seq(Octet) /\ y \in Seq(Octet) /\ q \in Seq(Octet)
  BY <1>1
<1> HIDE DEF y
<1>5. h \o (y \o q) = (h \o y) \o q
  <2>1. regroup(h, y, q)
    BY <1>4, Regroup
  <2> QED BY <2>1 DEF regroup
<1>6. h \o xq = (h \o x) \o q
  BY <1>5 DEF xq, y
<1> QED BY <1>3, <1>6 DEF cut, onto, h, q, xq

\* A text has no c, or is cut at its first.
LEMMA Either ==
  ASSUME NEW c \in Octet, NEW s \in Text
  PROVE  s \in Without(c) \/ \E x \in Without(c), t \in Text : s = cut(x, c, t)
<1> DEFINE P == {u \in Text : \/ u \in Without(c)
                              \/ \E x \in Without(c), t \in Text : u = cut(x, c, t)}
<1>1. <<>> \in P
  BY DEF Without, Text
<1>2. ASSUME NEW a \in Octet, NEW u \in Seq(Octet), u \in P PROVE onto(a, u) \in P
  <2>1. onto(a, u) \in Text
    BY Onto DEF Text
  <2>2. CASE a = c
    <3>1. <<>> \in Without(c) /\ u \in Text
      BY <1>2 DEF Without
    <3>2. onto(a, u) = cut(<<>>, c, u)
      <4>1. <<>> \o <<c>> = <<c>>
        OBVIOUS
      <4> QED BY <2>2, <4>1 DEF onto, cut
    <3> QED BY <2>1, <3>1, <3>2
  <2>3. CASE a # c /\ u \in Without(c)
    <3>1. a \in Octet \ {c} /\ u \in Seq(Octet \ {c})
      BY <2>3 DEF Without
    <3>2. onto(a, u) \in Seq(Octet \ {c})
      BY <3>1, OntoItems
    <3> QED BY <2>1, <3>2 DEF Without
  <2>4. CASE a # c /\ \E x \in Without(c), t \in Text : u = cut(x, c, t)
    <3>1. PICK x \in Without(c), t \in Text : u = cut(x, c, t)
      BY <2>4
    <3>2. a \in Octet \ {c} /\ x \in Seq(Octet \ {c})
      BY <2>4 DEF Without
    <3>3. onto(a, x) \in Without(c)
      BY <3>2, OntoItems DEF Without
    <3>4. onto(a, u) = cut(onto(a, x), c, t)
      <4>1. a \in Octet /\ x \in Text /\ t \in Text
        BY WithoutIsText
      <4> QED BY <3>1, <4>1, OntoCut
    <3> QED BY <2>1, <3>3, <3>4
  <2> QED BY <1>2, <2>2, <2>3, <2>4
<1> HIDE DEF P
<1>3. Seq(Octet) \subseteq P
  BY <1>1, <1>2, FromFront
<1> QED BY <1>3 DEF P, Text

\* What a browser keeps: the text before the first semicolon.
LEMMA Kept ==
  ASSUME NEW x \in Without(semicolon), NEW t \in Text
  PROVE  kept_cookie(cut(x, semicolon, t)) = x
<1> DEFINE w == x \o <<semicolon>> \o t
<1>3. semicolon \in Octet
  BY DEF semicolon, Octet
<1>1. find(w, semicolon, 1) = Len(x) + 1 /\ SubSeq(w, 1, Len(x)) = x /\ Len(x) \in Nat
  <2>1. find(w, semicolon, 1) = Len(x) + 1 /\ SubSeq(w, 1, Len(x)) = x
    BY <1>3, Cut
  <2> QED BY <2>1, WithoutIsText
<1> HIDE DEF w
<1>2. (Len(x) + 1) - 1 = Len(x)
  BY <1>1
<1> QED BY <1>1, <1>2 DEF kept_cookie, cut, w

LEMMA KeptWhole ==
  ASSUME NEW s \in Without(semicolon)
  PROVE  kept_cookie(s) = s
<1>1. s \in Seq(Octet) /\ Len(s) \in Nat /\ \A i \in 1 .. Len(s) : s[i] # semicolon
  BY WithoutIsText DEF Text
<1> DEFINE n == Len(s)
<1>2. find(s, semicolon, 1) = n + 1
  <2>1. 1 \in 1 .. (n + 1) /\ n + 1 \in 1 .. (n + 1)
        /\ \A j \in 1 .. ((n + 1) - 1) : s[j] # semicolon
    BY <1>1
  <2>2. ~ (n + 1 <= n)
    BY <1>1
  <2> QED BY <1>1, <2>1, <2>2, FoundAt
<1>3. SubSeq(s, 1, (n + 1) - 1) = s
  BY <1>1
<1> QED BY <1>2, <1>3 DEF kept_cookie

LEMMA KeptType ==
  ASSUME NEW s \in Text
  PROVE  kept_cookie(s) \in Without(semicolon)
<1>1. semicolon \in Octet
  BY DEF semicolon, Octet
<1>2. CASE s \in Without(semicolon)
  BY <1>2, KeptWhole
<1>3. CASE \E x \in Without(semicolon), t \in Text : s = cut(x, semicolon, t)
  BY <1>3, Kept
<1> QED BY <1>1, <1>2, <1>3, Either

LEMMA OwnCookie ==
  ASSUME NEW f \in Pair
  PROVE  /\ own_cookie(f) = field_text(f, url_piece)
         /\ own_cookie(f) \in Without(semicolon)
<1> DEFINE x == field_text(f, url_piece)
<1>1. /\ f.name \in Text /\ f.value \in Text
  BY FieldRecord
<1>2. x \in Without(semicolon)
  <2>1. delimited(semicolon, url_piece) /\ <<>> \in Seq(Octet \ {semicolon, equals})
    BY Delimited
  <2>2. x \in PartOf(semicolon)
    BY <2>1, FieldText
  <2> QED BY <2>2, PartIsText
<1>3. make_set_cookie(f.name, f.value) = x \o <<semicolon, space, 80>>
  BY <1>1, UrlEncodes DEF make_set_cookie, field_text
<1> HIDE DEF x
<1>4. x \o <<semicolon, space, 80>> = cut(x, semicolon, <<space, 80>>)
  <2> DEFINE q == <<semicolon>>
             t == <<space, 80>>
             w == <<semicolon, space, 80>>
  <2>1. q \in Seq(Octet) /\ t \in Seq(Octet) /\ x \in Seq(Octet)
    <3>1. q \in Seq(Octet) /\ t \in Seq(Octet)
      BY DEF semicolon, space, Octet
    <3> QED BY <1>2, <3>1, WithoutIsText DEF Text
  <2>2. q \o t = w
    <3>1. /\ w \in Seq(Octet) /\ Len(t) = 2 /\ Len(w) = 3 /\ w[1] = semicolon
          /\ semicolon \in Octet
      BY DEF semicolon, space, Octet
    <3>2. \A i \in 1 .. Len(t) : w[i + 1] = t[i]
      <4> SUFFICES ASSUME NEW i \in 1 .. Len(t) PROVE w[i + 1] = t[i]
        OBVIOUS
      <4>1. i = 1 \/ i = 2
        OBVIOUS
      <4> QED BY <4>1
    <3> HIDE DEF t, w
    <3>3. Len(w) = Len(t) + 1
      BY <3>1
    <3>4. w = onto(semicolon, t)
      BY <2>1, <3>1, <3>2, <3>3, FrontAndRest
    <3> QED BY <3>4 DEF onto, q
  <2> HIDE DEF q, t, w
  <2>3. x \o (q \o t) = (x \o q) \o t
    <3>1. regroup(x, q, t)
      BY <2>1, Regroup
    <3> QED BY <3>1 DEF regroup
  <2> QED BY <2>2, <2>3 DEF cut, q, t, w
<1>5. <<space, 80>> \in Text
  BY DEF space, Text, Octet
<1>6. own_cookie(f) = x
  BY <1>2, <1>3, <1>4, <1>5, Kept DEF own_cookie
<1> QED BY <1>2, <1>6 DEF x

LEMMA Separator ==
  separator = onto(semicolon, <<space>>) /\ <<space>> \in Seq(Octet \ {semicolon, equals})
<1>1. semicolon \in Octet /\ space \in Octet \ {semicolon, equals} /\ space \in Octet
  BY DEF semicolon, space, equals, Octet
<1> QED BY <1>1, OntoOne DEF separator

\* Cookies are joined by a semicolon and a blank.
LEMMA Separated ==
  ASSUME NEW x \in Text, NEW t \in Text
  PROVE  x \o separator \o t = cut(x, semicolon, onto(space, t)) /\ onto(space, t) \in Text
<1> DEFINE q == <<semicolon>>
           b == <<space>>
           y == x
           u == t
           yq == y \o q
<1>1. /\ q \in Seq(Octet) /\ b \in Seq(Octet) /\ y \in Seq(Octet) /\ u \in Seq(Octet)
      /\ yq \in Seq(Octet)
  BY DEF Text, semicolon, space, Octet
<1>2. separator = q \o b
  BY Separator DEF onto
<1> HIDE DEF q, b, y, u, yq
<1>3. y \in Seq(Octet) /\ q \in Seq(Octet) /\ b \in Seq(Octet)
  BY <1>1
<1>4. y \o (q \o b) = (y \o q) \o b
  <2>1. regroup(y, q, b)
    BY <1>3, Regroup
  <2> QED BY <2>1 DEF regroup
<1>5. yq \in Seq(Octet) /\ b \in Seq(Octet) /\ u \in Seq(Octet)
  BY <1>1
<1>6. yq \o (b \o u) = (yq \o b) \o u
  <2>1. regroup(yq, b, u)
    BY <1>5, Regroup
  <2> QED BY <2>1 DEF regroup
<1>7. (y \o (q \o b)) \o u = yq \o (b \o u)
  BY <1>4, <1>6 DEF yq
<1>8. onto(space, t) \in Text
  <2>1. space \in Octet /\ t \in Seq(Octet)
    BY DEF Text, space, Octet
  <2>2. onto(space, t) \in Seq(Octet)
    BY <2>1, OntoItems
  <2> QED BY <2>2 DEF Text
<1> QED BY <1>2, <1>7, <1>8 DEF cut, onto, q, b, y, u, yq

\* A blank before a part is before its name.
LEMMA NameValueBlank ==
  ASSUME NEW s \in Text
  PROVE  name_value(onto(space, s))
           = [name |-> onto(space, name_value(s).name), value |-> name_value(s).value]
<1>1. /\ equals \in Octet /\ space \in Octet /\ space \in Octet \ {equals}
  BY DEF equals, space, Octet
<1>2. CASE s \in Without(equals)
  <2>1. s \in Seq(Octet \ {equals})
    BY <1>2 DEF Without
  <2>2. onto(space, s) \in Without(equals)
    BY <1>1, <2>1, OntoItems DEF Without
  <2> QED BY <1>2, <2>2, NameOnly
<1>3. CASE \E x \in Without(equals), t \in Text : s = cut(x, equals, t)
  <2>1. PICK x \in Without(equals), t \in Text : s = cut(x, equals, t)
    BY <1>3
  <2>2. x \in Seq(Octet \ {equals}) /\ x \in Text
    BY WithoutIsText DEF Without
  <2>3. onto(space, x) \in Without(equals)
    BY <1>1, <2>2, OntoItems DEF Without
  <2>4. onto(space, s) = cut(onto(space, x), equals, t)
    BY <1>1, <2>1, <2>2, OntoCut
  <2>5. name_value(cut(x, equals, t)) = [name |-> x, value |-> t]
    BY NameValue DEF cut
  <2>6. name_value(cut(onto(space, x), equals, t)) = [name |-> onto(space, x), value |-> t]
    BY <2>3, NameValue DEF cut
  <2> QED BY <2>1, <2>4, <2>5, <2>6
<1> QED BY <1>1, <1>2, <1>3, Either

LEMMA ComponentType ==
  ASSUME NEW s \in Text
  PROVE  cookie_component(s) \in Text
<1>1. trim_copy(s) \in Text
  <2>1. CASE inked(s) = {}
    <3>1. <<>> \in Seq(Octet)
      OBVIOUS
    <3>2. trim_copy(s) = <<>>
      BY <2>1, Trims
    <3> QED BY <3>1, <3>2 DEF Text
  <2>2. CASE inked(s) # {}
    <3>1. PICK a \in inked(s), z \in inked(s) :
               /\ a \in 1 .. Len(s) /\ z \in a .. Len(s)
               /\ \A i \in inked(s) : a <= i /\ i <= z
      BY <2>2, Inked
    <3>2. /\ Len(s) \in Nat
          /\ \A i \in inked(s) : i \in 1 .. Len(s) /\ a <= i /\ i <= z
      BY <3>1 DEF Text, inked
    <3>3. Min(inked(s)) = a /\ Max(inked(s)) = z
      <4>1. z \in 1 .. Len(s)
        BY <3>1, <3>2
      <4> QED BY <3>1, <3>2, <4>1, Ends
    <3>4. SubSeq(s, a, z) \in Seq(Octet)
      BY <3>1, <3>2 DEF Text
    <3> QED BY <2>2, <3>3, <3>4, Trims DEF Text
  <2> QED BY <2>1, <2>2
<1> QED BY <1>1, DecodeType DEF cookie_component

cookies_of(read) == decoded(read, cookie_component)
named(read) == {i \in DOMAIN read : trim_copy(read[i].name) # <<>>}

LEMMA CookiesType ==
  ASSUME NEW read \in Seq(Pair)
  PROVE  /\ cookies_of(read) \in Seq(Pair) /\ DOMAIN cookies_of(read) = DOMAIN read
         /\ \A i \in DOMAIN read : /\ cookies_of(read)[i].name = cookie_component(read[i].name)
                                   /\ cookies_of(read)[i].value = cookie_component(read[i].value)
<1>1. ASSUME NEW i \in DOMAIN read
      PROVE  [name |-> cookie_component(read[i].name),
              value |-> cookie_component(read[i].value)] \in Pair
  <2>1. read[i] \in Pair
    OBVIOUS
  <2>2. read[i].name \in Text /\ read[i].value \in Text
    BY <2>1, FieldRecord
  <2> QED BY <2>2, ComponentType DEF Pair
<1>2. cookies_of(read) = [i \in DOMAIN read |-> [name |-> cookie_component(read[i].name),
                                                value |-> cookie_component(read[i].value)]]
  BY DEF cookies_of, decoded
<1>3. DOMAIN read = 1 .. Len(read) /\ Len(read) \in Nat
  OBVIOUS
<1>4. cookies_of(read) \in [1 .. Len(read) -> Pair]
  BY <1>1, <1>2, <1>3
<1> QED BY <1>2, <1>3, <1>4

\* The value of a cookie is that of the last one of its name.
LEMMA CookieFound ==
  ASSUME NEW read \in Seq(Pair), NEW raw, parts(raw, semicolon) = read, NEW i \in named(read),
         \A j \in named(read) : 
           cookie_component(read[j].name) = cookie_component(read[i].name) => j <= i
  PROVE  get_cookie(raw, cookie_component(read[i].name)) = cookie_component(read[i].value)
<1> DEFINE c == cookies_of(read)
           k == named(read)
           n == cookie_component(read[i].name)
<1>1. /\ c \in Seq(Pair) /\ k \in SUBSET DOMAIN c /\ i \in k
      /\ c[i].name = n /\ c[i].value = cookie_component(read[i].value)
      /\ \A j \in k : c[j].name = c[i].name => j <= i
  <2>1. k \subseteq DOMAIN read
    BY DEF named
  <2> QED BY <2>1, CookiesType
<1>2. parse_cookie_header(raw) = assigned_of(c, k)
  BY DEF parse_cookie_header, cookies_of, named
<1> HIDE DEF c, k
<1>3. c[i].name \in DOMAIN assigned_of(c, k) /\ assigned_of(c, k)[c[i].name] = c[i].value
  BY <1>1, AssignedLast
<1> QED BY <1>1, <1>2, <1>3 DEF get_cookie

\* A cookie whose name is not blank is in the parsed header.
LEMMA CookieNamed ==
  ASSUME NEW read \in Seq(Pair), NEW raw, parts(raw, semicolon) = read, NEW i \in named(read)
  PROVE  cookie_component(read[i].name) \in DOMAIN parse_cookie_header(raw)
<1> DEFINE c == cookies_of(read)
           k == named(read)
<1>1. c[i].name = cookie_component(read[i].name)
  <2>1. k \subseteq DOMAIN read
    BY DEF named
  <2> QED BY <2>1, CookiesType
<1>2. parse_cookie_header(raw) = assigned_of(c, k)
  BY DEF parse_cookie_header, cookies_of, named
<1> HIDE DEF c
<1> QED BY <1>1, <1>2 DEF assigned_of

\* What is read of a cookie of this program.
LEMMA OwnPart ==
  ASSUME NEW f \in Pair, NEW own, own = own_cookie(f), NEW p \in {own, onto(space, own)}
  PROVE  /\ own \in Without(semicolon) /\ own \in Text /\ p \in Without(semicolon)
         /\ whole(p) = <<name_value(p)>> /\ name_value(p) \in Pair
         /\ cookie_component(name_value(p).name) = f.name
         /\ cookie_component(name_value(p).value) = f.value
         /\ f.name # <<>> => trim_copy(name_value(p).name) # <<>>
<1> DEFINE n == url_encode(f.name)
           v == url_encode(f.value)
<1>1. f.name \in Text /\ f.value \in Text
  BY FieldRecord
<1>2. own = field_text(f, url_piece) /\ own \in Without(semicolon) /\ own \in Text
  BY OwnCookie, WithoutIsText
<1>3. name_value(own) = [name |-> n, value |-> v] /\ own # <<>>
  <2>1. delimited(semicolon, url_piece) /\ <<>> \in Seq(Octet \ {semicolon, equals})
    BY Delimited
  <2>2. /\ field_text(f, url_piece) \in PartOf(semicolon)
        /\ name_value(field_text(f, url_piece))
             = [name |-> expanded(f.name, url_piece), value |-> expanded(f.value, url_piece)]
    BY <2>1, FieldText
  <2> QED BY <1>1, <1>2, <2>2, UrlEncodes DEF PartOf
<1>4. name_value(onto(space, own)) = [name |-> onto(space, n), value |-> v]
  BY <1>2, <1>3, NameValueBlank
<1>5. onto(space, own) \in Without(semicolon) /\ onto(space, own) # <<>>
  <2>1. space \in Octet \ {semicolon} /\ own \in Seq(Octet \ {semicolon})
    BY <1>2 DEF space, semicolon, Octet, Without
  <2>2. onto(space, own) \in Seq(Octet \ {semicolon}) /\ Len(onto(space, own)) = Len(own) + 1
        /\ Len(own) \in Nat
    <3>1. onto(space, own) \in Seq(Octet \ {semicolon})
          /\ Len(onto(space, own)) = Len(own) + 1
      BY <2>1, OntoItems, ZenonT(90)
    <3> QED BY <1>2, <3>1, WithoutIsText
  <2>3. Len(onto(space, own)) # 0
    BY <2>2
  <2> QED BY <2>2, <2>3 DEF Without
<1>6. p \in Without(semicolon) /\ p # <<>> /\ p \in Text
  BY <1>2, <1>3, <1>5, WithoutIsText
<1>7. whole(p) = <<name_value(p)>> /\ name_value(p) \in Pair
  BY <1>6, NameValueType DEF whole
<1>8. /\ cookie_component(n) = f.name /\ cookie_component(onto(space, n)) = f.name
      /\ cookie_component(v) = f.value
      /\ f.name # <<>> => trim_copy(n) # <<>> /\ trim_copy(onto(space, n)) # <<>>
  BY <1>1, CookieReadBack
<1>9. \/ name_value(p).name = n /\ name_value(p).value = v
      \/ name_value(p).name = onto(space, n) /\ name_value(p).value = v
  BY <1>3, <1>4
<1> HIDE DEF n, v
<1> QED BY <1>2, <1>6, <1>7, <1>8, <1>9

\* Beside a cookie of another program, that comes first.
LEMMA OwnAfter ==
  ASSUME NEW f \in Pair, f.name # <<>>, NEW other \in Without(semicolon), NEW raw,
         raw = other \o separator \o own_cookie(f)
  PROVE  get_cookie(raw, f.name) = f.value
<1> DEFINE own == own_cookie(f)
           p == onto(space, own)
           x == name_value(p)
           w == whole(other)
           read == w \o <<x>>
           k == Len(w) + 1
<1>1. /\ own \in Text /\ p \in Without(semicolon) /\ whole(p) = <<x>> /\ x \in Pair
      /\ cookie_component(x.name) = f.name /\ cookie_component(x.value) = f.value
      /\ trim_copy(x.name) # <<>>
  BY OwnPart
<1>2. other \in Text /\ semicolon \in Octet /\ p \in Text
  BY <1>1, WithoutIsText DEF semicolon, Octet
<1> HIDE DEF x, p
<1>3. raw = cut(other, semicolon, p)
  <2> HIDE DEF own
  <2>1. other \o separator \o own = cut(other, semicolon, p)
    BY <1>1, <1>2, Separated DEF p
  <2> QED BY <2>1 DEF own
<1>4. parts(raw, semicolon) = read
  <2>1. parts(other \o <<semicolon>> \o p, semicolon) = w \o parts(p, semicolon)
    BY <1>2, PartsOfMore
  <2>2. parts(p, semicolon) = whole(p)
    BY <1>1, <1>2, PartsOfOne
  <2> QED BY <1>1, <1>3, <2>1, <2>2 DEF cut
<1>5. w \in Seq(Pair)
  <2>1. name_value(other) \in Pair
    BY <1>2, NameValueType
  <2> QED BY <2>1 DEF whole
<1> HIDE DEF w
<1>6. /\ read \in Seq(Pair) /\ Len(read) = k /\ read[k] = x /\ k \in Nat
      /\ DOMAIN read = 1 .. k /\ k \in 1 .. k
  BY <1>1, <1>5
<1> HIDE DEF read, k
<1>7. k \in named(read) /\ \A j \in named(read) : j <= k
  BY <1>1, <1>6 DEF named
<1>8. get_cookie(raw, cookie_component(read[k].name)) = cookie_component(read[k].value)
  BY <1>4, <1>6, <1>7, CookieFound
<1> QED BY <1>1, <1>6, <1>8

\* Or that follows.
LEMMA OwnBefore ==
  ASSUME NEW f \in Pair, f.name # <<>>, NEW other \in Without(semicolon), NEW raw,
         raw = own_cookie(f) \o separator \o other
  PROVE  get_cookie(raw, f.name) = f.value \/ f.name \in DOMAIN parse_cookie_header(other)
<1> DEFINE own == own_cookie(f)
           p == onto(space, other)
           x == name_value(own)
           z == name_value(p)
           read == <<x, z>>
<1>1. /\ own \in Text /\ own \in Without(semicolon) /\ whole(own) = <<x>> /\ x \in Pair
      /\ cookie_component(x.name) = f.name /\ cookie_component(x.value) = f.value
      /\ trim_copy(x.name) # <<>>
  BY OwnPart
<1>2. /\ other \in Text /\ semicolon \in Octet /\ p \in Without(semicolon) /\ p \in Text
      /\ p # <<>>
  <2>1. space \in Octet \ {semicolon} /\ other \in Seq(Octet \ {semicolon}) /\ semicolon \in Octet
    BY DEF space, semicolon, Octet, Without
  <2>2. p \in Seq(Octet \ {semicolon}) /\ Len(p) = Len(other) + 1 /\ Len(other) \in Nat
    <3>1. p \in Seq(Octet \ {semicolon}) /\ Len(p) = Len(other) + 1
      BY <2>1, OntoItems, ZenonT(90)
    <3> QED BY <3>1, WithoutIsText
  <2>3. Len(p) # 0
    BY <2>2
  <2>4. p \in Without(semicolon) /\ p # <<>>
    BY <2>2, <2>3 DEF Without
  <2> QED BY <2>1, <2>4, WithoutIsText
<1>3. z \in Pair /\ whole(p) = <<z>>
  BY <1>2, NameValueType DEF whole
<1>4. z = [name |-> onto(space, name_value(other).name), value |-> name_value(other).value]
  BY <1>2, NameValueBlank
<1>5. name_value(other) \in Pair /\ name_value(other).name \in Text
  <2>1. name_value(other) \in Pair
    BY <1>2, NameValueType
  <2> QED BY <2>1, FieldRecord
<1>6. trim_copy(z.name) = trim_copy(name_value(other).name)
  BY <1>4, <1>5, TrimBlank
<1> HIDE DEF x, z, p
<1>7. raw = cut(own, semicolon, p)
  <2> HIDE DEF own
  <2>1. own \o separator \o other = cut(own, semicolon, p)
    BY <1>1, <1>2, Separated DEF p
  <2> QED BY <2>1 DEF own
<1>8. parts(raw, semicolon) = read
  <2> HIDE DEF own
  <2>1. parts(own \o <<semicolon>> \o p, semicolon) = whole(own) \o parts(p, semicolon)
    BY <1>1, <1>2, PartsOfMore
  <2>2. parts(p, semicolon) = whole(p)
    BY <1>2, PartsOfOne
  <2>3. <<x>> \o <<z>> = <<x, z>>
    BY <1>1, <1>3, OntoOne DEF onto
  <2> QED BY <1>1, <1>3, <1>7, <2>1, <2>2, <2>3 DEF cut
<1>9. /\ read \in Seq(Pair) /\ DOMAIN read = {1, 2} /\ read[1] = x /\ read[2] = z
  BY <1>1, <1>3
<1> HIDE DEF read
<1>10. 1 \in named(read)
  BY <1>1, <1>9 DEF named
<1>11. CASE 2 \in named(read) /\ cookie_component(z.name) = f.name
  <2>1. trim_copy(name_value(other).name) # <<>>
    BY <1>6, <1>9, <1>11 DEF named
  <2>2. other # <<>>
    <3> SUFFICES ASSUME other = <<>> PROVE FALSE
      OBVIOUS
    <3>1. <<>> \in Without(equals) /\ <<>> \in Seq(Safe)
      BY DEF Without
    <3>2. name_value(<<>>).name = <<>>
      BY <3>1, NameOnly
    <3>3. trim_copy(<<>>) = <<>>
      BY <3>1, TrimSafe
    <3> QED BY <2>1, <3>2, <3>3
  <2> DEFINE y == name_value(other)
             alone == <<y>>
  <2>3. parts(other, semicolon) = alone
    BY <1>2, <2>2, PartsOfOne DEF whole
  <2>4. alone \in Seq(Pair) /\ 1 \in DOMAIN alone /\ alone[1] = y
    BY <1>5
  <2>5. cookie_component(y.name) = f.name
    BY <1>6, <1>11 DEF cookie_component
  <2>7. trim_copy(y.name) # <<>>
    BY <2>1
  <2> HIDE DEF alone, y
  <2>6. 1 \in named(alone)
    BY <2>4, <2>7 DEF named
  <2>8. cookie_component(alone[1].name) \in DOMAIN parse_cookie_header(other)
    BY <2>3, <2>4, <2>6, CookieNamed
  <2> QED BY <2>4, <2>5, <2>8
<1>12. CASE ~ (2 \in named(read) /\ cookie_component(z.name) = f.name)
  <2>1. ASSUME NEW j \in named(read),
               cookie_component(read[j].name) = cookie_component(read[1].name)
        PROVE  j <= 1
    <3>1. j = 1 \/ j = 2
      BY <1>9 DEF named
    <3> QED BY <1>1, <1>9, <1>12, <2>1, <3>1
  <2>2. get_cookie(raw, cookie_component(read[1].name)) = cookie_component(read[1].value)
    BY <1>8, <1>9, <1>10, <2>1, CookieFound
  <2> QED BY <1>1, <1>9, <2>2
<1> QED BY <1>11, <1>12

\* A header of own cookies is read as their fields, the last of a name.
LEMMA CookiesRead ==
  ASSUME NEW pairs \in Seq(Pair), \A i \in DOMAIN pairs : pairs[i].name # <<>>
  PROVE  parse_cookie_header(join([i \in DOMAIN pairs |-> own_cookie(pairs[i])], separator))
           = assigned(pairs)
<1> DEFINE b == <<space>>
           raw == joined(pairs, url_piece, semicolon, b)
           read == parts(raw, semicolon)
<1>1. join([i \in DOMAIN pairs |-> own_cookie(pairs[i])], separator) = raw
  <2>1. \A i \in DOMAIN pairs : own_cookie(pairs[i]) = field_text(pairs[i], url_piece)
    <3> SUFFICES ASSUME NEW i \in DOMAIN pairs
                 PROVE  own_cookie(pairs[i]) = field_text(pairs[i], url_piece)
      OBVIOUS
    <3>1. pairs[i] \in Pair
      OBVIOUS
    <3> QED BY <3>1, OwnCookie
  <2>2. [i \in DOMAIN pairs |-> own_cookie(pairs[i])] = field_texts(pairs, url_piece)
    BY <2>1 DEF field_texts
  <2> QED BY <2>2, Separator DEF joined, onto
<1>2. read = read_fields(pairs, url_piece, b)
  <2>1. delimited(semicolon, url_piece) /\ b \in Seq(Octet \ {semicolon, equals})
    BY Delimited, Separator
  <2> HIDE DEF b
  <2> QED BY <2>1, WrittenParts
<1> HIDE DEF read, raw
<1>3. ASSUME NEW i \in DOMAIN pairs
      PROVE  /\ [name |-> cookie_component(read[i].name),
                 value |-> cookie_component(read[i].value)] = pairs[i]
             /\ trim_copy(read[i].name) # <<>>
  <2> DEFINE n == url_encode(pairs[i].name)
             v == url_encode(pairs[i].value)
  <2>1. pairs[i] \in Pair
    OBVIOUS
  <2>2. /\ pairs[i] = [name |-> pairs[i].name, value |-> pairs[i].value]
        /\ pairs[i].name \in Text /\ pairs[i].value \in Text
    BY <2>1, FieldRecord
  <2>3. /\ cookie_component(n) = pairs[i].name /\ cookie_component(onto(space, n)) = pairs[i].name
        /\ cookie_component(v) = pairs[i].value
        /\ trim_copy(n) # <<>> /\ trim_copy(onto(space, n)) # <<>>
    BY <2>2, CookieReadBack
  <2>4. n \in Text
    BY <2>2, UrlEncodeType
  <2>5. n = expanded(pairs[i].name, url_piece) /\ v = expanded(pairs[i].value, url_piece)
    BY <2>2, UrlEncodes
  <2> HIDE DEF n, v
  <2>6. <<>> \o n = n
    BY <2>4 DEF Text
  <2>7. read[i] = [name |-> (IF i = 1 THEN <<>> ELSE b) \o n, value |-> v]
    BY <1>2, <2>5 DEF read_fields
  <2>9. read[i].value = v /\ read[i].name = (IF i = 1 THEN <<>> ELSE b) \o n
    BY <2>7
  <2>8. read[i].value = v /\ (read[i].name = n \/ read[i].name = onto(space, n))
    <3>1. CASE i = 1
      BY <2>6, <2>9, <3>1
    <3>2. CASE i # 1
      BY <2>9, <3>2 DEF onto
    <3> QED BY <3>1, <3>2
  <2> QED BY <2>2, <2>3, <2>8
<1>4. DOMAIN read = DOMAIN pairs /\ pairs = [i \in DOMAIN pairs |-> pairs[i]]
  BY <1>2 DEF read_fields
<1>5. decoded(read, cookie_component) = pairs
  BY <1>3, <1>4 DEF decoded
<1>6. {i \in DOMAIN read : trim_copy(read[i].name) # <<>>} = DOMAIN pairs
  BY <1>3, <1>4
<1> QED BY <1>1, <1>5, <1>6 DEF parse_cookie_header, read, assigned

(***************************************************************************)
(* Own cookies in a Cookie header are read back as their fields, and an    *)
(* own cookie is found next to any cookie of another application, whatever *)
(* bytes that holds, unless it comes later and reads as one of the same    *)
(* name.                                                                   *)
(***************************************************************************)
THEOREM CookiesReadBack == Spec => []CookieRoundTrip
<1>1. TypeOK => CookieRoundTrip
  <2> HAVE TypeOK
  <2>1. (\A i \in DOMAIN fields : fields[i].name # <<>>) =>
          parse_cookie_header(join([i \in DOMAIN fields |-> own_cookie(fields[i])], separator))
            = assigned(fields)
    BY CookiesRead DEF TypeOK
  <2>2. ASSUME NEW i \in DOMAIN fields, NEW k \in DOMAIN fields, i # k, fields[i].name # <<>>
        PROVE  LET own == own_cookie(fields[i])
                   foreign == foreign_cookie(fields[k])
               IN
               /\ get_cookie(foreign \o separator \o own, fields[i].name) = fields[i].value
               /\ \/ get_cookie(own \o separator \o foreign, fields[i].name) = fields[i].value
                  \/ fields[i].name \in DOMAIN parse_cookie_header(foreign)
    <3> DEFINE f == fields[i]
               own == own_cookie(f)
               foreign == foreign_cookie(fields[k])
    <3>1. f \in Pair /\ fields[k] \in Pair
      BY DEF TypeOK
    <3>2. fields[k].name \o <<equals>> \o fields[k].value \in Text
      BY <3>1, FieldRecord DEF Text, equals, Octet
    <3>3. foreign \in Without(semicolon)
      BY <3>2, KeptType DEF foreign_cookie
    <3> HIDE DEF f, foreign
    <3>4. get_cookie(foreign \o separator \o own, f.name) = f.value
      BY <2>2, <3>1, <3>3, OwnAfter DEF f
    <3>5. \/ get_cookie(own \o separator \o foreign, f.name) = f.value
          \/ f.name \in DOMAIN parse_cookie_header(foreign)
      BY <2>2, <3>1, <3>3, OwnBefore DEF f
    <3> QED BY <3>4, <3>5 DEF f, foreign
  <2> QED BY <2>1, <2>2 DEF CookieRoundTrip
<1> QED BY <1>1, FieldsTyped, PTL

-----------------------------------------------------------------------------
\* JSON strings.

\* The bytes that are escaped, and what is written of a byte.
Escaped == {quote, backslash, 8, 9, 10, 12, 13}
json_piece ==
  [c \in Octet |-> IF c \in DOMAIN escape_of THEN <<backslash, escape_of[c]>> ELSE <<c>>]

\* No two bytes have the same escape, and only the quote is escaped by a quote.
LEMMA EscapeOf ==
  /\ DOMAIN escape_of = Escaped /\ Escaped \subseteq Octet
  /\ \A c \in Escaped : escape_of[c] \in Octet
  /\ \A b, c \in Escaped : escape_of[b] = escape_of[c] => b = c
  /\ \A c \in Escaped : escape_of[c] = quote => c = quote
<1>1. DOMAIN escape_of = Escaped
  BY DEF escape_of, Escaped
<1>2. /\ escape_of[34] = 34 /\ escape_of[92] = 92 /\ escape_of[8] = 98 /\ escape_of[9] = 116
      /\ escape_of[10] = 110 /\ escape_of[12] = 102 /\ escape_of[13] = 114
  BY DEF escape_of, quote, backslash
<1>3. \A c \in Escaped : c \in {34, 92, 8, 9, 10, 12, 13}
  BY DEF Escaped, quote, backslash
<1>4. \A c \in {34, 92, 8, 9, 10, 12, 13} : escape_of[c] \in Octet /\ c \in Octet
  BY <1>2 DEF Octet
<1>5. \A b, c \in {34, 92, 8, 9, 10, 12, 13} : escape_of[b] = escape_of[c] => b = c
  BY <1>2
<1>6. \A c \in {34, 92, 8, 9, 10, 12, 13} : escape_of[c] = quote => c = quote
  BY <1>2 DEF quote
<1> QED BY <1>1, <1>3, <1>4, <1>5, <1>6

LEMMA JsonPiece ==
  /\ maps(Octet, Seq(Octet), json_piece)
  /\ \A c \in Octet :
       \/ c \in Escaped /\ json_piece[c] = <<backslash, escape_of[c]>>
       \/ c \notin Escaped /\ json_piece[c] = <<c>>
<1>1. \A c \in Octet :
        \/ c \in Escaped /\ json_piece[c] = <<backslash, escape_of[c]>>
        \/ c \notin Escaped /\ json_piece[c] = <<c>>
  BY EscapeOf DEF json_piece
<1>2. ASSUME NEW c \in Octet PROVE json_piece[c] \in Seq(Octet)
  <2>1. backslash \in Octet
    BY DEF backslash, Octet
  <2>2. CASE c \in Escaped
    <3> DEFINE e == escape_of[c]
    <3>1. e \in Octet
      BY <2>2, EscapeOf
    <3>2. json_piece[c] = <<backslash, e>>
      BY <1>1, <2>2
    <3> HIDE DEF e
    <3>3. <<backslash, e>> \in Seq(Octet)
      BY <2>1, <3>1
    <3> QED BY <3>2, <3>3
  <2>3. CASE c \notin Escaped
    <3>1. json_piece[c] = <<c>>
      BY <1>1, <2>3
    <3>2. <<c>> \in Seq(Octet)
      OBVIOUS
    <3> QED BY <3>1, <3>2
  <2> QED BY <2>2, <2>3
<1>3. json_piece \in [Octet -> Seq(Octet)]
  <2>1. json_piece = [c \in Octet |-> json_piece[c]]
    BY DEF json_piece
  <2> QED BY <1>2, <2>1
<1> QED BY <1>1, <1>3 DEF maps

\* json_escape writes a piece for each byte.
LEMMA JsonEscapes ==
  ASSUME NEW s \in Text
  PROVE  json_escape(s) = expanded(s, json_piece) /\ json_escape(s) \in Text
<1>1. \A i \in DOMAIN s : s[i] \in Octet
  BY DEF Text
<1>2. \A i \in DOMAIN s :
        (IF s[i] \in DOMAIN escape_of THEN <<backslash, escape_of[s[i]]>> ELSE <<s[i]>>)
          = json_piece[s[i]]
  BY <1>1 DEF json_piece
<1>3. json_escape(s) = expanded(s, json_piece)
  BY <1>2 DEF json_escape, expanded, image
<1>4. expanded(s, json_piece) \in Seq(Octet)
  BY JsonPiece, ExpandedType DEF Text
<1> QED BY <1>3, <1>4 DEF Text

\* The table that skip_json_string reads its result from, for a string at the
\* front of a text.
scanning(text) ==
  CHOOSE f : f = [p \in 1 .. (Len(text) + 2) |->
    IF p > Len(text) THEN Len(text) + 1
    ELSE IF text[p] = backslash THEN f[p + 2]
    ELSE IF text[p] = quote THEN p + 1
    ELSE f[p + 1]]

\* skip_json_string's loop has a result at every position of every text.
LEMMA Scanning ==
  ASSUME NEW s \in Text
  PROVE  \A i \in 1 .. (Len(s) + 2) :
           /\ scanning(s)[i] = IF i > Len(s) THEN Len(s) + 1
                               ELSE IF s[i] = backslash THEN scanning(s)[i + 2]
                               ELSE IF s[i] = quote THEN i + 1
                               ELSE scanning(s)[i + 1]
           /\ scanning(s)[i] \in Nat
<1> DEFINE m == Len(s)
           n == m + 1
           S == 1 .. (n + 1)
           body(f, i) == IF i > m THEN m + 1
                         ELSE IF s[i] = backslash THEN f[i + 2]
                         ELSE IF s[i] = quote THEN i + 1
                         ELSE f[i + 1]
           D == [g \in [S -> Nat] |-> [i \in S |-> body(g, i)]]
           f == scanning(s)
<1>0. m \in Nat /\ n \in Nat /\ n + 1 = m + 2
  BY DEF Text
<1>00. \A i \in S : i <= m => i + 1 \in S /\ i + 2 \in S /\ i + 1 > i /\ i + 2 > i
  BY <1>0
<1>1. ASSUME NEW i \in S, NEW g, \A j \in S : j > i => g[j] \in Nat
      PROVE  body(g, i) \in Nat
  <2>1. CASE i > m
    BY <1>0, <2>1
  <2>2. CASE i <= m
    <3>1. g[i + 1] \in Nat /\ g[i + 2] \in Nat
      BY <1>00, <1>1, <2>2
    <3> QED BY <1>0, <2>2, <3>1
  <2> QED BY <1>0, <2>1, <2>2
<1>2. ASSUME NEW g, NEW h, NEW i \in S, \A j \in S : j > i => g[j] = h[j]
      PROVE  body(g, i) = body(h, i)
  <2>1. i <= m => g[i + 1] = h[i + 1] /\ g[i + 2] = h[i + 2]
    BY <1>00, <1>2
  <2> QED BY <1>0, <2>1
<1>3. reads_on(n, Nat, D)
  <2> HIDE DEF body
  <2>1. D \in [[S -> Nat] -> [S -> Nat]]
    BY <1>1
  <2>2. \A g, h \in [S -> Nat], i \in S :
          (\A j \in S : j > i => g[j] = h[j]) => D[g][i] = D[h][i]
    BY <1>2
  <2> QED BY <1>0, <2>1, <2>2 DEF reads_on
<1>4. PICK g \in [S -> Nat] : g = D[g]
  <2> HIDE DEF D, n
  <2> QED BY <1>3, ReadingOn
<1>5. \E h : h = [i \in 1 .. (m + 2) |-> body(h, i)]
  <2>1. g = [i \in S |-> body(g, i)]
    BY <1>4
  <2>2. S = 1 .. (m + 2)
    BY <1>0
  <2> HIDE DEF body, S
  <2> QED BY <2>1, <2>2
<1>6. f = [i \in 1 .. (m + 2) |-> body(f, i)]
  BY <1>5 DEF scanning
<1> HIDE DEF f
<1>7. \A i \in S : f[i] = body(f, i)
  <2>1. S = 1 .. (m + 2)
    BY <1>0
  <2> HIDE DEF body, S
  <2> QED BY <1>6, <2>1
<1>8. \A i \in S : f[i] \in Nat
  <2> DEFINE T == {i \in S : f[i] \in Nat}
  <2>1. ASSUME NEW i \in S, \A j \in S : j > i => j \in T PROVE i \in T
    <3> HIDE DEF body
    <3>1. body(f, i) \in Nat
      BY <1>1, <2>1
    <3> QED BY <1>7, <3>1
  <2> HIDE DEF T
  <2>2. \A i \in S : i \in T
    <3> HIDE DEF n
    <3> QED BY <1>0, <2>1, FromEnd
  <2> QED BY <2>2 DEF T
<1>9. 1 .. (m + 2) = S
  BY <1>0
<1> QED BY <1>7, <1>8, <1>9 DEF f

\* Where a string ends behind a text does not depend on that text.
LEMMA ScanningAfter ==
  ASSUME NEW x \in Text, NEW t \in Text
  PROVE  \A i \in 1 .. (Len(t) + 2) : scanning(x \o t)[Len(x) + i] = Len(x) + scanning(t)[i]
<1> DEFINE m == Len(t)
           n == m + 1
           k == Len(x)
           w == x \o t
           f == scanning(w)
           g == scanning(t)
           T == {i \in 1 .. (n + 1) : f[k + i] = k + g[i]}
<1>1. /\ w \in Text /\ Len(w) = k + m /\ m \in Nat /\ k \in Nat /\ n \in Nat
      /\ \A i \in 1 .. m : w[k + i] = t[i]
  BY DEF Text
<1>2. \A i \in 1 .. (m + 2) :
        /\ g[i] = IF i > m THEN m + 1
                  ELSE IF t[i] = backslash THEN g[i + 2]
                  ELSE IF t[i] = quote THEN i + 1
                  ELSE g[i + 1]
        /\ g[i] \in Nat
  BY Scanning
<1> HIDE DEF w
<1>3. \A i \in 1 .. (Len(w) + 2) :
        f[i] = IF i > Len(w) THEN Len(w) + 1
               ELSE IF w[i] = backslash THEN f[i + 2]
               ELSE IF w[i] = quote THEN i + 1
               ELSE f[i + 1]
  BY <1>1, Scanning
<1> HIDE DEF f, g
<1>4. ASSUME NEW i \in 1 .. (n + 1), \A j \in 1 .. (n + 1) : j > i => j \in T PROVE i \in T
  <2>0. i \in 1 .. (m + 2) /\ k + i \in 1 .. (Len(w) + 2)
    BY <1>1
  <2>1. CASE i > m
    <3>1. k + i > Len(w)
      BY <1>1, <2>1
    <3>2. f[k + i] = Len(w) + 1 /\ g[i] = m + 1
      BY <1>2, <1>3, <2>0, <2>1, <3>1
    <3> QED BY <1>1, <3>2
  <2>2. CASE i <= m
    <3>1. /\ i \in 1 .. m /\ w[k + i] = t[i] /\ ~ (k + i > Len(w)) /\ ~ (i > m)
          /\ (k + i) + 1 = k + (i + 1) /\ (k + i) + 2 = k + (i + 2)
      BY <1>1, <2>2
    <3>2. i + 1 \in 1 .. (n + 1) /\ i + 2 \in 1 .. (n + 1) /\ i + 1 > i /\ i + 2 > i
      BY <1>1, <2>2
    <3>3. f[k + (i + 1)] = k + g[i + 1] /\ f[k + (i + 2)] = k + g[i + 2]
      BY <1>4, <3>2
    <3>4. CASE t[i] = backslash
      <4>1. f[k + i] = f[(k + i) + 2] /\ g[i] = g[i + 2]
        BY <1>2, <1>3, <2>0, <3>1, <3>4
      <4> QED BY <3>1, <3>3, <4>1
    <3>5. CASE t[i] # backslash /\ t[i] = quote
      <4>1. f[k + i] = (k + i) + 1 /\ g[i] = i + 1
        BY <1>2, <1>3, <2>0, <3>1, <3>5
      <4> QED BY <3>1, <4>1
    <3>6. CASE t[i] # backslash /\ t[i] # quote
      <4>1. f[k + i] = f[(k + i) + 1] /\ g[i] = g[i + 1]
        BY <1>2, <1>3, <2>0, <3>1, <3>6
      <4> QED BY <3>1, <3>3, <4>1
    <3> QED BY <3>4, <3>5, <3>6
  <2> QED BY <1>1, <2>1, <2>2
<1> HIDE DEF T
<1>5. \A i \in 1 .. (n + 1) : i \in T
  <2> HIDE DEF n
  <2> QED BY <1>1, <1>4, FromEnd
<1>6. \A i \in 1 .. (m + 2) : i \in 1 .. (n + 1)
  BY <1>1
<1> QED BY <1>5, <1>6 DEF T, f, g, w

\* Where the string ends that the text is within, from its first byte on.
ends(t) == scanning(t)[1]

LEMMA BehindByte ==
  ASSUME NEW c \in Octet, NEW t \in Text
  PROVE  /\ onto(c, t) \in Text /\ Len(onto(c, t)) = Len(t) + 1 /\ onto(c, t)[1] = c
         /\ Len(t) \in Nat
         /\ \A i \in 1 .. (Len(t) + 2) : scanning(onto(c, t))[1 + i] = 1 + scanning(t)[i]
<1>1. c \in Octet /\ t \in Seq(Octet) /\ Len(t) \in Nat
  BY DEF Text
<1>2. onto(c, t) \in Seq(Octet) /\ Len(onto(c, t)) = Len(t) + 1 /\ onto(c, t)[1] = c
  BY <1>1, OntoItems
<1> DEFINE x == <<c>>
<1>3. x \in Text /\ Len(x) = 1
  BY DEF Text
<1> HIDE DEF x
<1>4. \A i \in 1 .. (Len(t) + 2) : scanning(x \o t)[Len(x) + i] = Len(x) + scanning(t)[i]
  BY <1>3, ScanningAfter
<1>5. x \o t = onto(c, t)
  BY DEF x, onto
<1> QED BY <1>1, <1>2, <1>3, <1>4, <1>5 DEF Text

LEMMA EndsType ==
  ASSUME NEW t \in Text
  PROVE  ends(t) \in Nat
<1>1. Len(t) \in Nat
  BY DEF Text
<1>2. 1 \in 1 .. (Len(t) + 2)
  BY <1>1
<1> QED BY <1>2, Scanning DEF ends

LEMMA EndsQuote ==
  ASSUME NEW t \in Text
  PROVE  ends(onto(quote, t)) = 2
<1> DEFINE w == onto(quote, t)
<1>1. w \in Text /\ Len(w) = Len(t) + 1 /\ w[1] = quote /\ Len(t) \in Nat /\ quote # backslash
  BY BehindByte DEF quote, Octet, backslash
<1> HIDE DEF w
<1>2. 1 \in 1 .. (Len(w) + 2) /\ ~ (1 > Len(w))
  BY <1>1
<1>3. scanning(w)[1] = 1 + 1
  BY <1>1, <1>2, Scanning
<1> QED BY <1>3 DEF ends, w

\* A byte that is neither a quote nor a backslash is passed.
LEMMA EndsByte ==
  ASSUME NEW c \in Octet \ {quote, backslash}, NEW t \in Text
  PROVE  ends(onto(c, t)) = 1 + ends(t)
<1> DEFINE w == onto(c, t)
<1>1. /\ w \in Text /\ Len(w) = Len(t) + 1 /\ w[1] = c /\ Len(t) \in Nat
      /\ \A i \in 1 .. (Len(t) + 2) : scanning(w)[1 + i] = 1 + scanning(t)[i]
  BY BehindByte
<1> HIDE DEF w
<1>2. 1 \in 1 .. (Len(w) + 2) /\ ~ (1 > Len(w)) /\ 1 \in 1 .. (Len(t) + 2)
  BY <1>1
<1>3. scanning(w)[1] = scanning(w)[1 + 1]
  BY <1>1, <1>2, Scanning
<1>4. scanning(w)[1 + 1] = 1 + scanning(t)[1]
  BY <1>1, <1>2
<1> QED BY <1>3, <1>4 DEF ends, w

\* A backslash is passed with the byte behind it.
LEMMA EndsEscape ==
  ASSUME NEW c \in Octet, NEW t \in Text
  PROVE  ends(onto(backslash, onto(c, t))) = 2 + ends(t)
<1> DEFINE u == onto(c, t)
           w == onto(backslash, u)
<1>1. /\ u \in Text /\ Len(u) = Len(t) + 1 /\ Len(t) \in Nat
      /\ \A i \in 1 .. (Len(t) + 2) : scanning(u)[1 + i] = 1 + scanning(t)[i]
  BY BehindByte
<1>5. backslash \in Octet
  BY DEF backslash, Octet
<1> HIDE DEF u
<1>2. /\ w \in Text /\ Len(w) = Len(u) + 1 /\ w[1] = backslash
      /\ \A i \in 1 .. (Len(u) + 2) : scanning(w)[1 + i] = 1 + scanning(u)[i]
  BY <1>1, <1>5, BehindByte
<1> HIDE DEF w
<1>3. /\ 1 \in 1 .. (Len(w) + 2) /\ ~ (1 > Len(w)) /\ 1 \in 1 .. (Len(t) + 2)
      /\ 2 \in 1 .. (Len(u) + 2) /\ 1 + 2 = 3 /\ 1 + 1 = 2
  BY <1>1, <1>2
<1>4. scanning(w)[1] = scanning(w)[3]
  BY <1>2, <1>3, Scanning
<1>6. scanning(w)[1 + 2] = 1 + scanning(u)[2]
  BY <1>2, <1>3
<1>7. scanning(u)[1 + 1] = 1 + scanning(t)[1]
  BY <1>1, <1>3
<1>8. scanning(t)[1] \in Nat
  BY EndsType DEF ends
<1> QED BY <1>3, <1>4, <1>6, <1>7, <1>8 DEF ends, u, w

\* One piece of a string, before what follows it.
piece_before(c, t) == json_piece[c] \o t

LEMMA PieceBefore ==
  ASSUME NEW c \in Octet, NEW t \in Text
  PROVE  \/ /\ c \in Escaped /\ Len(json_piece[c]) = 2 /\ escape_of[c] \in Octet
            /\ piece_before(c, t) = onto(backslash, onto(escape_of[c], t))
         \/ /\ c \in Octet \ {quote, backslash} /\ c \notin Escaped /\ Len(json_piece[c]) = 1
            /\ piece_before(c, t) = onto(c, t)
<1>1. CASE c \in Escaped
  <2> DEFINE e == escape_of[c]
             b == backslash
             q == <<b>>
             r == <<e>>
  <2>1. e \in Octet /\ b \in Octet /\ json_piece[c] = <<b, e>>
    <3>1. e \in Octet /\ b \in Octet
      BY <1>1, EscapeOf DEF backslash, Octet
    <3> QED BY <1>1, <3>1, JsonPiece
  <2> HIDE DEF e, b
  <2>2. <<b, e>> = q \o r
    BY <2>1, OntoOne DEF onto
  <2>3. Len(<<b, e>>) = 2
    OBVIOUS
  <2>4. q \in Seq(Octet) /\ r \in Seq(Octet) /\ t \in Seq(Octet)
    BY <2>1 DEF Text
  <2> DEFINE u == t
  <2> HIDE DEF q, r, u
  <2>5. q \in Seq(Octet) /\ r \in Seq(Octet) /\ u \in Seq(Octet)
    BY <2>4 DEF u
  <2>6. q \o (r \o u) = (q \o r) \o u
    <3>1. regroup(q, r, u)
      BY <2>5, Regroup
    <3> QED BY <3>1 DEF regroup
  <2>7. piece_before(c, t) = onto(b, onto(e, t))
    BY <2>1, <2>2, <2>6 DEF piece_before, onto, q, r, u
  <2> QED BY <1>1, <2>1, <2>3, <2>7 DEF e, b
<1>2. CASE c \notin Escaped
  <2>1. json_piece[c] = <<c>> /\ c \in Octet \ {quote, backslash}
    BY <1>2, JsonPiece DEF Escaped
  <2>2. Len(<<c>>) = 1
    OBVIOUS
  <2> QED BY <1>2, <2>1, <2>2 DEF piece_before, onto
<1> QED BY <1>1, <1>2

\* The bytes of a string between its quotes, and what follows.
escaped_before(s, t) == expanded(s, json_piece) \o t

LEMMA EscapedBefore ==
  ASSUME NEW c \in Octet, NEW s \in Text, NEW t \in Text
  PROVE  /\ escaped_before(s, t) \in Text
         /\ escaped_before(onto(c, s), t) = piece_before(c, escaped_before(s, t))
         /\ Len(expanded(onto(c, s), json_piece))
              = Len(json_piece[c]) + Len(expanded(s, json_piece))
<1> DEFINE p == json_piece[c]
           e == expanded(s, json_piece)
           u == t
<1>1. p \in Seq(Octet)
  BY JsonPiece, MapType
<1>2. e \in Seq(Octet)
  BY JsonPiece, ExpandedType DEF Text
<1>3. expanded(onto(c, s), json_piece) = p \o e
  BY JsonPiece, ExpandedFront DEF Text
<1>4. u \in Seq(Octet)
  BY DEF Text
<1> HIDE DEF p, e, u
<1>5. p \in Seq(Octet) /\ e \in Seq(Octet) /\ u \in Seq(Octet)
  BY <1>1, <1>2, <1>4
<1>6. p \o (e \o u) = (p \o e) \o u
  <2>1. regroup(p, e, u)
    BY <1>5, Regroup
  <2> QED BY <2>1 DEF regroup
<1>7. e \o u \in Seq(Octet)
  BY <1>5
<1>8. Len(p \o e) = Len(p) + Len(e)
  BY <1>1, <1>2
<1> QED BY <1>3, <1>6, <1>7, <1>8 DEF escaped_before, piece_before, p, e, u, Text

\* What is written of a text is passed whole, whatever follows it.
LEMMA EndsEscaped ==
  ASSUME NEW s \in Text, NEW t \in Text
  PROVE  ends(escaped_before(s, t)) = Len(expanded(s, json_piece)) + ends(t)
<1> DEFINE P == {u \in Text : ends(escaped_before(u, t)) = Len(expanded(u, json_piece)) + ends(t)}
<1>1. <<>> \in P
  <2>1. expanded(<<>>, json_piece) = <<>> /\ <<>> \o t = t /\ <<>> \in Text /\ Len(<<>>) = 0
    BY ExpandedEmpty DEF Text
  <2>2. ends(t) \in Nat
    BY EndsType
  <2> DEFINE e == expanded(<<>>, json_piece)
  <2>3. e \o t = t /\ Len(e) = 0
    BY <2>1
  <2> HIDE DEF e
  <2>4. ends(e \o t) = Len(e) + ends(t)
    BY <2>2, <2>3
  <2> QED BY <2>1, <2>4 DEF escaped_before, e
<1>2. ASSUME NEW c \in Octet, NEW u \in Seq(Octet), u \in P PROVE onto(c, u) \in P
  <2> DEFINE w == escaped_before(u, t)
             l == Len(expanded(u, json_piece))
  <2>1. /\ w \in Text /\ escaped_before(onto(c, u), t) = piece_before(c, w)
        /\ Len(expanded(onto(c, u), json_piece)) = Len(json_piece[c]) + l
    BY EscapedBefore DEF Text
  <2>2. ends(w) = l + ends(t) /\ l \in Nat /\ ends(t) \in Nat /\ onto(c, u) \in Text
    <3>1. expanded(u, json_piece) \in Seq(Octet)
      BY JsonPiece, ExpandedType
    <3>2. l \in Nat
      BY <3>1
    <3>3. onto(c, u) \in Text
      BY OntoItems DEF Text
    <3> QED BY <1>2, <3>2, <3>3, EndsType
  <2> HIDE DEF w, l
  <2>3. ends(piece_before(c, w)) = Len(json_piece[c]) + ends(w)
    <3>1. CASE c \in Escaped
      <4>1. /\ Len(json_piece[c]) = 2 /\ escape_of[c] \in Octet
            /\ piece_before(c, w) = onto(backslash, onto(escape_of[c], w))
        BY <2>1, <3>1, PieceBefore
      <4> QED BY <2>1, <4>1, EndsEscape
    <3>2. CASE c \notin Escaped
      <4>1. /\ c \in Octet \ {quote, backslash} /\ Len(json_piece[c]) = 1
            /\ piece_before(c, w) = onto(c, w)
        BY <2>1, <3>2, PieceBefore
      <4> QED BY <2>1, <4>1, EndsByte
    <3> QED BY <3>1, <3>2
  <2>4. Len(json_piece[c]) \in Nat
    <3>1. json_piece[c] \in Seq(Octet)
      BY JsonPiece, MapType
    <3> QED BY <3>1
  <2>5. ends(escaped_before(onto(c, u), t))
          = Len(expanded(onto(c, u), json_piece)) + ends(t)
    BY <2>1, <2>2, <2>3, <2>4
  <2> QED BY <2>2, <2>5
<1> HIDE DEF P
<1>3. Seq(Octet) \subseteq P
  BY <1>1, <1>2, FromFront
<1> QED BY <1>3 DEF P, Text

\* A string that was written, and what follows it.
quoted_before(s, t) == onto(quote, escaped_before(s, onto(quote, t)))

LEMMA QuoteOctet ==
  quote \in Octet /\ backslash \in Octet /\ quote # backslash
BY DEF quote, backslash, Octet

\* A string that was written ends at its own closing quote.
LEMMA SkipsQuoted ==
  ASSUME NEW s \in Text, NEW t \in Text
  PROVE  skip_json_string(quoted_before(s, t), 1) = Len(expanded(s, json_piece)) + 3
<1> DEFINE u == escaped_before(s, onto(quote, t))
           w == onto(quote, u)
           l == Len(expanded(s, json_piece))
<1>1. u \in Text /\ onto(quote, t) \in Text
  <2>1. onto(quote, t) \in Text
    BY BehindByte, QuoteOctet
  <2> QED BY <2>1, EscapedBefore, QuoteOctet
<1>2. ends(u) = l + 2
  BY <1>1, EndsEscaped, EndsQuote
<1>3. l \in Nat
  <2>1. expanded(s, json_piece) \in Seq(Octet)
    BY JsonPiece, ExpandedType DEF Text
  <2> QED BY <2>1
<1> HIDE DEF u, l
<1>4. /\ w \in Text /\ Len(w) = Len(u) + 1 /\ w[1] = quote /\ Len(u) \in Nat
      /\ \A i \in 1 .. (Len(u) + 2) : scanning(w)[1 + i] = 1 + scanning(u)[i]
  BY <1>1, BehindByte, QuoteOctet
<1> HIDE DEF w
<1>5. 1 \in 1 .. (Len(u) + 2) /\ ~ (1 > Len(w))
  BY <1>4
<1>6. scanning(w)[1 + 1] = 1 + ends(u)
  BY <1>4, <1>5 DEF ends
<1>7. skip_json_string(w, 1) = scanning(w)[1 + 1]
  BY <1>4, <1>5 DEF skip_json_string, scanning
<1>8. skip_json_string(w, 1) = l + 3
  BY <1>2, <1>3, <1>6, <1>7
<1> QED BY <1>8 DEF quoted_before, w, u, l

\* The table that parse_json_string reads its result from.
parsing(raw) ==
  CHOOSE f : f = [i \in 1 .. (Len(raw) + 1) |->
    IF i >= Len(raw) THEN <<>>
    ELSE IF raw[i] # backslash THEN <<raw[i]>> \o f[i + 1]
    ELSE IF i + 1 = Len(raw) THEN <<>>
    ELSE <<unescaped(raw[i + 1])>> \o f[i + 2]]

\* An escape is read back as its byte.
LEMMA Unescaped ==
  /\ \A c \in Octet : unescaped(c) \in Octet
  /\ \A c \in Escaped : unescaped(escape_of[c]) = c
<1>1. ASSUME NEW c \in Octet PROVE unescaped(c) \in Octet
  BY EscapeOf DEF unescaped
<1>2. ASSUME NEW c \in Escaped PROVE unescaped(escape_of[c]) = c
  <2> DEFINE u == CHOOSE b \in DOMAIN escape_of : escape_of[b] = escape_of[c]
  <2>1. u \in DOMAIN escape_of /\ escape_of[u] = escape_of[c]
    BY EscapeOf
  <2>2. u = c
    BY <2>1, EscapeOf
  <2> QED BY <2>2, EscapeOf DEF unescaped
<1> QED BY <1>1, <1>2

\* parse_json_string's loop has a result at every position of every text.
LEMMA Parsing ==
  ASSUME NEW s \in Text
  PROVE  \A i \in 1 .. (Len(s) + 1) :
           /\ parsing(s)[i] = IF i >= Len(s) THEN <<>>
                              ELSE IF s[i] # backslash THEN <<s[i]>> \o parsing(s)[i + 1]
                              ELSE IF i + 1 = Len(s) THEN <<>>
                              ELSE <<unescaped(s[i + 1])>> \o parsing(s)[i + 2]
           /\ parsing(s)[i] \in Text
<1> DEFINE n == Len(s)
           S == 1 .. (n + 1)
           body(f, i) == IF i >= n THEN <<>>
                         ELSE IF s[i] # backslash THEN <<s[i]>> \o f[i + 1]
                         ELSE IF i + 1 = n THEN <<>>
                         ELSE <<unescaped(s[i + 1])>> \o f[i + 2]
           D == [g \in [S -> Text] |-> [i \in S |-> body(g, i)]]
           f == parsing(s)
<1>0. n \in Nat /\ \A i \in 1 .. n : s[i] \in Octet
  BY DEF Text
<1>00. \A i \in S : ~ (i >= n) => /\ i + 1 \in S /\ i + 2 \in S /\ i + 1 > i /\ i + 2 > i
                                  /\ i \in 1 .. n /\ i + 1 \in 1 .. n
  BY <1>0
<1>1. ASSUME NEW i \in S, NEW g, \A j \in S : j > i => g[j] \in Text
      PROVE  body(g, i) \in Text
  <2>0. <<>> \in Text
    BY DEF Text
  <2>1. CASE i >= n
    BY <2>0, <2>1
  <2>2. CASE ~ (i >= n) /\ s[i] # backslash
    <3>1. g[i + 1] \in Text /\ s[i] \in Octet
      BY <1>0, <1>00, <1>1, <2>2
    <3> QED BY <2>2, <3>1 DEF Text
  <2>3. CASE ~ (i >= n) /\ s[i] = backslash
    <3>1. g[i + 2] \in Text /\ s[i + 1] \in Octet
      BY <1>0, <1>00, <1>1, <2>3
    <3>2. unescaped(s[i + 1]) \in Octet
      BY <3>1, Unescaped
    <3>3. <<unescaped(s[i + 1])>> \o g[i + 2] \in Text
      BY <3>1, <3>2 DEF Text
    <3> QED BY <2>0, <2>3, <3>3
  <2> QED BY <2>1, <2>2, <2>3
<1>2. ASSUME NEW g, NEW h, NEW i \in S, \A j \in S : j > i => g[j] = h[j]
      PROVE  body(g, i) = body(h, i)
  <2>1. ~ (i >= n) => g[i + 1] = h[i + 1] /\ g[i + 2] = h[i + 2]
    BY <1>00, <1>2
  <2> QED BY <2>1
<1>3. reads_on(n, Text, D)
  <2> HIDE DEF body
  <2>1. D \in [[S -> Text] -> [S -> Text]]
    BY <1>1
  <2>2. \A g, h \in [S -> Text], i \in S :
          (\A j \in S : j > i => g[j] = h[j]) => D[g][i] = D[h][i]
    BY <1>2
  <2>3. Text # {}
    <3>1. <<>> \in Text
      BY DEF Text
    <3> QED BY <3>1
  <2> QED BY <1>0, <2>1, <2>2, <2>3 DEF reads_on
<1>4. PICK g \in [S -> Text] : g = D[g]
  <2> HIDE DEF D, n
  <2> QED BY <1>3, ReadingOn
<1>5. \E h : h = [i \in S |-> body(h, i)]
  BY <1>4
<1>6. f = [i \in S |-> body(f, i)]
  BY <1>5 DEF parsing
<1> HIDE DEF f
<1>7. \A i \in S : f[i] = body(f, i)
  BY <1>6
<1>8. \A i \in S : f[i] \in Text
  <2> DEFINE T == {i \in S : f[i] \in Text}
  <2>1. ASSUME NEW i \in S, \A j \in S : j > i => j \in T PROVE i \in T
    <3> HIDE DEF body
    <3>1. body(f, i) \in Text
      BY <1>1, <2>1
    <3> QED BY <1>7, <3>1
  <2> HIDE DEF T
  <2>2. \A i \in S : i \in T
    BY <1>0, <2>1, FromEnd
  <2> QED BY <2>2 DEF T
<1> QED BY <1>7, <1>8 DEF f

\* What is read of a string behind a text does not depend on that text.
LEMMA ParsingAfter ==
  ASSUME NEW x \in Text, NEW t \in Text
  PROVE  \A i \in 1 .. (Len(t) + 1) : parsing(x \o t)[Len(x) + i] = parsing(t)[i]
<1> DEFINE n == Len(t)
           k == Len(x)
           w == x \o t
           f == parsing(w)
           g == parsing(t)
           T == {i \in 1 .. (n + 1) : f[k + i] = g[i]}
<1>1. /\ w \in Text /\ Len(w) = k + n /\ n \in Nat /\ k \in Nat
      /\ \A i \in 1 .. n : w[k + i] = t[i]
  BY DEF Text
<1>2. \A i \in 1 .. (n + 1) :
        g[i] = IF i >= n THEN <<>>
               ELSE IF t[i] # backslash THEN <<t[i]>> \o g[i + 1]
               ELSE IF i + 1 = n THEN <<>>
               ELSE <<unescaped(t[i + 1])>> \o g[i + 2]
  BY Parsing
<1> HIDE DEF w
<1>3. \A i \in 1 .. (Len(w) + 1) :
        f[i] = IF i >= Len(w) THEN <<>>
               ELSE IF w[i] # backslash THEN <<w[i]>> \o f[i + 1]
               ELSE IF i + 1 = Len(w) THEN <<>>
               ELSE <<unescaped(w[i + 1])>> \o f[i + 2]
  BY <1>1, Parsing
<1> HIDE DEF f, g
<1>4. ASSUME NEW i \in 1 .. (n + 1), \A j \in 1 .. (n + 1) : j > i => j \in T PROVE i \in T
  <2>0. k + i \in 1 .. (Len(w) + 1)
    BY <1>1
  <2>1. CASE i >= n
    <3>1. k + i >= Len(w)
      BY <1>1, <2>1
    <3> QED BY <1>2, <1>3, <2>0, <2>1, <3>1
  <2>2. CASE ~ (i >= n)
    <3>1. /\ w[k + i] = t[i] /\ w[k + (i + 1)] = t[i + 1] /\ ~ (k + i >= Len(w))
          /\ (k + i) + 1 = k + (i + 1) /\ (k + i) + 2 = k + (i + 2)
          /\ k + (i + 1) = Len(w) <=> i + 1 = n
      <4>1. i \in 1 .. n /\ i + 1 \in 1 .. n
        BY <1>1, <2>2
      <4>2. w[k + i] = t[i] /\ w[k + (i + 1)] = t[i + 1]
        BY <1>1, <4>1
      <4>3. k + (i + 1) = Len(w) <=> i + 1 = n
        BY <1>1, <4>1, SMTT(60)
      <4> QED BY <1>1, <2>2, <4>1, <4>2, <4>3
    <3>2. i + 1 \in 1 .. (n + 1) /\ i + 2 \in 1 .. (n + 1) /\ i + 1 > i /\ i + 2 > i
      BY <1>1, <2>2
    <3>3. f[k + (i + 1)] = g[i + 1] /\ f[k + (i + 2)] = g[i + 2]
      BY <1>4, <3>2
    <3>4. CASE t[i] # backslash
      <4>1. f[k + i] = <<w[k + i]>> \o f[(k + i) + 1] /\ g[i] = <<t[i]>> \o g[i + 1]
        BY <1>2, <1>3, <2>0, <2>2, <3>1, <3>4
      <4> QED BY <3>1, <3>3, <4>1
    <3>5. CASE t[i] = backslash /\ i + 1 = n
      <4>1. f[k + i] = <<>> /\ g[i] = <<>>
        BY <1>2, <1>3, <2>0, <2>2, <3>1, <3>5
      <4> QED BY <4>1
    <3>6. CASE t[i] = backslash /\ i + 1 # n
      <4>1. /\ f[k + i] = <<unescaped(w[(k + i) + 1])>> \o f[(k + i) + 2]
            /\ g[i] = <<unescaped(t[i + 1])>> \o g[i + 2]
        BY <1>2, <1>3, <2>0, <2>2, <3>1, <3>6
      <4> QED BY <3>1, <3>3, <4>1
    <3> QED BY <3>4, <3>5, <3>6
  <2> QED BY <2>1, <2>2
<1> HIDE DEF T
<1>5. \A i \in 1 .. (n + 1) : i \in T
  BY <1>1, <1>4, FromEnd
<1> QED BY <1>5 DEF T, f, g, w

\* What is read of a string from its first byte on, up to its last quote.
reads(t) == parsing(t)[1]

LEMMA ParsingBehind ==
  ASSUME NEW c \in Octet, NEW t \in Text
  PROVE  \A i \in 1 .. (Len(t) + 1) : parsing(onto(c, t))[1 + i] = parsing(t)[i]
<1> DEFINE x == <<c>>
<1>3. x \in Text /\ Len(x) = 1
  BY DEF Text
<1> HIDE DEF x
<1>4. \A i \in 1 .. (Len(t) + 1) : parsing(x \o t)[Len(x) + i] = parsing(t)[i]
  BY <1>3, ParsingAfter
<1>5. x \o t = onto(c, t)
  BY DEF x, onto
<1> QED BY <1>3, <1>4, <1>5

LEMMA ReadsLast ==
  reads(<<quote>>) = <<>>
<1> DEFINE w == <<quote>>
<1>1. w \in Text /\ Len(w) = 1
  BY QuoteOctet DEF Text
<1> HIDE DEF w
<1>2. 1 \in 1 .. (Len(w) + 1) /\ 1 >= Len(w)
  BY <1>1
<1>3. parsing(w)[1] = <<>>
  BY <1>1, <1>2, Parsing
<1> QED BY <1>3 DEF reads, w

LEMMA ReadsByte ==
  ASSUME NEW c \in Octet \ {quote, backslash}, NEW t \in Text, Len(t) # 0
  PROVE  reads(onto(c, t)) = onto(c, reads(t))
<1> DEFINE w == onto(c, t)
<1>1. /\ w \in Text /\ Len(w) = Len(t) + 1 /\ w[1] = c /\ Len(t) \in Nat
  BY BehindByte
<1>2. \A i \in 1 .. (Len(t) + 1) : parsing(w)[1 + i] = parsing(t)[i]
  BY ParsingBehind
<1> HIDE DEF w
<1>3. 1 \in 1 .. (Len(w) + 1) /\ ~ (1 >= Len(w)) /\ 1 \in 1 .. (Len(t) + 1)
  BY <1>1
<1>4. parsing(w)[1] = <<c>> \o parsing(w)[1 + 1]
  BY <1>1, <1>3, Parsing
<1>5. parsing(w)[1 + 1] = parsing(t)[1]
  BY <1>2, <1>3
<1> QED BY <1>4, <1>5 DEF reads, w, onto

LEMMA ReadsEscape ==
  ASSUME NEW c \in Octet, NEW t \in Text, Len(t) # 0
  PROVE  reads(onto(backslash, onto(c, t))) = onto(unescaped(c), reads(t))
<1> DEFINE u == onto(c, t)
           w == onto(backslash, u)
<1>1. u \in Text /\ Len(u) = Len(t) + 1 /\ Len(t) \in Nat /\ u[1] = c
  BY BehindByte
<1>2. \A i \in 1 .. (Len(t) + 1) : parsing(u)[1 + i] = parsing(t)[i]
  BY ParsingBehind
<1> HIDE DEF u
<1>3. w \in Text /\ Len(w) = Len(u) + 1 /\ w[1] = backslash /\ w[2] = u[1]
  <2>1. backslash \in Octet /\ u \in Seq(Octet)
    BY <1>1, QuoteOctet DEF Text
  <2>2. \A i \in 1 .. Len(u) : w[i + 1] = u[i]
    BY <2>1, OntoItems
  <2>3. 1 \in 1 .. Len(u) /\ 1 + 1 = 2
    BY <1>1
  <2>4. w[1 + 1] = u[1]
    BY <2>2, <2>3
  <2> QED BY <1>1, <2>1, <2>3, <2>4, BehindByte
<1>4. \A i \in 1 .. (Len(u) + 1) : parsing(w)[1 + i] = parsing(u)[i]
  BY <1>1, ParsingBehind, QuoteOctet
<1> HIDE DEF w
<1>5. /\ 1 \in 1 .. (Len(w) + 1) /\ ~ (1 >= Len(w)) /\ 1 \in 1 .. (Len(t) + 1)
      /\ 2 \in 1 .. (Len(u) + 1) /\ 1 + 1 = 2 /\ 1 + 2 = 3 /\ ~ (2 = Len(w))
  BY <1>1, <1>3
<1>6. parsing(w)[1] = <<unescaped(w[2])>> \o parsing(w)[3]
  BY <1>3, <1>5, Parsing
<1>7. parsing(w)[1 + 2] = parsing(u)[2] /\ parsing(u)[1 + 1] = parsing(t)[1]
  BY <1>2, <1>4, <1>5
<1> QED BY <1>1, <1>3, <1>5, <1>6, <1>7 DEF reads, w, u, onto

\* What is written of a text, and closed, is read as that text.
LEMMA ReadsEscaped ==
  ASSUME NEW s \in Text
  PROVE  reads(escaped_before(s, <<quote>>)) = s /\ Len(escaped_before(s, <<quote>>)) # 0
<1> DEFINE q == <<quote>>
           P == {u \in Text : reads(escaped_before(u, q)) = u /\ Len(escaped_before(u, q)) # 0}
<1>0. q \in Text /\ Len(q) = 1 /\ reads(q) = <<>>
  BY ReadsLast, QuoteOctet DEF Text
<1> HIDE DEF q
<1>1. <<>> \in P
  <2>1. expanded(<<>>, json_piece) = <<>> /\ <<>> \o q = q /\ <<>> \in Text
    BY <1>0, ExpandedEmpty DEF Text
  <2> DEFINE e == expanded(<<>>, json_piece)
  <2>2. e \o q = q
    BY <2>1
  <2> HIDE DEF e
  <2>3. reads(e \o q) = <<>> /\ Len(e \o q) # 0
    BY <1>0, <2>2
  <2> QED BY <2>1, <2>3 DEF escaped_before, e
<1>2. ASSUME NEW c \in Octet, NEW u \in Seq(Octet), u \in P PROVE onto(c, u) \in P
  <2> DEFINE w == escaped_before(u, q)
  <2>1. /\ w \in Text /\ escaped_before(onto(c, u), q) = piece_before(c, w)
    BY <1>0, EscapedBefore DEF Text
  <2>2. reads(w) = u /\ Len(w) # 0 /\ onto(c, u) \in Text
    <3>1. onto(c, u) \in Text
      BY OntoItems DEF Text
    <3> QED BY <1>2, <3>1
  <2> HIDE DEF w
  <2>3. reads(piece_before(c, w)) = onto(c, reads(w)) /\ Len(piece_before(c, w)) # 0
    <3>1. CASE c \in Escaped
      <4>1. /\ escape_of[c] \in Octet
            /\ piece_before(c, w) = onto(backslash, onto(escape_of[c], w))
        BY <2>1, <3>1, PieceBefore
      <4>2. reads(piece_before(c, w)) = onto(unescaped(escape_of[c]), reads(w))
        BY <2>1, <2>2, <4>1, ReadsEscape
      <4>3. Len(piece_before(c, w)) # 0
        <5>1. onto(escape_of[c], w) \in Text
          BY <2>1, <4>1, BehindByte
        <5>2. Len(piece_before(c, w)) = Len(onto(escape_of[c], w)) + 1
              /\ Len(onto(escape_of[c], w)) \in Nat
          BY <4>1, <5>1, BehindByte, QuoteOctet
        <5> QED BY <5>2
      <4> QED BY <3>1, <4>2, <4>3, Unescaped
    <3>2. CASE c \notin Escaped
      <4>1. /\ c \in Octet \ {quote, backslash}
            /\ piece_before(c, w) = onto(c, w)
        BY <2>1, <3>2, PieceBefore
      <4>2. Len(onto(c, w)) = Len(w) + 1 /\ Len(w) \in Nat
        BY <2>1, BehindByte
      <4>3. Len(onto(c, w)) # 0
        BY <4>2
      <4> QED BY <2>1, <2>2, <4>1, <4>3, ReadsByte
    <3> QED BY <3>1, <3>2
  <2> QED BY <2>1, <2>2, <2>3
<1> HIDE DEF P
<1>3. Seq(Octet) \subseteq P
  BY <1>1, <1>2, FromFront
<1> QED BY <1>3 DEF P, Text, q

\* A string as json_escape and its two quotes make it.
quoted_text(s) == <<quote>> \o json_escape(s) \o <<quote>>

LEMMA QuotedText ==
  ASSUME NEW s \in Text
  PROVE  /\ quoted_text(s) = onto(quote, escaped_before(s, <<quote>>))
         /\ quoted_text(s) \in Text
         /\ expanded(s, json_piece) \in Text
         /\ Len(quoted_text(s)) = Len(expanded(s, json_piece)) + 2
<1> DEFINE e == expanded(s, json_piece)
           q == <<quote>>
           r == q
<1>1. e \in Seq(Octet)
  BY JsonPiece, ExpandedType DEF Text
<1>2. json_escape(s) = e
  BY JsonEscapes
<1>3. q \in Seq(Octet) /\ Len(q) = 1
  BY QuoteOctet
<1> HIDE DEF e, q
<1>4. q \in Seq(Octet) /\ e \in Seq(Octet) /\ r \in Seq(Octet)
  BY <1>1, <1>3
<1>5. Len(q \o e) = 1 + Len(e) /\ q \o e \in Seq(Octet) /\ Len(e) \in Nat
  <2>1. concat(q, e) \in Seq(Octet) /\ Len(concat(q, e)) = Len(q) + Len(e)
    BY <1>4, Concat
  <2>2. Len(e) \in Nat
    BY <1>1
  <2> QED BY <1>3, <2>1, <2>2 DEF concat
<1> DEFINE qe == q \o e
<1> HIDE DEF qe
<1>6. Len(qe \o q) = Len(qe) + 1 /\ qe \o q \in Seq(Octet) /\ Len(qe) \in Nat
  BY <1>3, <1>5 DEF qe
<1> HIDE DEF r
<1>7. q \o (e \o r) = (q \o e) \o r
  <2>1. regroup(q, e, r)
    BY <1>4, Regroup
  <2> QED BY <2>1 DEF regroup
<1>8. quoted_text(s) = qe \o q
  BY <1>2 DEF quoted_text, qe, q
<1>9. Len(qe \o q) = Len(e) + 2
  BY <1>5, <1>6 DEF qe
<1> QED BY <1>1, <1>6, <1>7, <1>8, <1>9 DEF onto, escaped_before, e, q, r, qe, Text

LEMMA QuotedEnds ==
  ASSUME NEW s \in Text
  PROVE  /\ quoted_text(s)[1] = quote /\ quoted_text(s)[Len(quoted_text(s))] = quote
         /\ Len(quoted_text(s)) \in Nat /\ Len(quoted_text(s)) >= 2
<1> DEFINE w == quoted_text(s)
           e == json_escape(s)
<1>1. e \in Text /\ w \in Text /\ Len(w) = Len(e) + 2 /\ Len(e) \in Nat
  BY JsonEscapes, QuotedText DEF Text
<1>2. w = <<quote>> \o e \o <<quote>>
  BY DEF quoted_text
<1> HIDE DEF w, e
<1>3. w[1] = quote /\ w[Len(e) + 2] = quote
  BY <1>1, <1>2, QuoteOctet DEF Text
<1> QED BY <1>1, <1>3 DEF w

\* A string that was written is read back.
LEMMA QuotedRead ==
  ASSUME NEW s \in Text
  PROVE  parse_json_string(quoted_text(s)) = s
<1> DEFINE w == quoted_text(s)
           u == escaped_before(s, <<quote>>)
<1>1. w = onto(quote, u) /\ w \in Text /\ u \in Text
  <2>1. <<quote>> \in Text
    BY QuoteOctet DEF Text
  <2> QED BY <2>1, QuotedText, EscapedBefore, QuoteOctet
<1>2. w[1] = quote /\ w[Len(w)] = quote /\ Len(w) \in Nat /\ Len(w) >= 2
  BY QuotedEnds
<1>3. reads(u) = s
  BY ReadsEscaped
<1> HIDE DEF w, u
<1>4. \A i \in 1 .. (Len(u) + 1) : parsing(w)[1 + i] = parsing(u)[i]
  BY <1>1, ParsingBehind, QuoteOctet
<1>5. 1 \in 1 .. (Len(u) + 1)
  <2>1. Len(u) \in Nat
    BY <1>1 DEF Text
  <2> QED BY <2>1
<1>6. parsing(w)[1 + 1] = parsing(u)[1]
  BY <1>4, <1>5
<1>7. parse_json_string(w) = parsing(w)[2]
  <2>1. ~ (Len(w) < 2)
    BY <1>2
  <2> QED BY <1>2, <2>1 DEF parse_json_string, parsing
<1> QED BY <1>3, <1>6, <1>7 DEF w, reads

LEMMA QuotedBefore ==
  ASSUME NEW s \in Text, NEW t \in Text
  PROVE  quoted_text(s) \o t = quoted_before(s, t)
<1> DEFINE e == expanded(s, json_piece)
           q == <<quote>>
           r == q
           u == t
           qe == q \o e
           ru == r \o u
<1>1. e \in Seq(Octet) /\ u \in Seq(Octet) /\ q \in Seq(Octet) /\ r \in Seq(Octet)
  BY QuotedText, QuoteOctet DEF Text
<1>2. json_escape(s) = e
  BY JsonEscapes
<1> HIDE DEF e, q, r, u
<1>3. qe \in Seq(Octet) /\ ru \in Seq(Octet)
  BY <1>1
<1> HIDE DEF qe, ru
<1>4. qe \in Seq(Octet) /\ r \in Seq(Octet) /\ u \in Seq(Octet)
  BY <1>1, <1>3
<1>5. qe \o (r \o u) = (qe \o r) \o u
  <2>1. regroup(qe, r, u)
    BY <1>4, Regroup
  <2> QED BY <2>1 DEF regroup
<1>6. q \in Seq(Octet) /\ e \in Seq(Octet) /\ ru \in Seq(Octet)
  BY <1>1, <1>3
<1>7. q \o (e \o ru) = (q \o e) \o ru
  <2>1. regroup(q, e, ru)
    BY <1>6, Regroup
  <2> QED BY <2>1 DEF regroup
<1>8. (qe \o r) \o u = q \o (e \o ru)
  BY <1>5, <1>7 DEF qe, ru
<1> QED BY <1>2, <1>8 DEF quoted_text, quoted_before, escaped_before, onto, e, q, r, u, qe, ru

\* It is skipped whole, whatever follows it.
LEMMA QuotedSkipped ==
  ASSUME NEW s \in Text, NEW t \in Text
  PROVE  skip_json_string(quoted_text(s) \o t, 1) = Len(quoted_text(s)) + 1
<1> DEFINE l == Len(expanded(s, json_piece))
<1>1. skip_json_string(quoted_text(s) \o t, 1) = l + 3
  BY QuotedBefore, SkipsQuoted
<1>2. Len(quoted_text(s)) = l + 2 /\ l \in Nat
  BY QuotedText DEF Text
<1> HIDE DEF l
<1>3. (l + 2) + 1 = l + 3
  BY <1>2
<1> QED BY <1>1, <1>2, <1>3

\* No two texts are written as the same string.
LEMMA QuotedOnce ==
  ASSUME NEW s \in Text, NEW t \in Text, quoted_text(s) = quoted_text(t)
  PROVE  s = t
<1>1. parse_json_string(quoted_text(s)) = s /\ parse_json_string(quoted_text(t)) = t
  BY QuotedRead
<1> QED BY <1>1

\* Where a quote is within a string: behind a backslash.
behind_backslash(e) ==
  \A p \in 1 .. Len(e) : e[p] = quote => p - 1 \in 1 .. Len(e) /\ e[p - 1] = backslash

LEMMA ConcatItems ==
  ASSUME NEW A, NEW s \in Seq(A), NEW t \in Seq(A)
  PROVE  /\ concat(s, t) \in Seq(A) /\ Len(concat(s, t)) = Len(s) + Len(t)
         /\ \A i \in 1 .. Len(s) : concat(s, t)[i] = s[i]
         /\ \A i \in 1 .. Len(t) : concat(s, t)[Len(s) + i] = t[i]
BY DEF concat

LEMMA BehindConcat ==
  ASSUME NEW s \in Text, NEW t \in Text, behind_backslash(s), behind_backslash(t)
  PROVE  behind_backslash(concat(s, t))
<1> DEFINE w == concat(s, t)
           k == Len(s)
           n == Len(t)
<1>1. /\ Len(w) = k + n /\ k \in Nat /\ n \in Nat
      /\ \A i \in 1 .. k : w[i] = s[i]
      /\ \A i \in 1 .. n : w[k + i] = t[i]
  <2>1. s \in Seq(Octet) /\ t \in Seq(Octet)
    BY DEF Text
  <2>3. Len(s) \in Nat /\ Len(t) \in Nat
    BY <2>1
  <2>2. /\ Len(concat(s, t)) = Len(s) + Len(t)
        /\ \A i \in 1 .. Len(s) : concat(s, t)[i] = s[i]
        /\ \A i \in 1 .. Len(t) : concat(s, t)[Len(s) + i] = t[i]
    <3>1. Len(concat(s, t)) = Len(s) + Len(t)
      BY <2>1, Concat
    <3>2. \A i \in 1 .. Len(s) : concat(s, t)[i] = s[i]
      BY <2>1 DEF concat
    <3>3. \A i \in 1 .. Len(t) : concat(s, t)[Len(s) + i] = t[i]
      BY <2>1 DEF concat
    <3> QED BY <3>1, <3>2, <3>3
  <2> QED BY <2>2, <2>3
<1> HIDE DEF w, k, n
<1>2. ASSUME NEW p \in 1 .. Len(w), w[p] = quote
      PROVE  p - 1 \in 1 .. Len(w) /\ w[p - 1] = backslash
  <2>1. CASE p <= k
    <3>1. p \in 1 .. k /\ s[p] = quote
      BY <1>1, <1>2, <2>1
    <3>2. p - 1 \in 1 .. k /\ s[p - 1] = backslash
      BY <3>1 DEF behind_backslash, k
    <3> QED BY <1>1, <3>2
  <2>2. CASE p > k
    <3>1. p - k \in 1 .. n /\ p = k + (p - k) /\ t[p - k] = quote
      <4>1. p - k \in 1 .. n /\ p = k + (p - k)
        BY <1>1, <2>2
      <4> QED BY <1>1, <1>2, <4>1
    <3>2. (p - k) - 1 \in 1 .. n /\ t[(p - k) - 1] = backslash
      BY <3>1 DEF behind_backslash, n
    <3>3. w[k + ((p - k) - 1)] = backslash
      BY <1>1, <3>2
    <3>4. k + ((p - k) - 1) = p - 1 /\ p - 1 \in 1 .. Len(w)
      BY <1>1, <3>1, <3>2, SMTT(60)
    <3> QED BY <3>3, <3>4
  <2> QED BY <1>1, <2>1, <2>2
<1> QED BY <1>2 DEF behind_backslash, w

LEMMA BehindPiece ==
  ASSUME NEW c \in Octet
  PROVE  json_piece[c] \in Text /\ behind_backslash(json_piece[c])
<1>0. json_piece[c] \in Text
  BY JsonPiece, MapType DEF Text
<1>1. CASE c \in Escaped
  <2> DEFINE w == json_piece[c]
  <2>1. w = <<backslash, escape_of[c]>>
    BY <1>1, JsonPiece
  <2>2. Len(w) = 2 /\ w[1] = backslash
    BY <2>1
  <2> HIDE DEF w
  <2>3. ASSUME NEW p \in 1 .. Len(w), w[p] = quote
        PROVE  p - 1 \in 1 .. Len(w) /\ w[p - 1] = backslash
    <3>1. p = 1 \/ p = 2
      BY <2>2
    <3>2. p # 1
      BY <2>2, <2>3, QuoteOctet
    <3> QED BY <2>2, <3>1, <3>2
  <2> QED BY <1>0, <2>3 DEF behind_backslash, w
<1>2. CASE c \notin Escaped
  <2> DEFINE w == json_piece[c]
  <2>1. w = <<c>> /\ c # quote
    BY <1>2, JsonPiece DEF Escaped
  <2>2. Len(w) = 1 /\ w[1] # quote
    BY <2>1
  <2> HIDE DEF w
  <2>3. \A p \in 1 .. Len(w) : w[p] # quote
    BY <2>2
  <2> QED BY <1>0, <2>3 DEF behind_backslash, w
<1> QED BY <1>1, <1>2

\* Every quote in what is written of a text is behind a backslash.
LEMMA BehindEscaped ==
  ASSUME NEW s \in Text
  PROVE  behind_backslash(expanded(s, json_piece))
<1> DEFINE P == {u \in Text : behind_backslash(expanded(u, json_piece))}
<1>1. <<>> \in P
  <2> DEFINE e == expanded(<<>>, json_piece)
  <2>1. Len(e) = 0 /\ <<>> \in Text
    BY ExpandedEmpty DEF Text
  <2> HIDE DEF e
  <2>2. behind_backslash(e)
    BY <2>1 DEF behind_backslash
  <2> QED BY <2>1, <2>2 DEF e
<1>2. ASSUME NEW c \in Octet, NEW u \in Seq(Octet), u \in P PROVE onto(c, u) \in P
  <2>1. expanded(u, json_piece) \in Text /\ behind_backslash(expanded(u, json_piece))
        /\ onto(c, u) \in Text
    <3>1. onto(c, u) \in Text
      BY OntoItems DEF Text
    <3> QED BY <1>2, <3>1, QuotedText
  <2>2. expanded(onto(c, u), json_piece) = concat(json_piece[c], expanded(u, json_piece))
    BY JsonPiece, ExpandedFront DEF concat
  <2>3. behind_backslash(concat(json_piece[c], expanded(u, json_piece)))
    BY <2>1, BehindPiece, BehindConcat
  <2> QED BY <2>1, <2>2, <2>3
<1> HIDE DEF P
<1>3. Seq(Octet) \subseteq P
  BY <1>1, <1>2, FromFront
<1> QED BY <1>3 DEF P, Text

\* A name that json_escape leaves as it is has no byte that is escaped.
Plain == Octet \ Escaped

\* A name that is written as it is has no byte to escape.
LEMMA PlainName ==
  ASSUME NEW s \in Text
  PROVE  /\ Len(expanded(s, json_piece)) >= Len(s)
         /\ expanded(s, json_piece) = s => s \in Seq(Plain)
<1> DEFINE P == {u \in Text : /\ Len(expanded(u, json_piece)) \in Nat
                              /\ Len(expanded(u, json_piece)) >= Len(u)
                              /\ Len(expanded(u, json_piece)) = Len(u) => u \in Seq(Plain)}
<1>1. <<>> \in P
  <2>1. expanded(<<>>, json_piece) = <<>> /\ <<>> \in Text /\ <<>> \in Seq(Plain) /\ Len(<<>>) = 0
    BY ExpandedEmpty DEF Text
  <2> QED BY <2>1
<1>2. ASSUME NEW c \in Octet, NEW u \in Seq(Octet), u \in P PROVE onto(c, u) \in P
  <2> DEFINE w == onto(c, u)
             l == Len(expanded(u, json_piece))
             m == Len(expanded(w, json_piece))
             n == Len(u)
  <2>1. l \in Nat /\ n \in Nat /\ l >= n /\ (l = n => u \in Seq(Plain))
    BY <1>2
  <2>2. m = Len(json_piece[c]) + l
    BY EscapedBefore DEF Text
  <2>3. w \in Text /\ Len(w) = n + 1
    <3>1. w \in Seq(Octet) /\ Len(w) = Len(u) + 1
      BY OntoItems
    <3> QED BY <3>1 DEF Text
  <2> HIDE DEF l, m, n
  <2>4. CASE c \in Escaped
    <3>1. json_piece[c] = <<backslash, escape_of[c]>>
      BY <2>4, JsonPiece
    <3>2. Len(<<backslash, escape_of[c]>>) = 2
      OBVIOUS
    <3>3. m = 2 + l /\ m \in Nat /\ m >= n + 1 /\ m # n + 1
      BY <2>1, <2>2, <3>1, <3>2
    <3>4. m \in Nat /\ m >= Len(w) /\ m # Len(w)
      BY <2>3, <3>3
    <3> QED BY <2>3, <3>4 DEF m
  <2>5. CASE c \notin Escaped
    <3>1. json_piece[c] = <<c>>
      BY <2>5, JsonPiece
    <3>2. Len(<<c>>) = 1
      OBVIOUS
    <3>3. m = 1 + l /\ m \in Nat /\ m >= n + 1 /\ (m = n + 1 => l = n)
      BY <2>1, <2>2, <3>1, <3>2
    <3>4. l = n => w \in Seq(Plain)
      <4> SUFFICES ASSUME l = n PROVE w \in Seq(Plain)
        OBVIOUS
      <4>1. c \in Plain /\ u \in Seq(Plain)
        BY <2>1, <2>5 DEF Plain
      <4> QED BY <4>1, OntoItems
    <3>5. m \in Nat /\ m >= Len(w) /\ (m = Len(w) => w \in Seq(Plain))
      BY <2>3, <3>3, <3>4
    <3> QED BY <2>3, <3>5 DEF m
  <2> QED BY <2>4, <2>5
<1> HIDE DEF P
<1>3. Seq(Octet) \subseteq P
  BY <1>1, <1>2, FromFront
<1>4. s \in P
  BY <1>3 DEF Text
<1> QED BY <1>4 DEF P

\* A sequence with a byte behind it.
append(s, a) == s \o <<a>>

LEMMA Appended ==
  ASSUME NEW A, NEW s \in Seq(A), NEW a \in A
  PROVE  /\ append(s, a) \in Seq(A) /\ Len(append(s, a)) = Len(s) + 1
         /\ append(s, a)[Len(s) + 1] = a
         /\ \A i \in 1 .. Len(s) : append(s, a)[i] = s[i]
<1>1. append(s, a) \in Seq(A)
  BY DEF append
<1>2. Len(append(s, a)) = Len(s) + 1
  BY DEF append
<1>3. append(s, a)[Len(s) + 1] = a
  BY DEF append
<1>4. \A i \in 1 .. Len(s) : append(s, a)[i] = s[i]
  BY DEF append
<1> QED BY <1>1, <1>2, <1>3, <1>4

LEMMA AppendedSame ==
  ASSUME NEW A, NEW s \in Seq(A), NEW a \in A, NEW t \in Seq(A), NEW b \in A,
         append(s, a) = append(t, b)
  PROVE  s = t /\ a = b
<1>0. Len(s) \in Nat /\ Len(t) \in Nat
  OBVIOUS
<1>1. /\ Len(append(s, a)) = Len(s) + 1 /\ append(s, a)[Len(s) + 1] = a
      /\ \A i \in 1 .. Len(s) : append(s, a)[i] = s[i]
  BY Appended
<1>2. /\ Len(append(t, b)) = Len(t) + 1 /\ append(t, b)[Len(t) + 1] = b
      /\ \A i \in 1 .. Len(t) : append(t, b)[i] = t[i]
  BY Appended, ZenonT(90)
<1>3. Len(s) = Len(t)
  BY <1>0, <1>1, <1>2
<1>4. \A i \in 1 .. Len(s) : s[i] = t[i]
  BY <1>1, <1>2, <1>3
<1>5. s = t
  BY <1>3, <1>4, SeqEqual
<1> QED BY <1>1, <1>2, <1>3, <1>5

LEMMA AllButLast ==
  ASSUME NEW A, NEW s \in Seq(A), NEW n, n = Len(s), n # 0
  PROVE  /\ SubSeq(s, 1, n - 1) \in Seq(A) /\ Len(SubSeq(s, 1, n - 1)) = n - 1
         /\ \A i \in 1 .. (n - 1) : SubSeq(s, 1, n - 1)[i] = s[i]
<1>1. SubSeq(s, 1, n - 1) \in Seq(A) /\ Len(SubSeq(s, 1, n - 1)) = n - 1
  OBVIOUS
<1>2. \A i \in 1 .. (n - 1) : SubSeq(s, 1, n - 1)[i] = s[i]
  OBVIOUS
<1> QED BY <1>1, <1>2

\* A sequence that is not empty has a last item.
LEMMA AppendedSplit ==
  ASSUME NEW A, NEW s \in Seq(A), Len(s) # 0
  PROVE  \E w \in Seq(A), a \in A : s = append(w, a)
<1> DEFINE n == Len(s)
           w == SubSeq(s, 1, n - 1)
           a == s[n]
<1>1. n \in Nat /\ n # 0 /\ w \in Seq(A) /\ Len(w) = n - 1 /\ a \in A
      /\ \A i \in 1 .. (n - 1) : w[i] = s[i]
  <2>1. n \in Nat /\ n # 0
    OBVIOUS
  <2>2. w \in Seq(A) /\ Len(w) = n - 1
    BY <2>1, AllButLast
  <2>3. a \in A
    BY <2>1
  <2>4. \A i \in 1 .. (n - 1) : w[i] = s[i]
    BY <2>1
  <2> QED BY <2>1, <2>2, <2>3, <2>4
<1> HIDE DEF w, a
<1>2. append(w, a) \in Seq(A) /\ Len(append(w, a)) = Len(w) + 1 /\ append(w, a)[Len(w) + 1] = a
      /\ \A i \in 1 .. Len(w) : append(w, a)[i] = w[i]
  BY <1>1, Appended, ZenonT(90)
<1>3. \A i \in 1 .. n : s[i] = append(w, a)[i]
  <2> SUFFICES ASSUME NEW i \in 1 .. n PROVE s[i] = append(w, a)[i]
    OBVIOUS
  <2>1. CASE i = n
    BY <1>1, <1>2, <2>1 DEF a
  <2>2. CASE i # n
    <3>1. i \in 1 .. (n - 1) /\ i \in 1 .. Len(w)
      BY <1>1, <2>2
    <3> QED BY <1>1, <1>2, <3>1
  <2> QED BY <2>1, <2>2
<1>4. Len(append(w, a)) = n
  BY <1>1, <1>2
<1>5. s = append(w, a)
  BY <1>2, <1>3, <1>4, SeqEqual
<1> QED BY <1>1, <1>5

LEMMA ConcatAppended ==
  ASSUME NEW A, NEW s \in Seq(A), NEW t \in Seq(A), NEW a \in A
  PROVE  concat(s, append(t, a)) = append(concat(s, t), a)
BY DEF concat, append

\* What is written of the last byte of a string.
LEMMA ExpandedBack ==
  ASSUME NEW w \in Text, NEW c \in Octet
  PROVE  LET e == expanded(w, json_piece) IN
         /\ e \in Text /\ append(w, c) \in Text
         /\ \/ /\ c \in Escaped /\ escape_of[c] \in Octet /\ append(e, backslash) \in Text
               /\ expanded(append(w, c), json_piece) = append(append(e, backslash), escape_of[c])
            \/ /\ c \notin Escaped
               /\ expanded(append(w, c), json_piece) = append(e, c)
<1> DEFINE e == expanded(w, json_piece)
           one == <<c>>
           p == json_piece[c]
<1>1. e \in Seq(Octet) /\ one \in Seq(Octet) /\ w \in Seq(Octet) /\ p \in Seq(Octet)
  <2>1. e \in Seq(Octet)
    BY QuotedText DEF Text
  <2>2. p \in Seq(Octet)
    BY JsonPiece, MapType
  <2> QED BY <2>1, <2>2 DEF Text
<1>2. expanded(one, json_piece) = p
  <2>1. one = onto(c, <<>>)
    BY DEF onto
  <2>2. expanded(onto(c, <<>>), json_piece) = p \o expanded(<<>>, json_piece)
    <3>1. <<>> \in Seq(Octet)
      OBVIOUS
    <3> QED BY <3>1, JsonPiece, ExpandedFront
  <2>3. expanded(<<>>, json_piece) = <<>>
    BY ExpandedEmpty
  <2> HIDE DEF p
  <2>4. p \o <<>> = p
    BY <1>1
  <2> QED BY <2>1, <2>2, <2>3, <2>4
<1>3. expanded(append(w, c), json_piece) = concat(e, p)
  <2> HIDE DEF one
  <2>1. expanded(w \o one, json_piece) = expanded(w, json_piece) \o expanded(one, json_piece)
    BY <1>1, JsonPiece, ExpandedConcat, SMTT(60)
  <2> QED BY <1>2, <2>1 DEF append, concat, one
<1>4. append(w, c) \in Text
  BY <1>1, Appended DEF Text
<1>5. CASE c \in Escaped
  <2> DEFINE x == escape_of[c]
             b == <<backslash>>
  <2>1. x \in Octet /\ backslash \in Octet
    BY <1>5, EscapeOf, QuoteOctet
  <2>2. p = append(b, x)
    <3>1. p = <<backslash, x>>
      BY <1>5, JsonPiece
    <3> HIDE DEF x
    <3>2. onto(backslash, <<x>>) = <<backslash, x>>
      BY <2>1, OntoOne
    <3> QED BY <3>1, <3>2 DEF onto, append
  <2> HIDE DEF e, x
  <2>3. concat(e, append(b, x)) = append(concat(e, b), x)
    <3>1. b \in Seq(Octet)
      BY <2>1
    <3> HIDE DEF b
    <3> QED BY <1>1, <2>1, <3>1, ConcatAppended
  <2>4. concat(e, b) = append(e, backslash)
    BY DEF concat, append
  <2>5. append(e, backslash) \in Text
    BY <1>1, <2>1, Appended DEF Text
  <2> QED BY <1>1, <1>3, <1>4, <1>5, <2>1, <2>2, <2>3, <2>4, <2>5 DEF e, x, Text
<1>6. CASE c \notin Escaped
  <2>1. p = <<c>>
    BY <1>6, JsonPiece
  <2> QED BY <1>1, <1>3, <1>4, <1>6, <2>1 DEF append, concat, Text
<1> QED BY <1>5, <1>6

\* A string whose written form ends with a quote and a plain name ends with them.
LEMMA QuoteCut ==
  ASSUME NEW name \in Seq(Plain), NEW v \in Text, NEW y \in Text,
         expanded(v, json_piece) = cut(y, quote, name)
  PROVE  \E z \in Text : v = cut(z, quote, name)
<1>0. Plain \subseteq Octet /\ quote \notin Plain /\ backslash \notin Plain /\ quote \in Escaped
  BY DEF Plain, Escaped
<1>00. quote \in Octet /\ backslash \in Octet /\ quote # backslash
  BY QuoteOctet
<1> DEFINE holds(u) == \A s, x \in Text : expanded(s, json_piece) = cut(x, quote, u)
                                            => \E z \in Text : s = cut(z, quote, u)
           P == {u \in Seq(Plain) : holds(u)}
<1>1. \A x \in Text : cut(x, quote, <<>>) = append(x, quote)
  <2> SUFFICES ASSUME NEW x \in Text PROVE cut(x, quote, <<>>) = append(x, quote)
    OBVIOUS
  <2> DEFINE w == append(x, quote)
  <2>1. w \in Seq(Octet)
    BY <1>00, Appended DEF Text
  <2> HIDE DEF w
  <2>2. w \o <<>> = w
    BY <2>1
  <2> QED BY <2>2 DEF w, append, cut
<1>2. ASSUME NEW x \in Text, NEW u \in Seq(Plain), NEW a \in Plain
      PROVE  /\ cut(x, quote, append(u, a)) = append(cut(x, quote, u), a)
             /\ cut(x, quote, u) \in Text
  <2> DEFINE w == append(x, quote)
  <2>1. u \in Seq(Octet) /\ a \in Octet
    <3>1. Seq(Plain) \subseteq Seq(Octet)
      BY <1>0, SeqMonotonic
    <3> QED BY <1>0, <3>1
  <2>2. w \in Seq(Octet)
    BY <1>00, Appended DEF Text
  <2> HIDE DEF w
  <2>3. concat(w, append(u, a)) = append(concat(w, u), a)
    BY <2>1, <2>2, ConcatAppended
  <2>4. concat(w, u) \in Seq(Octet)
    BY <2>1, <2>2, Concat
  <2> QED BY <2>3, <2>4 DEF w, append, concat, cut, Text
<1>3. <<>> \in P
  <2> SUFFICES ASSUME NEW s \in Text, NEW x \in Text,
                      expanded(s, json_piece) = cut(x, quote, <<>>)
               PROVE  \E z \in Text : s = cut(z, quote, <<>>)
    OBVIOUS
  <2>1. expanded(s, json_piece) = append(x, quote) /\ x \in Seq(Octet)
    BY <1>1 DEF Text
  <2>2. Len(s) # 0
    <3> SUFFICES ASSUME Len(s) = 0 PROVE FALSE
      OBVIOUS
    <3>1. s = <<>>
      BY DEF Text
    <3>2. expanded(<<>>, json_piece) = <<>>
      BY ExpandedEmpty
    <3>3. Len(append(x, quote)) = Len(x) + 1
      BY <1>00, <2>1, Appended
    <3>7. Len(x) \in Nat
      BY <2>1
    <3>4. Len(append(x, quote)) # 0
      BY <3>3, <3>7
    <3>5. append(x, quote) = <<>>
      BY <2>1, <3>1, <3>2
    <3>6. Len(<<>>) = 0
      OBVIOUS
    <3> QED BY <3>4, <3>5, <3>6
  <2>3. PICK w \in Text, c \in Octet : s = append(w, c)
    BY <2>2, AppendedSplit DEF Text
  <2> DEFINE e == expanded(w, json_piece)
  <2>4. CASE c \in Escaped
    <3>1. /\ escape_of[c] \in Octet /\ append(e, backslash) \in Seq(Octet)
          /\ append(append(e, backslash), escape_of[c]) = append(x, quote)
      BY <2>1, <2>3, <2>4, ExpandedBack DEF Text
    <3>2. escape_of[c] = quote
      <4> HIDE DEF e
      <4> DEFINE h == append(e, backslash)
                 k == escape_of[c]
      <4>1. h \in Seq(Octet) /\ k \in Octet /\ append(h, k) = append(x, quote)
        BY <3>1
      <4> HIDE DEF h, k
      <4>2. k = quote
        BY <1>00, <2>1, <4>1, AppendedSame
      <4> QED BY <4>2 DEF k
    <3>3. c = quote
      BY <2>4, <3>2, EscapeOf
    <3> QED BY <1>1, <2>3, <3>3
  <2>5. CASE c \notin Escaped
    <3>1. e \in Seq(Octet) /\ append(e, c) = append(x, quote)
      BY <2>1, <2>3, <2>5, ExpandedBack DEF Text
    <3> HIDE DEF e
    <3>2. c = quote
      BY <1>00, <2>1, <3>1, AppendedSame
    <3> QED BY <1>0, <2>5, <3>2
  <2> QED BY <2>4, <2>5
<1>4. ASSUME NEW a \in Plain, NEW u \in Seq(Plain), u \in P PROVE u \o <<a>> \in P
  <2> SUFFICES ASSUME NEW s \in Text, NEW x \in Text,
                      expanded(s, json_piece) = cut(x, quote, append(u, a))
               PROVE  \E z \in Text : s = cut(z, quote, append(u, a))
    <3>1. u \o <<a>> \in Seq(Plain)
      OBVIOUS
    <3> QED BY <3>1 DEF append
  <2> DEFINE h == cut(x, quote, u)
  <2>1. expanded(s, json_piece) = append(h, a) /\ h \in Seq(Octet) /\ a \in Octet
    BY <1>0, <1>2 DEF Text
  <2>2. Len(s) # 0
    <3> HIDE DEF h
    <3> SUFFICES ASSUME Len(s) = 0 PROVE FALSE
      OBVIOUS
    <3>1. s = <<>>
      BY DEF Text
    <3>2. expanded(<<>>, json_piece) = <<>>
      BY ExpandedEmpty
    <3>3. Len(append(h, a)) = Len(h) + 1
      BY <2>1, Appended
    <3>7. Len(h) \in Nat
      BY <2>1
    <3>4. Len(append(h, a)) # 0
      BY <3>3, <3>7
    <3>5. append(h, a) = <<>>
      BY <2>1, <3>1, <3>2
    <3>6. Len(<<>>) = 0
      OBVIOUS
    <3> QED BY <3>4, <3>5, <3>6
  <2>3. PICK w \in Text, c \in Octet : s = append(w, c)
    BY <2>2, AppendedSplit DEF Text
  <2> DEFINE e == expanded(w, json_piece)
  <2>4. CASE c \in Escaped
    <3> DEFINE g == append(e, backslash)
               k == escape_of[c]
    <3>1. e \in Seq(Octet) /\ g \in Seq(Octet) /\ k \in Octet /\ append(g, k) = append(h, a)
      BY <2>1, <2>3, <2>4, ExpandedBack DEF Text
    <3>2. g = h
      <4> HIDE DEF g, k, h
      <4> QED BY <2>1, <3>1, AppendedSame
    <3>3. FALSE
      <4>1. CASE Len(u) = 0
        <5>1. u = <<>>
          BY <4>1
        <5>2. append(e, backslash) = append(x, quote) /\ x \in Seq(Octet)
          BY <1>1, <3>2, <5>1 DEF Text
        <5> HIDE DEF e
        <5>3. backslash = quote
          BY <1>00, <3>1, <5>2, AppendedSame
        <5> QED BY <1>00, <5>3
      <4>2. CASE Len(u) # 0
        <5>1. PICK r \in Seq(Plain), b \in Plain : u = append(r, b)
          BY <4>2, AppendedSplit
        <5> DEFINE d == cut(x, quote, r)
        <5>2. append(e, backslash) = append(d, b) /\ d \in Seq(Octet) /\ b \in Octet
          BY <1>0, <1>2, <3>2, <5>1 DEF Text
        <5> HIDE DEF e, d
        <5>3. backslash = b
          BY <1>00, <3>1, <5>2, AppendedSame
        <5> QED BY <1>0, <5>3
      <4> QED BY <4>1, <4>2
    <3> QED BY <3>3
  <2>5. CASE c \notin Escaped
    <3>1. e \in Seq(Octet) /\ append(e, c) = append(h, a)
      BY <2>1, <2>3, <2>5, ExpandedBack DEF Text
    <3>2. e = h /\ c = a
      <4> HIDE DEF e, h
      <4> QED BY <2>1, <3>1, AppendedSame
    <3>3. PICK z \in Text : w = cut(z, quote, u)
      BY <1>4, <3>2
    <3>4. s = cut(z, quote, append(u, a))
      BY <1>2, <2>3, <3>2, <3>3
    <3> QED BY <3>4
  <2> QED BY <2>4, <2>5
<1> HIDE DEF P
<1>5. Seq(Plain) \subseteq P
  BY <1>3, <1>4, FromBack
<1>6. name \in P
  BY <1>5
<1> QED BY <1>6 DEF P

\* The end of a text, by its bytes.
ends_as(x, s) ==
  Len(x) <= Len(s) /\ \A i \in 1 .. Len(x) : s[Len(s) - Len(x) + i] = x[i]

LEMMA Prefix ==
  ASSUME NEW x \in Text, NEW s \in Text
  PROVE  IsPrefix(x, s) <=> Len(x) <= Len(s) /\ \A i \in 1 .. Len(x) : s[i] = x[i]
<1> DEFINE n == Len(x)
           u == SubSeq(x, 1, n)
           v == SubSeq(s, 1, n)
<1>0. n \in Nat /\ Len(s) \in Nat
  BY DEF Text
<1>1. ASSUME n <= Len(s)
      PROVE  u = v <=> \A i \in 1 .. n : s[i] = x[i]
  <2>1. u = x
    BY DEF Text
  <2>2. v \in Seq(Octet) /\ Len(v) = n
    BY <1>0, <1>1 DEF Text
  <2>3. \A i \in 1 .. n : v[i] = s[i]
    BY <1>0, <1>1 DEF Text
  <2> HIDE DEF u, v
  <2>4. u = v => \A i \in 1 .. n : s[i] = x[i]
    BY <2>1, <2>3
  <2>5. (\A i \in 1 .. n : s[i] = x[i]) => u = v
    <3> HAVE \A i \in 1 .. n : s[i] = x[i]
    <3>1. \A i \in 1 .. Len(v) : v[i] = x[i]
      BY <2>2, <2>3
    <3>2. v = x
      BY <2>2, <3>1, SeqEqual DEF Text
    <3> QED BY <2>1, <3>2
  <2> QED BY <2>4, <2>5
<1> QED BY <1>1 DEF IsPrefix

LEMMA Reversed ==
  ASSUME NEW s \in Text
  PROVE  /\ Reverse(s) \in Text /\ Len(Reverse(s)) = Len(s) /\ Len(s) \in Nat
         /\ \A i \in 1 .. Len(s) : Reverse(s)[i] = s[Len(s) - i + 1]
<1>1. Len(s) \in Nat /\ \A i \in 1 .. Len(s) : s[(Len(s) - i) + 1] \in Octet
  BY DEF Text
<1>2. Reverse(s) \in Seq(Octet) /\ Len(Reverse(s)) = Len(s)
  BY <1>1 DEF Reverse
<1>3. \A i \in 1 .. Len(s) : Reverse(s)[i] = s[Len(s) - i + 1]
  BY <1>1 DEF Reverse
<1> QED BY <1>1, <1>2, <1>3 DEF Text

\* IsSuffix compares the last items.
LEMMA Suffix ==
  ASSUME NEW x \in Text, NEW s \in Text
  PROVE  IsSuffix(x, s) <=> ends_as(x, s)
<1> DEFINE n == Len(x)
           m == Len(s)
           u == Reverse(x)
           v == Reverse(s)
<1>1. u \in Text /\ Len(u) = n /\ n \in Nat /\ \A i \in 1 .. n : u[i] = x[n - i + 1]
  BY Reversed
<1>2. v \in Text /\ Len(v) = m /\ m \in Nat /\ \A i \in 1 .. m : v[i] = s[m - i + 1]
  BY Reversed
<1>3. IsSuffix(x, s) <=> IsPrefix(u, v)
  BY DEF IsSuffix
<1> HIDE DEF u, v, n, m
<1>4. IsPrefix(u, v) <=> n <= m /\ \A i \in 1 .. n : v[i] = u[i]
  BY <1>1, <1>2, Prefix
<1>5. ASSUME n <= m
      PROVE  (\A i \in 1 .. n : v[i] = u[i]) <=> \A i \in 1 .. n : s[m - n + i] = x[i]
  <2>1. ASSUME \A i \in 1 .. n : v[i] = u[i], NEW i \in 1 .. n
        PROVE  s[m - n + i] = x[i]
    <3> DEFINE k == n - i + 1
    <3>1. k \in 1 .. n /\ k \in 1 .. m /\ m - k + 1 = m - n + i /\ n - k + 1 = i
      BY <1>1, <1>2, <1>5
    <3> HIDE DEF k
    <3>2. v[k] = s[m - k + 1] /\ u[k] = x[n - k + 1] /\ v[k] = u[k]
      BY <1>1, <1>2, <2>1, <3>1
    <3> QED BY <3>1, <3>2
  <2>2. ASSUME \A i \in 1 .. n : s[m - n + i] = x[i], NEW k \in 1 .. n
        PROVE  v[k] = u[k]
    <3> DEFINE i == n - k + 1
    <3>1. i \in 1 .. n /\ k \in 1 .. m /\ m - k + 1 = m - n + i /\ n - k + 1 = i
      BY <1>1, <1>2, <1>5
    <3> HIDE DEF i
    <3>2. v[k] = s[m - k + 1] /\ u[k] = x[n - k + 1] /\ s[m - n + i] = x[i]
      BY <1>1, <1>2, <2>2, <3>1
    <3> QED BY <3>1, <3>2
  <2> QED BY <2>1, <2>2
<1> QED BY <1>3, <1>4, <1>5 DEF ends_as, n, m

LEMMA CutItems ==
  ASSUME NEW y \in Text, NEW c \in Octet, NEW t \in Text
  PROVE  /\ cut(y, c, t) \in Text /\ Len(cut(y, c, t)) = Len(y) + 1 + Len(t)
         /\ Len(y) \in Nat /\ Len(t) \in Nat
         /\ \A i \in 1 .. Len(y) : cut(y, c, t)[i] = y[i]
         /\ cut(y, c, t)[Len(y) + 1] = c
         /\ \A i \in 1 .. Len(t) : cut(y, c, t)[Len(y) + 1 + i] = t[i]
<1>0. y \in Seq(Octet) /\ t \in Seq(Octet)
  BY DEF Text
<1> DEFINE w == append(y, c)
<1>1. /\ w \in Seq(Octet) /\ Len(w) = Len(y) + 1 /\ w[Len(y) + 1] = c
      /\ \A i \in 1 .. Len(y) : w[i] = y[i]
  BY <1>0, Appended
<1>2. cut(y, c, t) = concat(w, t)
  BY DEF cut, concat, append
<1>3. Len(y) \in Nat /\ Len(t) \in Nat
  BY <1>0
<1> HIDE DEF w
<1>4. /\ concat(w, t) \in Seq(Octet) /\ Len(concat(w, t)) = Len(w) + Len(t)
      /\ \A i \in 1 .. Len(w) : concat(w, t)[i] = w[i]
      /\ \A i \in 1 .. Len(t) : concat(w, t)[Len(w) + i] = t[i]
  <2>1. concat(w, t) \in Seq(Octet) /\ Len(concat(w, t)) = Len(w) + Len(t)
    BY <1>0, <1>1, ConcatItems
  <2>2. \A i \in 1 .. Len(w) : concat(w, t)[i] = w[i]
    BY <1>0, <1>1, ConcatItems
  <2>3. \A i \in 1 .. Len(t) : concat(w, t)[Len(w) + i] = t[i]
    BY <1>0, <1>1 DEF concat
  <2> QED BY <2>1, <2>2, <2>3
<1>5. \A i \in 1 .. Len(y) : concat(w, t)[i] = y[i]
  <2> SUFFICES ASSUME NEW i \in 1 .. Len(y) PROVE concat(w, t)[i] = y[i]
    OBVIOUS
  <2>1. i \in 1 .. Len(w)
    BY <1>1, <1>3
  <2> QED BY <1>1, <1>4, <2>1
<1>6. concat(w, t)[Len(y) + 1] = c
  <2>1. Len(y) + 1 \in 1 .. Len(w)
    BY <1>1, <1>3
  <2> QED BY <1>1, <1>4, <2>1
<1>7. Len(concat(w, t)) = Len(y) + 1 + Len(t)
  BY <1>1, <1>4
<1>8. \A i \in 1 .. Len(t) : concat(w, t)[Len(y) + 1 + i] = t[i]
  BY <1>1, <1>4
<1> QED BY <1>2, <1>3, <1>4, <1>5, <1>6, <1>7, <1>8 DEF Text

\* A text ends as c and t do iff c and t were put behind some text.
LEMMA CutEnds ==
  ASSUME NEW c \in Octet, NEW t \in Text, NEW s \in Text
  PROVE  ends_as(onto(c, t), s) <=> \E y \in Text : s = cut(y, c, t)
<1> DEFINE x == onto(c, t)
           n == Len(t)
           m == Len(s)
<1>1. x \in Text /\ Len(x) = n + 1 /\ x[1] = c /\ (\A i \in 1 .. n : x[i + 1] = t[i])
  BY OntoItems DEF Text
<1>2. n \in Nat /\ m \in Nat
  BY DEF Text
<1> HIDE DEF x
<1>3. ASSUME ends_as(x, s) PROVE \E y \in Text : s = cut(y, c, t)
  <2> DEFINE k == m - n - 1
             y == SubSeq(s, 1, k)
  <2>1. n + 1 <= m /\ \A i \in 1 .. (n + 1) : s[k + i] = x[i]
    <3>1. Len(x) <= m /\ \A i \in 1 .. Len(x) : s[m - Len(x) + i] = x[i]
      BY <1>3 DEF ends_as
    <3>2. m - Len(x) = k
      BY <1>1, <1>2
    <3> QED BY <1>1, <3>1, <3>2
  <2>2. k \in 0 .. m /\ k + 1 + n = m
    BY <1>2, <2>1
  <2>3. y \in Text /\ Len(y) = k /\ \A i \in 1 .. k : y[i] = s[i]
    <3> HIDE DEF k
    <3>1. y \in Seq(Octet) /\ Len(y) = k
      BY <1>2, <2>2 DEF Text
    <3>2. \A i \in 1 .. k : y[i] = s[i]
      BY <1>2, <2>2 DEF Text
    <3> QED BY <3>1, <3>2 DEF Text
  <2> HIDE DEF y, k
  <2> DEFINE w == cut(y, c, t)
  <2>4. /\ w \in Text /\ Len(w) = Len(y) + 1 + n
        /\ \A i \in 1 .. Len(y) : w[i] = y[i]
        /\ w[Len(y) + 1] = c
        /\ \A i \in 1 .. n : w[Len(y) + 1 + i] = t[i]
    <3>1. w \in Text /\ Len(w) = Len(y) + 1 + n
      BY <2>3, CutItems
    <3>2. \A i \in 1 .. Len(y) : w[i] = y[i]
      BY <2>3, CutItems, ZenonT(90)
    <3>3. w[Len(y) + 1] = c
      BY <2>3, CutItems, ZenonT(90)
    <3>4. \A i \in 1 .. n : w[Len(y) + 1 + i] = t[i]
      BY <2>3, CutItems, ZenonT(90)
    <3> QED BY <3>1, <3>2, <3>3, <3>4
  <2> HIDE DEF w
  <2>5. \A i \in 1 .. m : s[i] = w[i]
    <3> SUFFICES ASSUME NEW i \in 1 .. m PROVE s[i] = w[i]
      OBVIOUS
    <3>1. CASE i <= k
      <4>1. i \in 1 .. k
        BY <1>2, <2>2, <3>1
      <4> QED BY <2>3, <2>4, <4>1
    <3>2. CASE i = k + 1
      <4>1. s[k + 1] = x[1]
        BY <1>2, <2>1
      <4> QED BY <1>1, <2>3, <2>4, <3>2, <4>1
    <3>3. CASE i > k + 1
      <4> DEFINE j == i - k - 1
      <4>1. j \in 1 .. n /\ j + 1 \in 1 .. (n + 1) /\ k + (j + 1) = i /\ k + 1 + j = i
        BY <1>2, <2>2, <3>3
      <4> HIDE DEF j
      <4>2. s[k + (j + 1)] = x[j + 1] /\ x[j + 1] = t[j] /\ w[k + 1 + j] = t[j]
        BY <1>1, <2>1, <2>3, <2>4, <4>1
      <4> QED BY <4>1, <4>2
    <3> QED BY <1>2, <2>2, <3>1, <3>2, <3>3
  <2>6. s = w
    <3>1. Len(s) = Len(w)
      BY <2>2, <2>3, <2>4
    <3> QED BY <2>4, <2>5, <3>1, SeqEqual DEF Text
  <2> QED BY <2>3, <2>6 DEF w
<1>4. ASSUME NEW y \in Text, s = cut(y, c, t) PROVE ends_as(x, s)
  <2> DEFINE l == Len(y)
  <2>1. /\ m = l + 1 + n /\ l \in Nat
        /\ s[l + 1] = c
        /\ \A i \in 1 .. n : s[l + 1 + i] = t[i]
    <3>1. m = l + 1 + n /\ l \in Nat
      BY <1>4, CutItems
    <3>2. s[l + 1] = c
      BY <1>4, CutItems, ZenonT(90)
    <3>3. \A i \in 1 .. n : s[l + 1 + i] = t[i]
      <4>1. \A i \in 1 .. Len(t) : cut(y, c, t)[Len(y) + 1 + i] = t[i]
        BY CutItems
      <4> QED BY ONLY <1>4, <4>1
    <3> QED BY <3>1, <3>2, <3>3
  <2> HIDE DEF l, m, n
  <2>2. m - Len(x) = l /\ Len(x) <= m
    BY <1>1, <1>2, <2>1
  <2>3. \A i \in 1 .. Len(x) : s[l + i] = x[i]
    <3> SUFFICES ASSUME NEW i \in 1 .. Len(x) PROVE s[l + i] = x[i]
      OBVIOUS
    <3>1. CASE i = 1
      BY <1>1, <2>1, <3>1
    <3>2. CASE i # 1
      <4> DEFINE j == i - 1
      <4>1. j \in 1 .. n /\ l + 1 + j = l + i /\ j + 1 = i
        BY <1>1, <1>2, <2>1, <3>2
      <4> HIDE DEF j
      <4>2. s[l + 1 + j] = t[j] /\ x[j + 1] = t[j]
        BY <1>1, <2>1, <4>1
      <4> QED BY <4>1, <4>2
    <3> QED BY <3>1, <3>2
  <2> QED BY <2>2, <2>3 DEF ends_as, m
<1> QED BY <1>3, <1>4 DEF x

LEMMA QuotedItems ==
  ASSUME NEW s \in Text
  PROVE  LET e == expanded(s, json_piece)
             w == quoted_text(s)
         IN  /\ w \in Text /\ e \in Text /\ Len(w) = Len(e) + 2 /\ Len(e) \in Nat
             /\ w[1] = quote /\ w[Len(e) + 2] = quote
             /\ \A i \in 1 .. Len(e) : w[i + 1] = e[i]
<1> DEFINE e == expanded(s, json_piece)
           w == quoted_text(s)
           b == append(e, quote)
<1>1. w \in Text /\ e \in Text /\ Len(w) = Len(e) + 2 /\ Len(e) \in Nat
  BY QuotedText DEF Text
<1>2. w = onto(quote, b)
  BY QuotedText DEF append, escaped_before
<1>3. w[1] = quote /\ w[Len(w)] = quote
  BY QuotedEnds
<1> HIDE DEF e, w
<1>4. b \in Seq(Octet) /\ Len(b) = Len(e) + 1 /\ \A i \in 1 .. Len(e) : b[i] = e[i]
  BY <1>1, QuoteOctet, Appended DEF Text
<1> HIDE DEF b
<1>5. \A i \in 1 .. Len(b) : onto(quote, b)[i + 1] = b[i]
  BY <1>4, QuoteOctet DEF onto
<1>6. \A i \in 1 .. Len(e) : w[i + 1] = e[i]
  <2> SUFFICES ASSUME NEW i \in 1 .. Len(e) PROVE w[i + 1] = e[i]
    OBVIOUS
  <2>1. i \in 1 .. Len(b)
    BY <1>1, <1>4
  <2> QED BY <1>2, <1>4, <1>5, <2>1
<1>7. w[Len(e) + 2] = quote
  BY <1>1, <1>3
<1> QED BY <1>1, <1>3, <1>6, <1>7 DEF e, w

\* t is in s, from its byte i on.
occurs_at(t, s, i) == \A j \in 1 .. Len(t) : s[i + j - 1] = t[j]

\* occurs finds the texts that stand somewhere in another.
LEMMA Occurs ==
  ASSUME NEW t \in Text, NEW s \in Text
  PROVE  occurs(t, s) <=> \E i \in 1 .. (Len(s) - Len(t) + 1) : occurs_at(t, s, i)
<1> DEFINE n == Len(t)
           m == Len(s)
<1>0. n \in Nat /\ m \in Nat
  BY DEF Text
<1>1. ASSUME NEW i \in 1 .. (m - n + 1)
      PROVE  SubSeq(s, i, i + n - 1) = t <=> occurs_at(t, s, i)
  <2> DEFINE u == SubSeq(s, i, i + n - 1)
  <2>1. i \in Nat /\ i >= 1 /\ i + n - 1 <= m
    BY <1>0
  <2>2. u \in Seq(Octet) /\ Len(u) = n
    BY <1>0, <2>1 DEF Text
  <2>3. \A j \in 1 .. n : u[j] = s[i + j - 1]
    BY <1>0, <2>1 DEF Text
  <2> HIDE DEF u
  <2>4. u = t => occurs_at(t, s, i)
    BY <2>3 DEF occurs_at
  <2>5. occurs_at(t, s, i) => u = t
    <3> HAVE occurs_at(t, s, i)
    <3>1. \A j \in 1 .. Len(u) : u[j] = t[j]
      BY <2>2, <2>3 DEF occurs_at
    <3> QED BY <2>2, <3>1, SeqEqual DEF Text
  <2> QED BY <2>4, <2>5 DEF u
<1> QED BY <1>1 DEF occurs

\* A quoted plain name occurs in a quoted string as the whole of it, or from an
\* escaped quote to its end.
LEMMA QuotedOccurs ==
  ASSUME NEW name \in Seq(Plain), NEW v \in Text, expanded(name, json_piece) = name
  PROVE  LET e == expanded(v, json_piece) IN
         occurs(quoted_text(name), quoted_text(v)) <=> e = name \/ ends_as(onto(quote, name), e)
<1> DEFINE e == expanded(v, json_piece)
           t == quoted_text(name)
           w == quoted_text(v)
           x == onto(quote, name)
           n == Len(name)
           m == Len(e)
<1>0. name \in Text
  <2>1. Plain \subseteq Octet
    BY DEF Plain
  <2> QED BY <2>1, SeqMonotonic DEF Text
<1>1. /\ t \in Text /\ Len(t) = n + 2 /\ n \in Nat
      /\ t[1] = quote /\ t[n + 2] = quote
      /\ \A i \in 1 .. n : t[i + 1] = name[i]
  BY <1>0, QuotedItems
<1>2. /\ w \in Text /\ e \in Text /\ Len(w) = m + 2 /\ m \in Nat
      /\ w[1] = quote /\ w[m + 2] = quote
      /\ \A i \in 1 .. m : w[i + 1] = e[i]
  BY QuotedItems
<1>3. x \in Text /\ Len(x) = n + 1 /\ x[1] = quote /\ \A i \in 1 .. n : x[i + 1] = name[i]
  BY <1>0, QuoteOctet, OntoItems DEF Text
<1>4. behind_backslash(e)
  BY BehindEscaped
<1>5. \A i \in 1 .. n : name[i] # backslash
  <2>1. \A i \in 1 .. n : name[i] \in Plain
    OBVIOUS
  <2> QED BY <2>1 DEF Plain, Escaped
<1>6. quote # backslash
  BY QuoteOctet
<1> HIDE DEF e, t, w, x, n, m
<1>7. occurs(t, w) <=> \E i \in 1 .. (Len(w) - Len(t) + 1) : occurs_at(t, w, i)
  BY <1>1, <1>2, Occurs
<1>8. Len(w) - Len(t) + 1 = m - n + 1
  BY <1>1, <1>2
<1>9. ASSUME NEW i \in 1 .. (m - n + 1), occurs_at(t, w, i)
      PROVE  i = m - n + 1
  <2>0. \A j \in 1 .. (n + 2) : w[i + j - 1] = t[j]
    BY <1>1, <1>9 DEF occurs_at
  <2> SUFFICES ASSUME i # m - n + 1 PROVE FALSE
    OBVIOUS
  <2> DEFINE p == i + n
  <2>1. p \in 1 .. m /\ i + (n + 2) - 1 = p + 1 /\ i + (n + 1) - 1 = p
        /\ n + 2 \in 1 .. (n + 2) /\ n + 1 \in 1 .. (n + 2)
    BY <1>1, <1>2
  <2> HIDE DEF p
  <2>2. e[p] = quote
    <3>1. w[p + 1] = quote
      BY <1>1, <2>0, <2>1
    <3> QED BY <1>2, <2>1, <3>1
  <2>3. p - 1 \in 1 .. m /\ e[p - 1] = backslash
    BY <1>4, <2>1, <2>2 DEF behind_backslash, m
  <2>4. w[p] = backslash
    <3>1. w[(p - 1) + 1] = backslash
      BY <1>2, <2>3
    <3>2. (p - 1) + 1 = p
      BY <1>2, <2>1
    <3> QED BY <3>1, <3>2
  <2>5. t[n + 1] = backslash
    BY <2>0, <2>1, <2>4
  <2>6. CASE n = 0
    BY <1>1, <1>6, <2>5, <2>6
  <2>7. CASE n # 0
    <3>1. n \in 1 .. n
      BY <1>1, <2>7
    <3> QED BY <1>1, <1>5, <2>5, <3>1
  <2> QED BY <2>6, <2>7
<1>10. ASSUME NEW i \in 1 .. (m - n + 1), i = m - n + 1, i # 1
       PROVE  occurs_at(t, w, i) <=> ends_as(x, e)
  <2>1. m - n \in 1 .. m /\ i = (m - n) + 1 /\ m - (n + 1) + 1 = m - n /\ n + 1 <= m
    BY <1>1, <1>2, <1>10
  <2>2. ends_as(x, e) <=> \A j \in 1 .. (n + 1) : e[m - (n + 1) + j] = x[j]
    BY <1>3, <2>1 DEF ends_as, m
  <2>3. occurs_at(t, w, i) <=> \A j \in 1 .. (n + 2) : w[i + j - 1] = t[j]
    BY <1>1 DEF occurs_at
  <2>4. \A j \in 1 .. (n + 1) : e[m - (n + 1) + j] = w[i + j - 1] /\ x[j] = t[j]
    <3> SUFFICES ASSUME NEW j \in 1 .. (n + 1)
                 PROVE  e[m - (n + 1) + j] = w[i + j - 1] /\ x[j] = t[j]
      OBVIOUS
    <3> DEFINE k == m - (n + 1) + j
    <3>1. k \in 1 .. m /\ i + j - 1 = k + 1
      BY <1>1, <1>2, <2>1, SMTT(60)
    <3> HIDE DEF k
    <3>2. e[k] = w[i + j - 1]
      BY <1>2, <3>1
    <3>3. x[j] = t[j]
      <4>1. CASE j = 1
        BY <1>1, <1>3, <4>1
      <4>2. CASE j # 1
        <5> DEFINE l == j - 1
        <5>1. l \in 1 .. n /\ l + 1 = j
          BY <1>1, <4>2
        <5> HIDE DEF l
        <5>2. x[l + 1] = name[l] /\ t[l + 1] = name[l]
          BY <1>1, <1>3, <5>1
        <5> QED BY <5>1, <5>2
      <4> QED BY <4>1, <4>2
    <3> QED BY <3>2, <3>3 DEF k
  <2>5. w[i + (n + 2) - 1] = t[n + 2]
    <3>1. i + (n + 2) - 1 = m + 2
      BY <1>1, <1>2, <2>1
    <3> QED BY <1>1, <1>2, <3>1
  <2>6. \A j \in 1 .. (n + 2) : j = n + 2 \/ j \in 1 .. (n + 1)
    BY <1>1
  <2>7. \A j \in 1 .. (n + 1) : j \in 1 .. (n + 2)
    BY <1>1
  <2>8. (\A j \in 1 .. (n + 2) : w[i + j - 1] = t[j])
          <=> \A j \in 1 .. (n + 1) : w[i + j - 1] = t[j]
    BY <2>5, <2>6, <2>7
  <2>9. (\A j \in 1 .. (n + 1) : w[i + j - 1] = t[j])
          <=> \A j \in 1 .. (n + 1) : e[m - (n + 1) + j] = x[j]
    BY <2>4
  <2> QED BY <2>2, <2>3, <2>8, <2>9
<1>11. ASSUME m = n PROVE occurs_at(t, w, 1) <=> e = name
  <2>1. ASSUME occurs_at(t, w, 1) PROVE e = name
    <3>1. \A j \in 1 .. (n + 2) : w[1 + j - 1] = t[j]
      BY <1>1, <2>1 DEF occurs_at
    <3>2. \A j \in 1 .. m : e[j] = name[j]
      <4> SUFFICES ASSUME NEW j \in 1 .. m PROVE e[j] = name[j]
        OBVIOUS
      <4>1. j + 1 \in 1 .. (n + 2) /\ 1 + (j + 1) - 1 = j + 1 /\ j \in 1 .. n
        BY <1>2, <1>11
      <4>2. w[1 + (j + 1) - 1] = t[j + 1]
        BY <3>1, <4>1
      <4>3. w[j + 1] = t[j + 1]
        BY <4>1, <4>2
      <4> QED BY <1>1, <1>2, <4>1, <4>3
    <3> QED BY <1>0, <1>2, <1>11, <3>2, SeqEqual DEF Text, n, m
  <2>2. ASSUME e = name PROVE occurs_at(t, w, 1)
    <3>1. w = t
      <4>1. w = onto(quote, append(e, quote))
        BY QuotedText DEF w, e, append, escaped_before
      <4>2. t = onto(quote, append(expanded(name, json_piece), quote))
        BY <1>0, QuotedText DEF t, append, escaped_before
      <4> QED BY <2>2, <4>1, <4>2
    <3>2. \A j \in 1 .. (n + 2) : w[1 + j - 1] = t[j]
      <4> SUFFICES ASSUME NEW j \in 1 .. (n + 2) PROVE w[1 + j - 1] = t[j]
        OBVIOUS
      <4>1. 1 + j - 1 = j
        BY <1>1
      <4> QED BY <3>1, <4>1
    <3> QED BY <1>1, <3>2 DEF occurs_at
  <2> QED BY <2>1, <2>2
<1>12. ASSUME e = name PROVE m = n
  BY <1>12 DEF m, n
<1>13. ASSUME ends_as(x, e) PROVE m >= n + 1
  BY <1>3, <1>13 DEF ends_as, m
<1>14. ASSUME occurs(t, w) PROVE e = name \/ ends_as(x, e)
  <2>1. PICK i \in 1 .. (m - n + 1) : occurs_at(t, w, i)
    BY <1>7, <1>8, <1>14
  <2>2. i = m - n + 1
    BY <1>9, <2>1
  <2>3. CASE i = 1
    BY <1>1, <1>2, <1>11, <2>1, <2>2, <2>3
  <2>4. CASE i # 1
    BY <1>10, <2>1, <2>2, <2>4
  <2> QED BY <2>3, <2>4
<1>15. ASSUME e = name PROVE occurs(t, w)
  <2>1. 1 \in 1 .. (m - n + 1) /\ occurs_at(t, w, 1)
    BY <1>1, <1>11, <1>12, <1>15
  <2> QED BY <1>7, <1>8, <2>1
<1>16. ASSUME ends_as(x, e) PROVE occurs(t, w)
  <2> DEFINE i == m - n + 1
  <2>1. i \in 1 .. (m - n + 1) /\ i # 1
    BY <1>1, <1>2, <1>13, <1>16
  <2>2. occurs_at(t, w, i)
    BY <1>10, <1>16, <2>1
  <2> QED BY <1>7, <1>8, <2>1, <2>2
<1> QED BY <1>14, <1>15, <1>16 DEF e, t, w, x

\* If a text ends with a quote and a name, so does what is written of it.
LEMMA QuoteWritten ==
  ASSUME NEW z \in Text, NEW name \in Text, expanded(name, json_piece) = name
  PROVE  \E y \in Text : expanded(cut(z, quote, name), json_piece) = cut(y, quote, name)
<1> DEFINE e == expanded(z, json_piece)
           y == append(e, backslash)
           w == append(z, quote)
<1>1. quote \in Octet /\ quote \in Escaped /\ escape_of[quote] = quote
  BY QuoteOctet DEF Escaped, escape_of, quote, backslash
<1>2. /\ y \in Text /\ w \in Text /\ expanded(w, json_piece) = append(y, escape_of[quote])
  BY <1>1, ExpandedBack
<1>3. cut(z, quote, name) = w \o name /\ cut(y, quote, name) = append(y, quote) \o name
  BY DEF cut, append
<1> HIDE DEF y, w
<1>4. expanded(w \o name, json_piece)
        = expanded(w, json_piece) \o expanded(name, json_piece)
  <2>1. w \in Seq(Octet) /\ name \in Seq(Octet)
    BY <1>2 DEF Text
  <2>2. maps(Octet, Seq(Octet), json_piece)
    BY JsonPiece
  <2> QED BY ONLY <2>1, <2>2, ExpandedConcat
<1>5. expanded(cut(z, quote, name), json_piece) = cut(y, quote, name)
  BY <1>1, <1>2, <1>3, <1>4
<1> QED BY <1>2, <1>5

\* A plain name occurs, quoted, in a quoted string as StringsWhole says.
LEMMA NameOccurs ==
  ASSUME NEW name \in Text, NEW v \in Text, json_escape(name) = name
  PROVE  occurs(quoted_text(name), quoted_text(v))
           <=> v = name \/ IsSuffix(onto(quote, name), v)
<1> DEFINE e == expanded(v, json_piece)
           x == onto(quote, name)
<1>1. expanded(name, json_piece) = name /\ name \in Seq(Plain)
  BY JsonEscapes, PlainName
<1>2. occurs(quoted_text(name), quoted_text(v)) <=> e = name \/ ends_as(x, e)
  BY <1>1, QuotedOccurs
<1>3. x \in Text /\ e \in Text
  BY QuoteOctet, OntoItems, QuotedText DEF Text
<1>4. e = name <=> v = name
  <2>1. ASSUME e = name PROVE v = name
    <3>1. quoted_text(v) = quoted_text(name)
      BY <1>1, <2>1, JsonEscapes DEF quoted_text
    <3> QED BY <3>1, QuotedOnce
  <2> QED BY <1>1, <2>1
<1>5. IsSuffix(x, v) <=> ends_as(x, v)
  BY <1>3, Suffix
<1>6. ends_as(x, v) <=> \E z \in Text : v = cut(z, quote, name)
  BY QuoteOctet, CutEnds
<1>7. ends_as(x, e) <=> \E y \in Text : e = cut(y, quote, name)
  BY <1>3, QuoteOctet, CutEnds
<1>8. (\E y \in Text : e = cut(y, quote, name)) <=> \E z \in Text : v = cut(z, quote, name)
  <2>1. ASSUME NEW y \in Text, e = cut(y, quote, name)
        PROVE  \E z \in Text : v = cut(z, quote, name)
    BY <1>1, <2>1, QuoteCut
  <2>2. ASSUME NEW z \in Text, v = cut(z, quote, name)
        PROVE  \E y \in Text : e = cut(y, quote, name)
    BY <1>1, <2>2, QuoteWritten
  <2> QED BY <2>1, <2>2
<1> QED BY <1>2, <1>4, <1>5, <1>6, <1>7, <1>8

(***************************************************************************)
(* A string that json_escape wrote ends at its own closing quote, whatever *)
(* follows it, and is read back as what was written; and a quoted key can  *)
(* be found inside it only as the whole string or at its end, behind an    *)
(* escaped quote.                                                          *)
(***************************************************************************)
THEOREM StringsReadWhole == Spec => []StringsWhole
<1>1. TypeOK => StringsWhole
  <2> SUFFICES ASSUME TypeOK, NEW i \in DOMAIN fields, NEW k \in DOMAIN fields
               PROVE  LET quoted(s) == <<quote>> \o json_escape(s) \o <<quote>>
                          value == fields[i].value
                          name  == fields[k].name
                      IN
                      /\ skip_json_string(quoted(value) \o quoted(name), 1)
                           = Len(quoted(value)) + 1
                      /\ parse_json_string(quoted(value)) = value
                      /\ json_escape(name) = name =>
                           (occurs(quoted(name), quoted(value))
                              <=> value = name \/ IsSuffix(<<quote>> \o name, value))
    BY DEF StringsWhole
  <2> DEFINE value == fields[i].value
             name  == fields[k].name
  <2>1. value \in Text /\ name \in Text
    BY FieldRecord DEF TypeOK
  <2> HIDE DEF value, name
  <2>2. skip_json_string(quoted_text(value) \o quoted_text(name), 1) = Len(quoted_text(value)) + 1
    BY <2>1, QuotedText, QuotedSkipped
  <2>3. parse_json_string(quoted_text(value)) = value
    BY <2>1, QuotedRead
  <2>4. json_escape(name) = name =>
          (occurs(quoted_text(name), quoted_text(value))
             <=> value = name \/ IsSuffix(onto(quote, name), value))
    BY <2>1, NameOccurs
  <2> QED BY <2>2, <2>3, <2>4 DEF quoted_text, onto, value, name
<1> QED BY <1>1, FieldsTyped, PTL

-----------------------------------------------------------------------------
\* base64url, six bits a character.

Base64 == Letter \cup Digit \cup {minus, 95}

\* The 64 characters stand for 0 .. 63, and none of them is a dot or an equals sign.
LEMMA Base64Chars ==
  /\ \A v \in 0 .. 63 : /\ base64url_char(v) \in Base64
                        /\ decode_base64url_char(base64url_char(v)) = v
  /\ \A c \in Base64 : c \in Octet /\ c # dot /\ c # equals /\ decode_base64url_char(c) \in 0 .. 63
  /\ decode_base64url_char(dot) = None
<1>1. ASSUME NEW v \in 0 .. 63
      PROVE  /\ base64url_char(v) \in Base64
             /\ decode_base64url_char(base64url_char(v)) = v
  <2>1. CASE v < 26
    <3> DEFINE c == 65 + v
    <3>1. c \in 65 .. 90 /\ c - 65 = v /\ base64url_char(v) = c
      BY <2>1 DEF base64url_char
    <3> HIDE DEF c
    <3>2. decode_base64url_char(c) = c - 65 /\ c \in Base64
      BY <3>1 DEF decode_base64url_char, Base64, Letter, Digit, minus
    <3> QED BY <3>1, <3>2
  <2>2. CASE v \in 26 .. 51
    <3> DEFINE c == 71 + v
    <3>1. c \in 97 .. 122 /\ c - 71 = v /\ base64url_char(v) = c
      BY <2>2 DEF base64url_char
    <3> HIDE DEF c
    <3>2. decode_base64url_char(c) = c - 71 /\ c \in Base64
      BY <3>1 DEF decode_base64url_char, Base64, Letter, Digit, minus
    <3> QED BY <3>1, <3>2
  <2>3. CASE v \in 52 .. 61
    <3> DEFINE c == v - 4
    <3>1. c \in 48 .. 57 /\ c + 4 = v /\ base64url_char(v) = c
      BY <2>3 DEF base64url_char
    <3> HIDE DEF c
    <3>2. decode_base64url_char(c) = c + 4 /\ c \in Base64
      BY <3>1 DEF decode_base64url_char, Base64, Letter, Digit, minus
    <3> QED BY <3>1, <3>2
  <2>4. CASE v = 62
    <3>1. base64url_char(v) = minus
      BY <2>4 DEF base64url_char
    <3> QED BY <2>4, <3>1 DEF Base64, minus, decode_base64url_char, Digit
  <2>5. CASE v = 63
    <3>1. base64url_char(v) = 95
      BY <2>5 DEF base64url_char
    <3> QED BY <2>5, <3>1 DEF Base64, minus, decode_base64url_char, Digit
  <2> QED BY <2>1, <2>2, <2>3, <2>4, <2>5
<1>2. ASSUME NEW c \in Base64
      PROVE  c \in Octet /\ c # dot /\ c # equals /\ decode_base64url_char(c) \in 0 .. 63
  <2>1. c \in Octet /\ c # dot /\ c # equals
    BY DEF Base64, Letter, Digit, minus, dot, equals, Octet
  <2>2. decode_base64url_char(c) \in 0 .. 63
    BY DEF Base64, Letter, Digit, minus, decode_base64url_char
  <2> QED BY <2>1, <2>2
<1>3. decode_base64url_char(dot) = None
  BY DEF decode_base64url_char, dot, minus, Digit
<1> QED BY <1>1, <1>2, <1>3

\* What base64url_decode has of the characters it has read.
Reader == [val: Int, valb: -8 .. -1, out: Text]
reader == [val |-> 0, valb |-> -8, out |-> <<>>]

accumulating(s) ==
  CHOOSE f : f = [i \in 0 .. Len(s) |-> IF i = 0 THEN [val |-> 0, valb |-> -8, out |-> <<>>]
                                               ELSE read_char(f[i - 1], s[i])]

\* The accumulator's six bits to the left, cut to its width, keep what is below.
LEMMA Shifted ==
  ASSUME NEW val \in Int
  PROVE  \E q \in Int : shifted(val) = 64 * (val + 64 * q)
<1> DEFINE top == 2 ^ 26
           half == 2 ^ 25
           t == 2 ^ 20
           low == val % top
           k == val \div top
<1>1. top \in Nat \ {0} /\ half \in Nat /\ t \in Nat /\ top = 64 * t
  BY SMT
<1>2. shifted(val) = 64 * (IF low >= half THEN low - top ELSE low)
  BY SMT DEF shifted
<1>3. low \in Int /\ k \in Int /\ val = top * k + low
  BY SMT
<1> HIDE DEF top, half, t
<1> HIDE DEF low, k
<1>5. \A j \in Int : top * j = 64 * (t * j) /\ t * j \in Int
  BY <1>1, SMT
<1>6. CASE low >= half
  <2> DEFINE j == 0 - k - 1
  <2>1. j \in Int /\ top * j = 0 - top * k - top
    BY <1>1, <1>3, SMT
  <2>2. low - top = val + top * j
    BY <1>1, <1>3, <2>1, SMT
  <2> HIDE DEF j
  <2>3. shifted(val) = 64 * (val + 64 * (t * j)) /\ t * j \in Int
    BY <1>2, <1>5, <1>6, <2>1, <2>2, SMT
  <2> QED BY <2>3
<1>7. CASE ~ (low >= half)
  <2> DEFINE j == 0 - k
  <2>1. j \in Int /\ top * j = 0 - top * k
    BY <1>1, <1>3, SMT
  <2>2. low = val + top * j
    BY <1>1, <1>3, <2>1, SMT
  <2> HIDE DEF j
  <2>3. shifted(val) = 64 * (val + 64 * (t * j)) /\ t * j \in Int
    BY <1>2, <1>5, <1>7, <2>1, <2>2, SMT
  <2> QED BY <2>3
<1> QED BY <1>6, <1>7

LEMMA ReadChar ==
  ASSUME NEW before \in Reader, NEW c \in Base64
  PROVE  read_char(before, c) \in Reader
<1> DEFINE val == shifted(before.val) + decode_base64url_char(c)
           valb == before.valb + 6
           byte == (val \div 2 ^ valb) % 256
<1>1. val \in Int
  <2>1. shifted(before.val) \in Int
    <3>1. before.val \in Int
      BY DEF Reader
    <3> QED BY <3>1, Shifted
  <2>2. decode_base64url_char(c) \in 0 .. 63
    BY Base64Chars
  <2> QED BY <2>1, <2>2
<1>2. valb \in -2 .. 5 /\ before.out \in Seq(Octet)
  BY DEF Reader, Text
<1>3. ASSUME valb >= 0 PROVE byte \in Octet
  <2>1. valb \in {0, 1, 2, 3, 4, 5}
    BY <1>2, <1>3
  <2> HIDE DEF val, valb
  <2>2. 2 ^ valb \in {1, 2, 4, 8, 16, 32}
    <3>1. 2 ^ 0 = 1 /\ 2 ^ 1 = 2 /\ 2 ^ 2 = 4 /\ 2 ^ 3 = 8 /\ 2 ^ 4 = 16 /\ 2 ^ 5 = 32
      BY SMT
    <3> QED BY <2>1, <3>1
  <2> DEFINE d == 2 ^ valb
  <2> HIDE DEF d
  <2>3. d \in {1, 2, 4, 8, 16, 32}
    BY <2>2 DEF d
  <2>4. (val \div d) % 256 \in 0 .. 255
    <3>1. val \div d \in Int
      BY <1>1, <2>3
    <3> QED BY <3>1
  <2> QED BY <2>4 DEF Octet, d
<1>4. read_char(before, c)
        = IF valb >= 0 THEN [val |-> val, valb |-> valb - 8, out |-> Append(before.out, byte)]
                       ELSE [val |-> val, valb |-> valb, out |-> before.out]
  BY DEF read_char, written_at
<1> HIDE DEF val, valb, byte
<1>5. CASE valb >= 0
  <2>1. Append(before.out, byte) \in Text /\ valb - 8 \in -8 .. -1
    BY <1>2, <1>3, <1>5 DEF Text
  <2> QED BY <1>1, <1>4, <1>5, <2>1 DEF Reader
<1>6. CASE ~ (valb >= 0)
  <2>1. valb \in -8 .. -1
    BY <1>2, <1>6
  <2> QED BY <1>1, <1>2, <1>4, <1>6, <2>1 DEF Reader, Text
<1> QED BY <1>5, <1>6

\* base64url_decode's loop has a state behind every character.
LEMMA Accumulating ==
  ASSUME NEW s \in Seq(Base64)
  PROVE  /\ accumulating(s)[0] = reader
         /\ \A i \in 1 .. Len(s) : accumulating(s)[i] = read_char(accumulating(s)[i - 1], s[i])
         /\ \A i \in 0 .. Len(s) : accumulating(s)[i] \in Reader
<1> DEFINE n == Len(s)
           S == 0 .. n
           body(f, i) == IF i = 0 THEN [val |-> 0, valb |-> -8, out |-> <<>>]
                                  ELSE read_char(f[i - 1], s[i])
           D == [g \in [S -> Reader] |-> [i \in S |-> body(g, i)]]
           r == [i \in S |-> i]
           N == n + 1
           f == accumulating(s)
<1>0. /\ n \in Nat /\ reader \in Reader
      /\ \A i \in S : i # 0 => i - 1 \in S /\ i - 1 < i /\ i \in 1 .. n
  <2>1. n \in Nat
    OBVIOUS
  <2>2. reader \in Reader
    BY DEF reader, Reader, Text
  <2> QED BY <2>1, <2>2
<1>1. D \in [[S -> Reader] -> [S -> Reader]]
  <2> SUFFICES ASSUME NEW g \in [S -> Reader], NEW i \in S PROVE body(g, i) \in Reader
    OBVIOUS
  <2>1. CASE i = 0
    BY <1>0, <2>1 DEF reader
  <2>2. CASE i # 0
    <3>1. g[i - 1] \in Reader /\ s[i] \in Base64
      BY <1>0, <2>2
    <3> QED BY <2>2, <3>1, ReadChar
  <2> QED BY <2>1, <2>2
<1>2. Reader # {} /\ r \in [S -> Nat] /\ N \in Nat /\ \A x \in S : r[x] < N
  <2>1. N \in Nat /\ r \in [S -> Nat]
    BY <1>0
  <2>2. \A x \in S : r[x] < N
    BY <1>0
  <2> HIDE DEF S, N, r
  <2> QED BY <1>0, <2>1, <2>2
<1>3. ASSUME NEW g \in [S -> Reader], NEW h \in [S -> Reader], NEW x \in S,
             \A y \in S : r[y] < r[x] => g[y] = h[y]
      PROVE  D[g][x] = D[h][x]
  <2>1. CASE x = 0
    BY <2>1
  <2>2. CASE x # 0
    <3>1. x - 1 \in S /\ r[x - 1] < r[x]
      BY <1>0, <2>2
    <3>2. g[x - 1] = h[x - 1]
      BY <1>3, <3>1
    <3> QED BY <2>2, <3>2
  <2> QED BY <2>1, <2>2
<1>4. PICK g \in [S -> Reader] : g = D[g]
  <2> HIDE DEF S, N, D, r
  <2>1. descends(S, Reader, D, r, N)
    BY <1>1, <1>2, <1>3 DEF descends
  <2> QED BY <2>1, Recursion
<1>5. \E h : h = [i \in S |-> body(h, i)]
  BY <1>4
<1>6. f = [i \in S |-> body(f, i)]
  BY <1>5 DEF accumulating
<1> HIDE DEF f
<1>7. f[0] = reader
  BY <1>0, <1>6 DEF reader
<1>8. \A i \in 1 .. n : f[i] = read_char(f[i - 1], s[i])
  <2> SUFFICES ASSUME NEW i \in 1 .. n PROVE f[i] = read_char(f[i - 1], s[i])
    OBVIOUS
  <2>1. i \in S /\ i # 0
    BY <1>0
  <2> QED BY <1>6, <2>1
<1>9. \A i \in 0 .. n : f[i] \in Reader
  <2> DEFINE T == {i \in Nat : i <= n => f[i] \in Reader}
  <2>1. 0 \in T
    BY <1>0, <1>7
  <2>2. ASSUME NEW i \in Nat, i \in T PROVE i + 1 \in T
    <3> SUFFICES ASSUME i + 1 <= n PROVE f[i + 1] \in Reader
      OBVIOUS
    <3>1. i + 1 \in 1 .. n /\ (i + 1) - 1 = i /\ f[i] \in Reader
      BY <1>0, <2>2
    <3>2. f[i + 1] = read_char(f[i], s[i + 1]) /\ s[i + 1] \in Base64
      BY <1>8, <3>1
    <3> QED BY <3>1, <3>2, ReadChar
  <2> HIDE DEF T
  <2>3. Nat \subseteq T
    BY <2>1, <2>2, Induct
  <2> QED BY <1>0, <2>3 DEF T
<1> QED BY <1>7, <1>8, <1>9 DEF f

\* The bits that base64url_encode writes: past the end of s they are zero.
byte_of(s, i) == IF i \in DOMAIN s THEN s[i] ELSE 0
sextet_of(s, bit) ==
  ((256 * byte_of(s, (bit \div 8) + 1) + byte_of(s, (bit \div 8) + 2)) \div 2 ^ (10 - (bit % 8)))
    % 64

LEMMA ByteOf ==
  ASSUME NEW s \in Text, NEW i \in Int
  PROVE  byte_of(s, i) \in Octet
<1>1. \A j \in DOMAIN s : s[j] \in Octet
  BY DEF Text
<1>2. 0 \in Octet
  BY DEF Octet
<1> QED BY <1>1, <1>2 DEF byte_of

\* The four places a character can have in its group: the bits of its first byte
\* that were written before it, and where its last bit is.
LEMMA Place ==
  ASSUME NEW i \in Nat
  PROVE  LET p == (6 * i) \div 8
             r == (6 * i) % 8
             q == (6 * (i + 1)) \div 8
             u == (6 * (i + 1)) % 8
         IN  /\ p \in Nat
             /\ \/ r = 0 /\ u = 6 /\ q = p
                \/ r = 6 /\ u = 4 /\ q = p + 1
                \/ r = 4 /\ u = 2 /\ q = p + 1
                \/ r = 2 /\ u = 0 /\ q = p + 1
<1> DEFINE k == i \div 4
           m == i % 4
<1>1. i = 4 * k + m /\ k \in Nat /\ m \in 0 .. 3
  OBVIOUS
<1> HIDE DEF k, m
<1>2. CASE m = 0
  BY <1>1, <1>2
<1>3. CASE m = 1
  BY <1>1, <1>3
<1>4. CASE m = 2
  BY <1>1, <1>4
<1>5. CASE m = 3
  BY <1>1, <1>5
<1> QED BY <1>1, <1>2, <1>3, <1>4, <1>5

\* Which bits of its two bytes a character holds.
LEMMA SextetAt ==
  ASSUME NEW s \in Text, NEW bit \in Nat
  PROVE  LET a == byte_of(s, (bit \div 8) + 1)
             b == byte_of(s, (bit \div 8) + 2)
             x == sextet_of(s, bit)
         IN  /\ bit % 8 = 0 => x = a \div 4 /\ x \in 0 .. 63
             /\ bit % 8 = 6 => x = 16 * (a % 4) + b \div 16 /\ x \in 0 .. 63
             /\ bit % 8 = 4 => x = 4 * (a % 16) + b \div 64 /\ x \in 0 .. 63
             /\ bit % 8 = 2 => x = a % 64 /\ x \in 0 .. 63
<1> DEFINE a == byte_of(s, (bit \div 8) + 1)
           b == byte_of(s, (bit \div 8) + 2)
           x == sextet_of(s, bit)
           r == bit % 8
<1>1. a \in 0 .. 255 /\ b \in 0 .. 255
  <2>1. (bit \div 8) + 1 \in Int /\ (bit \div 8) + 2 \in Int
    OBVIOUS
  <2> QED BY <2>1, ByteOf DEF Octet
<1>2. x = ((256 * a + b) \div 2 ^ (10 - r)) % 64
  BY DEF sextet_of
<1> HIDE DEF a, b, x, r
<1>3. CASE r = 0
  <2>1. 2 ^ (10 - r) = 1024
    BY <1>3, SMT
  <2>2. x = ((256 * a + b) \div 1024) % 64
    BY <1>2, <2>1, SMT
  <2>3. x = a \div 4 /\ x \in 0 .. 63
    BY <1>1, <2>2, SMT
  <2> QED BY <1>3, <2>3 DEF a, b, x, r
<1>4. CASE r = 6
  <2>1. 2 ^ (10 - r) = 16
    BY <1>4, SMT
  <2>2. x = ((256 * a + b) \div 16) % 64
    BY <1>2, <2>1, SMT
  <2>3. x = 16 * (a % 4) + b \div 16 /\ x \in 0 .. 63
    BY <1>1, <2>2, SMTT(60)
  <2> QED BY <1>4, <2>3 DEF a, b, x, r
<1>5. CASE r = 4
  <2>1. 2 ^ (10 - r) = 64
    BY <1>5, SMT
  <2>2. x = ((256 * a + b) \div 64) % 64
    BY <1>2, <2>1, SMT
  <2>3. x = 4 * (a % 16) + b \div 64 /\ x \in 0 .. 63
    BY <1>1, <2>2, SMT
  <2> QED BY <1>5, <2>3 DEF a, b, x, r
<1>6. CASE r = 2
  <2>1. 2 ^ (10 - r) = 256
    BY <1>6, SMT
  <2>2. x = ((256 * a + b) \div 256) % 64
    BY <1>2, <2>1, SMT
  <2>3. x = a % 64 /\ x \in 0 .. 63
    BY <1>1, <2>2, SMT
  <2> QED BY <1>6, <2>3 DEF a, b, x, r
<1>7. CASE r \notin {0, 2, 4, 6}
  BY <1>7 DEF r
<1> QED BY <1>3, <1>4, <1>5, <1>6, <1>7

\* The encoder's characters.
LEMMA Encodes ==
  ASSUME NEW s \in Text
  PROVE  LET e == base64url_encode(s)
             l == (8 * Len(s) + 5) \div 6
         IN  /\ e \in Seq(Base64) /\ Len(e) = l /\ l \in Nat /\ Len(s) \in Nat
             /\ \A i \in 0 .. (l - 1) : /\ e[i + 1] = base64url_char(sextet_of(s, 6 * i))
                                        /\ sextet_of(s, 6 * i) \in 0 .. 63
<1> DEFINE e == base64url_encode(s)
           l == (8 * Len(s) + 5) \div 6
<1>1. Len(s) \in Nat /\ l \in Nat
  BY DEF Text
<1>2. e = [j \in 1 .. l |-> base64url_char(sextet_of(s, 6 * (j - 1)))]
  BY DEF base64url_encode, sextet_of, byte_of
<1> HIDE DEF l, e
<1>3. ASSUME NEW i \in Nat PROVE sextet_of(s, 6 * i) \in 0 .. 63
  <2> DEFINE bit == 6 * i
  <2>1. bit \in Nat /\ bit % 8 \in {0, 2, 4, 6}
    BY Place
  <2> HIDE DEF bit
  <2>2. sextet_of(s, bit) \in 0 .. 63
    BY <2>1, SextetAt
  <2> QED BY <2>2 DEF bit
<1>4. \A j \in 1 .. l : base64url_char(sextet_of(s, 6 * (j - 1))) \in Base64
  <2> SUFFICES ASSUME NEW j \in 1 .. l PROVE base64url_char(sextet_of(s, 6 * (j - 1))) \in Base64
    OBVIOUS
  <2>1. j - 1 \in Nat
    BY <1>1
  <2>2. sextet_of(s, 6 * (j - 1)) \in 0 .. 63
    BY <1>3, <2>1
  <2> QED BY <2>2, Base64Chars
<1>5. e \in Seq(Base64) /\ Len(e) = l
  BY <1>1, <1>2, <1>4
<1>6. ASSUME NEW i \in 0 .. (l - 1) PROVE e[i + 1] = base64url_char(sextet_of(s, 6 * i))
  <2>1. i + 1 \in 1 .. l /\ (i + 1) - 1 = i
    BY <1>1
  <2>2. e[i + 1] = base64url_char(sextet_of(s, 6 * ((i + 1) - 1)))
    BY <1>2, <2>1
  <2> QED BY <2>1, <2>2
<1>7. \A i \in 0 .. (l - 1) : i \in Nat
  BY <1>1
<1> QED BY <1>1, <1>3, <1>5, <1>6, <1>7 DEF e, l

\* What is known of the reader after i characters of what was written of s: the
\* whole bytes are out, and the accumulator ends with the bits of the next one.
read_whole(s, i, b) ==
  LET p == (6 * i) \div 8
      r == (6 * i) % 8
      a == byte_of(s, p + 1)
  IN  /\ b \in Reader /\ b.valb = r - 8
      /\ b.out = SubSeq(s, 1, p)
      /\ r = 6 => b.val % 64 = a \div 4
      /\ r = 4 => b.val % 16 = a \div 16
      /\ r = 2 => b.val % 4 = a \div 64

\* Where a byte lies in two characters.
LEMMA Halves ==
  ASSUME NEW a \in 0 .. 255, NEW z \in 0 .. 255
  PROVE  /\ 4 * (a \div 4) + (16 * (a % 4) + z \div 16) \div 16 = a
         /\ (16 * (a % 4) + z \div 16) % 16 = z \div 16
         /\ 16 * (a \div 16) + (4 * (a % 16) + z \div 64) \div 4 = a
         /\ (4 * (a % 16) + z \div 64) % 4 = z \div 64
         /\ 64 * (a \div 64) + (a % 64) = a
<1>1. 4 * (a \div 4) + (16 * (a % 4) + z \div 16) \div 16 = a
  OBVIOUS
<1>2. (16 * (a % 4) + z \div 16) % 16 = z \div 16
  OBVIOUS
<1>3. 16 * (a \div 16) + (4 * (a % 16) + z \div 64) \div 4 = a
  <2> DEFINE h == a % 16
             g == z \div 64
  <2>1. h \in 0 .. 15
    OBVIOUS
  <2>2. g \in 0 .. 3
    OBVIOUS
  <2>3. 16 * (a \div 16) + h = a
    OBVIOUS
  <2> HIDE DEF h, g
  <2>4. (4 * h + g) \div 4 = h
    BY <2>1, <2>2
  <2> QED BY <2>3, <2>4 DEF h, g
<1>4. (4 * (a % 16) + z \div 64) % 4 = z \div 64
  OBVIOUS
<1>5. 64 * (a \div 64) + (a % 64) = a
  OBVIOUS
<1> QED BY <1>1, <1>2, <1>3, <1>4, <1>5

\* The first p bytes and the next one are the first p + 1.
LEMMA OneMore ==
  ASSUME NEW s \in Text, NEW p \in Nat, p + 1 <= Len(s)
  PROVE  Append(SubSeq(s, 1, p), byte_of(s, p + 1)) = SubSeq(s, 1, p + 1)
<1> DEFINE u == SubSeq(s, 1, p)
           v == SubSeq(s, 1, p + 1)
           w == Append(u, s[p + 1])
<1>0. p + 1 \in 1 .. Len(s) /\ Len(s) \in Nat /\ s \in Seq(Octet) /\ s[p + 1] \in Octet
  BY DEF Text
<1>1. u \in Seq(Octet) /\ Len(u) = p /\ \A i \in 1 .. p : u[i] = s[i]
  BY <1>0
<1>2. v \in Seq(Octet) /\ Len(v) = p + 1 /\ \A i \in 1 .. (p + 1) : v[i] = s[i]
  BY <1>0
<1> HIDE DEF u, v
<1>3. w \in Seq(Octet) /\ Len(w) = p + 1 /\ w[p + 1] = s[p + 1] /\ \A i \in 1 .. p : w[i] = u[i]
  BY <1>0, <1>1
<1> HIDE DEF w
<1>4. \A i \in 1 .. (p + 1) : w[i] = v[i]
  <2> SUFFICES ASSUME NEW i \in 1 .. (p + 1) PROVE w[i] = v[i]
    OBVIOUS
  <2>1. i = p + 1 \/ i \in 1 .. p
    OBVIOUS
  <2> QED BY <1>1, <1>2, <1>3, <2>1
<1>5. w = v
  BY <1>2, <1>3, <1>4, SeqEqual
<1>6. byte_of(s, p + 1) = s[p + 1]
  BY <1>0 DEF byte_of
<1> QED BY <1>5, <1>6 DEF u, v, w

\* Every character that is read keeps read_whole.
LEMMA ReadsOne ==
  ASSUME NEW s \in Text, NEW i \in Nat, NEW b, read_whole(s, i, b),
         (6 * (i + 1)) \div 8 <= Len(s)
  PROVE  read_whole(s, i + 1, read_char(b, base64url_char(sextet_of(s, 6 * i))))
<1> DEFINE p == (6 * i) \div 8
           r == (6 * i) % 8
           q == (6 * (i + 1)) \div 8
           u == (6 * (i + 1)) % 8
           a == byte_of(s, p + 1)
           z == byte_of(s, p + 2)
           x == sextet_of(s, 6 * i)
           c == base64url_char(x)
           w == shifted(b.val) + decode_base64url_char(c)
           d == read_char(b, c)
           valb == b.valb + 6
<1>0. SUFFICES read_whole(s, i + 1, d)
  OBVIOUS
<1>1. /\ p \in Nat
      /\ \/ r = 0 /\ u = 6 /\ q = p
         \/ r = 6 /\ u = 4 /\ q = p + 1
         \/ r = 4 /\ u = 2 /\ q = p + 1
         \/ r = 2 /\ u = 0 /\ q = p + 1
  BY Place
<1>2. /\ r = 0 => x = a \div 4 /\ x \in 0 .. 63
      /\ r = 6 => x = 16 * (a % 4) + z \div 16 /\ x \in 0 .. 63
      /\ r = 4 => x = 4 * (a % 16) + z \div 64 /\ x \in 0 .. 63
      /\ r = 2 => x = a % 64 /\ x \in 0 .. 63
  <2> DEFINE bit == 6 * i
  <2>1. bit \in Nat
    OBVIOUS
  <2> HIDE DEF bit
  <2>2. LET f == byte_of(s, (bit \div 8) + 1)
            g == byte_of(s, (bit \div 8) + 2)
            h == sextet_of(s, bit)
        IN  /\ bit % 8 = 0 => h = f \div 4 /\ h \in 0 .. 63
            /\ bit % 8 = 6 => h = 16 * (f % 4) + g \div 16 /\ h \in 0 .. 63
            /\ bit % 8 = 4 => h = 4 * (f % 16) + g \div 64 /\ h \in 0 .. 63
            /\ bit % 8 = 2 => h = f % 64 /\ h \in 0 .. 63
    BY <2>1, SextetAt
  <2> QED BY <2>2 DEF bit
<1>3. a \in 0 .. 255 /\ z \in 0 .. 255
  BY <1>1, ByteOf, SMTT(60) DEF Octet
<1>4. x \in 0 .. 63 /\ c \in Base64 /\ decode_base64url_char(c) = x
  BY <1>1, <1>2, Base64Chars
<1>5. /\ b \in Reader /\ b.val \in Int /\ b.valb = r - 8 /\ b.out = SubSeq(s, 1, p)
      /\ r = 6 => b.val % 64 = a \div 4
      /\ r = 4 => b.val % 16 = a \div 16
      /\ r = 2 => b.val % 4 = a \div 64
  BY DEF read_whole, Reader
<1>6. PICK k \in Int : w = 64 * (b.val + 64 * k) + x
  BY <1>4, <1>5, Shifted
<1>7. d \in Reader
  BY <1>4, <1>5, ReadChar
<1>8. d = IF valb >= 0 THEN [val |-> w, valb |-> valb - 8,
                             out |-> Append(b.out, (w \div 2 ^ valb) % 256)]
                       ELSE [val |-> w, valb |-> valb, out |-> b.out]
  BY DEF read_char, written_at
<1>9. read_whole(s, i + 1, d)
        <=> /\ d \in Reader /\ d.valb = u - 8
            /\ d.out = SubSeq(s, 1, q)
            /\ u = 6 => d.val % 64 = byte_of(s, q + 1) \div 4
            /\ u = 4 => d.val % 16 = byte_of(s, q + 1) \div 16
            /\ u = 2 => d.val % 4 = byte_of(s, q + 1) \div 64
  BY DEF read_whole
<1> DEFINE v == b.val
<1> HIDE DEF v
<1>10. w \in Int /\ v \in Int /\ w = 64 * (v + 64 * k) + x
  <2>1. v \in Int /\ w = 64 * (v + 64 * k) + x
    BY <1>5, <1>6 DEF v
  <2> HIDE DEF w, x
  <2>2. w \in Int
    BY <1>4, <2>1
  <2> QED BY <2>1, <2>2
<1> HIDE DEF w, x
<1>low64. w % 64 = x
  BY <1>4, <1>10
<1>low16. w % 16 = x % 16
  BY <1>4, <1>10
<1>low4. w % 4 = x % 4
  BY <1>4, <1>10
<1>high16. (w \div 16) % 256 = 4 * (v % 64) + x \div 16
  BY <1>4, <1>10, SMTT(60)
<1>high4. (w \div 4) % 256 = 16 * (v % 16) + x \div 4
  BY <1>4, <1>10
<1>high1. (w \div 1) % 256 = 64 * (v % 4) + x
  BY <1>4, <1>10
<1>11. q <= Len(s)
  OBVIOUS
<1> HIDE DEF p, r, q, u, a, z, c, d, valb
<1>12. CASE r = 0
  <2>1. valb = -2 /\ ~ (valb >= 0) /\ u = 6 /\ q = p
    BY <1>1, <1>5, <1>12 DEF valb
  <2>2. d.val = w /\ d.valb = -2 /\ d.out = b.out
    BY <1>8, <2>1
  <2>3. w % 64 = a \div 4
    BY <1>2, <1>low64, <1>12
  <2> QED BY <1>5, <1>7, <1>9, <2>1, <2>2, <2>3 DEF a
<1>13. CASE r = 6
  <2>1. valb = 4 /\ valb >= 0 /\ u = 4 /\ q = p + 1
    BY <1>1, <1>5, <1>13 DEF valb
  <2>2. 2 ^ valb = 16
    BY <2>1, SMT
  <2>3. d.val = w /\ d.valb = -4 /\ d.out = Append(b.out, (w \div 16) % 256)
    BY <1>8, <2>1, <2>2, SMTT(30)
  <2>4. (w \div 16) % 256 = a
    <3>1. v % 64 = a \div 4 /\ x = 16 * (a % 4) + z \div 16
      BY <1>2, <1>5, <1>13, SMTT(30) DEF v
    <3> QED BY ONLY <1>3, <1>high16, <3>1, Halves
  <2>5. w % 16 = z \div 16
    <3>1. x = 16 * (a % 4) + z \div 16
      BY <1>2, <1>13
    <3> QED BY ONLY <1>3, <1>low16, <3>1, Halves
  <2>6. d.out = SubSeq(s, 1, q)
    BY <1>1, <1>5, <1>11, <2>1, <2>3, <2>4, OneMore, SMTT(60) DEF a
  <2>7. z = byte_of(s, q + 1)
    <3>1. q + 1 = p + 2
      BY <1>1, <2>1
    <3> QED BY <3>1 DEF z
  <2>8. d.valb = u - 8 /\ u = 4
    BY <2>1, <2>3
  <2>9. d.val % 16 = byte_of(s, q + 1) \div 16
    BY <2>3, <2>5, <2>7
  <2> QED BY <1>7, <1>9, <2>6, <2>8, <2>9
<1>14. CASE r = 4
  <2>1. valb = 2 /\ valb >= 0 /\ u = 2 /\ q = p + 1
    BY <1>1, <1>5, <1>14 DEF valb
  <2>2. 2 ^ valb = 4
    BY <2>1, SMT
  <2>3. d.val = w /\ d.valb = -6 /\ d.out = Append(b.out, (w \div 4) % 256)
    BY <1>8, <2>1, <2>2, SMTT(30)
  <2>4. (w \div 4) % 256 = a
    <3>1. v % 16 = a \div 16 /\ x = 4 * (a % 16) + z \div 64
      BY <1>2, <1>5, <1>14, SMTT(30) DEF v
    <3> QED BY ONLY <1>3, <1>high4, <3>1, Halves
  <2>5. w % 4 = z \div 64
    <3>1. x = 4 * (a % 16) + z \div 64
      BY <1>2, <1>14
    <3> QED BY ONLY <1>3, <1>low4, <3>1, Halves
  <2>6. d.out = SubSeq(s, 1, q)
    BY <1>1, <1>5, <1>11, <2>1, <2>3, <2>4, OneMore, SMTT(30) DEF a
  <2>7. z = byte_of(s, q + 1)
    <3>1. q + 1 = p + 2
      BY <1>1, <2>1
    <3> QED BY <3>1 DEF z
  <2>8. d.valb = u - 8 /\ u = 2
    BY <2>1, <2>3
  <2>9. d.val % 4 = byte_of(s, q + 1) \div 64
    BY <2>3, <2>5, <2>7
  <2> QED BY <1>7, <1>9, <2>6, <2>8, <2>9
<1>15. CASE r = 2
  <2>1. valb = 0 /\ valb >= 0 /\ u = 0 /\ q = p + 1
    BY <1>1, <1>5, <1>15 DEF valb
  <2>2. 2 ^ valb = 1
    BY <2>1, SMT
  <2>3. d.valb = -8 /\ d.out = Append(b.out, (w \div 1) % 256)
    BY <1>8, <2>1, <2>2, SMTT(30)
  <2>4. (w \div 1) % 256 = a
    <3>1. v % 4 = a \div 64 /\ x = a % 64
      BY <1>2, <1>5, <1>15 DEF v
    <3> QED BY ONLY <1>3, <1>high1, <3>1, Halves
  <2>5. d.out = SubSeq(s, 1, q)
    BY <1>1, <1>5, <1>11, <2>1, <2>3, <2>4, OneMore, SMTT(30) DEF a
  <2>6. d.valb = u - 8 /\ u = 0
    BY <2>1, <2>3
  <2> QED BY <1>7, <1>9, <2>5, <2>6
<1> QED BY <1>1, <1>12, <1>13, <1>14, <1>15

\* After all characters every byte is out.
LEMMA ReadsAll ==
  ASSUME NEW s \in Text
  PROVE  LET e == base64url_encode(s) IN accumulating(e)[Len(e)].out = s
<1> DEFINE e == base64url_encode(s)
           n == Len(s)
           l == (8 * n + 5) \div 6
           f == accumulating(e)
           T == {i \in Nat : i <= l => read_whole(s, i, f[i])}
<1>1. /\ e \in Seq(Base64) /\ Len(e) = l /\ l \in Nat /\ n \in Nat
      /\ \A i \in 0 .. (l - 1) : e[i + 1] = base64url_char(sextet_of(s, 6 * i))
  BY Encodes
<1>2. f[0] = reader /\ \A i \in 1 .. l : f[i] = read_char(f[i - 1], e[i])
  <2>1. f[0] = reader /\ \A i \in 1 .. Len(e) : f[i] = read_char(f[i - 1], e[i])
    BY <1>1, Accumulating
  <2> QED BY <1>1, <2>1
<1>3. \A i \in Nat : i <= l => (6 * i) \div 8 <= n
  BY <1>1
<1>4. (6 * l) \div 8 = n
  BY <1>1
<1> HIDE DEF e, f, l
<1>5. 0 \in T
  <2>1. reader \in Reader /\ reader.valb = 0 - 8 /\ reader.out = <<>>
    BY DEF reader, Reader, Text
  <2>2. SubSeq(s, 1, 0) = <<>>
    BY DEF Text
  <2>3. (6 * 0) \div 8 = 0 /\ (6 * 0) % 8 = 0
    OBVIOUS
  <2>4. read_whole(s, 0, reader)
    BY <2>1, <2>2, <2>3 DEF read_whole
  <2> QED BY <1>2, <2>4
<1>6. ASSUME NEW i \in Nat, i \in T PROVE i + 1 \in T
  <2> SUFFICES ASSUME i + 1 <= l PROVE read_whole(s, i + 1, f[i + 1])
    OBVIOUS
  <2>1. i <= l /\ i \in 0 .. (l - 1) /\ i + 1 \in 1 .. l /\ (i + 1) - 1 = i
    BY <1>1
  <2>2. read_whole(s, i, f[i])
    BY <1>6, <2>1
  <2>3. f[i + 1] = read_char(f[i], base64url_char(sextet_of(s, 6 * i)))
    BY <1>1, <1>2, <2>1
  <2>4. (6 * (i + 1)) \div 8 <= n
    BY <1>3
  <2> DEFINE b == f[i]
  <2> HIDE DEF b
  <2>5. read_whole(s, i + 1, read_char(b, base64url_char(sextet_of(s, 6 * i))))
    BY <2>2, <2>4, ReadsOne DEF b
  <2> QED BY <2>3, <2>5 DEF b
<1> HIDE DEF T
<1>7. Nat \subseteq T
  BY <1>5, <1>6, Induct
<1>8. read_whole(s, l, f[l])
  BY <1>1, <1>7 DEF T
<1>9. f[l].out = SubSeq(s, 1, n)
  BY <1>4, <1>8 DEF read_whole
<1>10. SubSeq(s, 1, n) = s
  BY DEF Text
<1> QED BY <1>1, <1>9, <1>10 DEF e, f

\* What base64url_encode wrote is read as what it was written of.
LEMMA Base64ReadBack ==
  ASSUME NEW s \in Text
  PROVE  base64url_decode(base64url_encode(s)) = s
<1> DEFINE e == base64url_encode(s)
           l == Len(e)
<1>1. e \in Seq(Base64) /\ l \in Nat
  BY Encodes
<1>2. \A i \in DOMAIN e : e[i] \in Base64
  BY <1>1
<1>3. accumulating(e)[l].out = s
  BY ReadsAll
<1> HIDE DEF e, l
<1>4. find(e, equals, 1) = l + 1
  <2>1. \A j \in 1 .. l : e[j] # equals
    <3> SUFFICES ASSUME NEW j \in 1 .. l PROVE e[j] # equals
      OBVIOUS
    <3>1. j \in DOMAIN e
      BY <1>1 DEF l
    <3>2. e[j] \in Base64
      BY <1>2, <3>1
    <3> DEFINE c == e[j]
    <3> HIDE DEF c
    <3>3. c # equals
      BY <3>2, Base64Chars DEF c
    <3> QED BY <3>3 DEF c
  <2>2. l + 1 \in 1 .. (Len(e) + 1) /\ 1 \in 1 .. (Len(e) + 1) /\ (l + 1) - 1 = l
    BY <1>1 DEF l
  <2>3. l + 1 <= Len(e) => e[l + 1] = equals
    BY <1>1 DEF l
  <2>4. \A j \in 1 .. ((l + 1) - 1) : e[j] # equals
    BY <2>1, <2>2
  <2> QED BY <1>1, <2>2, <2>3, <2>4, FoundAt
<1>5. SubSeq(e, 1, find(e, equals, 1) - 1) = e
  <2>1. find(e, equals, 1) - 1 = l
    BY <1>1, <1>4
  <2> QED BY <1>1, <2>1 DEF l
<1>6. \A i \in DOMAIN e : decode_base64url_char(e[i]) # None
  <2> SUFFICES ASSUME NEW i \in DOMAIN e PROVE decode_base64url_char(e[i]) # None
    OBVIOUS
  <2>1. decode_base64url_char(e[i]) \in 0 .. 63
    BY <1>2, Base64Chars
  <2>2. \A x \in 0 .. 63 : x \in Octet
    BY DEF Octet
  <2> QED BY <2>1, <2>2, NotNone
<1>7. base64url_decode(e) = accumulating(e)[l].out
  BY <1>5, <1>6 DEF base64url_decode, accumulating, l
<1> QED BY <1>3, <1>7 DEF e

\* A text with a character that is none of base64url's is refused.
LEMMA Base64Refused ==
  ASSUME NEW e \in Text, NEW i \in DOMAIN e, decode_base64url_char(e[i]) = None,
         \A j \in DOMAIN e : e[j] # equals
  PROVE  base64url_decode(e) = None
<1> DEFINE l == Len(e)
<1>1. l \in Nat /\ e \in Seq(Octet)
  BY DEF Text
<1>2. find(e, equals, 1) = l + 1
  <2>1. \A j \in 1 .. l : e[j] # equals
    BY <1>1
  <2>2. l + 1 \in 1 .. (Len(e) + 1) /\ 1 \in 1 .. (Len(e) + 1) /\ (l + 1) - 1 = l
    BY <1>1
  <2>3. l + 1 <= Len(e) => e[l + 1] = equals
    BY <1>1
  <2>4. \A j \in 1 .. ((l + 1) - 1) : e[j] # equals
    BY <2>1, <2>2
  <2> HIDE DEF l
  <2> QED BY <1>1, <2>2, <2>3, <2>4, FoundAt
<1>3. SubSeq(e, 1, find(e, equals, 1) - 1) = e
  <2>1. find(e, equals, 1) - 1 = l
    BY <1>1, <1>2
  <2> QED BY <1>1, <2>1
<1> QED BY <1>3 DEF base64url_decode

LEMMA PartOfText ==
  ASSUME NEW s \in Text, NEW t \in Text, NEW k \in Nat, NEW m \in Nat, m = k + Len(t), m <= Len(s),
         \A i \in 1 .. Len(t) : s[k + i] = t[i]
  PROVE  SubSeq(s, k + 1, m) = t
<1> DEFINE u == SubSeq(s, k + 1, m)
<1>1. s \in Seq(Octet) /\ t \in Seq(Octet) /\ Len(s) \in Nat /\ Len(t) \in Nat
  BY DEF Text
<1>2. u \in Seq(Octet) /\ Len(u) = Len(t)
  BY <1>1
<1>3. \A i \in 1 .. Len(t) : u[i] = s[k + i]
  BY <1>1
<1> HIDE DEF u
<1>4. \A i \in 1 .. Len(u) : u[i] = t[i]
  BY <1>2, <1>3
<1>5. u = t
  BY <1>1, <1>2, <1>4, SeqEqual
<1> QED BY <1>5 DEF u

\* The two dots of a token, and what lies between them.
LEMMA Dots ==
  ASSUME NEW h \in Seq(Base64), NEW p \in Seq(Base64), NEW g \in Text
  PROVE  LET s == cut(h, dot, p)
             w == cut(s, dot, g)
             a == Len(h)
             b == Len(s)
         IN  /\ s \in Text /\ w \in Text /\ a \in Nat /\ b \in Nat
             /\ find(s, dot, 1) = a + 1 /\ find(s, dot, a + 2) = b + 1
             /\ find(w, dot, 1) = a + 1 /\ find(w, dot, a + 2) = b + 1 /\ b + 1 <= Len(w)
             /\ SubSeq(w, 1, a) = h /\ SubSeq(w, a + 2, b) = p /\ SubSeq(w, 1, b) = s
             /\ from(w, b + 2) = g
             /\ Len(w) = b + 1 + Len(g)
             /\ \A i \in 1 .. Len(g) : w[b + 1 + i] = g[i]
<1> DEFINE s == cut(h, dot, p)
           w == cut(s, dot, g)
           a == Len(h)
           c == Len(p)
           b == Len(s)
           n == Len(w)
<1>1. h \in Text /\ p \in Text /\ dot \in Octet
  <2>1. Base64 \subseteq Octet
    BY Base64Chars
  <2>2. Seq(Base64) \subseteq Seq(Octet)
    BY <2>1, SeqMonotonic
  <2>3. dot \in Octet
    BY DEF dot, Octet
  <2> QED BY <2>2, <2>3 DEF Text
<1>2. (\A i \in 1 .. a : h[i] # dot) /\ (\A i \in 1 .. c : p[i] # dot)
  <2>1. (\A i \in 1 .. a : h[i] \in Base64) /\ (\A i \in 1 .. c : p[i] \in Base64)
    OBVIOUS
  <2>2. \A x \in Base64 : x # dot
    BY Base64Chars
  <2> QED BY <2>1, <2>2
<1>3. /\ s \in Text /\ b = a + 1 + c /\ a \in Nat /\ c \in Nat
      /\ s[a + 1] = dot
  BY <1>1, CutItems
<1>4. \A i \in 1 .. a : s[i] = h[i]
  BY <1>1, CutItems
<1>5. \A i \in 1 .. c : s[a + 1 + i] = p[i]
  BY <1>1, CutItems
<1> HIDE DEF s
<1>6. /\ w \in Text /\ n = b + 1 + Len(g) /\ Len(g) \in Nat
      /\ w[b + 1] = dot
  BY <1>1, <1>3, CutItems, ZenonT(90)
<1>7. \A i \in 1 .. b : w[i] = s[i]
  BY <1>1, <1>3, CutItems, ZenonT(90)
<1>8. \A i \in 1 .. Len(g) : w[b + 1 + i] = g[i]
  BY <1>1, <1>3, CutItems, ZenonT(90)
<1> HIDE DEF w, a, b, c, n
<1>9. b \in Nat /\ a + 1 <= b /\ b + 1 <= n /\ n \in Nat /\ n = Len(w) /\ b = Len(s)
      /\ a = Len(h) /\ c = Len(p)
  BY <1>3, <1>6 DEF n, b, a, c
<1>10. \A j \in 1 .. a : s[j] # dot /\ w[j] # dot
  <2> SUFFICES ASSUME NEW j \in 1 .. a PROVE s[j] # dot /\ w[j] # dot
    OBVIOUS
  <2>1. j \in 1 .. b
    BY <1>3, <1>9
  <2> QED BY <1>2, <1>4, <1>7, <2>1
<1>11. \A j \in (a + 2) .. b : s[j] # dot /\ w[j] # dot
  <2> SUFFICES ASSUME NEW j \in (a + 2) .. b PROVE s[j] # dot /\ w[j] # dot
    OBVIOUS
  <2> DEFINE i == j - a - 1
  <2>1. i \in 1 .. c /\ a + 1 + i = j /\ j \in 1 .. b
    BY <1>3, <1>9
  <2> HIDE DEF i
  <2>2. s[a + 1 + i] = p[i] /\ p[i] # dot
    BY <1>2, <1>5, <2>1
  <2> QED BY <1>7, <2>1, <2>2
<1>12. w[a + 1] = dot
  <2>1. a + 1 \in 1 .. b
    BY <1>3, <1>9
  <2> QED BY <1>3, <1>7, <2>1
<1>13. find(s, dot, 1) = a + 1
  <2>1. /\ s \in Seq(Octet) /\ 1 \in 1 .. (Len(s) + 1) /\ a + 1 \in 1 .. (Len(s) + 1)
        /\ a + 1 <= Len(s) => s[a + 1] = dot
    BY <1>3, <1>9 DEF Text
  <2>2. \A j \in 1 .. ((a + 1) - 1) : s[j] # dot
    BY <1>3, <1>10
  <2> QED BY <2>1, <2>2, FoundAt
<1>14. find(s, dot, a + 2) = b + 1
  <2>1. /\ s \in Seq(Octet) /\ a + 2 \in 1 .. (Len(s) + 1) /\ b + 1 \in (a + 2) .. (Len(s) + 1)
    BY <1>3, <1>9 DEF Text
  <2>2. b + 1 <= Len(s) => s[b + 1] = dot
    BY <1>9
  <2>3. \A j \in (a + 2) .. ((b + 1) - 1) : s[j] # dot
    BY <1>9, <1>11
  <2> QED BY <2>1, <2>2, <2>3, FoundAt
<1>15. find(w, dot, 1) = a + 1
  <2>1. /\ w \in Seq(Octet) /\ 1 \in 1 .. (Len(w) + 1) /\ a + 1 \in 1 .. (Len(w) + 1)
        /\ a + 1 <= Len(w) => w[a + 1] = dot
    BY <1>3, <1>6, <1>9, <1>12 DEF Text
  <2>2. \A j \in 1 .. ((a + 1) - 1) : w[j] # dot
    BY <1>3, <1>10
  <2> QED BY <2>1, <2>2, FoundAt
<1>16. find(w, dot, a + 2) = b + 1
  <2>1. /\ w \in Seq(Octet) /\ a + 2 \in 1 .. (Len(w) + 1) /\ b + 1 \in (a + 2) .. (Len(w) + 1)
    BY <1>3, <1>6, <1>9 DEF Text
  <2>2. b + 1 <= Len(w) => w[b + 1] = dot
    BY <1>6
  <2>3. \A j \in (a + 2) .. ((b + 1) - 1) : w[j] # dot
    BY <1>9, <1>11
  <2> QED BY <2>1, <2>2, <2>3, FoundAt
<1>17. SubSeq(w, 1, a) = h
  <2>1. \A i \in 1 .. Len(h) : w[0 + i] = h[i]
    <3> SUFFICES ASSUME NEW i \in 1 .. a PROVE w[0 + i] = h[i]
      BY <1>9
    <3>1. 0 + i = i /\ i \in 1 .. b
      BY <1>3, <1>9
    <3> QED BY <1>4, <1>7, <3>1
  <2>2. a \in Nat /\ 0 \in Nat /\ a = 0 + Len(h) /\ a <= Len(w)
    BY <1>3, <1>9
  <2>3. SubSeq(w, 0 + 1, a) = h
    BY <1>1, <1>6, <2>1, <2>2, PartOfText
  <2> QED BY <2>3
<1>18. SubSeq(w, a + 2, b) = p
  <2>1. \A i \in 1 .. Len(p) : w[(a + 1) + i] = p[i]
    <3> SUFFICES ASSUME NEW i \in 1 .. c PROVE w[(a + 1) + i] = p[i]
      BY <1>9
    <3>1. (a + 1) + i \in 1 .. b
      BY <1>3, <1>9
    <3> QED BY <1>5, <1>7, <3>1
  <2>2. a + 1 \in Nat /\ b = (a + 1) + Len(p) /\ b <= Len(w)
    BY <1>3, <1>9
  <2>3. SubSeq(w, (a + 1) + 1, b) = p
    BY <1>1, <1>6, <1>9, <2>1, <2>2, PartOfText, SMTT(60)
  <2>4. (a + 1) + 1 = a + 2
    BY <1>3
  <2> QED BY <2>3, <2>4
<1>19. SubSeq(w, 1, b) = s
  <2>1. \A i \in 1 .. Len(s) : w[0 + i] = s[i]
    <3> SUFFICES ASSUME NEW i \in 1 .. b PROVE w[0 + i] = s[i]
      BY <1>9
    <3>1. 0 + i = i
      BY <1>3, <1>9
    <3> QED BY <1>7, <3>1
  <2>2. b \in Nat /\ 0 \in Nat /\ b = 0 + Len(s) /\ b <= Len(w)
    BY <1>3, <1>9
  <2>3. SubSeq(w, 0 + 1, b) = s
    BY <1>3, <1>6, <2>1, <2>2, PartOfText
  <2> QED BY <2>3
<1>20. from(w, b + 2) = g
  <2>1. b + 1 \in Nat /\ n = (b + 1) + Len(g) /\ n <= Len(w)
    BY <1>6, <1>9
  <2>2. SubSeq(w, (b + 1) + 1, n) = g
    BY <1>6, <1>8, <1>9, <2>1, PartOfText
  <2>3. (b + 1) + 1 = b + 2
    BY <1>9
  <2> QED BY <1>9, <2>2, <2>3 DEF from
<1>21. Len(w) = b + 1 + Len(g)
  BY <1>6, <1>9
<1> QED BY <1>3, <1>6, <1>8, <1>9, <1>13, <1>14, <1>15, <1>16, <1>17, <1>18, <1>19, <1>20, <1>21
        DEF s, w, a, b

\* What decode_jwt makes of a text of two dots.
LEMMA TokenParts ==
  ASSUME NEW h \in Seq(Base64), NEW p \in Seq(Base64), NEW g \in Text
  PROVE  LET s == cut(h, dot, p)
             x == base64url_decode(h)
             y == base64url_decode(p)
             z == base64url_decode(g)
         IN  /\ decode_jwt(s) = None
             /\ decode_jwt(cut(s, dot, g))
                  = IF None \in {x, y, z} THEN None
                    ELSE [signing_input |-> s, header_json |-> x, payload_json |-> y,
                          signature |-> z]
<1> DEFINE s == cut(h, dot, p)
           w == cut(s, dot, g)
           a == Len(h)
           b == Len(s)
<1>1. /\ s \in Text /\ w \in Text /\ a \in Nat /\ b \in Nat
      /\ find(s, dot, 1) = a + 1 /\ find(s, dot, a + 2) = b + 1
      /\ find(w, dot, 1) = a + 1 /\ find(w, dot, a + 2) = b + 1 /\ b + 1 <= Len(w)
      /\ SubSeq(w, 1, a) = h /\ SubSeq(w, a + 2, b) = p /\ SubSeq(w, 1, b) = s
      /\ from(w, b + 2) = g
  BY Dots
<1>2. (a + 1) + 1 = a + 2 /\ (b + 1) + 1 = b + 2 /\ (a + 1) - 1 = a /\ (b + 1) - 1 = b
      /\ b + 1 > b
  BY <1>1
<1> HIDE DEF s, w, a
<1>3. decode_jwt(s) = None
  <2>1. find(s, dot, find(s, dot, 1) + 1) = b + 1 /\ b + 1 > Len(s)
    BY <1>1, <1>2
  <2> QED BY <2>1 DEF decode_jwt
<1> HIDE DEF b
<1>4. ~ (b + 1 > Len(w))
  BY <1>1 DEF Text
<1>5. decode_jwt(w)
        = IF None \in {base64url_decode(h), base64url_decode(p), base64url_decode(g)} THEN None
          ELSE [signing_input |-> s, header_json |-> base64url_decode(h),
                payload_json |-> base64url_decode(p), signature |-> base64url_decode(g)]
  BY <1>1, <1>2, <1>4 DEF decode_jwt
<1> QED BY <1>3, <1>5 DEF s, w

\* A text of base64url and a dot is none of base64url.
LEMMA DotRefused ==
  ASSUME NEW g \in Seq(Base64)
  PROVE  append(g, dot) \in Text /\ base64url_decode(append(g, dot)) = None
<1> DEFINE e == append(g, dot)
           n == Len(g)
<1>1. g \in Seq(Octet) /\ dot \in Octet /\ n \in Nat /\ \A i \in 1 .. n : g[i] \in Base64
  <2>1. Base64 \subseteq Octet
    BY Base64Chars
  <2>2. Seq(Base64) \subseteq Seq(Octet)
    BY <2>1, SeqMonotonic
  <2>3. dot \in Octet
    BY DEF dot, Octet
  <2> QED BY <2>2, <2>3
<1>2. e \in Seq(Octet) /\ Len(e) = n + 1 /\ e[n + 1] = dot /\ \A i \in 1 .. n : e[i] = g[i]
  <2>1. e \in Seq(Octet) /\ Len(e) = n + 1
    BY <1>1, Appended
  <2>2. e[n + 1] = dot
    BY <1>1, Appended
  <2>3. \A i \in 1 .. n : e[i] = g[i]
    BY <1>1, Appended
  <2> QED BY <2>1, <2>2, <2>3
<1> HIDE DEF e, n
<1>3. n + 1 \in DOMAIN e /\ DOMAIN e = 1 .. (n + 1)
  BY <1>1, <1>2
<1>4. \A j \in DOMAIN e : e[j] # equals
  <2> SUFFICES ASSUME NEW j \in 1 .. (n + 1) PROVE e[j] # equals
    BY <1>3
  <2>1. CASE j = n + 1
    BY <1>2, <2>1 DEF dot, equals
  <2>2. CASE j # n + 1
    <3>1. j \in 1 .. n
      BY <1>1, <2>2
    <3> DEFINE c == e[j]
    <3>2. c \in Base64
      BY <1>1, <1>2, <3>1
    <3> HIDE DEF c
    <3>3. c # equals
      BY <3>2, Base64Chars
    <3> QED BY <3>3 DEF c
  <2> QED BY <2>1, <2>2
<1>5. decode_base64url_char(e[n + 1]) = None
  BY <1>2, Base64Chars
<1>6. base64url_decode(e) = None
  BY <1>2, <1>3, <1>4, <1>5, Base64Refused DEF Text
<1> QED BY <1>2, <1>6 DEF e, Text

\* A token is decoded to what it was made of; one part less or a dot more is refused.
LEMMA TokenReadBack ==
  ASSUME NEW header \in Text, NEW payload \in Text, NEW signature \in Text, NEW s, NEW w,
         s = cut(base64url_encode(header), dot, base64url_encode(payload)),
         w = cut(s, dot, base64url_encode(signature))
  PROVE  /\ decode_jwt(w) = [signing_input |-> s, header_json |-> header,
                             payload_json |-> payload, signature |-> signature]
         /\ decode_jwt(s) = None
         /\ decode_jwt(w \o <<dot>>) = None
<1> DEFINE h == base64url_encode(header)
           p == base64url_encode(payload)
           g == base64url_encode(signature)
<1>1. h \in Seq(Base64) /\ p \in Seq(Base64) /\ g \in Seq(Base64) /\ g \in Text
  <2>1. h \in Seq(Base64) /\ p \in Seq(Base64) /\ g \in Seq(Base64)
    BY Encodes
  <2>2. Base64 \subseteq Octet
    BY Base64Chars
  <2>3. Seq(Base64) \subseteq Seq(Octet)
    BY <2>2, SeqMonotonic
  <2> QED BY <2>1, <2>3 DEF Text
<1>2. base64url_decode(h) = header /\ base64url_decode(p) = payload
      /\ base64url_decode(g) = signature
  BY Base64ReadBack
<1>3. header # None /\ payload # None /\ signature # None
  BY NotNone
<1>4. s = cut(h, dot, p) /\ w = cut(s, dot, g)
  OBVIOUS
<1> HIDE DEF h, p, g
<1>5. /\ decode_jwt(s) = None
      /\ decode_jwt(w) = IF None \in {header, payload, signature} THEN None
                         ELSE [signing_input |-> s, header_json |-> header,
                               payload_json |-> payload, signature |-> signature]
  BY ONLY <1>1, <1>2, <1>4, TokenParts
<1>6. decode_jwt(w \o <<dot>>) = None
  <2> DEFINE t == append(g, dot)
  <2>1. t \in Text /\ base64url_decode(t) = None
    BY <1>1, DotRefused
  <2> DEFINE k == append(s, dot)
  <2>2. s \in Text
    BY ONLY <1>1, <1>4, Dots
  <2>3. dot \in Octet
    BY DEF dot, Octet
  <2>4. k \in Seq(Octet) /\ g \in Seq(Octet)
    BY ONLY <1>1, <2>2, <2>3, Appended DEF Text
  <2>5. w = concat(k, g) /\ cut(s, dot, t) = concat(k, t)
    BY ONLY <1>4 DEF cut, append, concat
  <2> HIDE DEF k
  <2>6. concat(k, append(g, dot)) = append(concat(k, g), dot)
    BY ONLY <2>3, <2>4, ConcatAppended
  <2>7. w \o <<dot>> = cut(s, dot, t)
    BY ONLY <2>5, <2>6 DEF append
  <2> HIDE DEF t
  <2>8. decode_jwt(cut(s, dot, t)) = None
    BY ONLY <1>1, <1>4, <2>1, TokenParts
  <2> QED BY ONLY <2>7, <2>8
<1> QED BY ONLY <1>3, <1>5, <1>6

(***************************************************************************)
(* A token whose parts base64url_encode wrote is decoded to its header,    *)
(* payload and signature, byte for byte and for every length, its signing  *)
(* input is the text before the last dot, and it is refused with its       *)
(* signature missing or with a part too many.                              *)
(***************************************************************************)
THEOREM TokensReadBack == Spec => []TokenRoundTrip
<1>1. TypeOK => TokenRoundTrip
  <2> SUFFICES ASSUME TypeOK, NEW i \in DOMAIN fields
               PROVE  LET payload   == fields[i].value
                          header    == fields[i].name
                          signature == payload \o header \o payload \o payload
                          signed    == base64url_encode(header) \o <<dot>>
                                         \o base64url_encode(payload)
                          token     == signed \o <<dot>> \o base64url_encode(signature)
                      IN /\ decode_jwt(token) = [signing_input |-> signed, header_json |-> header,
                                                 payload_json |-> payload, signature |-> signature]
                         /\ decode_jwt(signed) = None
                         /\ decode_jwt(token \o <<dot>>) = None
    BY DEF TokenRoundTrip
  <2> DEFINE payload   == fields[i].value
             header    == fields[i].name
             signature == payload \o header \o payload \o payload
             signed    == cut(base64url_encode(header), dot, base64url_encode(payload))
             token     == cut(signed, dot, base64url_encode(signature))
  <2>1. payload \in Text /\ header \in Text
    BY FieldRecord DEF TypeOK
  <2>2. signature \in Text
    <3> HIDE DEF payload, header
    <3> QED BY <2>1 DEF Text
  <2> HIDE DEF payload, header, signature
  <2>3. /\ decode_jwt(token) = [signing_input |-> signed, header_json |-> header,
                                payload_json |-> payload, signature |-> signature]
        /\ decode_jwt(signed) = None
        /\ decode_jwt(token \o <<dot>>) = None
    BY <2>1, <2>2, TokenReadBack
  <2> QED BY <2>3 DEF payload, header, signature, cut
<1> QED BY <1>1, FieldsTyped, PTL

-----------------------------------------------------------------------------
\* Decimal numbers: to_string and stoi.

\* The tables that they read their results from.
decimals(number) ==
  CHOOSE f : f = [n \in 0 .. number |->
    IF n < 10 THEN <<zero + n>> ELSE f[n \div 10] \o <<zero + (n % 10)>>]

values(digits) ==
  CHOOSE f : f = [i \in 0 .. Len(digits) |->
    IF i = 0 THEN 0 ELSE 10 * f[i - 1] + digits[i] - zero]

\* A function of the numbers up to n, each of whose values is made of earlier ones.
counts_up(n, V, D) ==
  /\ n \in Nat /\ V # {}
  /\ D \in [[0 .. n -> V] -> [0 .. n -> V]]
  /\ \A g, h \in [0 .. n -> V], i \in 0 .. n :
       (\A j \in 0 .. n : j < i => g[j] = h[j]) => D[g][i] = D[h][i]

LEMMA CountingUp ==
  ASSUME NEW n, NEW V, NEW D, counts_up(n, V, D)
  PROVE  \E f \in [0 .. n -> V] : f = D[f]
<1> DEFINE S == 0 .. n
           r == [i \in S |-> i]
           N == n + 1
<1>1. N \in Nat /\ r \in [S -> Nat]
  BY DEF counts_up
<1>2. \A i \in S : r[i] < N
  BY DEF counts_up
<1>3. \A i, j \in S : r[j] < r[i] <=> j < i
  OBVIOUS
<1>4. D \in [[S -> V] -> [S -> V]] /\ V # {}
  BY DEF counts_up
<1>5. ASSUME NEW g \in [S -> V], NEW h \in [S -> V], NEW i \in S,
             \A j \in S : r[j] < r[i] => g[j] = h[j]
      PROVE  D[g][i] = D[h][i]
  <2>1. \A j \in S : j < i => g[j] = h[j]
    BY <1>3, <1>5
  <2> QED BY <2>1 DEF counts_up
<1> HIDE DEF r, N, S
<1>6. descends(S, V, D, r, N)
  BY <1>1, <1>2, <1>4, <1>5 DEF descends
<1>7. \E f \in [S -> V] : f = D[f]
  BY <1>6, Recursion
<1> QED BY <1>7 DEF S

\* What holds of a number when it holds of all smaller ones.
LEMMA FromSmaller ==
  ASSUME NEW n \in Nat, NEW T, \A i \in 0 .. n : (\A j \in 0 .. n : j < i => j \in T) => i \in T
  PROVE  \A i \in 0 .. n : i \in T
<1> DEFINE S == {k \in Nat : \A i \in 0 .. n : i < k => i \in T}
<1>1. 0 \in S
  OBVIOUS
<1>2. ASSUME NEW k \in Nat, k \in S PROVE k + 1 \in S
  <2> SUFFICES ASSUME NEW i \in 0 .. n, i < k + 1 PROVE i \in T
    OBVIOUS
  <2>1. \A j \in 0 .. n : j < i => j < k
    OBVIOUS
  <2>2. \A j \in 0 .. n : j < i => j \in T
    BY <1>2, <2>1
  <2> QED BY <2>2
<1> HIDE DEF S
<1>3. n + 1 \in S
  BY <1>1, <1>2, Induct
<1> QED BY <1>3 DEF S

LEMMA Tenth ==
  ASSUME NEW n \in Nat, ~ (n < 10)
  PROVE  /\ n \div 10 \in Nat /\ n \div 10 < n /\ n % 10 \in 0 .. 9
         /\ n = 10 * (n \div 10) + (n % 10)
OBVIOUS

LEMMA DigitOf ==
  ASSUME NEW n \in 0 .. 9
  PROVE  zero + n \in Digit /\ (zero + n) - zero = n
BY DEF zero, Digit

\* to_string's recursion has a result for every number.
LEMMA Decimals ==
  ASSUME NEW number \in Nat
  PROVE  \A n \in 0 .. number :
           /\ decimals(number)[n]
                = IF n < 10 THEN <<zero + n>>
                  ELSE append(decimals(number)[n \div 10], zero + (n % 10))
           /\ decimals(number)[n] \in Seq(Digit)
<1> DEFINE S == 0 .. number
           V == Seq(Digit)
           body(f, n) == IF n < 10 THEN <<zero + n>> ELSE append(f[n \div 10], zero + (n % 10))
           D == [g \in [S -> V] |-> [n \in S |-> body(g, n)]]
           f == decimals(number)
<1>0. ASSUME NEW n \in S PROVE ~ (n < 10) => n \div 10 \in S /\ n \div 10 < n
  BY Tenth
<1>1. ASSUME NEW n \in S, NEW g, \A j \in S : j < n => g[j] \in V
      PROVE  body(g, n) \in V
  <2>1. CASE n < 10
    <3>1. zero + n \in Digit
      BY <2>1, DigitOf
    <3>2. <<zero + n>> \in Seq(Digit)
      BY <3>1
    <3> QED BY <2>1, <3>2
  <2>2. CASE ~ (n < 10)
    <3>1. g[n \div 10] \in Seq(Digit)
      BY <1>0, <1>1, <2>2
    <3>2. n % 10 \in 0 .. 9
      BY <2>2, Tenth
    <3>3. zero + (n % 10) \in Digit
      BY <3>2, DigitOf
    <3> DEFINE d == zero + (n % 10)
               t == g[n \div 10]
    <3> HIDE DEF d, t
    <3>4. append(t, d) \in Seq(Digit)
      BY <3>1, <3>3, Appended DEF d, t
    <3> QED BY <2>2, <3>4 DEF d, t
  <2> QED BY <2>1, <2>2
<1>2. ASSUME NEW g, NEW h, NEW n \in S, \A j \in S : j < n => g[j] = h[j]
      PROVE  body(g, n) = body(h, n)
  <2>1. ~ (n < 10) => g[n \div 10] = h[n \div 10]
    BY <1>0, <1>2
  <2> QED BY <2>1
<1>3. counts_up(number, V, D)
  <2> HIDE DEF body
  <2>1. D \in [[S -> V] -> [S -> V]]
    <3> HIDE DEF V
    <3> QED BY <1>1
  <2>2. \A g, h \in [S -> V], n \in S :
          (\A j \in S : j < n => g[j] = h[j]) => D[g][n] = D[h][n]
    <3> HIDE DEF S, V
    <3> QED BY <1>2
  <2>3. V # {}
    <3>1. <<>> \in V
      OBVIOUS
    <3> QED BY <3>1
  <2> QED BY <2>1, <2>2, <2>3 DEF counts_up
<1>4. PICK g \in [S -> V] : g = D[g]
  <2> HIDE DEF D, V
  <2> QED BY <1>3, CountingUp
<1>5. \E h : h = [n \in S |-> body(h, n)]
  <2> HIDE DEF S, V, body
  <2> QED BY <1>4
<1>6. f = [n \in S |-> body(f, n)]
  BY <1>5 DEF decimals, append
<1> HIDE DEF f, body
<1>7. \A n \in S : f[n] = body(f, n)
  BY <1>6
<1>8. \A n \in S : f[n] \in V
  <2> DEFINE T == {n \in S : f[n] \in V}
  <2>1. ASSUME NEW n \in S, \A j \in S : j < n => j \in T PROVE n \in T
    <3> HIDE DEF V
    <3>1. body(f, n) \in V
      BY <1>1, <2>1
    <3> QED BY <1>7, <3>1
  <2> HIDE DEF T
  <2>2. \A n \in S : n \in T
    BY <2>1, FromSmaller
  <2> QED BY <2>2 DEF T
<1> QED BY <1>7, <1>8 DEF f, body

\* stoi's loop has a result behind every digit.
LEMMA Values ==
  ASSUME NEW s \in Seq(Digit)
  PROVE  /\ values(s)[0] = 0
         /\ \A i \in 1 .. Len(s) : values(s)[i] = 10 * values(s)[i - 1] + s[i] - zero
         /\ \A i \in 0 .. Len(s) : values(s)[i] \in Int
<1> DEFINE n == Len(s)
           S == 0 .. n
           body(f, i) == IF i = 0 THEN 0 ELSE 10 * f[i - 1] + s[i] - zero
           D == [g \in [S -> Int] |-> [i \in S |-> body(g, i)]]
           f == values(s)
<1>0. n \in Nat /\ \A i \in S : i # 0 => i - 1 \in S /\ i - 1 < i /\ s[i] \in Int /\ zero \in Int
  BY DEF Digit, zero
<1>1. ASSUME NEW i \in S, NEW g, \A j \in S : j < i => g[j] \in Int
      PROVE  body(g, i) \in Int
  <2>1. i # 0 => g[i - 1] \in Int /\ s[i] \in Int /\ zero \in Int
    BY <1>0, <1>1
  <2> QED BY ONLY <2>1
<1>2. ASSUME NEW g, NEW h, NEW i \in S, \A j \in S : j < i => g[j] = h[j]
      PROVE  body(g, i) = body(h, i)
  <2>1. i # 0 => g[i - 1] = h[i - 1]
    BY <1>0, <1>2
  <2> QED BY <2>1
<1>3. counts_up(n, Int, D)
  <2> HIDE DEF body
  <2>1. D \in [[S -> Int] -> [S -> Int]]
    BY <1>1
  <2>2. \A g, h \in [S -> Int], i \in S :
          (\A j \in S : j < i => g[j] = h[j]) => D[g][i] = D[h][i]
    BY <1>2
  <2>3. n \in Nat
    BY <1>0
  <2>4. Int # {}
    <3>1. 0 \in Int
      OBVIOUS
    <3> QED BY ONLY <3>1
  <2> HIDE DEF D, n
  <2> QED BY <2>1, <2>2, <2>3, <2>4 DEF counts_up
<1>4. PICK g \in [S -> Int] : g = D[g]
  <2> HIDE DEF D, n
  <2> QED BY <1>3, CountingUp
<1>5. \E h : h = [i \in S |-> body(h, i)]
  <2> HIDE DEF S, body
  <2> QED BY <1>4
<1>6. f = [i \in S |-> body(f, i)]
  BY <1>5 DEF values
<1> HIDE DEF f
<1>7. \A i \in S : f[i] = body(f, i)
  BY <1>6
<1>8. \A i \in S : f[i] \in Int
  <2> DEFINE T == {i \in S : f[i] \in Int}
  <2>1. ASSUME NEW i \in S, \A j \in S : j < i => j \in T PROVE i \in T
    <3> HIDE DEF body
    <3>1. body(f, i) \in Int
      BY <1>1, <2>1
    <3> QED BY <1>7, <3>1
  <2> HIDE DEF T
  <2>2. \A i \in S : i \in T
    BY <1>0, <2>1, FromSmaller
  <2> QED BY <2>2 DEF T
<1>9. 0 \in S /\ \A i \in 1 .. n : i \in S /\ i # 0
  BY <1>0
<1> QED BY <1>7, <1>8, <1>9 DEF f

LEMMA StoiRead ==
  ASSUME NEW s
  PROVE  stoi(s) = values(s)[Len(s)]
BY DEF stoi, values

\* One more digit.
LEMMA StoiAppended ==
  ASSUME NEW s \in Seq(Digit), NEW d \in Digit
  PROVE  /\ stoi(append(s, d)) = 10 * stoi(s) + d - zero
         /\ stoi(s) \in Int
<1> DEFINE w == append(s, d)
           n == Len(s)
           f == values(s)
           g == values(w)
           T == {i \in Nat : i <= n => g[i] = f[i]}
<1>1. /\ w \in Seq(Digit) /\ Len(w) = n + 1 /\ w[n + 1] = d /\ n \in Nat
      /\ \A i \in 1 .. n : w[i] = s[i]
  <2>1. append(s, d) \in Seq(Digit) /\ Len(append(s, d)) = Len(s) + 1
    BY DEF append
  <2>3. append(s, d)[Len(s) + 1] = d
    BY DEF append
  <2>4. \A i \in 1 .. Len(s) : append(s, d)[i] = s[i]
    BY DEF append
  <2>2. Len(s) \in Nat
    OBVIOUS
  <2> QED BY <2>1, <2>2, <2>3, <2>4
<1> HIDE DEF w
<1>2. /\ g[0] = 0
      /\ \A i \in 1 .. Len(w) : g[i] = 10 * g[i - 1] + w[i] - zero
  BY <1>1, Values
<1>3. /\ f[0] = 0
      /\ \A i \in 1 .. n : f[i] = 10 * f[i - 1] + s[i] - zero
  BY Values
<1>4. f[n] \in Int
  <2>1. n \in 0 .. n
    BY <1>1
  <2> QED BY <2>1, Values
<1> HIDE DEF f, g
<1>5. 0 \in T
  BY <1>2, <1>3
<1>6. ASSUME NEW i \in Nat, i \in T PROVE i + 1 \in T
  <2> SUFFICES ASSUME i + 1 <= n PROVE g[i + 1] = f[i + 1]
    OBVIOUS
  <2>1. /\ i <= n /\ i + 1 \in 1 .. n /\ i + 1 \in 1 .. Len(w) /\ (i + 1) - 1 = i
    BY <1>1
  <2>2. g[i] = f[i]
    BY <1>6, <2>1
  <2> HIDE DEF n, T
  <2>3. g[i + 1] = 10 * g[i] + w[i + 1] - zero
    BY <1>2, <2>1
  <2>4. f[i + 1] = 10 * f[i] + s[i + 1] - zero
    BY <1>3, <2>1
  <2> QED BY <1>1, <2>1, <2>2, <2>3, <2>4
<1> HIDE DEF T
<1>7. Nat \subseteq T
  BY <1>5, <1>6, Induct
<1>8. g[n] = f[n]
  BY <1>1, <1>7 DEF T
<1>9. g[n + 1] = 10 * f[n] + d - zero
  <2>1. n + 1 \in 1 .. Len(w) /\ (n + 1) - 1 = n
    BY <1>1
  <2> HIDE DEF n
  <2> QED BY <1>1, <1>2, <1>8, <2>1
<1>10. stoi(w) = g[n + 1] /\ stoi(s) = f[n]
  BY <1>1, StoiRead DEF f, g
<1> QED BY <1>4, <1>9, <1>10 DEF w

LEMMA StoiDigit ==
  ASSUME NEW d \in Digit
  PROVE  stoi(<<d>>) = d - zero
<1>1. /\ values(<<d>>)[0] = 0
      /\ \A i \in 1 .. Len(<<d>>) : values(<<d>>)[i] = 10 * values(<<d>>)[i - 1] + (<<d>>)[i] - zero
  <2>1. <<d>> \in Seq(Digit)
    OBVIOUS
  <2> QED BY <2>1, Values
<1>2. stoi(<<d>>) = values(<<d>>)[1]
  BY StoiRead
<1>3. Len(<<d>>) = 1 /\ (<<d>>)[1] = d
  OBVIOUS
<1>4. values(<<d>>)[1] = 10 * values(<<d>>)[0] + d - zero
  <2>1. 1 \in 1 .. 1 /\ 1 - 1 = 0
    OBVIOUS
  <2> QED BY <1>1, <1>3, <2>1
<1>5. d \in Int /\ zero \in Int
  BY DEF Digit, zero
<1>6. values(<<d>>)[1] = 10 * 0 + d - zero
  BY <1>1, <1>4
<1> QED BY ONLY <1>2, <1>5, <1>6

(***************************************************************************)
(* A number that was written in decimal is read as that number: a port     *)
(* comes back out of a URL as it went in.                                  *)
(***************************************************************************)
THEOREM DecimalReadBack ==
  ASSUME NEW number \in Nat
  PROVE  /\ stoi(to_string(number)) = number
         /\ to_string(number) \in Seq(Digit) /\ to_string(number) # <<>>
<1> DEFINE f == decimals(number)
           T == {n \in 0 .. number : stoi(f[n]) = n /\ f[n] # <<>>}
<1>1. \A n \in 0 .. number :
        /\ f[n] = IF n < 10 THEN <<zero + n>> ELSE append(f[n \div 10], zero + (n % 10))
        /\ f[n] \in Seq(Digit)
  BY Decimals
<1> HIDE DEF f
<1>2. ASSUME NEW n \in 0 .. number, \A j \in 0 .. number : j < n => j \in T PROVE n \in T
  <2>1. CASE n < 10
    <3>1. zero + n \in Digit /\ (zero + n) - zero = n
      BY <2>1, DigitOf
    <3>2. f[n] = <<zero + n>>
      BY <1>1, <2>1
    <3> DEFINE d == zero + n
    <3> HIDE DEF d
    <3>3. stoi(<<d>>) = d - zero /\ <<d>> # <<>>
      BY <3>1, StoiDigit DEF d
    <3> QED BY <3>1, <3>2, <3>3 DEF d
  <2>2. CASE ~ (n < 10)
    <3> DEFINE m == n \div 10
               d == zero + (n % 10)
    <3>1. m \in 0 .. number /\ m < n /\ n % 10 \in 0 .. 9 /\ n = 10 * m + (n % 10)
      BY <2>2, Tenth
    <3>2. d \in Digit /\ d - zero = n % 10
      BY <3>1, DigitOf
    <3>3. f[n] = append(f[m], d)
      BY <1>1, <2>2
    <3> HIDE DEF m, d
    <3>4. f[m] \in Seq(Digit) /\ stoi(f[m]) = m
      BY <1>1, <1>2, <3>1
    <3>5. stoi(append(f[m], d)) = 10 * stoi(f[m]) + d - zero
      BY <3>2, <3>4, StoiAppended
    <3>6. append(f[m], d) # <<>>
      BY DEF append
    <3>7. stoi(f[n]) = 10 * m + d - zero
      BY <3>3, <3>4, <3>5
    <3>8. m \in Int /\ d \in Int /\ zero \in Int /\ n \in Int /\ n % 10 \in Int
      BY <3>1, <3>2 DEF Digit, zero
    <3>9. stoi(f[n]) = n
      BY ONLY <3>1, <3>2, <3>7, <3>8
    <3> QED BY <3>3, <3>6, <3>9
  <2> QED BY <2>1, <2>2
<1> HIDE DEF T
<1>3. number \in T
  <2>1. \A n \in 0 .. number : n \in T
    BY <1>2, FromSmaller
  <2> QED BY <2>1
<1>4. to_string(number) = f[number]
  BY DEF to_string, decimals, f
<1>5. number \in 0 .. number
  OBVIOUS
<1> QED BY <1>1, <1>3, <1>4, <1>5 DEF T

-----------------------------------------------------------------------------
\* URLs.

\* Where the text s is within w: behind k bytes.
placed(w, k, s) == \A i \in 1 .. Len(s) : w[k + i] = s[i]

sliced(w, k, s) == SubSeq(w, k + 1, k + Len(s)) = s

LEMMA Sliced ==
  ASSUME NEW w \in Text, NEW k \in Nat, NEW s \in Text, k + Len(s) <= Len(w), placed(w, k, s)
  PROVE  sliced(w, k, s)
<1> DEFINE u == SubSeq(w, k + 1, k + Len(s))
<1>1. Len(s) \in Nat /\ Len(w) \in Nat /\ s \in Seq(Octet) /\ w \in Seq(Octet)
  BY DEF Text
<1>2. u \in Seq(Octet) /\ Len(u) = Len(s)
  BY <1>1
<1>3. ASSUME NEW i \in 1 .. Len(s) PROVE u[i] = s[i]
  <2>1. u[i] = w[k + i]
    BY <1>1
  <2> QED BY <2>1 DEF placed
<1> HIDE DEF u
<1>4. \A i \in 1 .. Len(u) : u[i] = s[i]
  BY <1>2, <1>3
<1>5. u = s
  BY <1>1, <1>2, <1>4, SeqEqual
<1> QED BY <1>5 DEF u, sliced

\* What is behind the text x and within t is behind both in their concatenation.
LEMMA PlacedConcat ==
  ASSUME NEW x \in Text, NEW t \in Text
  PROVE  /\ concat(x, t) \in Text /\ Len(concat(x, t)) = Len(x) + Len(t)
         /\ Len(x) \in Nat /\ Len(t) \in Nat
         /\ placed(concat(x, t), 0, x) /\ placed(concat(x, t), Len(x), t)
<1> DEFINE w == concat(x, t)
<1>1. x \in Seq(Octet) /\ t \in Seq(Octet) /\ Len(x) \in Nat /\ Len(t) \in Nat
  BY DEF Text
<1>2. /\ w \in Seq(Octet) /\ Len(w) = Len(x) + Len(t)
      /\ \A i \in 1 .. Len(x) : w[i] = x[i]
      /\ \A i \in 1 .. Len(t) : w[Len(x) + i] = t[i]
  <2>1. w \in Seq(Octet) /\ Len(w) = Len(x) + Len(t)
    BY <1>1 DEF concat
  <2>2. \A i \in 1 .. Len(x) : w[i] = x[i]
    BY <1>1 DEF concat
  <2>3. \A i \in 1 .. Len(t) : w[Len(x) + i] = t[i]
    BY <1>1 DEF concat
  <2> QED BY <2>1, <2>2, <2>3
<1> HIDE DEF w
<1>3. placed(w, 0, x)
  BY <1>1, <1>2 DEF placed
<1>4. placed(w, Len(x), t)
  BY <1>2 DEF placed
<1> QED BY <1>1, <1>2, <1>3, <1>4 DEF w, Text

LEMMA PlacedWithin ==
  ASSUME NEW w, NEW x \in Text, NEW s \in Text, NEW k \in Nat, k + Len(s) <= Len(x),
         placed(w, 0, x), placed(x, k, s)
  PROVE  placed(w, k, s)
<1> SUFFICES ASSUME NEW i \in 1 .. Len(s) PROVE w[k + i] = s[i]
  BY DEF placed
<1>1. k + i \in 1 .. Len(x) /\ 0 + (k + i) = k + i
  BY DEF Text
<1>2. x[k + i] = s[i]
  BY DEF placed
<1>3. w[0 + (k + i)] = x[k + i]
  BY <1>1 DEF placed
<1> QED BY <1>1, <1>2, <1>3

\* Four texts, one behind the other.
in_line(x, y, z, t) == concat(concat(concat(x, y), z), t)

lined(w, x, y, z, t) ==
  /\ w \in Text
  /\ Len(x) \in Nat /\ Len(y) \in Nat /\ Len(z) \in Nat /\ Len(t) \in Nat
  /\ Len(w) = Len(x) + Len(y) + Len(z) + Len(t)
  /\ placed(w, 0, x) /\ placed(w, Len(x), y) /\ placed(w, Len(x) + Len(y), z)
  /\ placed(w, Len(x) + Len(y) + Len(z), t)

LEMMA InLine ==
  ASSUME NEW x \in Text, NEW y \in Text, NEW z \in Text, NEW t \in Text
  PROVE  lined(in_line(x, y, z, t), x, y, z, t)
<1> DEFINE xy == concat(x, y)
           xyz == concat(xy, z)
           w == concat(xyz, t)
<1>1. /\ xy \in Text /\ Len(xy) = Len(x) + Len(y) /\ Len(x) \in Nat /\ Len(y) \in Nat
      /\ placed(xy, 0, x) /\ placed(xy, Len(x), y)
  BY PlacedConcat
<1> HIDE DEF xy
<1>2. /\ xyz \in Text /\ Len(xyz) = Len(xy) + Len(z) /\ Len(z) \in Nat
      /\ placed(xyz, 0, xy) /\ placed(xyz, Len(xy), z)
  BY <1>1, PlacedConcat
<1> HIDE DEF xyz
<1>3. /\ w \in Text /\ Len(w) = Len(xyz) + Len(t) /\ Len(t) \in Nat
      /\ placed(w, 0, xyz) /\ placed(w, Len(xyz), t)
  BY <1>2, PlacedConcat
<1> HIDE DEF w
<1>4. placed(w, Len(xy), z)
  <2>1. Len(xy) \in Nat /\ Len(xy) + Len(z) <= Len(xyz)
    BY <1>1, <1>2
  <2> QED BY <1>2, <1>3, <2>1, PlacedWithin
<1>5. placed(xyz, 0, x) /\ placed(xyz, Len(x), y)
  <2>1. /\ Len(x) \in Nat /\ Len(x) + Len(y) <= Len(xy)
        /\ 0 \in Nat /\ 0 + Len(x) <= Len(xy)
    BY <1>1
  <2>2. placed(xyz, 0, x)
    BY <1>1, <1>2, <2>1, PlacedWithin
  <2>3. placed(xyz, Len(x), y)
    BY <1>1, <1>2, <2>1, PlacedWithin
  <2> QED BY <2>2, <2>3
<1>6. placed(w, 0, x) /\ placed(w, Len(x), y)
  <2>1. /\ Len(x) \in Nat /\ Len(x) + Len(y) <= Len(xyz)
        /\ 0 \in Nat /\ 0 + Len(x) <= Len(xyz)
    BY <1>1, <1>2
  <2>2. placed(w, 0, x)
    BY <1>2, <1>3, <1>5, <2>1, PlacedWithin
  <2>3. placed(w, Len(x), y)
    BY <1>2, <1>3, <1>5, <2>1, PlacedWithin
  <2> QED BY <2>2, <2>3
<1>7. /\ Len(xy) = Len(x) + Len(y) /\ Len(xyz) = Len(x) + Len(y) + Len(z)
      /\ Len(w) = Len(x) + Len(y) + Len(z) + Len(t)
  BY <1>1, <1>2, <1>3
<1>8. lined(w, x, y, z, t)
  BY <1>1, <1>2, <1>3, <1>4, <1>6, <1>7 DEF lined
<1> QED BY <1>8 DEF w, xyz, xy, in_line

\* A URL in its parts, as parse_absolute_uri can take it apart.
Port == 0 .. 65535
UriRecord == [scheme: Text, host: Text, port: Port, path: Text, query: Text]

separable(u) ==
  /\ u.scheme \in Without(colon)
  /\ u.host # <<>> /\ u.host \in Without(slash) /\ u.host \in Without(question)
  /\ u.port = 0 => u.host \in Without(colon)
  /\ u.path # <<>> /\ u.path[1] = slash /\ u.path \in Without(question)
  /\ u.scheme = <<>> => u.path \in Without(colon) /\ u.query \in Without(colon)

Uri == {u \in UriRecord : separable(u)}

scheme_text(s) == IF s = <<>> THEN <<>> ELSE s \o <<colon, slash, slash>>
query_text(t) == IF t = <<>> THEN <<>> ELSE <<question>> \o t

LEMMA UrlOf ==
  ASSUME NEW u
  PROVE  url_of(u)
           = in_line(scheme_text(u.scheme), authority_of(u), u.path, query_text(u.query))
BY DEF url_of, in_line, concat, scheme_text, query_text

\* A URI that has a path is written as it is.
LEMMA RequestUrl ==
  ASSUME NEW u \in UriRecord, u.path # <<>>
  PROVE  request_url(u) = url_of(u)
<1>1. [u EXCEPT !.path = IF @ = <<>> THEN <<slash>> ELSE @] = u
  BY DEF UriRecord
<1> QED BY <1>1 DEF request_url

\* The last position of a byte, or none.
last_of(c, s) == Max({i \in DOMAIN s : s[i] = c} \cup {0})

LEMMA LastAt ==
  ASSUME NEW s \in Text, NEW c, NEW k \in 0 .. Len(s), k # 0 => s[k] = c,
         \A i \in (k + 1) .. Len(s) : s[i] # c
  PROVE  last_of(c, s) = k
<1> DEFINE T == {i \in DOMAIN s : s[i] = c} \cup {0}
           m == Max(T)
<1>1. Len(s) \in Nat /\ DOMAIN s = 1 .. Len(s)
  BY DEF Text
<1>2. T \subseteq 0 .. Len(s) /\ T # {} /\ k \in T
  BY <1>1
<1>3. m \in T /\ \A y \in T : m >= y
  <2> HIDE DEF T
  <2> QED BY <1>1, <1>2, Maximum
<1> HIDE DEF m
<1>4. m \in 0 .. Len(s) /\ m >= k /\ (m # 0 => s[m] = c)
  BY <1>1, <1>2, <1>3
<1>5. ~ (m > k)
  <2>1. m > k => m \in (k + 1) .. Len(s) /\ m # 0
    BY <1>1, <1>4
  <2> QED BY <1>4, <2>1
<1>6. m = k
  BY <1>4, <1>5
<1> QED BY <1>6 DEF m, last_of

LEMMA FirstOf ==
  ASSUME NEW T, T \subseteq Nat, NEW k \in T, \A y \in T : k <= y
  PROVE  Min(T) = k
<1> DEFINE m == Min(T)
<1>1. m \in T /\ m <= k
  BY Minimum
<1> HIDE DEF m
<1>2. m \in Nat /\ k \in Nat /\ k <= m
  BY <1>1
<1>3. m = k
  BY <1>1, <1>2
<1> QED BY <1>3 DEF m

mark == <<colon, slash, slash>>

LEMMA Mark ==
  /\ mark \in Text /\ Len(mark) = 3 /\ mark[1] = colon /\ mark[2] = slash /\ mark[3] = slash
  /\ colon \in Octet /\ slash \in Octet /\ question \in Octet
  /\ colon # slash /\ colon # question /\ slash # question
BY DEF mark, colon, slash, question, Octet, Text

marks(w) == {i \in 1 .. (Len(w) - 2) : SubSeq(w, i, i + 2) = mark}

\* Where the end of a scheme is marked, there is a colon and a slash.
LEMMA Marked ==
  ASSUME NEW w \in Text, NEW i \in marks(w)
  PROVE  i \in 1 .. Len(w) /\ i + 1 \in 1 .. Len(w) /\ w[i] = colon /\ w[i + 1] = slash
<1> DEFINE u == SubSeq(w, i, i + 2)
<1>1. i \in 1 .. (Len(w) - 2) /\ Len(w) \in Nat /\ u = mark
  BY DEF marks, Text
<1>2. u[1] = w[i] /\ u[2] = w[i + 1]
  BY <1>1 DEF Text
<1> HIDE DEF u
<1> QED BY <1>1, <1>2, Mark

LEMMA MarkAt ==
  ASSUME NEW w \in Text, NEW k \in Nat, k + 3 <= Len(w), placed(w, k, mark)
  PROVE  k + 1 \in marks(w)
<1>1. sliced(w, k, mark)
  BY Mark, Sliced
<1>2. SubSeq(w, k + 1, k + 3) = mark
  BY <1>1, Mark DEF sliced
<1>3. k + 1 \in 1 .. (Len(w) - 2) /\ (k + 1) + 2 = k + 3
  BY DEF Text
<1> QED BY <1>2, <1>3 DEF marks

scheme_at(url) == Min(marks(url) \cup {Len(url) + 1})

\* parse_absolute_uri, with the places where it cuts.
authority_start(url) == IF scheme_at(url) > Len(url) THEN 1 ELSE scheme_at(url) + 3
path_at(url) == find(url, slash, authority_start(url))
query_at(url) == find(url, question, authority_start(url))
authority_in(url) == SubSeq(url, authority_start(url), Min({path_at(url), query_at(url)}) - 1)
port_at(url) == last_of(colon, authority_in(url))
path_in(url) ==
  SubSeq(url, path_at(url), IF path_at(url) > query_at(url) THEN Len(url) ELSE query_at(url) - 1)

scheme_in(url) == IF scheme_at(url) > Len(url) THEN <<>> ELSE SubSeq(url, 1, scheme_at(url) - 1)
host_of(authority, c) == IF c = 0 THEN authority ELSE SubSeq(authority, 1, c - 1)
port_of(authority, c) == IF c = 0 THEN 0 ELSE stoi(from(authority, c + 1)) % 2 ^ 16
path_of(path) == IF path = <<>> THEN <<slash>> ELSE path

LEMMA Parsed ==
  ASSUME NEW url
  PROVE  parse_absolute_uri(url)
           = [scheme |-> scheme_in(url),
              host   |-> host_of(authority_in(url), port_at(url)),
              port   |-> port_of(authority_in(url), port_at(url)),
              path   |-> path_of(path_in(url)),
              query  |-> from(url, query_at(url) + 1)]
BY DEF parse_absolute_uri, scheme_at, marks, mark, last_of, path_of, authority_start, path_at,
       query_at, authority_in, port_at, path_in, scheme_in, host_of, port_of

LEMMA UriParts ==
  ASSUME NEW u \in Uri
  PROVE  /\ u.scheme \in Text /\ u.host \in Text /\ u.port \in Nat /\ u.port <= 65535
         /\ u.path \in Text /\ u.query \in Text
         /\ u = [scheme |-> u.scheme, host |-> u.host, port |-> u.port, path |-> u.path,
                 query |-> u.query]
         /\ separable(u)
<1>1. u \in UriRecord /\ separable(u)
  BY ZenonT(60) DEF Uri
<1>2. u.scheme \in Text /\ u.host \in Text /\ u.port \in Port /\ u.path \in Text /\ u.query \in Text
  BY <1>1, SMTT(60) DEF UriRecord
<1>3. u = [scheme |-> u.scheme, host |-> u.host, port |-> u.port, path |-> u.path,
           query |-> u.query]
  BY <1>1, SMTT(60) DEF UriRecord
<1>4. \A p \in Port : p \in Nat /\ p <= 65535
  BY SMTT(30) DEF Port
<1> QED BY <1>1, <1>2, <1>3, <1>4

\* What an authority is made of, and where its port is told from its host.
LEMMA AuthorityText ==
  ASSUME NEW u \in Uri
  PROVE  LET y == authority_of(u) IN
         /\ y \in Text /\ Len(y) \in Nat /\ Len(y) # 0 /\ y[Len(y)] # colon
         /\ \A i \in 1 .. Len(y) : y[i] # slash /\ y[i] # question
         /\ u.port = 0 => last_of(colon, y) = 0 /\ y = u.host
         /\ u.port # 0 => /\ last_of(colon, y) = Len(u.host) + 1
                          /\ SubSeq(y, 1, Len(u.host)) = u.host
                          /\ SubSeq(y, Len(u.host) + 2, Len(y)) = to_string(u.port)
<1> DEFINE y == authority_of(u)
           h == u.host
           n == Len(h)
<1>1. /\ h \in Text /\ n \in Nat /\ n # 0 /\ u.port \in Nat
      /\ \A i \in 1 .. n : h[i] # slash /\ h[i] # question
      /\ u.port = 0 => \A i \in 1 .. n : h[i] # colon
  <2>1. /\ h \in Without(slash) /\ h \in Without(question) /\ h # <<>> /\ u.port \in Nat
        /\ u.port = 0 => h \in Without(colon)
    BY UriParts DEF separable
  <2>2. h \in Text /\ n \in Nat /\ \A i \in 1 .. n : h[i] # slash
    BY <2>1, WithoutIsText
  <2>3. \A i \in 1 .. n : h[i] # question
    BY <2>1, WithoutIsText
  <2>4. u.port = 0 => \A i \in 1 .. n : h[i] # colon
    BY <2>1, WithoutIsText
  <2>5. n # 0
    BY <2>1, <2>2 DEF Text
  <2> QED BY <2>1, <2>2, <2>3, <2>4, <2>5
<1>2. CASE u.port = 0
  <2>1. y = h \o <<>>
    BY <1>2 DEF authority_of
  <2>2. y = h
    BY <1>1, <2>1 DEF Text
  <2> HIDE DEF y, h
  <2>3. y \in Text /\ Len(y) = n /\ n \in 1 .. n /\ \A i \in 1 .. n : y[i] = h[i]
    BY <1>1, <2>2
  <2> HIDE DEF n
  <2>4. last_of(colon, y) = 0
    <3>1. 0 \in 0 .. Len(y) /\ \A i \in (0 + 1) .. Len(y) : y[i] # colon
      BY <1>1, <1>2, <2>2, <2>3
    <3> QED BY <2>3, <3>1, LastAt
  <2>5. y[Len(y)] # colon /\ \A i \in 1 .. Len(y) : y[i] # slash /\ y[i] # question
    BY <1>1, <1>2, <2>2, <2>3
  <2> QED BY <1>1, <1>2, <2>2, <2>3, <2>4, <2>5 DEF y, h
<1>3. CASE u.port # 0
  <2> DEFINE d == to_string(u.port)
             t == onto(colon, d)
  <2>1. d \in Seq(Digit) /\ d # <<>> /\ stoi(d) = u.port
    BY <1>1, DecimalReadBack
  <2>2. y = concat(h, t)
    BY <1>3 DEF authority_of, concat, onto
  <2> HIDE DEF y, h, d
  <2>3. d \in Text /\ Len(d) \in Nat /\ Len(d) # 0 /\ \A i \in 1 .. Len(d) : d[i] \in Digit
    <3>1. Digit \subseteq Octet
      BY DEF Digit, Octet
    <3>2. d \in Text
      BY <2>1, <3>1, SeqMonotonic DEF Text
    <3> QED BY <2>1, <3>2
  <2>4. t \in Text /\ Len(t) = Len(d) + 1 /\ t[1] = colon /\ \A i \in 1 .. Len(d) : t[i + 1] = d[i]
    BY <2>3, Mark, OntoItems DEF Text
  <2> HIDE DEF t
  <2>5. /\ y \in Text /\ Len(y) = n + Len(t) /\ placed(y, 0, h) /\ placed(y, n, t)
    BY <1>1, <2>2, <2>4, PlacedConcat
  <2>6. \A i \in 1 .. n : y[i] = h[i]
    BY <1>1, <2>5 DEF placed
  <2>7. y[n + 1] = colon
    BY <2>3, <2>4, <2>5 DEF placed
  <2>8. \A i \in 1 .. Len(d) : y[(n + 1) + i] = d[i]
    <3> SUFFICES ASSUME NEW i \in 1 .. Len(d) PROVE y[(n + 1) + i] = d[i]
      OBVIOUS
    <3>1. i + 1 \in 1 .. Len(t) /\ n + (i + 1) = (n + 1) + i
      BY <1>1, <2>3, <2>4
    <3>2. y[n + (i + 1)] = t[i + 1]
      BY <2>5, <3>1 DEF placed
    <3> QED BY <2>4, <3>1, <3>2
  <2>9. Len(y) = n + 1 + Len(d)
    BY <1>1, <2>3, <2>4, <2>5
  <2> HIDE DEF n
  <2>10. \A c \in Digit : c # colon /\ c # slash /\ c # question
    BY DEF Digit, colon, slash, question
  <2>11. ASSUME NEW i \in (n + 1 + 1) .. Len(y) PROVE y[i] \in Digit
    <3>1. i - (n + 1) \in 1 .. Len(d) /\ (n + 1) + (i - (n + 1)) = i
      BY <1>1, <2>3, <2>9
    <3> QED BY <2>3, <2>8, <3>1
  <2>12. last_of(colon, y) = n + 1
    <3>1. n + 1 \in 0 .. Len(y)
      BY <1>1, <2>3, <2>9
    <3>2. \A i \in ((n + 1) + 1) .. Len(y) : y[i] # colon
      BY <2>10, <2>11
    <3> QED BY <2>5, <2>7, <3>1, <3>2, LastAt
  <2>13. y[Len(y)] # colon
    <3>1. Len(y) \in (n + 1 + 1) .. Len(y)
      BY <1>1, <2>3, <2>9
    <3> QED BY <2>10, <2>11, <3>1
  <2>14. ASSUME NEW i \in 1 .. Len(y) PROVE y[i] # slash /\ y[i] # question
    <3>1. i \in 1 .. n \/ i = n + 1 \/ i \in (n + 1 + 1) .. Len(y)
      BY <1>1, <2>3, <2>9
    <3>2. i \in 1 .. n => h[i] # slash /\ h[i] # question
      BY <1>1
    <3> QED BY <2>6, <2>7, <2>10, <2>11, <3>1, <3>2, Mark
  <2>15. SubSeq(y, 1, n) = h
    <3>1. 0 \in Nat /\ 0 + Len(h) <= Len(y)
      BY <1>1, <2>3, <2>9 DEF n
    <3>2. sliced(y, 0, h)
      BY <1>1, <2>5, <3>1, Sliced
    <3>3. 0 + 1 = 1 /\ 0 + Len(h) = n
      BY <1>1 DEF n
    <3> QED BY <3>2, <3>3 DEF sliced
  <2>16. SubSeq(y, n + 2, Len(y)) = d
    <3>1. n + 1 \in Nat /\ (n + 1) + Len(d) <= Len(y) /\ placed(y, n + 1, d)
      BY <1>1, <2>3, <2>8, <2>9 DEF placed
    <3>2. sliced(y, n + 1, d)
      BY <2>3, <2>5, <3>1, Sliced
    <3>3. (n + 1) + 1 = n + 2 /\ (n + 1) + Len(d) = Len(y)
      BY <1>1, <2>3, <2>9
    <3> QED BY <3>2, <3>3 DEF sliced
  <2>17. Len(y) \in Nat /\ Len(y) # 0
    BY <1>1, <2>3, <2>9
  <2> QED BY <1>3, <2>5, <2>12, <2>13, <2>14, <2>15, <2>16, <2>17 DEF y, h, d, n
<1> QED BY <1>2, <1>3, <1>1

\* The parts of a written URL, one behind the other.
LEMMA UrlLined ==
  ASSUME NEW u \in Uri
  PROVE  /\ lined(url_of(u), scheme_text(u.scheme), authority_of(u), u.path,
                  query_text(u.query))
         /\ scheme_text(u.scheme) \in Text /\ query_text(u.query) \in Text
<1>1. /\ u.scheme \in Text /\ u.path \in Text /\ u.query \in Text /\ authority_of(u) \in Text
  <2>1. authority_of(u) \in Text
    BY AuthorityText
  <2> QED BY <2>1, UriParts
<1>2. scheme_text(u.scheme) \in Text
  <2>1. u.scheme \in Seq(Octet) /\ mark \in Seq(Octet) /\ <<>> \in Seq(Octet)
    BY <1>1, Mark DEF Text
  <2> QED BY <2>1 DEF scheme_text, mark, Text
<1>3. query_text(u.query) \in Text
  <2>1. u.query \in Seq(Octet) /\ <<question>> \in Seq(Octet) /\ <<>> \in Seq(Octet)
    BY <1>1, Mark DEF Text
  <2> QED BY <2>1 DEF query_text, Text
<1>4. lined(in_line(scheme_text(u.scheme), authority_of(u), u.path, query_text(u.query)),
            scheme_text(u.scheme), authority_of(u), u.path, query_text(u.query))
  BY <1>1, <1>2, <1>3, InLine
<1> QED BY <1>2, <1>3, <1>4, UrlOf

\* The first end of a scheme in a URL is that of its own scheme, if it has one.
LEMMA SchemeAt ==
  ASSUME NEW u \in Uri, NEW w, w = url_of(u), NEW s, s = u.scheme
  PROVE  /\ s = <<>> => scheme_at(w) = Len(w) + 1 /\ Len(scheme_text(s)) = 0
         /\ s # <<>> => /\ scheme_at(w) = Len(s) + 1 /\ Len(s) + 1 <= Len(w)
                        /\ SubSeq(w, 1, Len(s)) = s /\ Len(scheme_text(s)) = Len(s) + 3
<1> DEFINE x == scheme_text(s)
           y == authority_of(u)
           z == u.path
           t == query_text(u.query)
           S == marks(w) \cup {Len(w) + 1}
<1>1. /\ w \in Text /\ Len(w) \in Nat
      /\ Len(x) \in Nat /\ Len(y) \in Nat /\ Len(z) \in Nat /\ Len(t) \in Nat
      /\ Len(w) = Len(x) + Len(y) + Len(z) + Len(t)
      /\ placed(w, 0, x) /\ placed(w, Len(x), y) /\ placed(w, Len(x) + Len(y), z)
      /\ placed(w, Len(x) + Len(y) + Len(z), t)
      /\ x \in Text
  <2>1. lined(w, x, y, z, t) /\ x \in Text
    BY UrlLined
  <2> HIDE DEF x, y, z, t
  <2>2. w \in Text
    BY <2>1 DEF lined
  <2>3. Len(w) \in Nat
    BY <2>2 DEF Text
  <2> QED BY <2>1, <2>3 DEF lined
<1>2. separable(u) /\ s \in Text /\ z \in Text /\ u.query \in Text
  BY UriParts
<1>3. S \subseteq Nat /\ Len(w) + 1 \in S
  <2>1. \A i \in marks(w) : i \in 1 .. Len(w)
    BY <1>1, Marked
  <2>2. \A i \in marks(w) : i \in Nat
    BY <2>1
  <2>3. Len(w) \in Nat
    BY <1>1
  <2>4. Len(w) + 1 \in Nat
    BY ONLY <2>3
  <2> QED BY ONLY <2>2, <2>4
<1>4. CASE s = <<>>
  <2>1. x = <<>> /\ Len(x) = 0
    BY <1>4 DEF scheme_text
  <2>2. z \in Without(colon) /\ u.query \in Without(colon)
    BY <1>2, <1>4 DEF separable
  <2>3. \A i \in 1 .. Len(z) : z[i] # colon
    BY <2>2, WithoutIsText
  <2>4. \A i \in 1 .. Len(t) : t[i] # colon
    <3>1. \A i \in 1 .. Len(u.query) : u.query[i] # colon
      BY <2>2, WithoutIsText
    <3> DEFINE q == u.query
    <3>2. CASE q = <<>>
      <4>1. Len(t) = 0
        BY <3>2 DEF query_text
      <4> QED BY <4>1
    <3>3. CASE q # <<>>
      <4>1. t = onto(question, q)
        BY <3>3 DEF query_text, onto
      <4>2. question \in Octet /\ q \in Seq(Octet) /\ question # colon
        BY <1>2, Mark DEF Text
      <4> HIDE DEF t, q
      <4>3. /\ Len(t) = Len(q) + 1 /\ t[1] = question /\ Len(q) \in Nat
            /\ \A i \in 1 .. Len(q) : t[i + 1] = q[i]
        <5>1. Len(q) \in Nat /\ Len(onto(question, q)) = Len(q) + 1
          BY <4>2 DEF onto
        <5>2. onto(question, q)[1] = question
          BY <4>2 DEF onto
        <5>3. \A i \in 1 .. Len(q) : onto(question, q)[i + 1] = q[i]
          BY <4>2 DEF onto
        <5> QED BY <4>1, <5>1, <5>2, <5>3
      <4>4. ASSUME NEW i \in 1 .. Len(t) PROVE t[i] # colon
        <5>1. i = 1 \/ (i - 1 \in 1 .. Len(q) /\ (i - 1) + 1 = i)
          BY <4>3
        <5>2. \A j \in 1 .. Len(q) : q[j] # colon
          BY <3>1 DEF q
        <5> QED BY <4>2, <4>3, <5>1, <5>2
      <4> QED BY <4>4
    <3> QED BY <3>2, <3>3
  <2>5. y[Len(y)] # colon /\ \A i \in 1 .. Len(y) : y[i] # slash
    BY AuthorityText
  <2> HIDE DEF x, y, z, t
  <2>6. ASSUME NEW i \in marks(w) PROVE FALSE
    <3>1. i \in 1 .. Len(w) /\ i + 1 \in 1 .. Len(w) /\ w[i] = colon /\ w[i + 1] = slash
      BY <1>1, Marked
    <3>2. CASE i \in 1 .. Len(y)
      <4>1. 0 + i = i /\ w[0 + i] = y[i]
        BY <1>1, <2>1, <3>2 DEF placed
      <4>2. i # Len(y)
        BY <2>5, <3>1, <4>1
      <4>3. i + 1 \in 1 .. Len(y) /\ 0 + (i + 1) = i + 1
        BY <1>1, <3>2, <4>2
      <4>4. w[0 + (i + 1)] = y[i + 1]
        BY <1>1, <2>1, <4>3 DEF placed
      <4> QED BY <2>5, <3>1, <4>3, <4>4
    <3>3. CASE i \in (Len(y) + 1) .. (Len(y) + Len(z))
      <4>1. i - Len(y) \in 1 .. Len(z) /\ (Len(x) + Len(y)) + (i - Len(y)) = i
        BY <1>1, <2>1, <3>3
      <4>2. w[(Len(x) + Len(y)) + (i - Len(y))] = z[i - Len(y)]
        BY <1>1, <4>1 DEF placed
      <4> QED BY <2>3, <3>1, <4>1, <4>2
    <3>4. CASE i \in (Len(y) + Len(z) + 1) .. Len(w)
      <4> DEFINE j == i - (Len(y) + Len(z))
      <4>1. j \in 1 .. Len(t) /\ (Len(x) + Len(y) + Len(z)) + j = i
        BY <1>1, <2>1, <3>4
      <4> HIDE DEF j
      <4>2. w[(Len(x) + Len(y) + Len(z)) + j] = t[j]
        BY <1>1, <4>1 DEF placed
      <4> QED BY <2>4, <3>1, <4>1, <4>2
    <3> QED BY <1>1, <3>1, <3>2, <3>3, <3>4
  <2>7. \A k \in S : Len(w) + 1 <= k
    BY <1>1, <2>6
  <2> HIDE DEF S
  <2>8. Min(S) = Len(w) + 1
    BY <1>3, <2>7, FirstOf
  <2>9. scheme_at(w) = Len(w) + 1
    BY <2>8 DEF scheme_at, S
  <2> QED BY <1>4, <2>1, <2>9 DEF x
<1>5. CASE s # <<>>
  <2> DEFINE n == Len(s)
  <2>1. x = concat(s, mark)
    BY <1>5 DEF scheme_text, concat, mark
  <2>2. n \in Nat /\ \A i \in 1 .. n : s[i] # colon
    <3>1. s \in Without(colon)
      BY <1>2 DEF separable
    <3> QED BY <3>1, WithoutIsText
  <2> HIDE DEF x, y, z, t
  <2>3. Len(x) = n + 3 /\ placed(x, 0, s) /\ placed(x, n, mark)
    <3>1. mark \in Text /\ Len(mark) = 3
      BY Mark
    <3>2. /\ Len(concat(s, mark)) = Len(s) + Len(mark)
          /\ placed(concat(s, mark), 0, s) /\ placed(concat(s, mark), Len(s), mark)
      BY <1>2, <3>1, PlacedConcat
    <3> QED BY <2>1, <3>1, <3>2
  <2>4. n + 3 <= Len(w) /\ 0 + n <= Len(x) /\ n + 3 <= Len(x) /\ 0 \in Nat
    BY <1>1, <2>2, <2>3
  <2>5. placed(w, 0, s)
    BY <1>1, <1>2, <2>3, <2>4, PlacedWithin
  <2>6. placed(w, n, mark)
    BY <1>1, <2>2, <2>3, <2>4, Mark, PlacedWithin
  <2>7. n + 1 \in marks(w)
    BY <1>1, <2>2, <2>4, <2>6, MarkAt
  <2>8. \A k \in marks(w) : n + 1 <= k
    <3> SUFFICES ASSUME NEW k \in marks(w), ~ (n + 1 <= k) PROVE FALSE
      OBVIOUS
    <3>1. k \in 1 .. Len(w) /\ w[k] = colon
      BY <1>1, Marked
    <3>2. k \in 1 .. n /\ 0 + k = k
      BY <2>2, <3>1
    <3>3. w[0 + k] = s[k]
      BY <2>5, <3>2 DEF placed
    <3> QED BY <2>2, <3>1, <3>2, <3>3
  <2>9. n + 1 \in S /\ \A k \in S : n + 1 <= k
    BY <2>2, <2>4, <2>7, <2>8, <1>1
  <2> HIDE DEF S
  <2>10. Min(S) = n + 1
    BY <1>3, <2>9, FirstOf
  <2>11. sliced(w, 0, s)
    BY <1>1, <1>2, <2>2, <2>4, <2>5, Sliced
  <2>12. SubSeq(w, 1, n) = s
    <3>1. 0 + 1 = 1 /\ 0 + Len(s) = n
      BY <2>2
    <3> QED BY <2>11, <3>1 DEF sliced
  <2>13. n + 1 <= Len(w)
    BY <1>1, <2>2, <2>4
  <2> QED BY <1>5, <2>3, <2>10, <2>12, <2>13 DEF scheme_at, S, x, n
<1> QED BY <1>4, <1>5

LEMMA Earlier ==
  ASSUME NEW p \in Nat, NEW q \in Nat, p <= q
  PROVE  Min({p, q}) = p
<1> DEFINE T == {p, q}
<1>1. T \subseteq Nat /\ p \in T /\ \A y \in T : p <= y
  OBVIOUS
<1> HIDE DEF T
<1>2. Min(T) = p
  BY <1>1, FirstOf
<1> QED BY <1>2 DEF T

\* What the second, the third and the fourth of the texts of a URL are made of.
free(c, s) == \A i \in 1 .. Len(s) : s[i] # c
cut_by(y, z, t) ==
  /\ free(slash, y) /\ free(question, y) /\ free(question, z)
  /\ Len(z) # 0 /\ z[1] = slash
  /\ Len(t) # 0 => t[1] = question

\* The places where a URL of four texts is cut.
LEMMA CutsAt ==
  ASSUME NEW w, NEW x, NEW y, NEW z, NEW t, lined(w, x, y, z, t), cut_by(y, z, t)
  PROVE  /\ find(w, slash, Len(x) + 1) = Len(x) + Len(y) + 1
         /\ find(w, question, Len(x) + 1) = Len(x) + Len(y) + Len(z) + 1
<1> DEFINE a == Len(x) + 1
           k == Len(x) + Len(y) + 1
           l == Len(x) + Len(y) + Len(z) + 1
<1>1. /\ w \in Seq(Octet) /\ Len(w) \in Nat
      /\ Len(x) \in Nat /\ Len(y) \in Nat /\ Len(z) \in Nat /\ Len(t) \in Nat
      /\ Len(w) = Len(x) + Len(y) + Len(z) + Len(t)
      /\ placed(w, Len(x), y) /\ placed(w, Len(x) + Len(y), z)
      /\ placed(w, Len(x) + Len(y) + Len(z), t)
  BY DEF lined, Text
<1>2. /\ a \in 1 .. (Len(w) + 1) /\ k \in a .. (Len(w) + 1) /\ l \in a .. (Len(w) + 1)
      /\ k \in Nat /\ l \in Nat /\ a \in Nat
      /\ k = Len(x) + Len(y) + 1 /\ l = Len(x) + Len(y) + Len(z) + 1 /\ a = Len(x) + 1
  BY <1>1
<1> HIDE DEF a, k, l
<1>3. ASSUME NEW i \in a .. (k - 1) PROVE w[i] # slash /\ w[i] # question
  <2>1. i - Len(x) \in 1 .. Len(y) /\ Len(x) + (i - Len(x)) = i
    BY <1>1, <1>2
  <2>2. w[Len(x) + (i - Len(x))] = y[i - Len(x)]
    BY <1>1, <2>1 DEF placed
  <2> QED BY <2>1, <2>2 DEF cut_by, free
<1>4. w[k] = slash
  <2>1. Len(z) # 0 /\ z[1] = slash
    BY DEF cut_by
  <2>2. 1 \in 1 .. Len(z) /\ (Len(x) + Len(y)) + 1 = k
    BY <1>1, <1>2, <2>1
  <2>3. w[(Len(x) + Len(y)) + 1] = z[1]
    BY <1>1, <2>2 DEF placed
  <2> QED BY <2>1, <2>2, <2>3
<1>5. ASSUME NEW i \in a .. (l - 1) PROVE w[i] # question
  <2>1. CASE i \in a .. (k - 1)
    BY <1>3, <2>1
  <2>2. CASE i \in k .. (l - 1)
    <3> DEFINE j == i - (Len(x) + Len(y))
    <3>1. j \in 1 .. Len(z) /\ (Len(x) + Len(y)) + j = i
      BY <1>1, <1>2, <2>2
    <3> HIDE DEF j
    <3>2. w[(Len(x) + Len(y)) + j] = z[j]
      BY <1>1, <3>1 DEF placed
    <3> QED BY <3>1, <3>2 DEF cut_by, free
  <2> QED BY <1>2, <2>1, <2>2
<1>6. ASSUME l <= Len(w) PROVE w[l] = question
  <2>1. 1 \in 1 .. Len(t) /\ Len(t) # 0 /\ (Len(x) + Len(y) + Len(z)) + 1 = l
    BY <1>1, <1>2, <1>6
  <2>2. w[(Len(x) + Len(y) + Len(z)) + 1] = t[1]
    BY <1>1, <2>1 DEF placed
  <2> QED BY <2>1, <2>2 DEF cut_by
<1>7. find(w, slash, a) = k
  <2>1. \A i \in a .. (k - 1) : w[i] # slash
    BY <1>3
  <2>2. k <= Len(w) => w[k] = slash
    BY <1>4
  <2>3. w \in Seq(Octet)
    BY <1>1
  <2>4. a \in 1 .. (Len(w) + 1) /\ k \in a .. (Len(w) + 1)
    BY <1>2
  <2> QED BY ONLY <2>1, <2>2, <2>3, <2>4, FoundAt
<1>8. find(w, question, a) = l
  <2>1. \A i \in a .. (l - 1) : w[i] # question
    BY <1>5
  <2>2. l <= Len(w) => w[l] = question
    BY <1>6
  <2>3. w \in Seq(Octet)
    BY <1>1
  <2>4. a \in 1 .. (Len(w) + 1) /\ l \in a .. (Len(w) + 1)
    BY <1>2
  <2> QED BY ONLY <2>1, <2>2, <2>3, <2>4, FoundAt
<1> QED BY <1>2, <1>7, <1>8

\* What is between them.
LEMMA Cuts ==
  ASSUME NEW w, NEW x, NEW y \in Text, NEW z \in Text, NEW t, lined(w, x, y, z, t),
         cut_by(y, z, t), authority_start(w) = Len(x) + 1
  PROVE  /\ query_at(w) = Len(x) + Len(y) + Len(z) + 1
         /\ authority_in(w) = y /\ path_in(w) = z
<1> DEFINE k == Len(x) + Len(y)
           l == Len(x) + Len(y) + Len(z)
<1>1. /\ w \in Text /\ Len(w) \in Nat
      /\ Len(x) \in Nat /\ Len(y) \in Nat /\ Len(z) \in Nat /\ Len(t) \in Nat
      /\ Len(w) = Len(x) + Len(y) + Len(z) + Len(t)
      /\ placed(w, Len(x), y) /\ placed(w, Len(x) + Len(y), z)
  BY DEF lined, Text
<1>2. /\ find(w, slash, Len(x) + 1) = Len(x) + Len(y) + 1
      /\ find(w, question, Len(x) + 1) = Len(x) + Len(y) + Len(z) + 1
  BY CutsAt
<1>3. path_at(w) = k + 1 /\ query_at(w) = l + 1
  BY <1>2 DEF path_at, query_at
<1>4. /\ k \in Nat /\ l \in Nat /\ k + Len(z) = l /\ Len(x) + Len(y) = k
      /\ k + 1 \in Nat /\ l + 1 \in Nat /\ k + 1 <= l + 1 /\ ~ (k + 1 > l + 1)
      /\ (k + 1) - 1 = k /\ (l + 1) - 1 = l
      /\ k <= Len(w) /\ l <= Len(w)
  BY <1>1
<1>5. placed(w, k, z)
  BY <1>1
<1>6. Len(x) + Len(y) + Len(z) + 1 = l + 1
  OBVIOUS
<1> HIDE DEF k, l
<1>7. Min({path_at(w), query_at(w)}) - 1 = k
  <2>1. Min({k + 1, l + 1}) = k + 1
    BY <1>4, Earlier
  <2> QED BY <1>3, <1>4, <2>1
<1>8. sliced(w, Len(x), y)
  BY <1>1, <1>4, Sliced
<1>9. authority_in(w) = y
  BY <1>4, <1>7, <1>8 DEF authority_in, sliced
<1>10. sliced(w, k, z)
  BY <1>1, <1>4, <1>5, Sliced
<1>11. path_in(w) = SubSeq(w, k + 1, l)
  BY <1>3, <1>4 DEF path_in
<1>12. path_in(w) = z
  BY <1>4, <1>10, <1>11 DEF sliced
<1> QED BY <1>3, <1>6, <1>9, <1>12

\* What is behind the question mark.
LEMMA CutQuery ==
  ASSUME NEW w, NEW x, NEW y \in Text, NEW z \in Text, NEW s \in Text,
         lined(w, x, y, z, query_text(s)), query_text(s) \in Text
  PROVE  from(w, Len(x) + Len(y) + Len(z) + 2) = s
<1> DEFINE t == query_text(s)
           k == Len(x) + Len(y) + Len(z)
<1>1. /\ w \in Seq(Octet) /\ w \in Text /\ Len(w) \in Nat /\ k \in Nat
      /\ Len(w) = k + Len(t) /\ placed(w, k, t)
  <2>1. /\ Len(x) \in Nat /\ Len(y) \in Nat /\ Len(z) \in Nat
        /\ Len(w) = Len(x) + Len(y) + Len(z) + Len(t)
        /\ placed(w, Len(x) + Len(y) + Len(z), t) /\ w \in Text
    BY DEF lined
  <2> HIDE DEF t
  <2> QED BY <2>1 DEF Text
<1>2. Len(x) + Len(y) + Len(z) + 2 = k + 2
  OBVIOUS
<1> HIDE DEF k
<1>3. CASE s = <<>>
  <2>1. Len(t) = 0
    BY <1>3 DEF query_text
  <2> HIDE DEF t
  <2>2. Len(w) < k + 2
    BY <1>1, <2>1
  <2>3. SubSeq(w, k + 2, Len(w)) = <<>>
    BY <1>1, <2>2
  <2> QED BY <1>2, <1>3, <2>3 DEF from
<1>4. CASE s # <<>>
  <2>1. t = onto(question, s)
    BY <1>4 DEF query_text, onto
  <2> HIDE DEF t
  <2>2. question \in Octet /\ s \in Seq(Octet) /\ Len(s) \in Nat
    BY Mark DEF Text
  <2>3. Len(t) = Len(s) + 1
    BY <2>1, <2>2 DEF onto
  <2>4. \A i \in 1 .. Len(s) : t[i + 1] = s[i]
    BY <2>1, <2>2 DEF onto
  <2>5. placed(w, k + 1, s)
    <3> SUFFICES ASSUME NEW i \in 1 .. Len(s) PROVE w[(k + 1) + i] = s[i]
      BY DEF placed
    <3>1. i + 1 \in 1 .. Len(t) /\ k + (i + 1) = (k + 1) + i
      BY <1>1, <2>2, <2>3
    <3>2. w[k + (i + 1)] = t[i + 1]
      BY <1>1, <3>1 DEF placed
    <3> QED BY <2>4, <3>1, <3>2
  <2>6. k + 1 \in Nat /\ (k + 1) + Len(s) <= Len(w)
    BY <1>1, <2>2, <2>3
  <2>7. sliced(w, k + 1, s)
    BY <1>1, <2>5, <2>6, Sliced
  <2>8. (k + 1) + 1 = k + 2 /\ (k + 1) + Len(s) = Len(w)
    BY <1>1, <2>2, <2>3
  <2> QED BY <1>2, <2>7, <2>8 DEF sliced, from
<1> QED BY <1>3, <1>4

LEMMA TwoBytes == 2 ^ 16 = 65536
BY SMT

LEMMA PortKept ==
  ASSUME NEW n \in Nat, n <= 65535
  PROVE  n % 2 ^ 16 = n
BY TwoBytes

(***************************************************************************)
(* A URL that was written of parts that can be told apart is taken   *)
(* apart into them by parse_absolute_uri: scheme, host, port, path, query. *)
(***************************************************************************)
THEOREM ParsesWritten ==
  ASSUME NEW u \in Uri
  PROVE  parse_absolute_uri(url_of(u)) = u
<1> DEFINE w == url_of(u)
           x == scheme_text(u.scheme)
           y == authority_of(u)
           z == u.path
           t == query_text(u.query)
<1>1. lined(w, x, y, z, t) /\ x \in Text /\ t \in Text
  BY UrlLined
<1>2. /\ u.scheme = <<>> => scheme_at(w) = Len(w) + 1 /\ Len(x) = 0
      /\ u.scheme # <<>> => /\ scheme_at(w) = Len(u.scheme) + 1 /\ Len(u.scheme) + 1 <= Len(w)
                            /\ SubSeq(w, 1, Len(u.scheme)) = u.scheme
                            /\ Len(x) = Len(u.scheme) + 3
  BY SchemeAt
<1>3. /\ u.scheme \in Text /\ u.host \in Text /\ u.port \in Nat /\ u.port <= 65535
      /\ z \in Text /\ u.query \in Text /\ separable(u)
  BY UriParts
<1>4. /\ Len(w) \in Nat /\ Len(u.scheme) \in Nat /\ Len(z) \in Nat /\ Len(u.host) \in Nat
      /\ Len(x) \in Nat
  <2>1. w \in Text
    BY <1>1 DEF lined
  <2>2. x \in Text
    BY <1>1
  <2> HIDE DEF x
  <2> QED BY <1>3, <2>1, <2>2, SMTT(30) DEF Text
<1>5. z # <<>> /\ Len(z) # 0 /\ z[1] = slash /\ free(question, z)
  <2>1. z # <<>> /\ z[1] = slash /\ z \in Without(question)
    BY <1>3 DEF separable
  <2>2. Len(z) # 0
    BY <1>3, <2>1 DEF Text
  <2> QED BY <2>1, <2>2, WithoutIsText DEF free
<1>6. /\ y \in Text /\ Len(y) \in Nat
      /\ \A i \in 1 .. Len(y) : y[i] # slash /\ y[i] # question
      /\ u.port = 0 => last_of(colon, y) = 0 /\ y = u.host
      /\ u.port # 0 => /\ last_of(colon, y) = Len(u.host) + 1
                       /\ SubSeq(y, 1, Len(u.host)) = u.host
                       /\ SubSeq(y, Len(u.host) + 2, Len(y)) = to_string(u.port)
  BY AuthorityText
<1>7. Len(t) # 0 => t[1] = question
  <2>1. CASE u.query = <<>>
    <3>1. Len(t) = 0
      BY <2>1 DEF query_text
    <3> QED BY <3>1
  <2>2. CASE u.query # <<>>
    <3>1. t = onto(question, u.query)
      BY <2>2 DEF query_text, onto
    <3>2. question \in Octet /\ u.query \in Seq(Octet)
      BY <1>3, Mark DEF Text
    <3> HIDE DEF t
    <3>3. t[1] = question
      BY <3>1, <3>2 DEF onto
    <3> QED BY <3>3
  <2> QED BY <2>1, <2>2
<1>8. from(w, Len(x) + Len(y) + Len(z) + 2) = u.query
  <2> HIDE DEF w, x, y, z
  <2> QED BY <1>1, <1>3, <1>6, CutQuery
<1> HIDE DEF w, x, y, z, t
<1>9. cut_by(y, z, t)
  <2>1. free(slash, y)
    BY ONLY <1>6 DEF free
  <2>2. free(question, y)
    BY ONLY <1>6 DEF free
  <2> QED BY ONLY <1>5, <1>7, <2>1, <2>2 DEF cut_by
<1>10. authority_start(w) = Len(x) + 1
  BY <1>2, <1>4 DEF authority_start
<1>11. /\ query_at(w) = Len(x) + Len(y) + Len(z) + 1
       /\ authority_in(w) = y /\ path_in(w) = z
  <2>1. y \in Text /\ z \in Text
    BY <1>3, <1>6
  <2> QED BY ONLY <1>1, <1>9, <1>10, <2>1, Cuts
<1>12. scheme_in(w) = u.scheme
  <2>1. CASE u.scheme = <<>>
    <3>1. scheme_at(w) > Len(w)
      BY <1>2, <1>4, <2>1
    <3> QED BY <2>1, <3>1 DEF scheme_in
  <2>2. CASE u.scheme # <<>>
    <3>1. ~ (scheme_at(w) > Len(w)) /\ scheme_at(w) - 1 = Len(u.scheme)
      BY <1>2, <1>4, <2>2
    <3> QED BY <1>2, <2>2, <3>1 DEF scheme_in
  <2> QED BY <2>1, <2>2
<1>13. port_at(w) = last_of(colon, y)
  BY <1>11 DEF port_at
<1> DEFINE c == port_at(w)
<1>14. u.port # 0 => c # 0 /\ c - 1 = Len(u.host) /\ c + 1 = Len(u.host) + 2
  <2> SUFFICES ASSUME u.port # 0
               PROVE  c # 0 /\ c - 1 = Len(u.host) /\ c + 1 = Len(u.host) + 2
    OBVIOUS
  <2> HIDE DEF c
  <2>1. c = Len(u.host) + 1 /\ Len(u.host) \in Nat
    BY <1>4, <1>6, <1>13 DEF c
  <2> QED BY ONLY <2>1
<1> HIDE DEF c
<1>15. host_of(authority_in(w), c) = u.host
  <2>1. CASE u.port = 0
    BY <1>6, <1>11, <1>13, <2>1 DEF host_of, c
  <2>2. CASE u.port # 0
    BY <1>6, <1>11, <1>14, <2>2 DEF host_of
  <2> QED BY <2>1, <2>2
<1>16. port_of(authority_in(w), c) = u.port
  <2>1. CASE u.port = 0
    BY <1>6, <1>13, <2>1 DEF port_of, c
  <2>2. CASE u.port # 0
    <3>1. from(authority_in(w), c + 1) = to_string(u.port)
      BY <1>6, <1>11, <1>14, <2>2 DEF from
    <3>2. stoi(to_string(u.port)) = u.port
      BY <1>3, DecimalReadBack
    <3>3. u.port % 2 ^ 16 = u.port
      BY <1>3, PortKept
    <3> QED BY <1>14, <2>2, <3>1, <3>2, <3>3 DEF port_of
  <2> QED BY <2>1, <2>2
<1>17. path_of(path_in(w)) = u.path
  BY <1>5, <1>11 DEF path_of, z
<1>18. from(w, query_at(w) + 1) = u.query
  <2>1. query_at(w) + 1 = Len(x) + Len(y) + Len(z) + 2
    BY ONLY <1>4, <1>6, <1>11
  <2> QED BY <1>8, <2>1
<1>19. u = [scheme |-> u.scheme, host |-> u.host, port |-> u.port, path |-> u.path,
            query |-> u.query]
  BY UriParts
<1>20. parse_absolute_uri(w)
        = [scheme |-> scheme_in(w),
           host   |-> host_of(authority_in(w), c),
           port   |-> port_of(authority_in(w), c),
           path   |-> path_of(path_in(w)),
           query  |-> from(w, query_at(w) + 1)]
  BY Parsed DEF c
<1>21. parse_absolute_uri(w)
        = [scheme |-> u.scheme, host |-> u.host, port |-> u.port, path |-> u.path,
           query |-> u.query]
  BY ONLY <1>12, <1>15, <1>16, <1>17, <1>18, <1>20
<1> QED BY ONLY <1>19, <1>21 DEF w

-----------------------------------------------------------------------------
\* The words of a text.

Blank == {9, 10, 13, space}

LEMMA First ==
  ASSUME NEW n \in Nat, NEW i \in 1 .. (n + 1), NEW T, T \subseteq i .. n
  PROVE  LET m == Min(T \cup {n + 1}) IN
         /\ m \in i .. (n + 1)
         /\ m <= n => m \in T
         /\ \A j \in i .. (m - 1) : j \notin T
<1> DEFINE U == T \cup {n + 1}
           m == Min(U)
<1>1. U \subseteq Nat /\ U # {} /\ U \subseteq i .. (n + 1)
  OBVIOUS
<1>2. m \in U /\ \A y \in U : m <= y
  <2> HIDE DEF U
  <2> QED BY <1>1, Minimum
<1> HIDE DEF m
<1>3. m \in i .. (n + 1) /\ (m <= n => m \in T)
  BY <1>1, <1>2
<1>4. \A j \in i .. (m - 1) : j \notin T
  BY <1>2, <1>3
<1> QED BY <1>3, <1>4 DEF m, U

LEMMA FirstAt ==
  ASSUME NEW n \in Nat, NEW i \in 1 .. (n + 1), NEW T, T \subseteq i .. n,
         NEW k \in i .. (n + 1), k <= n => k \in T, \A j \in i .. (k - 1) : j \notin T
  PROVE  Min(T \cup {n + 1}) = k
<1> DEFINE U == T \cup {n + 1}
<1>1. U \subseteq Nat /\ k \in U
  OBVIOUS
<1>2. \A y \in U : k <= y
  <2> SUFFICES ASSUME NEW y \in U, ~ (k <= y) PROVE FALSE
    OBVIOUS
  <2>1. y \in i .. (k - 1) /\ y \in T
    OBVIOUS
  <2> QED BY <2>1
<1> HIDE DEF U
<1>3. Min(U) = k
  BY <1>1, <1>2, FirstOf
<1> QED BY <1>3 DEF U

inked_from(s, i) == {j \in i .. Len(s) : s[j] \notin Space}
blank_from(s, i) == {j \in i .. Len(s) : s[j] \in Blank}
word_start(s, i) == Min(inked_from(s, i) \cup {Len(s) + 1})
word_end(s, i) == Min(blank_from(s, i) \cup {Len(s) + 1})

LEMMA WordStart ==
  ASSUME NEW s \in Text, NEW i \in 1 .. (Len(s) + 1)
  PROVE  /\ word_start(s, i) \in i .. (Len(s) + 1)
         /\ word_start(s, i) <= Len(s) => s[word_start(s, i)] \notin Space
         /\ \A j \in i .. (word_start(s, i) - 1) : s[j] \in Space
<1> DEFINE n == Len(s)
           T == inked_from(s, i)
           m == Min(T \cup {n + 1})
<1>1. n \in Nat /\ T \subseteq i .. n
  BY DEF Text, inked_from
<1> HIDE DEF T
<1>2. /\ m \in i .. (n + 1)
      /\ m <= n => m \in T
      /\ \A j \in i .. (m - 1) : j \notin T
  BY <1>1, First
<1> HIDE DEF m
<1>3. \A j \in i .. (m - 1) : s[j] \in Space
  BY <1>1, <1>2 DEF T, inked_from
<1>4. m <= n => s[m] \notin Space
  BY <1>2 DEF T, inked_from
<1> QED BY <1>2, <1>3, <1>4 DEF m, T, word_start

LEMMA WordStartAt ==
  ASSUME NEW s \in Text, NEW i \in 1 .. (Len(s) + 1), NEW k \in i .. (Len(s) + 1),
         k <= Len(s) => s[k] \notin Space, \A j \in i .. (k - 1) : s[j] \in Space
  PROVE  word_start(s, i) = k
<1> DEFINE n == Len(s)
           T == inked_from(s, i)
<1>1. n \in Nat /\ T \subseteq i .. n
  BY DEF Text, inked_from
<1>2. k <= n => k \in T
  BY <1>1 DEF inked_from
<1>3. \A j \in i .. (k - 1) : j \notin T
  BY DEF inked_from
<1> HIDE DEF T
<1>4. Min(T \cup {n + 1}) = k
  BY <1>1, <1>2, <1>3, FirstAt
<1> QED BY <1>4 DEF T, word_start

LEMMA WordEnd ==
  ASSUME NEW s \in Text, NEW i \in 1 .. (Len(s) + 1)
  PROVE  /\ word_end(s, i) \in i .. (Len(s) + 1)
         /\ word_end(s, i) <= Len(s) => s[word_end(s, i)] \in Blank
         /\ \A j \in i .. (word_end(s, i) - 1) : s[j] \notin Blank
<1> DEFINE n == Len(s)
           T == blank_from(s, i)
           m == Min(T \cup {n + 1})
<1>1. n \in Nat /\ T \subseteq i .. n
  BY DEF Text, blank_from
<1> HIDE DEF T
<1>2. /\ m \in i .. (n + 1)
      /\ m <= n => m \in T
      /\ \A j \in i .. (m - 1) : j \notin T
  BY <1>1, First
<1> HIDE DEF m
<1>3. \A j \in i .. (m - 1) : s[j] \notin Blank
  BY <1>1, <1>2 DEF T, blank_from
<1>4. m <= n => s[m] \in Blank
  BY <1>2 DEF T, blank_from
<1> QED BY <1>2, <1>3, <1>4 DEF m, T, word_end

LEMMA WordEndAt ==
  ASSUME NEW s \in Text, NEW i \in 1 .. (Len(s) + 1), NEW k \in i .. (Len(s) + 1),
         k <= Len(s) => s[k] \in Blank, \A j \in i .. (k - 1) : s[j] \notin Blank
  PROVE  word_end(s, i) = k
<1> DEFINE n == Len(s)
           T == blank_from(s, i)
<1>1. n \in Nat /\ T \subseteq i .. n
  BY DEF Text, blank_from
<1>2. k <= n => k \in T
  BY <1>1 DEF blank_from
<1>3. \A j \in i .. (k - 1) : j \notin T
  BY DEF blank_from
<1> HIDE DEF T
<1>4. Min(T \cup {n + 1}) = k
  BY <1>1, <1>2, <1>3, FirstAt
<1> QED BY <1>4 DEF T, word_end

\* One word, and the words behind it.
word_and(s, i, f) ==
  IF word_start(s, i) > Len(s) THEN <<>>
  ELSE <<SubSeq(s, word_start(s, i), word_end(s, word_start(s, i)) - 1)>>
         \o IF word_end(s, word_start(s, i)) > Len(s) THEN <<>>
            ELSE f[word_end(s, word_start(s, i)) + 1]

splitting(s) == CHOOSE f : f = [i \in 1 .. (Len(s) + 1) |-> word_and(s, i, f)]

LEMMA SplitRead ==
  ASSUME NEW s
  PROVE  split_ws(s) = splitting(s)[1]
BY DEF split_ws, splitting, word_and, word_start, word_end, inked_from, blank_from, Blank

LEMMA WordSpan ==
  ASSUME NEW s \in Text, NEW i \in 1 .. (Len(s) + 1), word_start(s, i) <= Len(s)
  PROVE  /\ word_start(s, i) \in 1 .. (Len(s) + 1) /\ word_start(s, i) >= i
         /\ word_end(s, word_start(s, i)) \in word_start(s, i) .. (Len(s) + 1)
         /\ SubSeq(s, word_start(s, i), word_end(s, word_start(s, i)) - 1) \in Text
<1> DEFINE a == word_start(s, i)
           b == word_end(s, a)
<1>1. a \in i .. (Len(s) + 1) /\ Len(s) \in Nat
  BY WordStart DEF Text
<1> HIDE DEF a
<1>2. a \in 1 .. (Len(s) + 1) /\ a >= i
  BY <1>1
<1>3. b \in a .. (Len(s) + 1)
  BY <1>2, WordEnd
<1> HIDE DEF b
<1>4. SubSeq(s, a, b - 1) \in Text
  BY <1>1, <1>2, <1>3 DEF Text
<1> QED BY <1>2, <1>3, <1>4 DEF a, b

LEMMA WordAndType ==
  ASSUME NEW s \in Text, NEW i \in 1 .. (Len(s) + 1), NEW g,
         \A j \in 1 .. (Len(s) + 1) : j > i => g[j] \in Seq(Text)
  PROVE  word_and(s, i, g) \in Seq(Text)
<1> DEFINE a == word_start(s, i)
           b == word_end(s, a)
           x == SubSeq(s, a, b - 1)
           r == IF b > Len(s) THEN <<>> ELSE g[b + 1]
<1>1. CASE a > Len(s)
  BY <1>1 DEF word_and
<1>2. CASE ~ (a > Len(s))
  <2>1. a <= Len(s) /\ Len(s) \in Nat
    BY <1>2, WordStart DEF Text
  <2>2. a \in 1 .. (Len(s) + 1) /\ a >= i /\ b \in a .. (Len(s) + 1) /\ x \in Text
    BY <2>1, WordSpan
  <2>3. word_and(s, i, g) = <<x>> \o r
    BY <1>2 DEF word_and
  <2> HIDE DEF a, b, x
  <2>4. r \in Seq(Text)
    <3>1. CASE b > Len(s)
      BY <3>1
    <3>2. CASE ~ (b > Len(s))
      <4>1. b + 1 \in 1 .. (Len(s) + 1) /\ b + 1 > i
        BY <2>1, <2>2, <3>2
      <4>2. g[b + 1] \in Seq(Text)
        BY <4>1
      <4> QED BY <3>2, <4>2
    <3> QED BY <3>1, <3>2
  <2> HIDE DEF r
  <2>5. <<x>> \o r \in Seq(Text)
    BY <2>2, <2>4
  <2> QED BY <2>3, <2>5
<1> QED BY <1>1, <1>2

LEMMA WordAndSame ==
  ASSUME NEW s \in Text, NEW i \in 1 .. (Len(s) + 1), NEW g, NEW h,
         \A j \in 1 .. (Len(s) + 1) : j > i => g[j] = h[j]
  PROVE  word_and(s, i, g) = word_and(s, i, h)
<1> DEFINE a == word_start(s, i)
           b == word_end(s, a)
<1>1. CASE a > Len(s)
  BY <1>1 DEF word_and
<1>2. CASE ~ (a > Len(s))
  <2>1. a <= Len(s) /\ Len(s) \in Nat
    BY <1>2, WordStart DEF Text
  <2>2. a \in 1 .. (Len(s) + 1) /\ a >= i /\ b \in a .. (Len(s) + 1)
    BY <2>1, WordSpan
  <2> HIDE DEF a, b
  <2>3. ~ (b > Len(s)) => g[b + 1] = h[b + 1]
    <3> SUFFICES ASSUME ~ (b > Len(s)) PROVE g[b + 1] = h[b + 1]
      OBVIOUS
    <3>1. b + 1 \in 1 .. (Len(s) + 1) /\ b + 1 > i
      BY <2>1, <2>2
    <3> QED BY <3>1
  <2>4. (IF b > Len(s) THEN <<>> ELSE g[b + 1]) = (IF b > Len(s) THEN <<>> ELSE h[b + 1])
    BY <2>3
  <2> QED BY <2>4 DEF word_and, a, b
<1> QED BY <1>1, <1>2

\* The loop of split_ws has a result at every position of every text.
LEMMA Splitting ==
  ASSUME NEW s \in Text
  PROVE  \A i \in 1 .. (Len(s) + 1) :
           splitting(s)[i] = word_and(s, i, splitting(s)) /\ splitting(s)[i] \in Seq(Text)
<1> DEFINE n == Len(s)
           S == 1 .. (n + 1)
           V == Seq(Text)
           D == [g \in [S -> V] |-> [i \in S |-> word_and(s, i, g)]]
           f == splitting(s)
<1>1. n \in Nat
  BY DEF Text
<1>2. reads_on(n, V, D)
  <2>1. D \in [[S -> V] -> [S -> V]]
    <3>1. ASSUME NEW g \in [S -> V], NEW i \in S PROVE word_and(s, i, g) \in V
      <4>1. \A j \in 1 .. (Len(s) + 1) : j > i => g[j] \in Seq(Text)
        OBVIOUS
      <4> QED BY <4>1, WordAndType
    <3> HIDE DEF V, S
    <3> QED BY <3>1
  <2>2. ASSUME NEW g \in [S -> V], NEW h \in [S -> V], NEW i \in S,
               \A j \in S : j > i => g[j] = h[j]
        PROVE  D[g][i] = D[h][i]
    <3>1. word_and(s, i, g) = word_and(s, i, h)
      BY <2>2, WordAndSame
    <3> HIDE DEF V, S
    <3> QED BY <3>1
  <2>3. V # {}
    <3>1. <<>> \in V
      OBVIOUS
    <3> QED BY <3>1
  <2> HIDE DEF D, V
  <2> QED BY <1>1, <2>1, <2>2, <2>3 DEF reads_on
<1>3. PICK g \in [S -> V] : g = D[g]
  <2> HIDE DEF D, n, V
  <2> QED BY <1>2, ReadingOn
<1>4. \E h : h = [i \in S |-> word_and(s, i, h)]
  BY <1>3
<1>5. f = [i \in S |-> word_and(s, i, f)]
  BY <1>4 DEF splitting
<1> HIDE DEF f
<1>6. \A i \in S : f[i] = word_and(s, i, f)
  BY <1>5
<1>7. \A i \in S : f[i] \in V
  <2> DEFINE T == {i \in S : f[i] \in V}
  <2>1. ASSUME NEW i \in S, \A j \in S : j > i => j \in T PROVE i \in T
    <3>1. \A j \in 1 .. (Len(s) + 1) : j > i => f[j] \in Seq(Text)
      BY <2>1
    <3>2. word_and(s, i, f) \in V
      BY <3>1, WordAndType
    <3> QED BY <1>6, <3>2
  <2> HIDE DEF T
  <2>2. \A i \in S : i \in T
    BY <1>1, <2>1, FromEnd
  <2> QED BY <2>2 DEF T
<1> QED BY <1>6, <1>7 DEF f

\* What split_ws reads behind a text does not depend on that text.
LEMMA SplittingAfter ==
  ASSUME NEW x \in Text, NEW t \in Text
  PROVE  \A i \in 1 .. (Len(t) + 1) : splitting(concat(x, t))[Len(x) + i] = splitting(t)[i]
<1> DEFINE n == Len(t)
           k == Len(x)
           w == concat(x, t)
           f == splitting(w)
           g == splitting(t)
           T == {i \in 1 .. (n + 1) : f[k + i] = g[i]}
<1>1. /\ w \in Text /\ Len(w) = k + n /\ n \in Nat /\ k \in Nat
      /\ \A i \in 1 .. n : w[k + i] = t[i]
  <2>1. /\ w \in Text /\ Len(w) = k + n /\ n \in Nat /\ k \in Nat /\ placed(w, k, t)
    BY PlacedConcat
  <2> QED BY <2>1 DEF placed
<1>2. \A i \in 1 .. (n + 1) : g[i] = word_and(t, i, g)
  BY Splitting
<1> HIDE DEF w
<1>3. \A i \in 1 .. (Len(w) + 1) : f[i] = word_and(w, i, f)
  BY <1>1, Splitting
<1> HIDE DEF f, g
<1>4. ASSUME NEW i \in 1 .. (n + 1), \A j \in 1 .. (n + 1) : j > i => j \in T PROVE i \in T
  <2> DEFINE a == word_start(t, i)
             b == word_end(t, a)
  <2>1. /\ a \in i .. (n + 1)
        /\ a <= n => t[a] \notin Space
        /\ \A j \in i .. (a - 1) : t[j] \in Space
    BY WordStart
  <2> HIDE DEF a
  <2>2. k + i \in 1 .. (Len(w) + 1)
    BY <1>1
  <2>3. word_start(w, k + i) = k + a
    <3>1. k + a \in (k + i) .. (Len(w) + 1)
      BY <1>1, <2>1
    <3>2. k + a <= Len(w) => w[k + a] \notin Space
      BY <1>1, <2>1
    <3>3. ASSUME NEW j \in (k + i) .. ((k + a) - 1) PROVE w[j] \in Space
      <4>1. j - k \in i .. (a - 1) /\ j - k \in 1 .. n /\ k + (j - k) = j
        BY <1>1, <2>1
      <4> QED BY <1>1, <2>1, <4>1
    <3> HIDE DEF n, k
    <3> QED BY <1>1, <2>2, <3>1, <3>2, <3>3, WordStartAt
  <2>4. CASE a > n
    <3>1. k + a > Len(w)
      BY <1>1, <2>1, <2>4
    <3>2. f[k + i] = <<>>
      BY <1>3, <2>2, <2>3, <3>1 DEF word_and
    <3>3. g[i] = <<>>
      BY <1>2, <2>4 DEF word_and, a
    <3> QED BY <3>2, <3>3
  <2>5. CASE ~ (a > n)
    <3>1. a <= n /\ a \in 1 .. (n + 1) /\ ~ (k + a > Len(w))
      BY <1>1, <2>1, <2>5
    <3>2. /\ b \in a .. (n + 1)
          /\ b <= n => t[b] \in Blank
          /\ \A j \in a .. (b - 1) : t[j] \notin Blank
      BY <3>1, WordEnd
    <3> HIDE DEF b
    <3>3. k + a \in 1 .. (Len(w) + 1)
      BY <1>1, <3>1
    <3>4. word_end(w, k + a) = k + b
      <4>1. k + b \in (k + a) .. (Len(w) + 1)
        BY <1>1, <3>1, <3>2
      <4>2. k + b <= Len(w) => w[k + b] \in Blank
        BY <1>1, <3>1, <3>2
      <4>3. ASSUME NEW j \in (k + a) .. ((k + b) - 1) PROVE w[j] \notin Blank
        <5>1. j - k \in a .. (b - 1) /\ j - k \in 1 .. n /\ k + (j - k) = j
          BY <1>1, <3>1, <3>2
        <5> QED BY <1>1, <3>2, <5>1
      <4> HIDE DEF n, k
      <4> QED BY <1>1, <3>3, <4>1, <4>2, <4>3, WordEndAt
    <3>5. SubSeq(w, k + a, (k + b) - 1) = SubSeq(t, a, b - 1)
      <4> DEFINE u == SubSeq(w, k + a, (k + b) - 1)
                 v == SubSeq(t, a, b - 1)
      <4>1. w \in Seq(Octet) /\ t \in Seq(Octet)
        BY <1>1 DEF Text
      <4>2. v \in Seq(Octet) /\ Len(v) = b - a /\ \A j \in 1 .. (b - a) : v[j] = t[a + j - 1]
        BY <1>1, <3>1, <3>2, <4>1
      <4>3. k + a >= 1 /\ (k + b) - 1 <= Len(w) /\ ((k + b) - 1) - (k + a) + 1 = b - a
        BY <1>1, <3>1, <3>2
      <4>4. u \in Seq(Octet) /\ Len(u) = b - a
        BY <1>1, <3>1, <3>2, <4>1, <4>3, SMTT(60)
      <4>5. ASSUME NEW j \in 1 .. (b - a) PROVE u[j] = v[j]
        <5>1. u[j] = w[(k + a) + j - 1]
          BY <1>1, <3>1, <3>2, <4>1, <4>3, SMTT(60)
        <5>2. a + j - 1 \in 1 .. n /\ k + (a + j - 1) = (k + a) + j - 1
          BY <1>1, <3>1, <3>2
        <5>3. w[k + (a + j - 1)] = t[a + j - 1]
          BY <1>1, <5>2
        <5> HIDE DEF u, v
        <5> QED BY <4>2, <5>1, <5>2, <5>3
      <4> HIDE DEF u, v
      <4>6. u = v
        BY <4>2, <4>4, <4>5, SeqEqual
      <4> QED BY <4>6 DEF u, v
    <3>6. k + b > Len(w) <=> b > n
      BY <1>1, <3>1, <3>2
    <3>7. ~ (b > n) => f[(k + b) + 1] = g[b + 1]
      <4> SUFFICES ASSUME ~ (b > n) PROVE f[(k + b) + 1] = g[b + 1]
        OBVIOUS
      <4>1. b + 1 \in 1 .. (n + 1) /\ b + 1 > i /\ k + (b + 1) = (k + b) + 1
        BY <1>1, <2>1, <3>1, <3>2
      <4> QED BY <1>4, <4>1
    <3>8. f[k + i] = <<SubSeq(t, a, b - 1)>> \o IF b > n THEN <<>> ELSE f[(k + b) + 1]
      BY <1>3, <2>2, <2>3, <3>1, <3>4, <3>5, <3>6 DEF word_and
    <3>9. g[i] = <<SubSeq(t, a, b - 1)>> \o IF b > n THEN <<>> ELSE g[b + 1]
      BY <1>2, <2>5 DEF word_and, a, b
    <3>10. (IF b > n THEN <<>> ELSE f[(k + b) + 1]) = (IF b > n THEN <<>> ELSE g[b + 1])
      BY <3>7
    <3>11. f[k + i] = g[i]
      BY ONLY <3>8, <3>9, <3>10, SMTT(30)
    <3> QED BY <3>11
  <2> QED BY <2>4, <2>5
<1> HIDE DEF T
<1>5. \A i \in 1 .. (n + 1) : i \in T
  BY <1>1, <1>4, FromEnd
<1> QED BY <1>5 DEF T, f, g, w

\* A blank before a text is skipped.
LEMMA SplitBehindBlank ==
  ASSUME NEW t \in Text
  PROVE  split_ws(onto(space, t)) = split_ws(t)
<1> DEFINE w == onto(space, t)
           x == <<space>>
           f == splitting(w)
<1>1. /\ space \in Octet /\ space \in Space
  BY DEF space, Space, Octet
<1>2. x \in Text /\ Len(x) = 1
  BY <1>1 DEF Text
<1>3. w = concat(x, t)
  BY DEF onto, concat
<1>4. w \in Text /\ Len(w) = Len(t) + 1 /\ w[1] = space /\ Len(t) \in Nat
  BY <1>1, OntoItems DEF Text
<1>5. f[1 + 1] = splitting(t)[1]
  <2>1. \A i \in 1 .. (Len(t) + 1) : splitting(concat(x, t))[Len(x) + i] = splitting(t)[i]
    BY <1>2, SplittingAfter
  <2>2. 1 \in 1 .. (Len(t) + 1)
    BY <1>4
  <2> HIDE DEF w, x
  <2> QED BY <1>2, <1>3, <2>1, <2>2
<1> HIDE DEF w, x, f
<1>6. 1 \in 1 .. (Len(w) + 1) /\ 2 \in 1 .. (Len(w) + 1)
  BY <1>4
<1>7. \A i \in 1 .. (Len(w) + 1) : f[i] = word_and(w, i, f)
  BY <1>4, Splitting DEF f
<1>8. word_start(w, 1) = word_start(w, 2)
  <2> DEFINE a == word_start(w, 2)
  <2>1. /\ a \in 2 .. (Len(w) + 1)
        /\ a <= Len(w) => w[a] \notin Space
        /\ \A j \in 2 .. (a - 1) : w[j] \in Space
    BY <1>4, <1>6, WordStart
  <2> HIDE DEF a
  <2>2. a \in 1 .. (Len(w) + 1)
    BY <1>4, <2>1
  <2>3. \A j \in 1 .. (a - 1) : w[j] \in Space
    <3> SUFFICES ASSUME NEW j \in 1 .. (a - 1) PROVE w[j] \in Space
      OBVIOUS
    <3>1. j = 1 \/ j \in 2 .. (a - 1)
      BY <2>1
    <3> QED BY <1>1, <1>4, <2>1, <3>1
  <2>4. word_start(w, 1) = a
    BY <1>4, <1>6, <2>1, <2>2, <2>3, WordStartAt
  <2> QED BY <2>4 DEF a
<1>9. f[1] = f[2]
  BY <1>6, <1>7, <1>8 DEF word_and
<1>10. split_ws(w) = f[1] /\ split_ws(t) = splitting(t)[1]
  BY SplitRead DEF f
<1> QED BY <1>5, <1>9, <1>10 DEF w

\* Texts without white space.
Word == Seq(Octet \ Space)
worded == [x \in Word |-> IF x = <<>> THEN <<>> ELSE <<x>>]

LEMMA WordText ==
  ASSUME NEW x \in Word
  PROVE  /\ x \in Text /\ Len(x) \in Nat /\ \A i \in 1 .. Len(x) : x[i] \notin Space
         /\ x # <<>> => Len(x) # 0
<1>1. Octet \ Space \subseteq Octet
  OBVIOUS
<1>2. x \in Text
  BY <1>1, SeqMonotonic DEF Word, Text
<1>3. Len(x) \in Nat /\ \A i \in 1 .. Len(x) : x[i] \notin Space
  BY DEF Word
<1>4. x # <<>> => Len(x) # 0
  BY DEF Word
<1> QED BY <1>2, <1>3, <1>4

LEMMA WordedMaps == maps(Word, Seq(Word), worded)
<1>1. \A x \in Word : (IF x = <<>> THEN <<>> ELSE <<x>>) \in Seq(Word)
  <2> HIDE DEF Word
  <2> QED OBVIOUS
<1> QED BY <1>1 DEF maps, worded

\* A word that ends the text, or that a blank ends.
LEMMA WordFirst ==
  ASSUME NEW w \in Text, NEW x \in Word, x # <<>>, Len(x) <= Len(w), placed(w, 0, x),
         Len(x) < Len(w) => w[Len(x) + 1] = space
  PROVE  word_start(w, 1) = 1 /\ word_end(w, 1) = Len(x) + 1 /\ SubSeq(w, 1, Len(x)) = x
<1> DEFINE k == Len(x)
<1>1. /\ k \in Nat /\ k # 0 /\ x \in Text /\ Len(w) \in Nat
      /\ \A i \in 1 .. k : w[i] = x[i] /\ x[i] \notin Space
  <2>1. k \in Nat /\ k # 0 /\ x \in Text /\ \A i \in 1 .. k : x[i] \notin Space
    BY WordText
  <2>2. Len(w) \in Nat
    BY DEF Text
  <2>3. \A i \in 1 .. k : w[0 + i] = x[i] /\ 0 + i = i
    BY <2>1 DEF placed
  <2> QED BY <2>1, <2>2, <2>3
<1>2. Blank \subseteq Space /\ space \in Blank
  BY DEF Blank, Space, space
<1>3. sliced(w, 0, x)
  <2>1. 0 \in Nat /\ 0 + Len(x) <= Len(w)
    BY <1>1
  <2> QED BY <1>1, <2>1, Sliced
<1>4. SubSeq(w, 1, k) = x
  <2>1. 0 + 1 = 1 /\ 0 + Len(x) = k
    BY <1>1
  <2> QED BY <1>3, <2>1 DEF sliced
<1>5. k < Len(w) => w[k + 1] = space
  OBVIOUS
<1>6. k <= Len(w)
  OBVIOUS
<1> HIDE DEF k
<1>7. word_start(w, 1) = 1
  <2>1. 1 \in 1 .. (Len(w) + 1) /\ 1 \in 1 .. k
    BY <1>1, <1>6
  <2>2. w[1] \notin Space /\ \A j \in 1 .. (1 - 1) : w[j] \in Space
    BY <1>1, <2>1
  <2> QED BY <2>1, <2>2, WordStartAt, SMTT(30)
<1>8. word_end(w, 1) = k + 1
  <2>1. 1 \in 1 .. (Len(w) + 1) /\ k + 1 \in 1 .. (Len(w) + 1)
    BY <1>1, <1>6
  <2>2. k + 1 <= Len(w) => w[k + 1] \in Blank
    BY <1>1, <1>2, <1>5, <1>6
  <2>3. \A j \in 1 .. ((k + 1) - 1) : w[j] \notin Blank
    BY <1>1, <1>2
  <2> QED BY <2>1, <2>2, <2>3, WordEndAt
<1> QED BY <1>4, <1>7, <1>8 DEF k

LEMMA SplitWord ==
  ASSUME NEW x \in Word
  PROVE  split_ws(x) = worded[x]
<1> DEFINE f == splitting(x)
<1>1. x \in Text /\ Len(x) \in Nat /\ (x # <<>> => Len(x) # 0)
  BY WordText
<1>2. 1 \in 1 .. (Len(x) + 1) /\ split_ws(x) = f[1]
  BY <1>1, SplitRead
<1>3. f[1] = word_and(x, 1, f)
  BY <1>1, <1>2, Splitting
<1> HIDE DEF f
<1>4. CASE x = <<>>
  <2>1. Len(x) = 0
    BY <1>4
  <2>2. word_start(x, 1) \in 1 .. (Len(x) + 1)
    BY <1>1, <1>2, WordStart
  <2>3. word_start(x, 1) > Len(x)
    BY <2>1, <2>2
  <2> QED BY <1>2, <1>3, <1>4, <2>3 DEF word_and, worded
<1>5. CASE x # <<>>
  <2>1. placed(x, 0, x) /\ Len(x) <= Len(x) /\ ~ (Len(x) < Len(x))
    BY <1>1 DEF placed
  <2>2. word_start(x, 1) = 1 /\ word_end(x, 1) = Len(x) + 1 /\ SubSeq(x, 1, Len(x)) = x
    BY <1>1, <1>5, <2>1, WordFirst
  <2>3. ~ (1 > Len(x)) /\ Len(x) + 1 > Len(x) /\ (Len(x) + 1) - 1 = Len(x)
    BY <1>1, <1>5
  <2>4. word_and(x, 1, f) = <<x>> \o <<>>
    BY <2>2, <2>3 DEF word_and
  <2>5. <<x>> \o <<>> = <<x>>
    BY <1>1
  <2> QED BY <1>2, <1>3, <1>5, <2>4, <2>5 DEF worded
<1> QED BY <1>4, <1>5

LEMMA SplitWordAnd ==
  ASSUME NEW x \in Word, NEW t \in Text
  PROVE  split_ws(concat(x, onto(space, t))) = worded[x] \o split_ws(t)
<1> DEFINE b == onto(space, t)
           w == concat(x, b)
           f == splitting(w)
<1>1. x \in Text /\ Len(x) \in Nat /\ (x # <<>> => Len(x) # 0)
  BY WordText
<1>2. b \in Text /\ Len(b) = Len(t) + 1 /\ b[1] = space /\ Len(t) \in Nat /\ space \in Octet
  <2>1. space \in Octet
    BY DEF space, Octet
  <2> QED BY <2>1, OntoItems DEF Text
<1>3. split_ws(t) \in Seq(Text)
  <2>1. 1 \in 1 .. (Len(t) + 1)
    BY <1>2
  <2> QED BY <2>1, Splitting, SplitRead
<1>4. CASE x = <<>>
  <2> HIDE DEF b
  <2>1. w = b
    BY <1>2, <1>4 DEF concat, Text
  <2>2. split_ws(b) = split_ws(t)
    BY SplitBehindBlank DEF b
  <2>3. worded[x] = <<>>
    BY <1>4 DEF worded
  <2>4. <<>> \o split_ws(t) = split_ws(t)
    BY <1>3
  <2> QED BY <2>1, <2>2, <2>3, <2>4 DEF b
<1>5. CASE x # <<>>
  <2> HIDE DEF b
  <2>1. /\ w \in Text /\ Len(w) = Len(x) + Len(b) /\ placed(w, 0, x) /\ placed(w, Len(x), b)
    BY <1>1, <1>2, PlacedConcat
  <2> HIDE DEF w
  <2>2. w[Len(x) + 1] = space
    <3>1. 1 \in 1 .. Len(b)
      BY <1>2
    <3> QED BY <1>2, <2>1, <3>1 DEF placed
  <2>3. word_start(w, 1) = 1 /\ word_end(w, 1) = Len(x) + 1 /\ SubSeq(w, 1, Len(x)) = x
    <3>1. Len(x) <= Len(w)
      BY <1>1, <1>2, <2>1
    <3> QED BY <1>5, <2>1, <2>2, <3>1, WordFirst
  <2>4. 1 \in 1 .. (Len(w) + 1) /\ split_ws(w) = f[1]
    BY <1>1, <1>2, <2>1, SplitRead
  <2>5. f[1] = word_and(w, 1, f)
    BY <2>1, <2>4, Splitting
  <2>6. f[Len(x) + 2] = split_ws(t)
    <3> DEFINE y == concat(x, <<space>>)
    <3>1. <<space>> \in Text /\ Len(<<space>>) = 1
      BY <1>2 DEF Text
    <3>2. y \in Text /\ Len(y) = Len(x) + 1
      <4>1. y \in Text /\ Len(y) = Len(x) + Len(<<space>>)
        BY <1>1, <3>1, PlacedConcat
      <4> HIDE DEF y
      <4> QED BY <3>1, <4>1
    <3>3. w = concat(y, t)
      <4>1. b = concat(<<space>>, t)
        BY DEF b, onto, concat
      <4>2. concat(x, concat(<<space>>, t)) = concat(concat(x, <<space>>), t)
        <5> DEFINE z == <<space>>
        <5>1. x \in Seq(Octet) /\ t \in Seq(Octet) /\ z \in Seq(Octet)
          BY <1>1, <3>1 DEF Text
        <5> HIDE DEF z
        <5>2. concat(x, concat(z, t)) = concat(concat(x, z), t)
          BY <5>1, ConcatRegrouped
        <5> QED BY <5>2 DEF z
      <4> QED BY <4>1, <4>2 DEF w
    <3> HIDE DEF y
    <3>4. \A i \in 1 .. (Len(t) + 1) : splitting(concat(y, t))[Len(y) + i] = splitting(t)[i]
      BY <3>2, SplittingAfter
    <3>5. 1 \in 1 .. (Len(t) + 1)
      BY <1>2
    <3>6. splitting(concat(y, t))[Len(y) + 1] = splitting(t)[1]
      BY <3>4, <3>5
    <3>7. Len(y) + 1 = Len(x) + 2
      BY <1>1, <3>2
    <3> QED BY <3>3, <3>6, <3>7, SplitRead DEF f
  <2> HIDE DEF f
  <2>7. /\ ~ (1 > Len(w)) /\ ~ (Len(x) + 1 > Len(w)) /\ (Len(x) + 1) - 1 = Len(x)
        /\ (Len(x) + 1) + 1 = Len(x) + 2
    BY <1>1, <1>2, <2>1
  <2>8. word_and(w, 1, f) = <<x>> \o f[Len(x) + 2]
    BY <2>3, <2>7 DEF word_and
  <2>9. worded[x] = <<x>>
    BY <1>5 DEF worded
  <2> QED BY <2>4, <2>5, <2>6, <2>8, <2>9 DEF w, b
<1> QED BY <1>4, <1>5

LEMMA WordsTexts ==
  ASSUME NEW texts \in Seq(Word)
  PROVE  texts \in Seq(Text)
<1>1. Word \subseteq Text
  BY WordText
<1> QED BY <1>1, SeqMonotonic

LEMMA TailedWords ==
  ASSUME NEW texts \in Seq(Word)
  PROVE  \A x \in Word :
           split_ws(concat(x, tailed(texts, <<space>>))) = expanded(onto(x, texts), worded)
<1> DEFINE dl == <<space>>
           P == {ts \in Seq(Word) :
                   \A x \in Word :
                     split_ws(concat(x, tailed(ts, dl))) = expanded(onto(x, ts), worded)}
<1>0. dl \in Text /\ space \in Octet
  BY DEF space, Octet, Text
<1>a. \A s \in Text : onto(space, s) = concat(dl, s)
  BY DEF onto, concat
<1> HIDE DEF dl
<1>1. <<>> \in P
  <2> SUFFICES ASSUME NEW x \in Word
               PROVE  split_ws(concat(x, tailed(<<>>, dl))) = expanded(onto(x, <<>>), worded)
    OBVIOUS
  <2>1. tailed(<<>>, dl) = <<>>
    BY ExpandedEmpty DEF tailed
  <2>2. concat(x, <<>>) = x
    <3>1. x \in Seq(Octet)
      BY WordText DEF Text
    <3> QED BY <3>1 DEF concat
  <2>3. expanded(onto(x, <<>>), worded) = worded[x]
    <3>1. <<>> \in Seq(Word)
      OBVIOUS
    <3>2. expanded(onto(x, <<>>), worded) = worded[x] \o expanded(<<>>, worded)
      BY <3>1, WordedMaps, ExpandedFront
    <3>3. expanded(<<>>, worded) = <<>>
      BY ExpandedEmpty
    <3>4. worded[x] \in Seq(Word)
      BY WordedMaps, MapType
    <3>5. worded[x] \o <<>> = worded[x]
      BY <3>4
    <3> QED BY <3>2, <3>3, <3>5
  <2>4. split_ws(x) = worded[x]
    BY SplitWord
  <2> QED BY <2>1, <2>2, <2>3, <2>4
<1>2. ASSUME NEW y \in Word, NEW ts \in Seq(Word), ts \in P PROVE onto(y, ts) \in P
  <2>1. onto(y, ts) \in Seq(Word)
    BY Onto
  <2>2. ts \in Seq(Text) /\ y \in Text
    BY WordsTexts, WordText
  <2>3. tailed(ts, dl) \in Text
    BY <1>0, <2>2, TailedType
  <2> DEFINE r == tailed(ts, dl)
             s == concat(y, r)
  <2>4. tailed(onto(y, ts), dl) = onto(space, s)
    <3>1. tailed(onto(y, ts), dl) = (dl \o y) \o r
      BY <1>0, <2>2, TailedFront
    <3>2. concat(dl, concat(y, r)) = concat(concat(dl, y), r)
      <4>1. dl \in Seq(Octet) /\ y \in Seq(Octet) /\ r \in Seq(Octet)
        BY <1>0, <2>2, <2>3 DEF Text
      <4> HIDE DEF r
      <4> QED BY <4>1, ConcatRegrouped
    <3>3. s \in Text
      <4> HIDE DEF r
      <4>1. concat(y, r) \in Text
        BY <2>2, <2>3, PlacedConcat DEF r
      <4> QED BY <4>1
    <3>4. onto(space, s) = concat(dl, s)
      BY <1>a, <3>3
    <3> HIDE DEF r
    <3> QED BY <3>1, <3>2, <3>4 DEF concat
  <2>5. s \in Text
    <3> HIDE DEF r
    <3>1. concat(y, r) \in Text
      BY <2>2, <2>3, PlacedConcat DEF r
    <3> QED BY <3>1
  <2>6. split_ws(s) = expanded(onto(y, ts), worded)
    BY <1>2
  <2> HIDE DEF s, r
  <2>7. ASSUME NEW x \in Word
        PROVE  split_ws(concat(x, tailed(onto(y, ts), dl))) = expanded(onto(x, onto(y, ts)), worded)
    <3>1. split_ws(concat(x, onto(space, s))) = worded[x] \o split_ws(s)
      BY <2>5, SplitWordAnd
    <3>2. expanded(onto(x, onto(y, ts)), worded) = worded[x] \o expanded(onto(y, ts), worded)
      BY <2>1, WordedMaps, ExpandedFront
    <3> QED BY <2>4, <2>6, <3>1, <3>2
  <2> QED BY <2>1, <2>7
<1> HIDE DEF P
<1>3. Seq(Word) \subseteq P
  BY <1>1, <1>2, FromFront
<1> QED BY <1>3 DEF P, dl

\* The scopes of a login are split into the words they were joined from.
LEMMA ScopesRead ==
  ASSUME NEW texts \in Seq(Word)
  PROVE  join_scopes(texts) \in Text /\ split_ws(join_scopes(texts)) = expanded(texts, worded)
<1> DEFINE dl == <<space>>
           P == {ts \in Seq(Word) : /\ join(ts, dl) \in Text
                                    /\ split_ws(join(ts, dl)) = expanded(ts, worded)}
<1>0. dl \in Text
  BY DEF space, Octet, Text
<1>1. <<>> \in P
  <2>1. <<>> \in Word /\ <<>> \in Text /\ <<>> \in Seq(Word)
    BY DEF Word, Text
  <2>2. split_ws(<<>>) = <<>>
    <3>1. split_ws(<<>>) = worded[<<>>]
      BY <2>1, SplitWord
    <3> QED BY <2>1, <3>1 DEF worded
  <2>3. join(<<>>, dl) = <<>>
    BY JoinEmpty
  <2>4. expanded(<<>>, worded) = <<>>
    BY ExpandedEmpty
  <2> HIDE DEF dl
  <2> QED BY <2>1, <2>2, <2>3, <2>4
<1>2. ASSUME NEW x \in Word, NEW ts \in Seq(Word), ts \in P PROVE onto(x, ts) \in P
  <2>1. onto(x, ts) \in Seq(Word)
    BY Onto
  <2>2. ts \in Seq(Text) /\ x \in Text
    BY WordsTexts, WordText
  <2>3. split_ws(concat(x, tailed(ts, dl))) = expanded(onto(x, ts), worded)
    BY TailedWords
  <2> HIDE DEF dl
  <2>4. join(onto(x, ts), dl) = x \o tailed(ts, dl)
    BY <1>0, <2>2, JoinFront
  <2>5. concat(x, tailed(ts, dl)) \in Text
    <3>1. tailed(ts, dl) \in Text
      BY <1>0, <2>2, TailedType
    <3> QED BY <2>2, <3>1, PlacedConcat
  <2> QED BY <2>1, <2>3, <2>4, <2>5 DEF concat
<1> HIDE DEF P
<1>3. Seq(Word) \subseteq P
  BY <1>1, <1>2, FromFront
<1> QED BY <1>3 DEF P, join_scopes, dl

-----------------------------------------------------------------------------
\* What the program makes URLs of.

LEMMA JoinType ==
  ASSUME NEW A, NEW dl \in Seq(A), NEW texts \in Seq(Seq(A))
  PROVE  join(texts, dl) \in Seq(A)
<1> DEFINE u == [i \in DOMAIN texts |-> IF i = 1 THEN texts[i] ELSE dl \o texts[i]]
<1>1. Len(texts) \in Nat /\ DOMAIN texts = 1 .. Len(texts)
  OBVIOUS
<1>2. \A i \in 1 .. Len(texts) : (IF i = 1 THEN texts[i] ELSE dl \o texts[i]) \in Seq(A)
  <2> SUFFICES ASSUME NEW i \in 1 .. Len(texts)
               PROVE  (IF i = 1 THEN texts[i] ELSE dl \o texts[i]) \in Seq(A)
    OBVIOUS
  <2>1. texts[i] \in Seq(A)
    OBVIOUS
  <2>2. dl \o texts[i] \in Seq(A)
    BY <2>1
  <2> QED BY <2>1, <2>2
<1>3. u \in Seq(Seq(A))
  <2> DEFINE V == Seq(A)
  <2>1. \A i \in 1 .. Len(texts) : (IF i = 1 THEN texts[i] ELSE dl \o texts[i]) \in V
    BY <1>2
  <2> HIDE DEF V
  <2>2. u \in Seq(V)
    BY <1>1, <2>1
  <2> QED BY <2>2 DEF V
<1> HIDE DEF u
<1>4. FlattenSeq(u) \in Seq(A)
  BY <1>3, FlattenType
<1> QED BY <1>4 DEF join, u

\* The bytes of a form.
FormByte == Safe \cup {equals, ampersand}

LEMMA FormBytes ==
  /\ FormByte \subseteq Octet /\ FormByte \subseteq Octet \ {colon}
  /\ Safe \subseteq FormByte /\ equals \in FormByte /\ ampersand \in FormByte
  /\ Safe \subseteq Octet \ {colon} /\ Safe \subseteq Octet \ {question}
  /\ Safe \subseteq Octet \ {slash}
BY DEF FormByte, Safe, Octet, unreserved, Letter, Digit, equals, ampersand, percent, minus, dot,
       colon, question, slash

LEMMA BodyType ==
  ASSUME NEW pairs \in Seq(Pair)
  PROVE  build_form_body(pairs) \in Text /\ build_form_body(pairs) \in Without(colon)
<1> DEFINE t == [i \in DOMAIN pairs |->
                   url_encode(pairs[i].name) \o <<equals>> \o url_encode(pairs[i].value)]
           A == FormByte
           V == Seq(A)
<1>1. Len(pairs) \in Nat /\ DOMAIN pairs = 1 .. Len(pairs)
  OBVIOUS
<1>2. ASSUME NEW i \in 1 .. Len(pairs)
      PROVE  url_encode(pairs[i].name) \o <<equals>> \o url_encode(pairs[i].value) \in V
  <2>1. pairs[i] \in Pair
    OBVIOUS
  <2>2. pairs[i].name \in Text /\ pairs[i].value \in Text
    BY <2>1, FieldRecord
  <2> DEFINE x == url_encode(pairs[i].name)
             y == url_encode(pairs[i].value)
             e == <<equals>>
  <2>3. x \in Seq(Safe) /\ y \in Seq(Safe)
    BY <2>2, UrlEncodeType
  <2>4. e \in Seq(A)
    BY FormBytes
  <2> HIDE DEF x, y, e, A
  <2>5. x \in Seq(A) /\ y \in Seq(A)
    BY <2>3, FormBytes, SeqMonotonic DEF A
  <2>6. x \o e \o y \in Seq(A)
    BY <2>4, <2>5
  <2> QED BY <2>6 DEF x, y, e
<1>3. t \in Seq(V)
  <2> HIDE DEF V
  <2> QED BY <1>1, <1>2
<1>4. <<ampersand>> \in Seq(A)
  BY FormBytes
<1> HIDE DEF t, A
<1>5. join(t, <<ampersand>>) \in Seq(A)
  BY <1>3, <1>4, JoinType
<1>6. build_form_body(pairs) \in Seq(A)
  BY <1>5 DEF build_form_body, t
<1> QED BY <1>6, FormBytes, SeqMonotonic DEF A, Text, Without

LEMMA BodyThere ==
  ASSUME NEW pairs \in Seq(Pair), NEW i \in DOMAIN pairs
  PROVE  build_form_body(pairs) # <<>>
<1> SUFFICES ASSUME build_form_body(pairs) = <<>> PROVE FALSE
  OBVIOUS
<1>1. parse_form_encoded(<<>>) = assigned(pairs)
  BY FormsRead
<1>2. parts(<<>>, ampersand) = <<>>
  <2>1. <<>> \in Without(ampersand) /\ ampersand \in Octet
    BY DEF Without, ampersand, Octet
  <2>2. parts(<<>>, ampersand) = whole(<<>>)
    BY <2>1, PartsOfOne
  <2> QED BY <2>2 DEF whole
<1>3. decoded(<<>>, decode_form_component) = <<>>
  BY DEF decoded
<1>4. DOMAIN assigned(<<>>) = {}
  BY DEF assigned, assigned_of
<1>5. pairs[i].name \in DOMAIN assigned(pairs)
  BY DEF assigned, assigned_of
<1> QED BY <1>1, <1>2, <1>3, <1>4, <1>5 DEF parse_form_encoded

-----------------------------------------------------------------------------
\* The slashes at the end of a text.
LEMMA TrimEnd ==
  ASSUME NEW s \in Text
  PROVE  \E k \in 0 .. Len(s) :
           /\ k # 0 => s[k] # slash
           /\ \A i \in (k + 1) .. Len(s) : s[i] = slash
           /\ trim_trailing_slash(s) = SubSeq(s, 1, k)
<1> DEFINE T == {i \in DOMAIN s : s[i] # slash} \cup {0}
           k == Max(T)
<1>1. Len(s) \in Nat /\ T \subseteq 0 .. Len(s) /\ T # {}
  BY DEF Text
<1>2. k \in T /\ \A y \in T : k >= y
  <2> HIDE DEF T
  <2> QED BY <1>1, Maximum
<1>3. trim_trailing_slash(s) = SubSeq(s, 1, k)
  BY DEF trim_trailing_slash
<1> HIDE DEF k
<1>4. k \in 0 .. Len(s) /\ (k # 0 => s[k] # slash)
  BY <1>1, <1>2
<1>5. \A i \in (k + 1) .. Len(s) : s[i] = slash
  <2> SUFFICES ASSUME NEW i \in (k + 1) .. Len(s), s[i] # slash PROVE FALSE
    OBVIOUS
  <2>1. i \in T
    BY <1>1, <1>4 DEF Text
  <2>2. k >= i
    BY <1>2, <2>1
  <2> QED BY <1>1, <1>4, <2>2
<1> QED BY <1>3, <1>4, <1>5

LEMMA TrimAt ==
  ASSUME NEW s \in Text, NEW k \in 0 .. Len(s), k # 0 => s[k] # slash,
         \A i \in (k + 1) .. Len(s) : s[i] = slash
  PROVE  trim_trailing_slash(s) = SubSeq(s, 1, k)
<1>1. PICK l \in 0 .. Len(s) :
           /\ l # 0 => s[l] # slash
           /\ \A i \in (l + 1) .. Len(s) : s[i] = slash
           /\ trim_trailing_slash(s) = SubSeq(s, 1, l)
  BY TrimEnd
<1>2. Len(s) \in Nat
  BY DEF Text
<1>3. ~ (l < k)
  <2>1. l < k => k \in (l + 1) .. Len(s) /\ k # 0
    BY <1>1, <1>2
  <2> QED BY <1>1, <2>1
<1>4. ~ (k < l)
  <2>1. k < l => l \in (k + 1) .. Len(s) /\ l # 0
    BY <1>1, <1>2
  <2> QED BY <1>1, <2>1
<1>5. k = l
  BY <1>1, <1>2, <1>3, <1>4
<1> QED BY <1>1, <1>5

LEMMA TrimType ==
  ASSUME NEW s \in Text
  PROVE  /\ trim_trailing_slash(s) \in Text
         /\ \A A : s \in Seq(A) => trim_trailing_slash(s) \in Seq(A)
         /\ trim_trailing_slash(s) # <<>> => /\ s # <<>>
                                             /\ trim_trailing_slash(s)[1] = s[1]
<1>1. PICK k \in 0 .. Len(s) : trim_trailing_slash(s) = SubSeq(s, 1, k)
  BY TrimEnd
<1>2. Len(s) \in Nat /\ s \in Seq(Octet)
  BY DEF Text
<1>3. \A A : s \in Seq(A) => SubSeq(s, 1, k) \in Seq(A)
  BY <1>1, <1>2
<1>4. SubSeq(s, 1, k) # <<>> => s # <<>> /\ SubSeq(s, 1, k)[1] = s[1]
  <2> DEFINE u == SubSeq(s, 1, k)
  <2>1. u \in Seq(Octet) /\ Len(u) = k
    BY <1>1, <1>2
  <2>2. k # 0 => u[1] = s[1]
    BY <1>1, <1>2
  <2>3. k # 0 => Len(s) # 0
    BY <1>1, <1>2
  <2> HIDE DEF u
  <2>4. u # <<>> => k # 0
    BY <2>1
  <2> QED BY <2>2, <2>3, <2>4 DEF u
<1> QED BY <1>1, <1>2, <1>3, <1>4 DEF Text

\* Nothing is trimmed of a text before the other one that does not end in a slash.
LEMMA TrimBehind ==
  ASSUME NEW h \in Text, NEW p \in Text, Len(h) # 0, h[Len(h)] # slash
  PROVE  trim_trailing_slash(concat(h, p)) = concat(h, trim_trailing_slash(p))
<1> DEFINE w == concat(h, p)
           n == Len(h)
<1>1. PICK k \in 0 .. Len(p) :
           /\ k # 0 => p[k] # slash
           /\ \A i \in (k + 1) .. Len(p) : p[i] = slash
           /\ trim_trailing_slash(p) = SubSeq(p, 1, k)
  BY TrimEnd
<1>2. /\ w \in Text /\ Len(w) = n + Len(p) /\ n \in Nat /\ Len(p) \in Nat
      /\ placed(w, 0, h) /\ placed(w, n, p)
  BY PlacedConcat
<1>3. \A i \in 1 .. n : w[i] = h[i]
  <2>1. \A i \in 1 .. n : 0 + i = i
    BY <1>2
  <2> HIDE DEF w
  <2> QED BY <1>2, <2>1 DEF placed
<1>4. n # 0 /\ h[n] # slash
  OBVIOUS
<1>5. SubSeq(w, 1, n + k) = concat(h, SubSeq(p, 1, k))
  <2>1. h \in Seq(Octet) /\ p \in Seq(Octet)
    BY DEF Text
  <2> DEFINE u == SubSeq(w, 1, n + k)
             v == SubSeq(p, 1, k)
             x == concat(h, v)
  <2>2. v \in Seq(Octet) /\ Len(v) = k /\ \A i \in 1 .. k : v[i] = p[i]
    BY <1>1, <1>2, <2>1
  <2> HIDE DEF w, n, v
  <2>3. u \in Seq(Octet) /\ Len(u) = n + k /\ \A i \in 1 .. (n + k) : u[i] = w[i]
    BY <1>1, <1>2, SMTT(30) DEF Text
  <2>4. /\ x \in Seq(Octet) /\ Len(x) = n + k
        /\ placed(x, 0, h) /\ placed(x, n, v)
    <3>1. v \in Text
      BY <2>2 DEF Text
    <3>2. x \in Text /\ Len(x) = Len(h) + Len(v) /\ placed(x, 0, h) /\ placed(x, Len(h), v)
      BY <3>1, PlacedConcat
    <3> QED BY <2>2, <3>2 DEF n, Text
  <2> HIDE DEF u, x
  <2>5. ASSUME NEW i \in 1 .. (n + k) PROVE u[i] = x[i]
    <3>1. CASE i \in 1 .. n
      <4>1. 0 + i = i /\ x[0 + i] = h[i]
        BY <2>4, <3>1 DEF placed, n
      <4> QED BY <1>3, <2>3, <4>1, <3>1
    <3>2. CASE i \in (n + 1) .. (n + k)
      <4>1. i - n \in 1 .. k /\ n + (i - n) = i /\ i - n \in 1 .. Len(p)
        BY <1>1, <1>2, <3>2
      <4>2. x[n + (i - n)] = v[i - n] /\ w[n + (i - n)] = p[i - n]
        BY <1>2, <2>2, <2>4, <4>1 DEF placed
      <4> QED BY <2>2, <2>3, <4>1, <4>2
    <3> QED BY <1>2, <1>1, <3>1, <3>2
  <2>6. u = x
    BY <2>3, <2>4, <2>5, SeqEqual
  <2> QED BY <2>6 DEF u, x, v
<1> HIDE DEF w, n
<1>6. n + k \in 0 .. Len(w)
  BY <1>1, <1>2
<1>7. w[n + k] # slash
  <2>1. CASE k = 0
    <3>1. n + k = n /\ n \in 1 .. n
      BY <1>2, <1>4, <2>1
    <3> QED BY <1>3, <1>4, <3>1
  <2>2. CASE k # 0
    <3>1. k \in 1 .. Len(p)
      BY <1>1, <1>2, <2>2
    <3> QED BY <1>1, <1>2, <2>2, <3>1 DEF placed
  <2> QED BY <2>1, <2>2
<1>8. ASSUME NEW i \in ((n + k) + 1) .. Len(w) PROVE w[i] = slash
  <2>1. i - n \in (k + 1) .. Len(p) /\ i - n \in 1 .. Len(p) /\ n + (i - n) = i
    BY <1>1, <1>2
  <2>2. w[n + (i - n)] = p[i - n]
    BY <1>2, <2>1 DEF placed
  <2> QED BY <1>1, <2>1, <2>2
<1>9. trim_trailing_slash(w) = SubSeq(w, 1, n + k)
  BY <1>2, <1>6, <1>7, <1>8, TrimAt
<1> QED BY <1>1, <1>5, <1>9 DEF w

-----------------------------------------------------------------------------
\* The base URLs, and the URLs that start with one.

LEMMA Excluded ==
  ASSUME NEW s \in Text, NEW c, c \notin ToSet(s)
  PROVE  s \in Without(c)
<1>1. s \in Seq(Octet) /\ Len(s) \in Nat /\ \A i \in 1 .. Len(s) : s[i] \in Octet
  BY DEF Text
<1>2. \A i \in 1 .. Len(s) : s[i] # c
  BY <1>1 DEF ToSet
<1> DEFINE A == Octet \ {c}
<1>3. \A i \in 1 .. Len(s) : s[i] \in A
  BY <1>1, <1>2
<1> HIDE DEF A
<1>4. s \in Seq(A)
  <2>1. s = [i \in 1 .. Len(s) |-> s[i]]
    BY <1>1
  <2> QED BY <1>1, <1>3, <2>1
<1> QED BY <1>4 DEF A, Without

LEMMA BaseParts ==
  ASSUME NEW base \in Root
  PROVE  /\ base.scheme \in Text /\ base.host \in Text /\ base.port \in Port
         /\ base.path \in Text /\ base.query = <<>>
         /\ base.scheme \in Without(colon)
         /\ base.host # <<>> /\ base.host \in Without(slash) /\ base.host \in Without(question)
         /\ base.port = 0 => base.host \in Without(colon)
         /\ base.path # <<>> => base.path[1] = slash
         /\ base.path \in Without(question)
         /\ base.scheme = <<>> => base.path \in Without(colon)
<1> DEFINE N == {<<>>}
<1>1. base \in BaseRecord /\ is_base_url(base)
  BY RootAssumption
<1>a. BaseRecord = [scheme: Text, host: Text, port: Port, path: Text, query: N]
  BY DEF BaseRecord, Text, Octet, Port
<1>2. /\ colon \notin ToSet(base.scheme)
      /\ base.host # <<>> /\ {slash, question} \cap ToSet(base.host) = {}
      /\ base.port = 0 => colon \notin ToSet(base.host)
      /\ base.path # <<>> => base.path[1] = slash
      /\ question \notin ToSet(base.path)
      /\ base.scheme = <<>> => colon \notin ToSet(base.path)
  BY <1>1 DEF is_base_url
<1>3. /\ base.scheme \in Text /\ base.host \in Text /\ base.port \in Port
      /\ base.path \in Text /\ base.query = <<>>
  <2>1. \A x \in N : x = <<>>
    OBVIOUS
  <2> HIDE DEF N
  <2>2. /\ base.scheme \in Text /\ base.host \in Text /\ base.port \in Port
        /\ base.path \in Text /\ base.query \in N
    BY <1>1, <1>a
  <2> QED BY <2>1, <2>2
<1>4. slash \notin ToSet(base.host) /\ question \notin ToSet(base.host)
  BY <1>2
<1>5. base.scheme \in Without(colon)
  BY <1>2, <1>3, Excluded
<1>6. base.host \in Without(slash) /\ base.host \in Without(question)
  BY <1>3, <1>4, Excluded
<1>7. base.port = 0 => base.host \in Without(colon)
  BY <1>2, <1>3, Excluded
<1>8. base.path \in Without(question)
  BY <1>2, <1>3, Excluded
<1>9. base.scheme = <<>> => base.path \in Without(colon)
  BY <1>2, <1>3, Excluded
<1> QED BY <1>2, <1>3, <1>5, <1>6, <1>7, <1>8, <1>9

\* A URL of the same scheme and authority, and another path and query.
aimed(base, path, query) ==
  [scheme |-> base.scheme, host |-> base.host, port |-> base.port, path |-> path, query |-> query]

leads(base, path) ==
  /\ path \in Without(question)
  /\ base.scheme = <<>> => path \in Without(colon)

LEMMA Aimed ==
  ASSUME NEW base \in Root, NEW path, NEW query \in Without(colon),
         leads(base, path), path # <<>>, path[1] = slash
  PROVE  aimed(base, path, query) \in Uri
<1> DEFINE u == aimed(base, path, query)
<1>1. /\ u.scheme = base.scheme /\ u.host = base.host /\ u.port = base.port /\ u.path = path
      /\ u.query = query
  BY DEF aimed
<1>2. path \in Text /\ query \in Text
  <2>1. path \in Without(question)
    BY DEF leads
  <2> QED BY <2>1, WithoutIsText
<1>3. u \in UriRecord
  <2>1. base.scheme \in Text /\ base.host \in Text /\ base.port \in Port
    BY BaseParts
  <2> QED BY <1>2, <2>1 DEF aimed, UriRecord
<1>4. separable(u)
  <2> HIDE DEF u
  <2>1. /\ base.scheme \in Without(colon)
        /\ base.host # <<>> /\ base.host \in Without(slash) /\ base.host \in Without(question)
        /\ base.port = 0 => base.host \in Without(colon)
    BY BaseParts
  <2> QED BY <1>1, <2>1 DEF separable, leads
<1> QED BY <1>3, <1>4 DEF Uri

\* What a URL is before its path.
head(base) == concat(scheme_text(base.scheme), authority_of(base))

LEMMA AimedUrl ==
  ASSUME NEW base, NEW path, NEW query
  PROVE  /\ url_of(aimed(base, path, query))
              = concat(concat(head(base), path), query_text(query))
         /\ authority_of(aimed(base, path, query)) = authority_of(base)
<1> DEFINE u == aimed(base, path, query)
<1>1. /\ u.scheme = base.scheme /\ u.host = base.host /\ u.port = base.port /\ u.path = path
      /\ u.query = query
  BY DEF aimed
<1> HIDE DEF u
<1>2. url_of(u)
           = in_line(scheme_text(u.scheme), authority_of(u), u.path, query_text(u.query))
  BY UrlOf
<1>3. authority_of(u) = authority_of(base)
  BY <1>1 DEF authority_of
<1> QED BY <1>1, <1>2, <1>3 DEF u, in_line, head

LEMMA HeadText ==
  ASSUME NEW base \in Root
  PROVE  /\ head(base) \in Text /\ Len(head(base)) # 0 /\ head(base)[Len(head(base))] # slash
         /\ url_of(base) = concat(head(base), base.path)
<1> DEFINE v == aimed(base, <<slash>>, <<>>)
           x == scheme_text(base.scheme)
           y == authority_of(base)
           w == concat(x, y)
<1>1. v \in Uri
  <2>1. slash \in Octet \ {question} /\ slash \in Octet \ {colon}
    BY DEF slash, question, colon, Octet
  <2>2. <<slash>> \in Without(question) /\ <<slash>> \in Without(colon) /\ <<>> \in Without(colon)
    BY <2>1 DEF Without
  <2> DEFINE p == <<slash>>
  <2>3. p # <<>> /\ p[1] = slash
    OBVIOUS
  <2>4. leads(base, p)
    BY <2>2 DEF leads
  <2> HIDE DEF p
  <2>5. aimed(base, p, <<>>) \in Uri
    BY <2>2, <2>3, <2>4, Aimed
  <2> QED BY <2>5 DEF p
<1>2. authority_of(v) = y /\ scheme_text(v.scheme) = x
  BY AimedUrl DEF aimed
<1> HIDE DEF v, x, y
<1>3. /\ y \in Text /\ Len(y) \in Nat /\ Len(y) # 0
      /\ \A i \in 1 .. Len(y) : y[i] # slash
  BY <1>1, <1>2, AuthorityText
<1>4. x \in Text
  BY <1>1, <1>2, UrlLined
<1>5. /\ w \in Text /\ Len(w) = Len(x) + Len(y) /\ Len(x) \in Nat /\ placed(w, Len(x), y)
  BY <1>3, <1>4, PlacedConcat
<1> HIDE DEF w
<1>6. Len(w) # 0 /\ w[Len(w)] # slash
  <2>1. Len(y) \in 1 .. Len(y) /\ Len(w) # 0
    BY <1>3, <1>5
  <2>2. w[Len(x) + Len(y)] = y[Len(y)]
    BY <1>5, <2>1 DEF placed
  <2> QED BY <1>3, <1>5, <2>1, <2>2
<1>7. url_of(base) = concat(w, base.path)
  <2>1. base.path \in Text /\ base.query = <<>>
    BY BaseParts
  <2>2. url_of(base) = concat(concat(w, base.path), <<>>)
    BY <2>1, UrlOf DEF in_line, query_text, w, x, y
  <2>3. concat(w, base.path) \in Seq(Octet)
    BY <1>5, <2>1, PlacedConcat DEF Text
  <2> DEFINE z == concat(w, base.path)
  <2> HIDE DEF z
  <2>4. concat(z, <<>>) = z
    BY <2>3 DEF concat, z
  <2> QED BY <2>2, <2>4 DEF z
<1> QED BY <1>5, <1>6, <1>7 DEF head, w, x, y

-----------------------------------------------------------------------------
\* The path of a realm's endpoint.
segment == <<slash, 114, slash>>
own == <<slash, 116>>

below(p, realm) == concat(concat(concat(p, segment), url_encode(realm)), own)

LEMMA Segments ==
  /\ segment \in Text /\ own \in Text /\ Len(segment) = 3
  /\ segment[1] = slash /\ segment[3] = slash
  /\ segment \in Without(question) /\ own \in Without(question)
  /\ segment \in Without(colon) /\ own \in Without(colon)
BY DEF segment, own, Text, Without, Octet, slash, question, colon

LEMMA BelowType ==
  ASSUME NEW A, Safe \subseteq A, segment \in Seq(A), own \in Seq(A),
         NEW p \in Seq(A), NEW realm \in Text
  PROVE  below(p, realm) \in Seq(A)
<1> DEFINE e == url_encode(realm)
<1>1. e \in Seq(A)
  <2>1. e \in Seq(Safe)
    BY UrlEncodeType
  <2> HIDE DEF e
  <2> QED BY <2>1, SeqMonotonic
<1> HIDE DEF e
<1>2. concat(p, segment) \in Seq(A)
  BY DEF concat
<1> DEFINE q == concat(p, segment)
<1> HIDE DEF q
<1>3. concat(q, e) \in Seq(A)
  BY <1>1, <1>2 DEF concat, q
<1> DEFINE r == concat(q, e)
<1> HIDE DEF r
<1>4. concat(r, own) \in Seq(A)
  BY <1>3 DEF concat, r
<1> QED BY <1>4 DEF below, q, r, e

\* It starts with a slash, and has no question mark.
LEMMA Below ==
  ASSUME NEW base, NEW p \in Text, leads(base, p), p # <<>> => p[1] = slash, NEW realm \in Text
  PROVE  /\ below(p, realm) \in Text /\ leads(base, below(p, realm))
         /\ below(p, realm) # <<>> /\ below(p, realm)[1] = slash
<1> DEFINE e == url_encode(realm)
           q == concat(p, segment)
           r == concat(q, e)
           w == concat(r, own)
<1>1. /\ segment \in Text /\ own \in Text /\ Len(segment) = 3 /\ segment[1] = slash
      /\ segment \in Without(question) /\ own \in Without(question)
      /\ segment \in Without(colon) /\ own \in Without(colon)
  BY Segments
<1>2. w = below(p, realm)
  BY DEF below
<1>3. w \in Without(question)
  <2>1. p \in Without(question)
    BY DEF leads
  <2> DEFINE A == Octet \ {question}
  <2>2. Safe \subseteq A
    BY FormBytes
  <2>3. p \in Seq(A) /\ segment \in Seq(A) /\ own \in Seq(A)
    BY <1>1, <2>1 DEF Without
  <2> HIDE DEF A, w
  <2>4. below(p, realm) \in Seq(A)
    BY <2>2, <2>3, BelowType
  <2> QED BY <1>2, <2>4 DEF Without, A
<1>4. base.scheme = <<>> => w \in Without(colon)
  <2> SUFFICES ASSUME base.scheme = <<>> PROVE w \in Without(colon)
    OBVIOUS
  <2>1. p \in Without(colon)
    BY DEF leads
  <2> DEFINE A == Octet \ {colon}
  <2>2. Safe \subseteq A
    BY FormBytes
  <2>3. p \in Seq(A) /\ segment \in Seq(A) /\ own \in Seq(A)
    BY <1>1, <2>1 DEF Without
  <2> HIDE DEF A, w
  <2>4. below(p, realm) \in Seq(A)
    BY <2>2, <2>3, BelowType
  <2> QED BY <1>2, <2>4 DEF Without, A
<1>5. e \in Text
  BY UrlEncodeType
<1> HIDE DEF e
<1>6. /\ q \in Text /\ Len(q) = Len(p) + 3 /\ Len(p) \in Nat /\ placed(q, 0, p)
      /\ placed(q, Len(p), segment)
  <2>1. /\ q \in Text /\ Len(q) = Len(p) + Len(segment) /\ Len(p) \in Nat /\ placed(q, 0, p)
        /\ placed(q, Len(p), segment)
    BY <1>1, PlacedConcat
  <2> HIDE DEF q
  <2> QED BY <1>1, <2>1
<1> HIDE DEF q
<1>7. r \in Text /\ Len(r) = Len(q) + Len(e) /\ placed(r, 0, q) /\ Len(e) \in Nat
  BY <1>5, <1>6, PlacedConcat
<1> HIDE DEF r
<1>8. w \in Text /\ Len(w) = Len(r) + Len(own) /\ placed(w, 0, r) /\ Len(own) \in Nat
  BY <1>1, <1>7, PlacedConcat
<1> HIDE DEF w
<1>9. q[1] = slash
  <2>1. CASE p = <<>>
    <3>1. Len(p) = 0 /\ 1 \in 1 .. Len(segment)
      BY <1>1, <2>1
    <3>2. Len(p) + 1 = 1 /\ q[Len(p) + 1] = segment[1]
      BY <1>6, <3>1 DEF placed
    <3> QED BY <1>1, <3>2
  <2>2. CASE p # <<>>
    <3>1. 1 \in 1 .. Len(p) /\ 0 + 1 = 1
      BY <2>2 DEF Text
    <3>2. q[0 + 1] = p[1]
      BY <1>6, <3>1 DEF placed
    <3> QED BY <2>2, <3>1, <3>2
  <2> QED BY <2>1, <2>2
<1>10. w[1] = slash /\ Len(w) # 0
  <2>1. 1 \in 1 .. Len(q) /\ 1 \in 1 .. Len(r) /\ 0 + 1 = 1 /\ Len(w) # 0
    BY <1>6, <1>7, <1>8
  <2>2. w[0 + 1] = r[1] /\ r[0 + 1] = q[1]
    BY <1>7, <1>8, <2>1 DEF placed
  <2> QED BY <1>9, <2>1, <2>2
<1>11. w # <<>>
  BY <1>10
<1> QED BY <1>2, <1>3, <1>4, <1>8, <1>10, <1>11 DEF leads

\* An endpoint, its form request and an authorization URL are such URLs.
LEMMA ConcatText ==
  ASSUME NEW x \in Text, NEW y \in Text
  PROVE  concat(x, y) \in Text
BY PlacedConcat

LEMMA ConcatGrouped ==
  ASSUME NEW x \in Text, NEW y \in Text, NEW z \in Text
  PROVE  concat(concat(x, y), z) = concat(x, concat(y, z))
<1>1. x \in Seq(Octet) /\ y \in Seq(Octet) /\ z \in Seq(Octet)
  BY DEF Text
<1> QED BY <1>1, ConcatRegrouped

Slashes == {<<>>, <<slash, slash>>}

rooted(base, slashes) == concat(base.path, slashes)

LEMMA SlashesText ==
  ASSUME NEW slashes \in Slashes
  PROVE  /\ slashes \in Text /\ slashes \in Without(question) /\ slashes \in Without(colon)
         /\ slashes # <<>> => slashes[1] = slash
<1>1. slash \in Octet /\ slash \in Octet \ {question} /\ slash \in Octet \ {colon}
  BY DEF slash, question, colon, Octet
<1> DEFINE s == <<slash, slash>>
<1>2. \A A : slash \in A => s \in Seq(A)
  OBVIOUS
<1>3. s[1] = slash
  OBVIOUS
<1>4. slashes = <<>> \/ slashes = s
  BY DEF Slashes
<1> HIDE DEF s
<1>5. s \in Text /\ s \in Without(question) /\ s \in Without(colon)
  BY <1>1, <1>2 DEF Text, Without
<1>6. <<>> \in Text /\ <<>> \in Without(question) /\ <<>> \in Without(colon)
  BY DEF Text, Without
<1> QED BY <1>3, <1>4, <1>5, <1>6

\* The path of a base URL and what is behind it.
LEMMA Rooted ==
  ASSUME NEW base \in Root, NEW slashes \in Slashes
  PROVE  /\ rooted(base, slashes) \in Text /\ leads(base, rooted(base, slashes))
         /\ rooted(base, slashes) # <<>> => rooted(base, slashes)[1] = slash
<1> DEFINE p == base.path
           w == concat(p, slashes)
<1>1. /\ p \in Text /\ p \in Without(question)
      /\ p # <<>> => p[1] = slash
      /\ base.scheme = <<>> => p \in Without(colon)
  BY BaseParts
<1>2. /\ slashes \in Text /\ slashes \in Without(question) /\ slashes \in Without(colon)
      /\ slashes # <<>> => slashes[1] = slash
  BY SlashesText
<1> HIDE DEF p
<1>3. /\ w \in Text /\ Len(w) = Len(p) + Len(slashes) /\ Len(p) \in Nat /\ Len(slashes) \in Nat
      /\ placed(w, 0, p) /\ placed(w, Len(p), slashes)
  BY <1>1, <1>2, PlacedConcat
<1>4. w \in Without(question)
  BY <1>1, <1>2 DEF concat, Without
<1>5. base.scheme = <<>> => w \in Without(colon)
  BY <1>1, <1>2 DEF concat, Without
<1> HIDE DEF w
<1>6. w # <<>> => w[1] = slash
  <2>1. CASE p = <<>>
    <3>1. Len(p) = 0
      BY <2>1
    <3>2. slashes # <<>> => 1 \in 1 .. Len(slashes)
      BY <1>2 DEF Text
    <3>3. slashes # <<>> => w[0 + 1] = slashes[1] /\ 0 + 1 = 1
      BY <1>3, <3>1, <3>2 DEF placed
    <3>4. slashes = <<>> => w = <<>>
      BY <1>3, <3>1 DEF Text
    <3> QED BY <1>2, <3>3, <3>4
  <2>2. CASE p # <<>>
    <3>1. 1 \in 1 .. Len(p) /\ 0 + 1 = 1
      BY <1>1, <2>2 DEF Text
    <3>2. w[0 + 1] = p[1]
      BY <1>3, <3>1 DEF placed
    <3> QED BY <1>1, <2>2, <3>1, <3>2
  <2> QED BY <2>1, <2>2
<1> QED BY <1>3, <1>4, <1>5, <1>6 DEF leads, rooted, w, p

LEMMA Trimmed ==
  ASSUME NEW base, NEW p \in Text, leads(base, p), p # <<>> => p[1] = slash
  PROVE  LET t == trim_trailing_slash(p) IN
         t \in Text /\ leads(base, t) /\ (t # <<>> => t[1] = slash)
<1> DEFINE t == trim_trailing_slash(p)
<1>1. /\ t \in Text
      /\ t # <<>> => p # <<>> /\ t[1] = p[1]
  BY TrimType
<1>2. p \in Without(question) => t \in Without(question)
  BY TrimType DEF Without
<1>3. p \in Without(colon) => t \in Without(colon)
  BY TrimType DEF Without
<1> HIDE DEF t
<1>4. leads(base, t)
  BY <1>2, <1>3 DEF leads
<1> QED BY <1>1, <1>4 DEF t

LEMMA RootText ==
  ASSUME NEW base \in Root, NEW slashes \in Slashes
  PROVE  /\ url_of(base) \o slashes = concat(head(base), rooted(base, slashes))
         /\ trim_trailing_slash(url_of(base) \o slashes)
              = concat(head(base), trim_trailing_slash(rooted(base, slashes)))
<1> DEFINE h == head(base)
           p == rooted(base, slashes)
<1>1. /\ h \in Text /\ Len(h) # 0 /\ h[Len(h)] # slash
      /\ url_of(base) = concat(h, base.path)
  BY HeadText
<1>2. base.path \in Text /\ slashes \in Text /\ p \in Text
  BY BaseParts, SlashesText, Rooted
<1> HIDE DEF h
<1>3. url_of(base) \o slashes = concat(concat(h, base.path), slashes)
  BY <1>1 DEF concat
<1>4. concat(concat(h, base.path), slashes) = concat(h, p)
  BY <1>1, <1>2, ConcatGrouped DEF rooted
<1> HIDE DEF p
<1>5. trim_trailing_slash(concat(h, p)) = concat(h, trim_trailing_slash(p))
  BY <1>1, <1>2, TrimBehind
<1> QED BY <1>3, <1>4, <1>5 DEF h, p

LEMMA BelowHead ==
  ASSUME NEW h \in Text, NEW p \in Text, NEW realm \in Text
  PROVE  below(concat(h, p), realm) = concat(h, below(p, realm))
<1> DEFINE e == url_encode(realm)
           q == concat(p, segment)
           r == concat(q, e)
<1>1. segment \in Text /\ own \in Text
  BY Segments
<1>2. e \in Text
  BY UrlEncodeType
<1> HIDE DEF e
<1>3. q \in Text
  BY <1>1, ConcatText
<1>4. concat(concat(h, p), segment) = concat(h, q)
  BY <1>1, ConcatGrouped
<1> HIDE DEF q
<1>5. r \in Text
  BY <1>2, <1>3, ConcatText
<1>6. concat(concat(h, q), e) = concat(h, r)
  BY <1>2, <1>3, ConcatGrouped
<1> HIDE DEF r
<1>7. concat(concat(h, r), own) = concat(h, concat(r, own))
  BY <1>1, <1>5, ConcatGrouped
<1> QED BY <1>4, <1>6, <1>7 DEF below, r, q, e

LEMMA EndpointUrl ==
  ASSUME NEW base \in Root, NEW slashes \in Slashes, NEW realm \in Text
  PROVE  LET p == below(trim_trailing_slash(rooted(base, slashes)), realm)
             url == endpoint(url_of(base) \o slashes, realm)
         IN /\ url = concat(head(base), p) /\ url \in Text
            /\ p \in Text /\ leads(base, p) /\ p # <<>> /\ p[1] = slash
<1> DEFINE t == trim_trailing_slash(rooted(base, slashes))
           root == url_of(base) \o slashes
           h == head(base)
           p == below(t, realm)
<1>1. trim_trailing_slash(root) = concat(h, t)
  BY RootText
<1>2. h \in Text
  BY HeadText
<1>3. t \in Text /\ leads(base, t) /\ (t # <<>> => t[1] = slash)
  BY Rooted, Trimmed
<1> HIDE DEF h, t, root
<1>4. endpoint(root, realm) = below(concat(h, t), realm)
  BY <1>1 DEF endpoint, realm_root, below, concat, segment, own
<1>5. below(concat(h, t), realm) = concat(h, p)
  BY <1>2, <1>3, BelowHead
<1>6. p \in Text /\ leads(base, p) /\ p # <<>> /\ p[1] = slash
  BY <1>3, Below
<1> HIDE DEF p
<1>7. concat(h, p) \in Text
  BY <1>2, <1>6, ConcatText
<1> QED BY <1>4, <1>5, <1>6, <1>7 DEF p, h, t, root

\* The path of a URL and its query.
LEMMA AimedAt ==
  ASSUME NEW base \in Root, NEW p \in Text, leads(base, p), p # <<>>, p[1] = slash,
         NEW query \in Without(colon)
  PROVE  LET w == concat(concat(head(base), p), query_text(query)) IN
         /\ parse_absolute_uri(w) = aimed(base, p, query)
         /\ request_url(aimed(base, p, query)) = w
<1> DEFINE u == aimed(base, p, query)
<1>1. u \in Uri
  BY Aimed
<1>2. url_of(u) = concat(concat(head(base), p), query_text(query)) /\ u.path = p
  BY AimedUrl DEF aimed
<1> HIDE DEF u
<1>3. parse_absolute_uri(url_of(u)) = u
  BY <1>1, ParsesWritten
<1>4. request_url(u) = url_of(u)
  BY <1>1, <1>2, RequestUrl DEF Uri
<1> QED BY <1>2, <1>3, <1>4 DEF u

LEMMA Behind ==
  ASSUME NEW x \in Text, NEW query \in Text, query # <<>>
  PROVE  concat(x, query_text(query)) = x \o <<question>> \o query
<1> DEFINE m == <<question>>
<1>1. m \in Text
  BY DEF Text, Octet, question
<1>2. query_text(query) = concat(m, query)
  BY DEF query_text, concat
<1> HIDE DEF m
<1>3. concat(concat(x, m), query) = concat(x, concat(m, query))
  BY <1>1, ConcatGrouped
<1> QED BY <1>2, <1>3 DEF concat, m

LEMMA NoQuery ==
  ASSUME NEW x \in Text
  PROVE  concat(x, query_text(<<>>)) = x /\ <<>> \in Without(colon)
BY DEF concat, query_text, Text, Without

\* An endpoint goes out as it was built.
LEMMA EndpointSent ==
  ASSUME NEW base \in Root, NEW slashes \in Slashes, NEW realm \in Text,
         NEW url, url = endpoint(url_of(base) \o slashes, realm)
  PROVE  url \in Text /\ request_url(parse_absolute_uri(url)) = url
<1> DEFINE p == below(trim_trailing_slash(rooted(base, slashes)), realm)
           h == head(base)
<1>1. /\ url = concat(h, p) /\ url \in Text
      /\ p \in Text /\ leads(base, p) /\ p # <<>> /\ p[1] = slash
  BY EndpointUrl
<1> HIDE DEF p
<1>2. url = concat(concat(h, p), query_text(<<>>)) /\ <<>> \in Without(colon)
  BY <1>1, NoQuery
<1>3. /\ parse_absolute_uri(url) = aimed(base, p, <<>>)
      /\ request_url(aimed(base, p, <<>>)) = url
  BY <1>1, <1>2, AimedAt
<1> QED BY <1>1, <1>3

\* What is read of a URL in which a query was put.
kept(base, uri, query) ==
  /\ uri.host = base.host /\ uri.port = base.port /\ uri.query = query
  /\ authority_of(uri) = authority_of(base)

LEMMA AskedSent ==
  ASSUME NEW base \in Root, NEW slashes \in Slashes, NEW realm \in Text,
         NEW query \in Without(colon), query # <<>>, NEW asked,
         asked = endpoint(url_of(base) \o slashes, realm) \o <<question>> \o query
  PROVE  /\ request_url(parse_absolute_uri(asked)) = asked
         /\ kept(base, parse_absolute_uri(asked), query)
<1> DEFINE p == below(trim_trailing_slash(rooted(base, slashes)), realm)
           h == head(base)
           url == endpoint(url_of(base) \o slashes, realm)
           u == aimed(base, p, query)
<1>1. /\ url = concat(h, p) /\ url \in Text
      /\ p \in Text /\ leads(base, p) /\ p # <<>> /\ p[1] = slash
  BY EndpointUrl
<1>2. query \in Text
  BY WithoutIsText
<1>3. asked = url \o <<question>> \o query
  OBVIOUS
<1> HIDE DEF p, url
<1>4. concat(url, query_text(query)) = url \o <<question>> \o query
  BY <1>1, <1>2, Behind
<1>5. asked = concat(concat(h, p), query_text(query))
  BY <1>1, <1>3, <1>4
<1>6. parse_absolute_uri(asked) = u /\ request_url(u) = asked
  BY <1>1, <1>5, AimedAt
<1>7. kept(base, u, query)
  <2>1. u.host = base.host /\ u.port = base.port /\ u.query = query
    BY DEF aimed
  <2>2. authority_of(u) = authority_of(base)
    BY AimedUrl
  <2> QED BY <2>1, <2>2 DEF kept
<1> QED BY <1>6, <1>7

-----------------------------------------------------------------------------
\* The authorization URL.
param(letter, value) == [name |-> <<letter>>, value |-> value]

params(client_id, redirect_uri, state, code_challenge, scopes) ==
  <<param(99, client_id), param(117, redirect_uri), param(115, state),
    param(104, code_challenge), param(111, scopes)>>

LEMMA LoginSent ==
  ASSUME NEW base \in Root, NEW slashes \in Slashes, NEW cfg, NEW state, NEW code_challenge,
         NEW query, NEW realm \in Text, cfg.base_url = url_of(base) \o slashes,
         cfg.realm = realm, query \in Without(colon), query # <<>>,
         query = build_form_body(params(cfg.client_id, cfg.redirect_uri, state, code_challenge,
                                        join_scopes(cfg.scopes)))
  PROVE  kept(base, parse_absolute_uri(create_authorization_url(cfg, state, code_challenge)), query)
<1> DEFINE h == head(base)
           p == rooted(base, slashes)
           e == url_encode(realm)
           root == url_of(base) \o slashes
           m == <<question>>
           login == create_authorization_url(cfg, state, code_challenge)
           q == below(p, realm)
           u == aimed(base, q, query)
<1>1. login = root \o segment \o e \o <<slash, 116, question>> \o query
  BY DEF create_authorization_url, build_query, params, param, segment
<1>2. /\ segment \in Text /\ own \in Text /\ m \in Text /\ e \in Text /\ query \in Text
      /\ h \in Text /\ p \in Text
  <2>1. segment \in Text /\ own \in Text
    BY Segments
  <2>2. m \in Text
    BY DEF Text, Octet, question
  <2>3. e \in Text
    BY UrlEncodeType
  <2>4. query \in Text
    BY WithoutIsText
  <2>5. h \in Text
    BY HeadText
  <2>6. p \in Text
    BY Rooted
  <2> QED BY <2>1, <2>2, <2>3, <2>4, <2>5, <2>6
<1>3. <<slash, 116, question>> = concat(own, m)
  BY DEF own, concat
<1>4. root = concat(h, p)
  BY RootText
<1>5. /\ q \in Text /\ leads(base, q) /\ q # <<>> /\ q[1] = slash
  <2>1. leads(base, p) /\ (p # <<>> => p[1] = slash)
    BY Rooted
  <2> HIDE DEF p
  <2> QED BY <1>2, <2>1, Below
<1>6. below(concat(h, p), realm) = concat(h, q)
  BY <1>2, BelowHead
<1> DEFINE r == concat(concat(concat(h, p), segment), e)
<1>7. concat(r, own) = concat(h, q)
  BY <1>6 DEF below
<1> HIDE DEF h, p, e, root, m, login, q
<1>8. r \in Text
  <2>1. concat(h, p) \in Text
    BY <1>2, ConcatText
  <2> DEFINE x == concat(h, p)
  <2> HIDE DEF x
  <2>2. concat(x, segment) \in Text
    BY <1>2, <2>1, ConcatText DEF x
  <2> DEFINE y == concat(x, segment)
  <2> HIDE DEF y
  <2>3. concat(y, e) \in Text
    BY <1>2, <2>2, ConcatText DEF y
  <2> QED BY <2>3 DEF x, y
<1>9. login = concat(concat(r, concat(own, m)), query)
  BY <1>1, <1>3, <1>4 DEF concat
<1> HIDE DEF r
<1>10. concat(concat(r, own), m) = concat(r, concat(own, m))
  BY <1>2, <1>8, ConcatGrouped
<1>11. concat(h, q) \in Text
  BY <1>2, <1>5, ConcatText
<1> DEFINE w == concat(h, q)
<1>12. login = w \o m \o query
  BY <1>7, <1>9, <1>10 DEF concat
<1> HIDE DEF w
<1>13. concat(w, query_text(query)) = w \o m \o query
  BY <1>2, <1>11, Behind DEF w, m
<1>14. login = concat(concat(h, q), query_text(query))
  BY <1>12, <1>13 DEF w
<1>15. parse_absolute_uri(login) = u
  BY <1>5, <1>14, AimedAt DEF h
<1>16. kept(base, u, query)
  <2>1. u.host = base.host /\ u.port = base.port /\ u.query = query
    BY DEF aimed
  <2>2. authority_of(u) = authority_of(base)
    BY AimedUrl
  <2> QED BY <2>1, <2>2 DEF kept
<1> QED BY <1>15, <1>16 DEF login

\* The parameters of a login are read as they were asked for.
asking(client_id, redirect_uri, state, code_challenge, scopes) ==
  [letter \in {<<99>>, <<117>>, <<115>>, <<104>>, <<111>>} |->
     CASE letter = <<99>> -> client_id [] letter = <<117>> -> redirect_uri
       [] letter = <<115>> -> state [] letter = <<104>> -> code_challenge
       [] letter = <<111>> -> scopes]

LEMMA ParamsRead ==
  ASSUME NEW c \in Text, NEW u \in Text, NEW s \in Text, NEW h \in Text, NEW o \in Text
  PROVE  /\ parse_form_encoded(build_form_body(params(c, u, s, h, o))) = asking(c, u, s, h, o)
         /\ build_form_body(params(c, u, s, h, o)) \in Without(colon)
         /\ build_form_body(params(c, u, s, h, o)) # <<>>
<1> DEFINE p1 == param(99, c)
           p2 == param(117, u)
           p3 == param(115, s)
           p4 == param(104, h)
           p5 == param(111, o)
           pairs == params(c, u, s, h, o)
<1>1. \A b \in Octet, v \in Text :
        /\ param(b, v) \in Pair /\ param(b, v).name = <<b>> /\ param(b, v).value = v
  <2> SUFFICES ASSUME NEW b \in Octet, NEW v \in Text
               PROVE  /\ param(b, v) \in Pair /\ param(b, v).name = <<b>>
                      /\ param(b, v).value = v
    OBVIOUS
  <2> DEFINE n == <<b>>
  <2>1. n \in Text
    BY DEF Text
  <2>2. param(b, v) = [name |-> n, value |-> v]
    BY DEF param
  <2> HIDE DEF n
  <2>3. param(b, v) \in Pair /\ param(b, v).name = n /\ param(b, v).value = v
    BY <2>1, <2>2 DEF Pair
  <2> QED BY <2>3 DEF n
<1>2. 99 \in Octet /\ 117 \in Octet /\ 115 \in Octet /\ 104 \in Octet /\ 111 \in Octet
  BY DEF Octet
<1> DEFINE a1 == <<99>>
           a2 == <<117>>
           a3 == <<115>>
           a4 == <<104>>
           a5 == <<111>>
<1>3. /\ p1 \in Pair /\ p1.name = a1 /\ p1.value = c
      /\ p2 \in Pair /\ p2.name = a2 /\ p2.value = u
      /\ p3 \in Pair /\ p3.name = a3 /\ p3.value = s
      /\ p4 \in Pair /\ p4.name = a4 /\ p4.value = h
      /\ p5 \in Pair /\ p5.name = a5 /\ p5.value = o
  BY <1>1, <1>2
<1>4. pairs = <<p1, p2, p3, p4, p5>>
  BY DEF params
<1>a. /\ a1 # a2 /\ a1 # a3 /\ a1 # a4 /\ a1 # a5 /\ a2 # a3 /\ a2 # a4 /\ a2 # a5
      /\ a3 # a4 /\ a3 # a5 /\ a4 # a5
  OBVIOUS
<1> HIDE DEF a1, a2, a3, a4, a5, p1, p2, p3, p4, p5, pairs
<1>5. /\ pairs \in Seq(Pair) /\ DOMAIN pairs = 1 .. 5
      /\ pairs[1] = p1 /\ pairs[2] = p2 /\ pairs[3] = p3 /\ pairs[4] = p4 /\ pairs[5] = p5
  BY <1>3, <1>4
<1>6. /\ parse_form_encoded(build_form_body(pairs)) = assigned(pairs)
      /\ build_form_body(pairs) \in Without(colon) /\ build_form_body(pairs) # <<>>
  <2>1. parse_form_encoded(build_form_body(pairs)) = assigned(pairs)
    BY <1>5, FormsRead
  <2>2. build_form_body(pairs) \in Without(colon)
    BY <1>5, BodyType
  <2>3. 1 \in DOMAIN pairs
    BY <1>5
  <2>4. build_form_body(pairs) # <<>>
    BY <1>5, <2>3, BodyThere
  <2> QED BY <2>1, <2>2, <2>4
<1> DEFINE f == assigned(pairs)
<1>7. \A i, j \in 1 .. 5 : pairs[i].name = pairs[j].name => i = j
  <2>1. \A i \in 1 .. 5 : i = 1 \/ i = 2 \/ i = 3 \/ i = 4 \/ i = 5
    OBVIOUS
  <2>2. /\ pairs[1].name = a1 /\ pairs[2].name = a2 /\ pairs[3].name = a3
        /\ pairs[4].name = a4 /\ pairs[5].name = a5
    BY <1>3, <1>5
  <2> QED BY <1>a, <2>1, <2>2
<1>8. ASSUME NEW i \in 1 .. 5
      PROVE  pairs[i].name \in DOMAIN f /\ f[pairs[i].name] = pairs[i].value
  <2> DEFINE all == 1 .. 5
  <2>1. all \in SUBSET DOMAIN pairs /\ i \in all /\ all = DOMAIN pairs
    BY <1>5
  <2>2. \A j \in all : pairs[j].name = pairs[i].name => j <= i
    <3> SUFFICES ASSUME NEW j \in all, pairs[j].name = pairs[i].name PROVE j <= i
      OBVIOUS
    <3>1. j = i
      BY <1>7
    <3> QED BY <3>1
  <2> HIDE DEF all
  <2>3. /\ pairs[i].name \in DOMAIN assigned_of(pairs, all)
        /\ assigned_of(pairs, all)[pairs[i].name] = pairs[i].value
    BY <1>5, <2>1, <2>2, AssignedLast
  <2> QED BY <2>1, <2>3 DEF assigned
<1> HIDE DEF f
<1>9. f[a1] = c /\ f[a2] = u /\ f[a3] = s /\ f[a4] = h /\ f[a5] = o
  <2>1. f[a1] = c
    <3>1. 1 \in 1 .. 5
      OBVIOUS
    <3> QED BY <1>3, <1>5, <1>8, <3>1
  <2>2. f[a2] = u
    <3>1. 2 \in 1 .. 5
      OBVIOUS
    <3> QED BY <1>3, <1>5, <1>8, <3>1
  <2>3. f[a3] = s
    <3>1. 3 \in 1 .. 5
      OBVIOUS
    <3> QED BY <1>3, <1>5, <1>8, <3>1
  <2>4. f[a4] = h
    <3>1. 4 \in 1 .. 5
      OBVIOUS
    <3> QED BY <1>3, <1>5, <1>8, <3>1
  <2>5. f[a5] = o
    <3>1. 5 \in 1 .. 5
      OBVIOUS
    <3> QED BY <1>3, <1>5, <1>8, <3>1
  <2> QED BY <2>1, <2>2, <2>3, <2>4, <2>5
<1>10. DOMAIN f = {a1, a2, a3, a4, a5}
  <2>1. DOMAIN f = {pairs[i].name : i \in 1 .. 5}
    BY <1>5 DEF assigned, assigned_of, f
  <2>2. \A i \in 1 .. 5 : i = 1 \/ i = 2 \/ i = 3 \/ i = 4 \/ i = 5
    OBVIOUS
  <2>3. 1 \in 1 .. 5 /\ 2 \in 1 .. 5 /\ 3 \in 1 .. 5 /\ 4 \in 1 .. 5 /\ 5 \in 1 .. 5
    OBVIOUS
  <2>4. /\ pairs[1].name = a1 /\ pairs[2].name = a2 /\ pairs[3].name = a3
        /\ pairs[4].name = a4 /\ pairs[5].name = a5
    BY <1>3, <1>5
  <2>5. \A x : x \in DOMAIN f <=> \E i \in 1 .. 5 : x = pairs[i].name
    BY <2>1
  <2>6. \A x : x \in DOMAIN f <=> x \in {a1, a2, a3, a4, a5}
    BY <2>2, <2>3, <2>4, <2>5
  <2> QED BY <2>1, <2>6
<1>11. f = [n \in DOMAIN f |-> f[n]]
  BY DEF assigned, assigned_of, f
<1>12. f = asking(c, u, s, h, o)
  <2>1. \A n \in DOMAIN f :
          f[n] = CASE n = a1 -> c [] n = a2 -> u [] n = a3 -> s
                   [] n = a4 -> h [] n = a5 -> o
    BY <1>9, <1>10, <1>a
  <2> QED BY <1>10, <1>11, <2>1 DEF asking, a1, a2, a3, a4, a5
<1> QED BY <1>6, <1>12 DEF f, pairs

\* The realm is the last segment of its root, whatever its name contains.
LEMMA RealmRead ==
  ASSUME NEW root \in Text, NEW realm \in Text, realm # <<>>,
         trim_trailing_slash(root) \in Text
  PROVE  url_decode(last_path_segment(realm_root(root, realm))) = realm
<1> DEFINE e == url_encode(realm)
           t == trim_trailing_slash(root)
           x == concat(t, segment)
           w == concat(x, e)
<1>1. e \in Seq(Safe) /\ e \in Text /\ Len(e) \in Nat /\ url_decode(e) = realm
  <2>1. e \in Seq(Safe) /\ e \in Text /\ url_decode(e) = realm
    BY UrlEncodeType, UrlReadBack
  <2> HIDE DEF e
  <2> QED BY <2>1 DEF Text
<1>2. Len(e) # 0
  <2>1. e # <<>>
    BY <1>1, DecodeEmpty
  <2> HIDE DEF e
  <2> QED BY <1>1, <2>1 DEF Text
<1>3. realm_root(root, realm) = w
  BY DEF realm_root, concat, segment
<1> HIDE DEF e
<1>4. \A i \in 1 .. Len(e) : e[i] # slash
  <2>1. \A i \in 1 .. Len(e) : e[i] \in Safe
    BY <1>1
  <2> QED BY <2>1, FormBytes
<1>5. /\ x \in Text /\ Len(x) = Len(t) + 3 /\ Len(t) \in Nat /\ placed(x, Len(t), segment)
      /\ segment[3] = slash /\ Len(segment) = 3
  <2>1. segment \in Text /\ Len(segment) = 3 /\ segment[3] = slash
    BY Segments
  <2> HIDE DEF t
  <2>2. /\ x \in Text /\ Len(x) = Len(t) + Len(segment) /\ Len(t) \in Nat
        /\ placed(x, Len(t), segment)
    BY <2>1, PlacedConcat DEF t
  <2> HIDE DEF x
  <2> QED BY <2>1, <2>2
<1> HIDE DEF t, x
<1>6. x[Len(x)] = slash
  <2>1. 3 \in 1 .. Len(segment)
    BY <1>5
  <2>2. x[Len(t) + 3] = segment[3]
    BY <1>5, <2>1 DEF placed
  <2> QED BY <1>5, <2>2
<1>7. /\ w \in Text /\ Len(w) = Len(x) + Len(e) /\ Len(x) \in Nat
      /\ placed(w, 0, x) /\ placed(w, Len(x), e)
  BY <1>1, <1>5, PlacedConcat
<1> HIDE DEF w
<1>8. trim_trailing_slash(w) = w
  <2>1. Len(w) \in 0 .. Len(w) /\ \A i \in (Len(w) + 1) .. Len(w) : w[i] = slash
    BY <1>1, <1>7
  <2>2. w[Len(w)] # slash
    <3>1. Len(e) \in 1 .. Len(e)
      BY <1>1, <1>2
    <3>2. w[Len(x) + Len(e)] = e[Len(e)]
      BY <1>7, <3>1 DEF placed
    <3> QED BY <1>4, <1>7, <3>1, <3>2
  <2>3. trim_trailing_slash(w) = SubSeq(w, 1, Len(w))
    BY <1>7, <2>1, <2>2, TrimAt
  <2> QED BY <1>7, <2>3 DEF Text
<1>9. last_of(slash, w) = Len(x)
  <2>1. Len(x) \in 0 .. Len(w) /\ Len(x) # 0
    BY <1>1, <1>5, <1>7
  <2>2. w[Len(x)] = slash
    <3>1. Len(x) \in 1 .. Len(x) /\ 0 + Len(x) = Len(x)
      BY <1>7, <2>1
    <3>2. w[0 + Len(x)] = x[Len(x)]
      BY <1>7, <3>1 DEF placed
    <3> QED BY <1>6, <3>1, <3>2
  <2>3. ASSUME NEW i \in (Len(x) + 1) .. Len(w) PROVE w[i] # slash
    <3>1. i - Len(x) \in 1 .. Len(e) /\ Len(x) + (i - Len(x)) = i
      BY <1>1, <1>7
    <3>2. w[Len(x) + (i - Len(x))] = e[i - Len(x)]
      BY <1>7, <3>1 DEF placed
    <3> QED BY <1>4, <3>1, <3>2
  <2> QED BY <1>7, <2>1, <2>2, <2>3, LastAt
<1>10. last_path_segment(w) = from(w, Len(x) + 1)
  BY <1>8, <1>9 DEF last_path_segment, last_of
<1>11. from(w, Len(x) + 1) = e
  <2>1. Len(x) + Len(e) <= Len(w)
    BY <1>1, <1>7
  <2>2. sliced(w, Len(x), e)
    BY <1>1, <1>7, <2>1, Sliced
  <2> QED BY <1>7, <2>2 DEF sliced, from
<1> QED BY <1>1, <1>3, <1>10, <1>11

\* Scopes without white space are words.
LEMMA ScopesSplit ==
  ASSUME NEW texts \in Seq(Text)
  PROVE  /\ join_scopes(texts) \in Text
         /\ (\A k \in DOMAIN texts : ToSet(texts[k]) \cap Space = {}) =>
              split_ws(join_scopes(texts)) = nonempty(texts)
<1>1. join_scopes(texts) \in Text
  <2>1. <<space>> \in Seq(Octet) /\ texts \in Seq(Seq(Octet))
    BY DEF space, Octet, Text
  <2>2. join(texts, <<space>>) \in Seq(Octet)
    BY <2>1, JoinType
  <2> QED BY <2>2 DEF join_scopes, Text
<1>2. ASSUME \A k \in DOMAIN texts : ToSet(texts[k]) \cap Space = {}
      PROVE  split_ws(join_scopes(texts)) = nonempty(texts)
  <2>1. ASSUME NEW k \in DOMAIN texts PROVE texts[k] \in Word
    <3> DEFINE s == texts[k]
               A == Octet \ Space
    <3>1. s \in Seq(Octet)
      BY DEF Text
    <3>2. ToSet(s) \cap Space = {}
      BY <1>2
    <3> HIDE DEF s
    <3>3. \A i \in 1 .. Len(s) : s[i] \in A
      BY <3>1, <3>2 DEF ToSet
    <3> HIDE DEF A
    <3>4. s \in Seq(A)
      <4>1. s = [i \in 1 .. Len(s) |-> s[i]] /\ Len(s) \in Nat
        BY <3>1
      <4> QED BY <3>3, <4>1
    <3> QED BY <3>4 DEF A, s, Word
  <2>2. texts \in Seq(Word)
    <3>1. Len(texts) \in Nat /\ DOMAIN texts = 1 .. Len(texts)
          /\ texts = [k \in 1 .. Len(texts) |-> texts[k]]
      OBVIOUS
    <3> HIDE DEF Word
    <3> QED BY <2>1, <3>1
  <2>3. split_ws(join_scopes(texts)) = expanded(texts, worded)
    BY <2>2, ScopesRead
  <2>4. [k \in DOMAIN texts |-> IF texts[k] = <<>> THEN <<>> ELSE <<texts[k]>>]
          = image(texts, worded)
    BY <2>1 DEF image, worded
  <2> QED BY <2>3, <2>4 DEF expanded, nonempty
<1> QED BY <1>1, <1>2

LEMMA RequestRead ==
  ASSUME NEW base \in Root, NEW slashes \in Slashes, NEW pairs \in Seq(Pair),
         NEW i \in DOMAIN pairs,
         NEW root, root = url_of(base) \o slashes,
         NEW realm \in Text, realm # <<>>
  PROVE  RequestKept(base, root, realm, pairs) /\ endpoint(root, realm) \in Text
<1> DEFINE url == endpoint(root, realm)
           body == build_form_body(pairs)
           asked == url \o <<question>> \o body
           uri == parse_absolute_uri(asked)
<1>1. url \in Text /\ request_url(parse_absolute_uri(url)) = url
  BY EndpointSent
<1>2. body \in Without(colon) /\ body # <<>>
  BY BodyType, BodyThere
<1>3. parse_form_encoded(body) = assigned(pairs)
  BY FormsRead
<1> HIDE DEF body
<1>4. request_url(uri) = asked /\ kept(base, uri, body)
  BY <1>2, AskedSent
<1>5. root \in Text /\ trim_trailing_slash(root) \in Text
  <2>1. root = concat(head(base), rooted(base, slashes))
    BY RootText
  <2>2. head(base) \in Text /\ rooted(base, slashes) \in Text
    BY HeadText, Rooted
  <2>3. root \in Text
    BY <2>1, <2>2, ConcatText
  <2> QED BY <2>3, TrimType
<1>6. url_decode(last_path_segment(realm_root(root, realm))) = realm
  BY <1>5, RealmRead
<1> HIDE DEF uri
<1>7. /\ uri.host = base.host /\ uri.port = base.port
      /\ authority_of(uri) = authority_of(base)
      /\ parse_form_encoded(uri.query) = assigned(pairs)
  BY <1>3, <1>4 DEF kept
<1> QED BY <1>1, <1>4, <1>6, <1>7 DEF RequestKept, body, uri

LEMMA LoginRead ==
  ASSUME NEW base \in Root, NEW slashes \in Slashes, NEW cfg, NEW state \in Text,
         NEW code_challenge \in Text, cfg.base_url = url_of(base) \o slashes,
         cfg.realm \in Text, cfg.client_id \in Text, cfg.redirect_uri \in Text,
         join_scopes(cfg.scopes) \in Text
  PROVE  AuthorizationKept(base, cfg, state, code_challenge)
<1> DEFINE scopes == join_scopes(cfg.scopes)
           pairs == params(cfg.client_id, cfg.redirect_uri, state, code_challenge, scopes)
           query == build_form_body(pairs)
           login == parse_absolute_uri(create_authorization_url(cfg, state, code_challenge))
<1>1. /\ parse_form_encoded(query)
           = asking(cfg.client_id, cfg.redirect_uri, state, code_challenge, scopes)
      /\ query \in Without(colon) /\ query # <<>>
  BY ParamsRead
<1>2. query = build_form_body(params(cfg.client_id, cfg.redirect_uri, state, code_challenge,
                                     join_scopes(cfg.scopes)))
  OBVIOUS
<1> HIDE DEF query
<1>3. kept(base, login, query)
  BY <1>1, <1>2, LoginSent
<1> HIDE DEF login, scopes
<1>4. login.host = base.host /\ login.port = base.port
  BY <1>3 DEF kept
<1>5. parse_form_encoded(login.query)
        = asking(cfg.client_id, cfg.redirect_uri, state, code_challenge, scopes)
  BY <1>1, <1>3 DEF kept
<1> QED BY <1>4, <1>5 DEF AuthorizationKept, asking, login, scopes

(***************************************************************************)
(* Whatever the base URL, the realm and the fields are: an endpoint and a  *)
(* request for it go out as they were built, to the host and port of the   *)
(* base URL; the realm is one segment of the path, which is decoded to it; *)
(* and the query is what was asked, that of a login with its scopes.       *)
(***************************************************************************)
THEOREM UrlsReadBack == Spec => []UrlRoundTrip
<1>1. ASSUME TypeOK PROVE UrlRoundTrip
  <2>1. ASSUME NEW i \in DOMAIN fields, NEW base \in Root, NEW slashes \in Slashes,
               NEW root, root = url_of(base) \o slashes,
               NEW realm, realm = fields[i].value, realm # <<>>,
               NEW scopes, scopes = [k \in DOMAIN fields |-> fields[k].name],
               NEW cfg, cfg = [base_url |-> root, realm |-> realm, client_id |-> fields[i].name,
                               redirect_uri |-> endpoint(root, realm), scopes |-> scopes]
        PROVE  /\ RequestKept(base, root, realm, fields)
               /\ AuthorizationKept(base, cfg, realm, fields[1].value)
               /\ ScopesKept(scopes)
    <3>1. fields \in Seq(Pair)
      BY <1>1 DEF TypeOK
    <3>2. /\ fields[i].name \in Text /\ realm \in Text /\ fields[1].value \in Text
          /\ \A k \in DOMAIN fields : fields[k].name \in Text
      <4>1. fields[i] \in Pair /\ fields[1] \in Pair
            /\ \A k \in DOMAIN fields : fields[k] \in Pair
        BY <3>1
      <4> QED BY <2>1, <4>1, FieldRecord
    <3>3. RequestKept(base, root, realm, fields) /\ endpoint(root, realm) \in Text
      BY <2>1, <3>1, <3>2, RequestRead
    <3>4. scopes \in Seq(Text)
      <4>1. DOMAIN fields = 1 .. Len(fields) /\ Len(fields) \in Nat
        BY <3>1
      <4> HIDE DEF Text
      <4> QED BY <2>1, <3>2, <4>1
    <3>5. join_scopes(scopes) \in Text /\ ScopesKept(scopes)
      BY <3>4, ScopesSplit DEF ScopesKept
    <3>6. /\ cfg.base_url = root /\ cfg.realm = realm /\ cfg.client_id = fields[i].name
          /\ cfg.redirect_uri = endpoint(root, realm) /\ cfg.scopes = scopes
      BY <2>1
    <3>7. AuthorizationKept(base, cfg, realm, fields[1].value)
      BY <2>1, <3>2, <3>3, <3>5, <3>6, LoginRead
    <3> QED BY <3>3, <3>5, <3>7
  <2>2. Slashes = {<<>>, <<slash, slash>>}
    BY DEF Slashes
  <2> HIDE DEF Slashes
  <2> QED BY <2>1, <2>2 DEF UrlRoundTrip
<1> QED BY <1>1, FieldsTyped, PTL

=============================================================================
