---------------------------- MODULE LoginFlowProofs ----------------------------
(***************************************************************************)
(* What LoginFlow says of tokens, exchanges and realms, for any number of  *)
(* requests, instances, realms, logins and codes, and any configuration.   *)
(*                                                                         *)
(* The argument is about where a verifier can be: with the request that    *)
(* stores it (Creating), in the store (HeldInv), or handed out, to one     *)
(* request that brought the state of its login (Consumed).                 *)
(***************************************************************************)
EXTENDS LoginFlow, TLAPS

-----------------------------------------------------------------------------
(***************************************************************************)
(* The store alone.  One-time use follows from its promise: because a      *)
(* verifier is stored at most once and an entry still held has not been    *)
(* handed out (HeldNotHanded), taking an entry raises its count from 0.    *)
(***************************************************************************)

\* Each operation keeps the store's state well typed.
THEOREM StoreTyped == Spec => []TypeOK
<1>1. Init => TypeOK
  BY StateStoreAssumption DEF StateStoreAssumption, Init, TypeOK
<1>2. TypeOK /\ [Next]_storeVars => TypeOK'
  <2> SUFFICES ASSUME TypeOK, [Next]_storeVars PROVE TypeOK'
    OBVIOUS
  <2> USE DEF TypeOK
  <2>1. ASSUME NEW s \in State, NEW v \in Verifier, NEW r \in Realm,
               NEW ttl \in Ttl, Put(s, v, r, clock + ttl)
        PROVE  TypeOK'
    <3>1. [state |-> s, verifier |-> v, realm |-> r,
           expires_at |-> clock + ttl] \in Entry
      BY DEF Entry, Deadline
    <3> QED BY <2>1, <3>1 DEF Put
  <2>2. ASSUME NEW e \in live, Take(e) PROVE TypeOK'
    <3>1. handed' \in [Verifier -> Nat]
      BY <2>2 DEF Take, Entry
    <3> QED BY <2>2, <3>1 DEF Take
  <2>3. ASSUME Sweep PROVE TypeOK'
    BY <2>3 DEF Sweep
  <2>4. ASSUME Tick PROVE TypeOK'
    BY <2>4, StateStoreAssumption DEF StateStoreAssumption, Tick
  <2>5. ASSUME UNCHANGED storeVars PROVE TypeOK'
    BY <2>5 DEF storeVars
  <2> QED BY <2>1, <2>2, <2>3, <2>4, <2>5 DEF Next
<1> QED BY <1>1, <1>2, PTL DEF Spec

\* What makes one-time use inductive: states and verifiers are keys of the
\* entries, and an entry still held has not been handed out.
HeldNotHanded ==
  /\ \A e, f \in live : (e.state = f.state \/ e.verifier = f.verifier) => e = f
  /\ \A e \in live : handed[e.verifier] = 0

\* A step never disturbs the keys of the entries or the counts of the held.
LEMMA StoreInductive ==
  ASSUME TypeOK, TypeOK', HandedOnce, HeldNotHanded, [Next]_storeVars
  PROVE  HandedOnce' /\ HeldNotHanded'
<1> USE DEF HandedOnce, HeldNotHanded
<1>1. ASSUME NEW s \in State, NEW v \in Verifier, NEW r \in Realm,
             NEW d, Put(s, v, r, d)
      PROVE  HandedOnce' /\ HeldNotHanded'
  <2> DEFINE new == [state |-> s, verifier |-> v, realm |-> r, expires_at |-> d]
  <2>1. PICK gone \in SUBSET {e \in live : Expired(e)} :
          /\ \A e \in live \ gone : e.state # s /\ e.verifier # v
          /\ handed[v] = 0
          /\ live' = (live \ gone) \cup {new}
          /\ UNCHANGED <<clock, handed>>
    BY <1>1 DEF Put
  <2>2. new.state = s /\ new.verifier = v
    OBVIOUS
  <2> HIDE DEF new
  <2>3. \A e \in live' : e = new \/ (e \in live /\ e \notin gone)
    BY <2>1
  <2> QED BY <2>1, <2>2, <2>3
<1>2. ASSUME NEW e \in live, Take(e) PROVE HandedOnce' /\ HeldNotHanded'
  <2>1. PICK gone \in SUBSET {f \in live : Expired(f)} :
          /\ live' = live \ (gone \cup {e})
          /\ handed' = [handed EXCEPT ![e.verifier] = @ + 1]
    BY <1>2 DEF Take
  <2>2. e.verifier \in Verifier /\ handed[e.verifier] = 0
    BY DEF TypeOK, Entry
  <2>3. \A f \in live' : f \in live /\ f.verifier # e.verifier
    BY <2>1
  <2>4. \A v \in Verifier : handed'[v] = IF v = e.verifier THEN 1 ELSE handed[v]
    BY <2>1, <2>2 DEF TypeOK
  <2>5. \A f \in live : f.verifier \in Verifier
    BY DEF TypeOK, Entry
  <2> QED BY <2>2, <2>3, <2>4, <2>5
<1>3. ASSUME Sweep PROVE HandedOnce' /\ HeldNotHanded'
  BY <1>3 DEF Sweep
<1>4. ASSUME UNCHANGED <<live, handed>> PROVE HandedOnce' /\ HeldNotHanded'
  BY <1>4
<1> QED BY <1>1, <1>2, <1>3, <1>4 DEF Next, Tick, storeVars

\* No verifier is handed out twice, for every choice of states, verifiers,
\* realms, lifetimes and clock bound.
THEOREM StoreOneTimeUse == Spec => []HandedOnce
<1>1. Init => HandedOnce /\ HeldNotHanded
  BY DEF Init, HandedOnce, HeldNotHanded
<1>2. TypeOK /\ TypeOK' /\ HandedOnce /\ HeldNotHanded /\ [Next]_storeVars
        => HandedOnce' /\ HeldNotHanded'
  BY StoreInductive
<1> QED BY <1>1, <1>2, StoreTyped, PTL DEF Spec

-----------------------------------------------------------------------------
\* The login flow.

\* An entry in the store is that of a login, stored with the realm the login's
\* instance stores, and has not been handed out.
HeldInv ==
  \A e \in live :
    /\ started[e.verifier] # None
    /\ e.realm = stored_realm(started[e.verifier].inst, started[e.verifier].realm)
    /\ handed[e.verifier] = 0
    /\ \A f \in live : f.verifier = e.verifier => f = e
    /\ \A l \in locations : l.challenge = e.verifier => l.state = e.state

\* An authorization URL is that of a login, and codes are issued for such a URL.
LocationInv ==
  /\ \A l \in locations :
       started[l.challenge] # None /\ started[l.challenge].realm = l.realm
  /\ \A c \in Code : codes[c] # None =>
       \E l \in locations : /\ codes[c].realm = l.realm /\ codes[c].state = l.state
                            /\ codes[c].challenge = l.challenge

\* A verifier goes to Keycloak only when it was handed out, which is once.
CountInv ==
  \A v \in Verifier : /\ exchanges[v] <= handed[v] /\ handed[v] <= 1
                      /\ started[v] = None => handed[v] = 0

\* The verifier of a login that is being stored is nowhere but in its request.
Creating(p) ==
  LET v == req[p].verifier IN
  /\ v \in Verifier /\ req[p].realm \in RealmName
  /\ started[v] = [realm |-> req[p].realm, inst |-> req[p].inst]
  /\ handed[v] = 0
  /\ \A e \in live : e.verifier # v
  /\ \A l \in locations : l.challenge # v
  /\ \A q \in Req \ {p} : pc[q] = "creating" => req[q].verifier # v

Called(p) == req[p].code \in Code /\ codes[req[p].code] # None /\ req[p].state \in State

\* The request has been handed the verifier of a login whose state it brought.
Consumed(p) ==
  LET v == req[p].verifier IN
  /\ v \in Verifier /\ started[v] # None
  /\ handed[v] = 1
  /\ \A l \in locations : l.challenge = v => l.state = req[p].state

\* Keycloak redeemed c for the verifier and at the realm of the request.
Redeemed(p, c) ==
  /\ c \in Code /\ codes[c] # None
  /\ codes[c].realm = req[p].realm
  /\ codes[c].challenge = req[p].verifier

Exchanging(p) ==
  /\ Called(p) /\ Consumed(p)
  /\ req[p].realm \in RealmName
  /\ req[p].inst \in Multi => req[p].realm = started[req[p].verifier].realm
  /\ reply[p] # None /\ reply[p].token # None => Redeemed(p, reply[p].token)

Responded(p) ==
  /\ response[p].token # None =>
       /\ req[p] # None /\ Consumed(p) /\ Redeemed(p, response[p].token)
       /\ response[p].realm = req[p].realm
  /\ response[p].error = "unknown_realm" /\ req[p] # None =>
       /\ req[p].verifier \in Verifier /\ started[req[p].verifier] # None
       /\ LET login == started[req[p].verifier] IN
            ~ has_realm(req[p].inst, login.realm) \/ login.inst \notin Multi

\* What holds of a request wherever its handler is.
RequestInv(p) ==
  /\ pc[p] = "idle" => req[p] = None
  /\ pc[p] \in {"creating", "consuming", "exchanging"} => req[p] # None
  /\ reply[p] # None => pc[p] = "exchanging"
  /\ pc[p] = "creating" => Creating(p)
  /\ pc[p] = "consuming" => Called(p)
  /\ pc[p] = "exchanging" => Exchanging(p)
  /\ pc[p] = "responded" => Responded(p)

RequestsInv == \A p \in Req : RequestInv(p)

IInv == LoginTypeOK /\ HeldInv /\ LocationInv /\ CountInv /\ RequestsInv

-----------------------------------------------------------------------------
\* No value is None.
LEMMA Records ==
  /\ None \notin Grant /\ None \notin Request /\ None \notin Started
  /\ None \notin Code /\ None \notin Verifier /\ None \notin State /\ None \notin RealmName
BY RecordAssumption, LoginAssumption DEF RecordAssumption, LoginAssumption

\* The requests have types where they are not None.
LEMMA Typed ==
  ASSUME IInv, NEW p \in Req, pc[p] \in {"creating", "consuming", "exchanging"}
  PROVE  req[p] \in Request
BY DEF IInv, LoginTypeOK, RequestsInv, RequestInv

\* The store's calls, as the argument needs them.
LEMMA PutFacts ==
  ASSUME IInv, NEW p \in Req, pc[p] = "creating", NEW s \in State, stores(p, s)
  PROVE  /\ TypeOK' /\ UNCHANGED <<clock, handed>>
         /\ \A e \in live' : \/ e \in live
                            \/ /\ e.verifier = req[p].verifier /\ e.state = s
                               /\ e.realm = stored_realm(req[p].inst, req[p].realm)
         /\ \A e, f \in live' :
              e.verifier = req[p].verifier /\ f.verifier = req[p].verifier => e = f
<1> DEFINE r == stored_realm(req[p].inst, req[p].realm)
           v == req[p].verifier
           d == clock + StateTtl
           new == [state |-> s, verifier |-> v, realm |-> r, expires_at |-> d]
<1>1. Creating(p)
  BY DEF IInv, RequestsInv, RequestInv
<1>2. v \in Verifier /\ r \in Realm /\ \A e \in live : e.verifier # v
  BY <1>1, LoginAssumption DEF LoginAssumption, Creating, stored_realm
<1>a. StateTtl \in Ttl
  BY LoginAssumption, Zenon DEF LoginAssumption
<1>3. d \in Deadline
  BY <1>a DEF Deadline, IInv, LoginTypeOK, TypeOK
<1>4. new \in Entry /\ new.state = s /\ new.verifier = v /\ new.realm = r
  BY <1>2, <1>3 DEF Entry
<1>5. PICK gone : live' = (live \ gone) \cup {new} /\ UNCHANGED <<clock, handed>>
  BY DEF stores, Put
<1> HIDE DEF new, r, v, d
<1>6. TypeOK'
  BY <1>4, <1>5 DEF IInv, LoginTypeOK, TypeOK
<1>7. \A e \in live' : e \in live \/ e = new
  BY <1>5
<1>8. /\ \A e \in live' : e \in live \/ (e.verifier = v /\ e.state = s /\ e.realm = r)
      /\ \A e, f \in live' : e.verifier = v /\ f.verifier = v => e = f
  BY <1>2, <1>4, <1>7
<1> QED BY <1>5, <1>6, <1>8 DEF v, r

LEMMA TakeFacts ==
  ASSUME IInv, NEW e \in live, Take(e)
  PROVE  /\ TypeOK' /\ UNCHANGED clock /\ live' \subseteq live
         /\ e.verifier \in Verifier /\ e.realm \in Realm
         /\ handed[e.verifier] = 0 /\ handed'[e.verifier] = 1
         /\ \A v \in Verifier \ {e.verifier} : handed'[v] = handed[v]
         /\ \A f \in live' : f.verifier # e.verifier
<1>1. PICK gone : /\ live' = live \ (gone \cup {e}) /\ UNCHANGED clock
                  /\ handed' = [handed EXCEPT ![e.verifier] = @ + 1]
  BY DEF Take
<1>2. e.verifier \in Verifier /\ e.realm \in Realm
  BY DEF IInv, LoginTypeOK, TypeOK, Entry
<1>3. handed \in [Verifier -> Nat]
  BY DEF IInv, LoginTypeOK, TypeOK
<1>4. /\ handed' \in [Verifier -> Nat] /\ handed'[e.verifier] = handed[e.verifier] + 1
      /\ \A v \in Verifier \ {e.verifier} : handed'[v] = handed[v]
  BY <1>1, <1>2, <1>3
<1>5. handed[e.verifier] = 0
  BY DEF IInv, HeldInv
<1>6. \A n : n = 0 => n + 1 = 1
  OBVIOUS
<1>7. handed'[e.verifier] = 1
  BY <1>4, <1>5, <1>6
<1>8. \A f \in live' : f \in live /\ f # e
  BY <1>1
<1>9. \A f \in live' : f.verifier # e.verifier
  BY <1>8 DEF IInv, HeldInv
<1>10. TypeOK'
  BY <1>1, <1>4, <1>8 DEF IInv, LoginTypeOK, TypeOK
<1> QED BY <1>1, <1>2, <1>4, <1>5, <1>7, <1>8, <1>9, <1>10

-----------------------------------------------------------------------------
\* What a step has to leave alone for the sake of q, whose request it is not:
\* logins and codes stay what they are, what is stored or sent to a browser is
\* another login's, and what is handed out was in the store.
Undisturbed(q) ==
  /\ \A v \in Verifier : started[v] # None => started'[v] = started[v]
  /\ \A c \in Code : codes[c] # None =>
       /\ codes'[c] # None /\ codes'[c].realm = codes[c].realm
       /\ codes'[c].challenge = codes[c].challenge
  /\ \A l \in locations' :
       \/ l \in locations
       \/ handed[l.challenge] = 0 /\ (pc[q] = "creating" => l.challenge # req[q].verifier)
  /\ \A e \in live' :
       \/ e \in live
       \/ handed[e.verifier] = 0 /\ (pc[q] = "creating" => e.verifier # req[q].verifier)
  /\ \A v \in Verifier : handed'[v] # handed[v] =>
       handed[v] = 0 /\ \E e \in live : e.verifier = v
  /\ \A r \in Req \ {q} : pc'[r] = "creating" =>
       \/ pc[r] = "creating" /\ req'[r] = req[r]
       \/ started[req'[r].verifier] = None

LEMMA Others ==
  ASSUME IInv, NEW q \in Req, Undisturbed(q),
         pc'[q] = pc[q], req'[q] = req[q], reply'[q] = reply[q], response'[q] = response[q]
  PROVE  RequestInv(q)'
<1>1. RequestInv(q)
  BY DEF IInv, RequestsInv
<1>2. Creating(q) /\ pc[q] = "creating" => Creating(q)'
  <2> SUFFICES ASSUME Creating(q), pc[q] = "creating" PROVE Creating(q)'
    OBVIOUS
  <2> DEFINE v == req[q].verifier
  <2>1. v \in Verifier /\ started[v] # None /\ started'[v] = started[v]
    <3>1. req[q].inst \in Instance
      BY Typed DEF Request
    <3>2. v \in Verifier /\ started[v] \in Started
      BY <3>1 DEF Creating, Started
    <3> QED BY <3>2, Records DEF Undisturbed
  <2>2. handed'[v] = 0
    BY <2>1 DEF Creating, Undisturbed
  <2>3. \A e \in live' : e.verifier # v
    BY DEF Creating, Undisturbed
  <2>4. \A l \in locations' : l.challenge # v
    BY DEF Creating, Undisturbed
  <2>5. \A r \in Req \ {q} : pc'[r] = "creating" => req'[r].verifier # v
    BY <2>1 DEF Creating, Undisturbed
  <2> QED BY <2>1, <2>2, <2>3, <2>4, <2>5 DEF Creating
<1>3. Called(q) => Called(q)'
  BY DEF Called, Undisturbed
<1>4. Consumed(q) => Consumed(q)'
  <2> SUFFICES ASSUME Consumed(q) PROVE Consumed(q)'
    OBVIOUS
  <2>1. handed[req[q].verifier] = 1 /\ handed[req[q].verifier] # 0 /\ req[q].verifier \in Verifier
    BY DEF Consumed
  <2>2. handed'[req[q].verifier] = handed[req[q].verifier]
    BY <2>1 DEF Undisturbed
  <2>3. \A l \in locations' : l.challenge = req[q].verifier => l \in locations
    BY <2>1 DEF Undisturbed
  <2> QED BY <2>1, <2>2, <2>3 DEF Consumed, Undisturbed
<1>5. \A c : Redeemed(q, c) => Redeemed(q, c)'
  BY DEF Redeemed, Undisturbed
<1>6. Exchanging(q) => Exchanging(q)'
  BY <1>3, <1>4, <1>5 DEF Exchanging, Consumed, Undisturbed
<1>7. Responded(q) => Responded(q)'
  BY <1>4, <1>5 DEF Responded, Undisturbed, has_realm
<1> QED BY <1>1, <1>2, <1>3, <1>6, <1>7 DEF RequestInv

-----------------------------------------------------------------------------
\* The kinds of steps of a request p, by what they do beside it.

\* The handlers of the other requests are where they were.
OthersStay(p) ==
  \A q \in Req \ {p} : /\ pc'[q] = pc[q] /\ req'[q] = req[q]
                       /\ reply'[q] = reply[q] /\ response'[q] = response[q]

\* The step leaves the logins alone, but for entries that expire.
LEMMA QuietStep ==
  ASSUME IInv, NEW p \in Req, OthersStay(p), LoginTypeOK', pc'[p] # "creating", RequestInv(p)',
         UNCHANGED <<handed, locations, codes, started, exchanges>>, live' \subseteq live
  PROVE  IInv'
<1>1. \A q \in Req \ {p} : Undisturbed(q)
  BY DEF OthersStay, Undisturbed
<1>2. RequestsInv'
  BY <1>1, Others DEF OthersStay, RequestsInv
<1>3. HeldInv' /\ LocationInv' /\ CountInv'
  BY DEF IInv, HeldInv, LocationInv, CountInv, stored_realm
<1> QED BY <1>2, <1>3 DEF IInv

\* The step hands an entry out, and may send its verifier to Keycloak.
LEMMA TakeStep ==
  ASSUME IInv, NEW p \in Req, OthersStay(p), LoginTypeOK', pc'[p] # "creating", RequestInv(p)',
         NEW e \in live, Take(e),
         UNCHANGED <<locations, codes, started>>,
         \/ UNCHANGED exchanges
         \/ exchanges' = [exchanges EXCEPT ![e.verifier] = @ + 1]
  PROVE  IInv'
<1>1. /\ live' \subseteq live /\ e.verifier \in Verifier
      /\ handed[e.verifier] = 0 /\ handed'[e.verifier] = 1
      /\ \A v \in Verifier \ {e.verifier} : handed'[v] = handed[v]
      /\ \A f \in live' : f.verifier # e.verifier /\ f.verifier \in Verifier
  BY TakeFacts DEF IInv, LoginTypeOK, TypeOK, Entry
<1>2. \A q \in Req \ {p} : Undisturbed(q)
  BY <1>1 DEF OthersStay, Undisturbed
<1>3. RequestsInv'
  BY <1>2, Others DEF OthersStay, RequestsInv
<1>4. HeldInv'
  BY <1>1 DEF IInv, HeldInv, stored_realm
<1>5. LocationInv'
  BY DEF IInv, LocationInv
<1>6. CountInv'
  <2>1. exchanges \in [Verifier -> Nat]
    BY DEF IInv, LoginTypeOK
  <2>2. exchanges[e.verifier] <= 0
    BY <1>1 DEF IInv, CountInv
  <2>3. \A n \in Nat : n <= 0 => n <= 1 /\ n + 1 <= 1
    OBVIOUS
  <2>4. exchanges'[e.verifier] <= 1
    BY <1>1, <2>1, <2>2, <2>3
  <2>5. \A v \in Verifier \ {e.verifier} : exchanges'[v] = exchanges[v]
    BY <2>1
  <2>6. 1 <= 1
    OBVIOUS
  <2>7. started[e.verifier] # None
    BY DEF IInv, HeldInv
  <2> QED BY <1>1, <2>4, <2>5, <2>6, <2>7 DEF IInv, CountInv
<1> QED BY <1>3, <1>4, <1>5, <1>6 DEF IInv

\* The step stores the entry of p's login, and may send its URL out.
LEMMA StoreStep ==
  ASSUME IInv, NEW p \in Req, OthersStay(p), LoginTypeOK', pc'[p] # "creating", RequestInv(p)',
         pc[p] = "creating", NEW s \in State, stores(p, s),
         UNCHANGED <<codes, started, exchanges>>,
         \/ UNCHANGED locations
         \/ locations' = locations \cup
              {[realm |-> req[p].realm, state |-> s, challenge |-> req[p].verifier]}
  PROVE  IInv'
<1> DEFINE v == req[p].verifier
<1>1. Creating(p)
  BY DEF IInv, RequestsInv, RequestInv
<1>2. /\ v \in Verifier /\ started[v] # None /\ handed[v] = 0
      /\ started[v].realm = req[p].realm /\ started[v].inst = req[p].inst
      /\ \A e \in live : e.verifier # v
      /\ \A l \in locations : l.challenge # v
      /\ \A q \in Req \ {p} : pc[q] = "creating" => req[q].verifier # v
  <2>1. req[p].inst \in Instance
    BY Typed DEF Request
  <2>2. started[v] \in Started
    BY <1>1, <2>1 DEF Creating, Started
  <2> QED BY <1>1, <2>2, Records DEF Creating
<1>3. /\ UNCHANGED handed
      /\ \A e \in live' : e \in live \/
           (e.verifier = v /\ e.state = s /\ e.realm = stored_realm(req[p].inst, req[p].realm))
      /\ \A e, f \in live' : e.verifier = v /\ f.verifier = v => e = f
  BY PutFacts
<1>4. \A l \in locations' : l \in locations \/
        (l.challenge = v /\ l.state = s /\ l.realm = req[p].realm)
  OBVIOUS
<1>5. locations \subseteq locations'
  OBVIOUS
<1> HIDE DEF v
<1>6. ASSUME NEW q \in Req \ {p} PROVE Undisturbed(q)
  <2>1. \A e \in live' :
          \/ e \in live
          \/ handed[e.verifier] = 0 /\ (pc[q] = "creating" => e.verifier # req[q].verifier)
    BY <1>2, <1>3
  <2>2. \A l \in locations' :
          \/ l \in locations
          \/ handed[l.challenge] = 0 /\ (pc[q] = "creating" => l.challenge # req[q].verifier)
    BY <1>2, <1>4
  <2>3. \A r \in Req \ {q} : pc'[r] = "creating" => pc[r] = "creating" /\ req'[r] = req[r]
    BY DEF OthersStay
  <2> QED BY <1>3, <2>1, <2>2, <2>3 DEF Undisturbed
<1>7. RequestsInv'
  BY <1>6, Others DEF OthersStay, RequestsInv
<1>8. HeldInv'
  <2> SUFFICES ASSUME NEW e \in live'
               PROVE  /\ started[e.verifier] # None
                      /\ e.realm = stored_realm(started[e.verifier].inst, started[e.verifier].realm)
                      /\ handed[e.verifier] = 0
                      /\ \A f \in live' : f.verifier = e.verifier => f = e
                      /\ \A l \in locations' : l.challenge = e.verifier => l.state = e.state
    BY <1>3 DEF HeldInv, stored_realm
  <2>1. CASE e.verifier = v
    <3>1. e \notin live /\ e.state = s /\ e.realm = stored_realm(req[p].inst, req[p].realm)
      BY <1>2, <1>3, <2>1
    <3>2. \A l \in locations' : l.challenge = v => l.state = s
      BY <1>2, <1>4
    <3> QED BY <1>2, <1>3, <2>1, <3>1, <3>2
  <2>2. CASE e.verifier # v
    <3>1. e \in live
      BY <1>3, <2>2
    <3>2. \A f \in live' : f.verifier = e.verifier => f \in live
      BY <1>3, <2>2
    <3>3. \A l \in locations' : l.challenge = e.verifier => l \in locations
      BY <1>4, <2>2
    <3> QED BY <3>1, <3>2, <3>3 DEF IInv, HeldInv
  <2> QED BY <2>1, <2>2
<1>9. LocationInv'
  BY <1>2, <1>4, <1>5 DEF IInv, LocationInv
<1>10. CountInv'
  BY <1>3 DEF IInv, CountInv
<1> QED BY <1>7, <1>8, <1>9, <1>10 DEF IInv

\* The step issues codes or spends them, or lets time pass.
LEMMA CodesStep ==
  ASSUME IInv, LoginTypeOK', UNCHANGED <<live, handed, locations, started, exchanges>>,
         \A c \in Code : codes[c] # None =>
           /\ codes'[c] # None /\ codes'[c].realm = codes[c].realm
           /\ codes'[c].state = codes[c].state /\ codes'[c].challenge = codes[c].challenge,
         \A c \in Code : codes[c] = None /\ codes'[c] # None =>
           \E l \in locations : /\ codes'[c].realm = l.realm /\ codes'[c].state = l.state
                                /\ codes'[c].challenge = l.challenge,
         NEW P \in SUBSET Req,
         \A q \in Req \ P : /\ pc'[q] = pc[q] /\ req'[q] = req[q]
                            /\ reply'[q] = reply[q] /\ response'[q] = response[q],
         \A q \in P : pc'[q] # "creating" /\ RequestInv(q)'
  PROVE  IInv'
<1>1. \A q \in Req \ P : Undisturbed(q)
  BY DEF Undisturbed
<1>2. RequestsInv'
  BY <1>1, Others DEF RequestsInv
<1>3. HeldInv' /\ CountInv'
  BY DEF IInv, HeldInv, CountInv, stored_realm
<1>4. LocationInv'
  BY DEF IInv, LocationInv
<1> QED BY <1>2, <1>3, <1>4 DEF IInv

-----------------------------------------------------------------------------
\* The steps of login.

\* What respond and fail leave of the variables they assign.
LEMMA RespondStep ==
  ASSUME LoginTypeOK, NEW p \in Req, NEW status, NEW error, NEW realm, NEW token,
         respond(p, status, error, realm, token),
         [status |-> status, error |-> error, realm |-> realm, token |-> token] \in Response
  PROVE  /\ pc' \in [Req -> {"idle", "creating", "consuming", "exchanging", "responded"}]
         /\ response' \in [Req -> Response \cup {None}]
         /\ pc'[p] = "responded"
         /\ response'[p].token = token /\ response'[p].error = error
         /\ response'[p].realm = realm
         /\ \A q \in Req \ {p} : pc'[q] = pc[q] /\ response'[q] = response[q]
<1> DEFINE res == [status |-> status, error |-> error, realm |-> realm, token |-> token]
<1>1. res.token = token /\ res.error = error /\ res.realm = realm /\ res \in Response
  OBVIOUS
<1>2. response' = [response EXCEPT ![p] = res] /\ pc' = [pc EXCEPT ![p] = "responded"]
  BY DEF respond
<1> HIDE DEF res
<1> QED BY <1>1, <1>2 DEF LoginTypeOK

LEMMA FailStep ==
  ASSUME LoginTypeOK, NEW p \in Req, NEW status, NEW error, fail(p, status, error),
         status \in {200, 400, 401, 404, 500, 502},
         error \in {"missing_realm", "unknown_realm", "missing_code_or_state",
                    "invalid_or_expired_state", "exchange_failed", "exception"}
  PROVE  /\ pc' \in [Req -> {"idle", "creating", "consuming", "exchanging", "responded"}]
         /\ response' \in [Req -> Response \cup {None}]
         /\ pc'[p] = "responded"
         /\ response'[p].token = None /\ response'[p].error = error
         /\ \A q \in Req \ {p} : pc'[q] = pc[q] /\ response'[q] = response[q]
<1>1. [status |-> status, error |-> error, realm |-> None, token |-> None] \in Response
  BY ZenonT(90) DEF Response
<1>2. respond(p, status, error, None, None)
  BY DEF fail
<1> QED BY <1>1, <1>2, RespondStep

LEMMA LoginRefusedStep ==
  ASSUME IInv, NEW p \in Req, NEW i, NEW r, LoginRefused(p, i, r)
  PROVE  IInv'
<1>h. /\ UNCHANGED <<storeVars, locations, codes, req, reply, started, exchanges>>
      /\ UNCHANGED <<clock, live, handed>> /\ pc[p] = "idle"
  BY DEF LoginRefused, storeVars
<1>t. LoginTypeOK /\ RequestInv(p)
  BY DEF IInv, RequestsInv
<1>1. \/ fail(p, 400, "missing_realm") \/ fail(p, 404, "unknown_realm")
  BY DEF LoginRefused
<1>2. /\ pc' \in [Req -> {"idle", "creating", "consuming", "exchanging", "responded"}]
      /\ response' \in [Req -> Response \cup {None}]
      /\ pc'[p] = "responded" /\ response'[p].token = None
      /\ \A q \in Req \ {p} : pc'[q] = pc[q] /\ response'[q] = response[q]
  BY <1>1, <1>t, FailStep
<1>3. LoginTypeOK'
  BY <1>t, <1>h, <1>2 DEF LoginTypeOK, TypeOK
<1>4. req[p] = None /\ reply[p] = None
  BY <1>t, <1>h DEF RequestInv
<1>5. RequestInv(p)'
  BY <1>2, <1>4, <1>h DEF RequestInv, Responded
<1> QED BY <1>2, <1>3, <1>5, <1>h, QuietStep DEF OthersStay

LEMMA LoginStartsStep ==
  ASSUME IInv, NEW p \in Req, NEW i \in Instance, NEW r \in RealmName, NEW v \in Verifier,
         LoginStarts(p, i, r, v)
  PROVE  IInv'
<1> DEFINE login == [realm |-> r, inst |-> i]
           new == [inst |-> i, realm |-> r, code |-> None, state |-> None, verifier |-> v]
<1>h. /\ UNCHANGED <<clock, live, handed, locations, codes, reply, response, exchanges>>
      /\ pc[p] = "idle" /\ started[v] = None
      /\ started' = [started EXCEPT ![v] = login] /\ req' = [req EXCEPT ![p] = new]
      /\ pc' = [pc EXCEPT ![p] = "creating"]
  BY DEF LoginStarts, storeVars
<1>t. LoginTypeOK /\ RequestInv(p)
  BY DEF IInv, RequestsInv
<1>1. /\ login \in Started /\ new \in Request
      /\ new.verifier = v /\ new.realm = r /\ login = [realm |-> new.realm, inst |-> new.inst]
  BY DEF Started, Request
<1> HIDE DEF login, new
<1>2. LoginTypeOK'
  BY <1>h, <1>t, <1>1 DEF LoginTypeOK, TypeOK
<1>3. /\ pc'[p] = "creating" /\ req'[p] = new /\ started'[v] = login /\ login # None
      /\ \A q \in Req \ {p} : pc'[q] = pc[q] /\ req'[q] = req[q]
      /\ \A w \in Verifier \ {v} : started'[w] = started[w]
      /\ new # None
  BY <1>h, <1>t, <1>1, Records DEF LoginTypeOK
<1>4. /\ \A e \in live : e.verifier # v /\ e.verifier \in Verifier
      /\ \A l \in locations : l.challenge # v /\ l.challenge \in Verifier
  BY <1>h, <1>t DEF IInv, HeldInv, LocationInv, LoginTypeOK, TypeOK, Entry, Location
<1>5. \A q \in Req : pc[q] = "creating" => req[q].verifier # v
  <2> SUFFICES ASSUME NEW q \in Req, pc[q] = "creating" PROVE req[q].verifier # v
    OBVIOUS
  <2>1. req[q].inst \in Instance /\ Creating(q)
    BY Typed DEF Request, IInv, RequestsInv, RequestInv
  <2>2. started[req[q].verifier] \in Started
    BY <2>1 DEF Creating, Started
  <2> QED BY <2>2, <1>h, Records
<1>6. ASSUME NEW q \in Req \ {p} PROVE Undisturbed(q)
  BY <1>3, <1>h, <1>1 DEF Undisturbed
<1>7. handed[v] = 0
  BY <1>h DEF IInv, CountInv
<1>8. RequestInv(p)'
  <2>1. Creating(p)'
    BY <1>1, <1>3, <1>4, <1>5, <1>7, <1>h DEF Creating
  <2>2. reply[p] = None
    BY <1>t, <1>h DEF RequestInv
  <2> QED BY <2>1, <2>2, <1>3, <1>h DEF RequestInv
<1>9. RequestsInv'
  BY <1>3, <1>6, <1>8, <1>h, Others DEF RequestsInv
<1>10. HeldInv' /\ LocationInv'
  BY <1>3, <1>4, <1>h DEF IInv, HeldInv, LocationInv
<1>11. CountInv'
  BY <1>3, <1>7, <1>h DEF IInv, CountInv
<1> QED BY <1>2, <1>9, <1>10, <1>11 DEF IInv

LEMMA LoginStoredStep ==
  ASSUME IInv, NEW p \in Req, NEW s \in State, LoginStored(p, s)
  PROVE  IInv'
<1>h. /\ UNCHANGED <<codes, req, reply, started, exchanges>>
      /\ pc[p] = "creating" /\ stores(p, s) /\ respond(p, 302, "", None, None)
      /\ locations' = locations \cup
           {[realm |-> req[p].realm, state |-> s, challenge |-> req[p].verifier]}
  BY DEF LoginStored
<1>t. LoginTypeOK /\ RequestInv(p) /\ Creating(p)
  BY <1>h DEF IInv, RequestsInv, RequestInv
<1>1. [status |-> 302, error |-> "", realm |-> None, token |-> None] \in Response
  BY DEF Response
<1>e. PICK e : /\ respond(p, 302, e, None, None) /\ e # "unknown_realm"
              /\ [status |-> 302, error |-> e, realm |-> None, token |-> None] \in Response
  <2>1. "" # "unknown_realm"
    OBVIOUS
  <2> QED BY <1>1, <1>h, <2>1, Zenon
<1>2. /\ pc' \in [Req -> {"idle", "creating", "consuming", "exchanging", "responded"}]
      /\ response' \in [Req -> Response \cup {None}]
      /\ pc'[p] = "responded" /\ response'[p].token = None /\ response'[p].error # "unknown_realm"
      /\ \A q \in Req \ {p} : pc'[q] = pc[q] /\ response'[q] = response[q]
  BY <1>e, <1>t, RespondStep
<1>3. LoginTypeOK'
  <2>1. [realm |-> req[p].realm, state |-> s, challenge |-> req[p].verifier] \in Location
    BY <1>t DEF Creating, Location
  <2>2. TypeOK'
    BY <1>h, PutFacts
  <2> QED BY <1>t, <1>h, <1>2, <2>1, <2>2 DEF LoginTypeOK
<1>4. reply[p] = None
  BY <1>t, <1>h DEF RequestInv
<1>6. RequestInv(p)'
  BY <1>2, <1>4, <1>h DEF RequestInv, Responded
<1> QED BY <1>2, <1>3, <1>6, <1>h, StoreStep DEF OthersStay

\* An exception is answered with a 500, whatever has become of the rest.
LEMMA ThrownStep ==
  ASSUME IInv, NEW p \in Req, fail(p, 500, "exception"), UNCHANGED req, reply'[p] = None,
         \A q \in Req \ {p} : reply'[q] = reply[q]
  PROVE  /\ pc' \in [Req -> {"idle", "creating", "consuming", "exchanging", "responded"}]
         /\ response' \in [Req -> Response \cup {None}]
         /\ OthersStay(p) /\ RequestInv(p)' /\ pc'[p] # "creating"
<1>1. /\ pc' \in [Req -> {"idle", "creating", "consuming", "exchanging", "responded"}]
      /\ response' \in [Req -> Response \cup {None}]
      /\ pc'[p] = "responded" /\ response'[p].token = None /\ response'[p].error = "exception"
      /\ \A q \in Req \ {p} : pc'[q] = pc[q] /\ response'[q] = response[q]
  BY FailStep DEF IInv
<1>2. RequestInv(p)'
  BY <1>1 DEF RequestInv, Responded
<1> QED BY <1>1, <1>2 DEF OthersStay

LEMMA LoginThrowsStep ==
  ASSUME IInv, NEW p \in Req, LoginThrows(p)
  PROVE  IInv'
<1>h. /\ UNCHANGED <<locations, codes, req, reply, started, exchanges>>
      /\ pc[p] = "creating" /\ fail(p, 500, "exception")
  BY DEF LoginThrows
<1>t. LoginTypeOK /\ reply[p] = None
  BY <1>h DEF IInv, RequestsInv, RequestInv
<1>1. /\ pc' \in [Req -> {"idle", "creating", "consuming", "exchanging", "responded"}]
      /\ response' \in [Req -> Response \cup {None}]
      /\ OthersStay(p) /\ RequestInv(p)' /\ pc'[p] # "creating"
  BY <1>h, <1>t, ThrownStep
<1>2. CASE \E s \in State : stores(p, s)
  <2>1. PICK s \in State : stores(p, s)
    BY <1>2
  <2>2. TypeOK'
    BY <1>h, <2>1, PutFacts
  <2>3. LoginTypeOK'
    BY <1>t, <1>h, <1>1, <2>2 DEF LoginTypeOK
  <2> QED BY <1>1, <1>h, <2>1, <2>3, StoreStep
<1>3. CASE UNCHANGED storeVars
  <2>1. LoginTypeOK'
    BY <1>t, <1>h, <1>1, <1>3 DEF LoginTypeOK, TypeOK, storeVars
  <2> QED BY <1>1, <1>h, <1>3, <2>1, QuietStep DEF storeVars
<1> QED BY <1>2, <1>3 DEF LoginThrows

-----------------------------------------------------------------------------
\* The steps of callback.

LEMMA CallbackRefusedStep ==
  ASSUME IInv, NEW p \in Req, NEW c, NEW s, CallbackRefused(p, c, s)
  PROVE  IInv'
<1>h. /\ UNCHANGED <<clock, live, handed, locations, codes, req, reply, started, exchanges>>
      /\ pc[p] = "idle" /\ fail(p, 400, "missing_code_or_state")
  BY DEF CallbackRefused, storeVars
<1>t. LoginTypeOK /\ RequestInv(p)
  BY DEF IInv, RequestsInv
<1>2. /\ pc' \in [Req -> {"idle", "creating", "consuming", "exchanging", "responded"}]
      /\ response' \in [Req -> Response \cup {None}]
      /\ pc'[p] = "responded" /\ response'[p].token = None
      /\ \A q \in Req \ {p} : pc'[q] = pc[q] /\ response'[q] = response[q]
  BY <1>h, <1>t, FailStep
<1>3. LoginTypeOK'
  BY <1>t, <1>h, <1>2 DEF LoginTypeOK, TypeOK
<1>4. req[p] = None /\ reply[p] = None
  BY <1>t, <1>h DEF RequestInv
<1>5. RequestInv(p)'
  BY <1>2, <1>4, <1>h DEF RequestInv, Responded
<1> QED BY <1>2, <1>3, <1>5, <1>h, QuietStep DEF OthersStay

LEMMA CallbackStartsStep ==
  ASSUME IInv, NEW p \in Req, NEW i \in Instance, NEW c \in Code, codes[c] # None,
         NEW s \in State, CallbackStarts(p, i, c, s)
  PROVE  IInv'
<1> DEFINE new == [inst |-> i, realm |-> None, code |-> c, state |-> s, verifier |-> None]
<1>h. /\ UNCHANGED <<clock, live, handed, locations, codes, reply, response, started, exchanges>>
      /\ pc[p] = "idle" /\ req' = [req EXCEPT ![p] = new]
      /\ pc' = [pc EXCEPT ![p] = "consuming"]
  BY DEF CallbackStarts, storeVars
<1>t. LoginTypeOK /\ RequestInv(p)
  BY DEF IInv, RequestsInv
<1>1. new \in Request /\ new.code = c /\ new.state = s
  BY DEF Request
<1> HIDE DEF new
<1>2. LoginTypeOK'
  BY <1>t, <1>h, <1>1 DEF LoginTypeOK, TypeOK
<1>3. /\ pc'[p] = "consuming" /\ req'[p] = new /\ new # None
      /\ \A q \in Req \ {p} : pc'[q] = pc[q] /\ req'[q] = req[q]
  BY <1>t, <1>h, <1>1, Records DEF LoginTypeOK
<1>4. reply[p] = None
  BY <1>t, <1>h DEF RequestInv
<1>5. RequestInv(p)'
  BY <1>1, <1>3, <1>4, <1>h DEF RequestInv, Called
<1> QED BY <1>2, <1>3, <1>5, <1>h, QuietStep DEF OthersStay

\* Whose realms the entries carry, and whose realm a KeycloakClient exchanges at.
LEMMA StoredRealms ==
  ASSUME NEW i, NEW r
  PROVE  /\ i \in Multi => stored_realm(i, r) = r
         /\ i \notin Multi => stored_realm(i, r) \notin RealmName
BY LoginAssumption, Zenon DEF stored_realm, LoginAssumption

LEMMA ExchangeRealms ==
  ASSUME NEW i \in Instance, NEW e
  PROVE  /\ Configured[i] \subseteq RealmName
         /\ i \in Multi => exchange_realm(i, e) = e.realm
         /\ i \notin Multi => has_realm(i, exchange_realm(i, e))
<1>1. Configured[i] \subseteq RealmName
  BY LoginAssumption DEF LoginAssumption
<1>2. i \in Multi => exchange_realm(i, e) = e.realm
  BY DEF exchange_realm
<1>3. ASSUME i \notin Multi PROVE has_realm(i, exchange_realm(i, e))
  <2>1. \E r \in RealmName : Configured[i] = {r}
    BY <1>3, LoginAssumption DEF LoginAssumption
  <2>2. Configured[i] = {CHOOSE r \in RealmName : Configured[i] = {r}}
    BY <2>1, Zenon
  <2>3. exchange_realm(i, e) = CHOOSE r \in RealmName : Configured[i] = {r}
    BY <1>3 DEF exchange_realm
  <2> QED BY <2>2, <2>3 DEF has_realm
<1> QED BY <1>1, <1>2, <1>3

\* What a request that has been handed e knows of its login.
LEMMA TakenFacts ==
  ASSUME IInv, NEW p \in Req, pc[p] = "consuming", NEW e \in live, e.state = req[p].state
  PROVE  LET v == e.verifier
             r == exchange_realm(req[p].inst, e)
             login == started[v]
         IN
         /\ req[p] \in Request /\ Called(p)
         /\ v \in Verifier /\ login # None
         /\ \A l \in locations : l.challenge = v => l.state = req[p].state
         /\ has_realm(req[p].inst, r) => r \in RealmName
         /\ has_realm(req[p].inst, r) /\ req[p].inst \in Multi => r = login.realm
         /\ ~ has_realm(req[p].inst, r) =>
              ~ has_realm(req[p].inst, login.realm) \/ login.inst \notin Multi
<1>1. req[p] \in Request /\ req[p].inst \in Instance /\ Called(p)
  BY Typed DEF Request, IInv, RequestsInv, RequestInv
<1>2. /\ e.verifier \in Verifier /\ started[e.verifier] # None
      /\ e.realm = stored_realm(started[e.verifier].inst, started[e.verifier].realm)
      /\ \A l \in locations : l.challenge = e.verifier => l.state = req[p].state
  BY DEF IInv, HeldInv, LoginTypeOK, TypeOK, Entry
<1> DEFINE r == exchange_realm(req[p].inst, e)
           login == started[e.verifier]
<1>3. /\ req[p].inst \in Multi => r = stored_realm(login.inst, login.realm)
      /\ req[p].inst \notin Multi => has_realm(req[p].inst, r)
      /\ has_realm(req[p].inst, r) => r \in RealmName
  BY <1>1, <1>2, ExchangeRealms DEF has_realm
<1>4. /\ login.inst \in Multi => stored_realm(login.inst, login.realm) = login.realm
      /\ login.inst \notin Multi => stored_realm(login.inst, login.realm) \notin RealmName
  BY StoredRealms
<1> QED BY <1>1, <1>2, <1>3, <1>4

LEMMA CallbackTakesStep ==
  ASSUME IInv, NEW p \in Req, NEW e \in live, CallbackTakes(p, e)
  PROVE  IInv'
<1> DEFINE r == exchange_realm(req[p].inst, e)
<1>h. /\ UNCHANGED <<locations, codes, reply, response, started>>
      /\ pc[p] = "consuming" /\ e.state = req[p].state /\ Take(e)
      /\ has_realm(req[p].inst, r)
      /\ req' = [req EXCEPT ![p].realm = r, ![p].verifier = e.verifier]
      /\ exchanges' = [exchanges EXCEPT ![e.verifier] = @ + 1]
      /\ pc' = [pc EXCEPT ![p] = "exchanging"]
  BY DEF CallbackTakes
<1>t. LoginTypeOK /\ RequestInv(p)
  BY DEF IInv, RequestsInv
<1>1. /\ req[p] \in Request /\ Called(p)
      /\ e.verifier \in Verifier /\ started[e.verifier] # None
      /\ \A l \in locations : l.challenge = e.verifier => l.state = req[p].state
      /\ r \in RealmName
      /\ req[p].inst \in Multi => r = started[e.verifier].realm
  BY <1>h, TakenFacts
<1> HIDE DEF r
<1>2. /\ req'[p] \in Request /\ req'[p].realm = r /\ req'[p].verifier = e.verifier
      /\ req'[p].code = req[p].code /\ req'[p].state = req[p].state /\ req'[p].inst = req[p].inst
      /\ req' \in [Req -> Request \cup {None}]
      /\ \A q \in Req \ {p} : req'[q] = req[q]
  <2>1. req'[p] = [req[p] EXCEPT !.realm = r, !.verifier = e.verifier]
    BY <1>h, <1>t DEF LoginTypeOK
  <2>2. \A q \in Req \ {p} : req'[q] = req[q]
    BY <1>h, <1>t DEF LoginTypeOK
  <2>3. req' \in [Req -> Request \cup {None}]
    BY <1>h, <1>t, <1>1 DEF LoginTypeOK, Request
  <2> QED BY <2>1, <2>2, <2>3, <1>1 DEF Request
<1>3. TypeOK' /\ handed'[e.verifier] = 1
  BY <1>h, TakeFacts
<1>4. LoginTypeOK'
  BY <1>t, <1>h, <1>1, <1>2, <1>3 DEF LoginTypeOK
<1>5. pc'[p] = "exchanging" /\ \A q \in Req \ {p} : pc'[q] = pc[q]
  BY <1>h, <1>t DEF LoginTypeOK
<1>6. reply[p] = None
  BY <1>t, <1>h DEF RequestInv
<1>7. RequestInv(p)'
  <2>1. Called(p)' /\ Consumed(p)'
    BY <1>1, <1>2, <1>3, <1>h DEF Called, Consumed
  <2>2. Exchanging(p)'
    BY <2>1, <1>1, <1>2, <1>6, <1>h DEF Exchanging
  <2> QED BY <2>2, <1>2, <1>5, Records DEF RequestInv
<1> QED BY <1>2, <1>4, <1>5, <1>7, <1>h, TakeStep DEF OthersStay

LEMMA CallbackUnknownRealmStep ==
  ASSUME IInv, NEW p \in Req, NEW e \in live, CallbackUnknownRealm(p, e)
  PROVE  IInv'
<1>h. /\ UNCHANGED <<locations, codes, reply, started, exchanges>>
      /\ pc[p] = "consuming" /\ e.state = req[p].state /\ Take(e)
      /\ ~ has_realm(req[p].inst, exchange_realm(req[p].inst, e))
      /\ req' = [req EXCEPT ![p].verifier = e.verifier]
      /\ fail(p, 400, "unknown_realm")
  BY DEF CallbackUnknownRealm
<1>t. LoginTypeOK /\ RequestInv(p)
  BY DEF IInv, RequestsInv
<1>1. /\ req[p] \in Request
      /\ e.verifier \in Verifier /\ started[e.verifier] # None
      /\ \/ ~ has_realm(req[p].inst, started[e.verifier].realm)
         \/ started[e.verifier].inst \notin Multi
  BY <1>h, TakenFacts
<1>2. /\ req'[p].verifier = e.verifier /\ req'[p].inst = req[p].inst
      /\ req' \in [Req -> Request \cup {None}]
      /\ \A q \in Req \ {p} : req'[q] = req[q]
  <2>1. req'[p] = [req[p] EXCEPT !.verifier = e.verifier]
    BY <1>h, <1>t DEF LoginTypeOK
  <2>2. \A q \in Req \ {p} : req'[q] = req[q]
    BY <1>h, <1>t DEF LoginTypeOK
  <2>3. req' \in [Req -> Request \cup {None}]
    BY <1>h, <1>t, <1>1 DEF LoginTypeOK, Request
  <2> QED BY <2>1, <2>2, <2>3, <1>1 DEF Request
<1>3. TypeOK'
  BY <1>h, TakeFacts
<1>4. /\ pc' \in [Req -> {"idle", "creating", "consuming", "exchanging", "responded"}]
      /\ response' \in [Req -> Response \cup {None}]
      /\ pc'[p] = "responded" /\ response'[p].token = None
      /\ \A q \in Req \ {p} : pc'[q] = pc[q] /\ response'[q] = response[q]
  BY <1>h, <1>t, FailStep
<1>5. LoginTypeOK'
  BY <1>t, <1>h, <1>2, <1>3, <1>4 DEF LoginTypeOK
<1>6. reply[p] = None
  BY <1>t, <1>h DEF RequestInv
<1>7. RequestInv(p)'
  BY <1>1, <1>2, <1>4, <1>6, <1>h DEF RequestInv, Responded, has_realm
<1> QED BY <1>2, <1>4, <1>5, <1>7, <1>h, TakeStep DEF OthersStay

LEMMA CallbackMissesStep ==
  ASSUME IInv, NEW p \in Req, CallbackMisses(p)
  PROVE  IInv'
<1>h. /\ UNCHANGED <<clock, handed, locations, codes, req, reply, started, exchanges>>
      /\ live' \subseteq live
      /\ pc[p] = "consuming" /\ fail(p, 401, "invalid_or_expired_state")
  BY DEF CallbackMisses, Sweep
<1>t. LoginTypeOK /\ reply[p] = None
  BY <1>h DEF IInv, RequestsInv, RequestInv
<1>1. /\ pc' \in [Req -> {"idle", "creating", "consuming", "exchanging", "responded"}]
      /\ response' \in [Req -> Response \cup {None}]
      /\ pc'[p] = "responded" /\ response'[p].token = None
      /\ response'[p].error = "invalid_or_expired_state"
      /\ \A q \in Req \ {p} : pc'[q] = pc[q] /\ response'[q] = response[q]
  BY <1>h, <1>t, FailStep
<1>2. LoginTypeOK'
  BY <1>t, <1>h, <1>1 DEF LoginTypeOK, TypeOK
<1>3. RequestInv(p)'
  BY <1>1, <1>t, <1>h DEF RequestInv, Responded
<1> QED BY <1>1, <1>2, <1>3, <1>h, QuietStep DEF OthersStay

LEMMA ConsumeThrowsStep ==
  ASSUME IInv, NEW p \in Req, ConsumeThrows(p)
  PROVE  IInv'
<1>h. /\ UNCHANGED <<locations, codes, req, reply, started, exchanges>>
      /\ pc[p] = "consuming" /\ fail(p, 500, "exception")
  BY DEF ConsumeThrows
<1>t. LoginTypeOK /\ reply[p] = None
  BY <1>h DEF IInv, RequestsInv, RequestInv
<1>1. /\ pc' \in [Req -> {"idle", "creating", "consuming", "exchanging", "responded"}]
      /\ response' \in [Req -> Response \cup {None}]
      /\ OthersStay(p) /\ RequestInv(p)' /\ pc'[p] # "creating"
  BY <1>h, <1>t, ThrownStep
<1>2. ASSUME NEW e \in live, Take(e) PROVE IInv'
  <2>1. TypeOK'
    BY <1>2, TakeFacts
  <2>2. LoginTypeOK'
    BY <1>t, <1>h, <1>1, <2>1 DEF LoginTypeOK
  <2> QED BY <1>1, <1>2, <1>h, <2>2, TakeStep
<1>3. CASE UNCHANGED storeVars
  <2>1. LoginTypeOK'
    BY <1>t, <1>h, <1>1, <1>3 DEF LoginTypeOK, TypeOK, storeVars
  <2> QED BY <1>1, <1>h, <1>3, <2>1, QuietStep DEF storeVars
<1> QED BY <1>2, <1>3 DEF ConsumeThrows

LEMMA ExchangeThrowsStep ==
  ASSUME IInv, NEW p \in Req, ExchangeThrows(p)
  PROVE  IInv'
<1>h. /\ UNCHANGED <<clock, live, handed, locations, codes, req, started, exchanges>>
      /\ fail(p, 500, "exception") /\ reply' = [reply EXCEPT ![p] = None]
  BY DEF ExchangeThrows, storeVars
<1>t. LoginTypeOK
  BY DEF IInv
<1>1. reply'[p] = None /\ \A q \in Req \ {p} : reply'[q] = reply[q]
  BY <1>h, <1>t DEF LoginTypeOK
<1>2. /\ pc' \in [Req -> {"idle", "creating", "consuming", "exchanging", "responded"}]
      /\ response' \in [Req -> Response \cup {None}]
      /\ OthersStay(p) /\ RequestInv(p)' /\ pc'[p] # "creating"
  BY <1>h, <1>1, ThrownStep
<1>3. LoginTypeOK'
  BY <1>t, <1>h, <1>2 DEF LoginTypeOK, TypeOK
<1> QED BY <1>2, <1>3, <1>h, QuietStep

\* What parse_token_response makes of a reply.
LEMMA Parsed ==
  ASSUME NEW rep \in HttpReply
  PROVE  LET result == parse_token_response(rep) IN
         /\ result.ok => rep.token # None
         /\ ~ result.ok => result.status \in {200, 400, 502} /\ result.error = "exchange_failed"
<1>1. rep.status \in {0, 200, 400}
  BY DEF HttpReply
<1>2. (IF rep.status > 0 THEN rep.status ELSE 502) \in {200, 400, 502}
  BY <1>1
<1> QED BY <1>2 DEF parse_token_response

LEMMA CallbackAnswersStep ==
  ASSUME IInv, NEW p \in Req, CallbackAnswers(p)
  PROVE  IInv'
<1> DEFINE result == parse_token_response(reply[p])
<1>h. /\ UNCHANGED <<clock, live, handed, locations, codes, req, started, exchanges>>
      /\ pc[p] = "exchanging" /\ reply[p] # None /\ reply' = [reply EXCEPT ![p] = None]
  BY DEF CallbackAnswers, storeVars
<1>t. LoginTypeOK /\ RequestInv(p) /\ Exchanging(p)
  BY <1>h DEF IInv, RequestsInv, RequestInv
<1>1. reply[p] \in HttpReply /\ reply'[p] = None /\ \A q \in Req \ {p} : reply'[q] = reply[q]
  BY <1>h, <1>t DEF LoginTypeOK
<1>2. /\ result.ok => reply[p].token # None
      /\ ~ result.ok => result.status \in {200, 400, 502} /\ result.error = "exchange_failed"
  BY <1>1, Parsed
<1>3. /\ ~ result.ok => fail(p, result.status, result.error)
      /\ result.ok => respond(p, 302, "", req[p].realm, reply[p].token)
  BY Zenon DEF CallbackAnswers
<1> HIDE DEF result
<1>4. req[p] # None
  BY <1>h, <1>t DEF RequestInv
<1>5. CASE ~ result.ok
  <2>f. fail(p, result.status, result.error)
    BY <1>3, <1>5, Zenon
  <2>1. /\ pc' \in [Req -> {"idle", "creating", "consuming", "exchanging", "responded"}]
        /\ response' \in [Req -> Response \cup {None}]
        /\ pc'[p] = "responded" /\ response'[p].token = None
        /\ response'[p].error = "exchange_failed"
        /\ \A q \in Req \ {p} : pc'[q] = pc[q] /\ response'[q] = response[q]
    BY <1>2, <2>f, <1>5, <1>t, FailStep
  <2>2. LoginTypeOK'
    BY <1>t, <1>h, <2>1 DEF LoginTypeOK, TypeOK
  <2>3. RequestInv(p)'
    BY <2>1, <1>1 DEF RequestInv, Responded
  <2> QED BY <1>1, <1>h, <2>1, <2>2, <2>3, QuietStep DEF OthersStay
<1>6. CASE result.ok
  <2>1. Redeemed(p, reply[p].token) /\ Consumed(p) /\ req[p].realm \in RealmName
    BY <1>t, <1>h, <1>2, <1>6 DEF Exchanging
  <2>2. [status |-> 302, error |-> "", realm |-> req[p].realm, token |-> reply[p].token]
          \in Response
    BY <2>1 DEF Redeemed, Response
  <2>3. PICK e : /\ respond(p, 302, e, req[p].realm, reply[p].token) /\ e # "unknown_realm"
                /\ [status |-> 302, error |-> e, realm |-> req[p].realm,
                    token |-> reply[p].token] \in Response
    <3>1. "" # "unknown_realm"
      OBVIOUS
    <3>2. respond(p, 302, "", req[p].realm, reply[p].token)
      BY <1>3, <1>6, Zenon
    <3> QED BY <2>2, <3>1, <3>2, Zenon
  <2>4. /\ pc' \in [Req -> {"idle", "creating", "consuming", "exchanging", "responded"}]
        /\ response' \in [Req -> Response \cup {None}]
        /\ pc'[p] = "responded" /\ response'[p].token = reply[p].token
        /\ response'[p].error # "unknown_realm" /\ response'[p].realm = req[p].realm
        /\ \A q \in Req \ {p} : pc'[q] = pc[q] /\ response'[q] = response[q]
    BY <2>3, <1>t, RespondStep
  <2>5. LoginTypeOK'
    BY <1>t, <1>h, <2>4 DEF LoginTypeOK, TypeOK
  <2>6. Redeemed(p, response[p].token)' /\ Consumed(p)'
    BY <2>1, <2>4, <1>h DEF Redeemed, Consumed
  <2>7. RequestInv(p)'
    BY <2>4, <2>6, <1>1, <1>4, <1>h DEF RequestInv, Responded
  <2> QED BY <1>1, <1>h, <2>4, <2>5, <2>7, QuietStep DEF OthersStay
<1> QED BY <1>5, <1>6

LEMMA FinishStep ==
  ASSUME IInv, NEW p \in Req, Finish(p)
  PROVE  IInv'
<1>h. /\ UNCHANGED <<clock, live, handed, locations, codes, reply, started, exchanges>>
      /\ pc[p] = "responded" /\ pc' = [pc EXCEPT ![p] = "idle"]
      /\ req' = [req EXCEPT ![p] = None] /\ response' = [response EXCEPT ![p] = None]
  BY DEF Finish, storeVars
<1>t. LoginTypeOK /\ reply[p] = None
  BY <1>h DEF IInv, RequestsInv, RequestInv
<1>1. LoginTypeOK'
  BY <1>t, <1>h DEF LoginTypeOK, TypeOK
<1>2. /\ pc'[p] = "idle" /\ req'[p] = None
      /\ \A q \in Req \ {p} : pc'[q] = pc[q] /\ req'[q] = req[q] /\ response'[q] = response[q]
  BY <1>t, <1>h DEF LoginTypeOK
<1>3. RequestInv(p)'
  BY <1>2, <1>t, <1>h DEF RequestInv
<1> QED BY <1>1, <1>2, <1>3, <1>h, QuietStep DEF OthersStay

-----------------------------------------------------------------------------
\* The steps of the environment.

LEMMA HttpFailsStep ==
  ASSUME IInv, NEW p \in Req, HttpFails(p)
  PROVE  IInv'
<1>h. /\ UNCHANGED <<clock, live, handed, locations, codes, pc, req, response, started, exchanges>>
      /\ pc[p] = "exchanging"
  BY DEF HttpFails, storeVars
<1>t. LoginTypeOK /\ RequestInv(p) /\ Exchanging(p)
  BY <1>h DEF IInv, RequestsInv, RequestInv
<1>1. PICK status \in {0, 200} : reply' = [reply EXCEPT ![p] = [status |-> status, token |-> None]]
  BY DEF HttpFails
<1> DEFINE new == [status |-> status, token |-> None]
<1>2. new \in HttpReply /\ new.token = None /\ reply' = [reply EXCEPT ![p] = new]
  BY <1>1 DEF HttpReply
<1> HIDE DEF new
<1>3. LoginTypeOK'
  BY <1>t, <1>h, <1>2 DEF LoginTypeOK, TypeOK
<1>4. reply'[p].token = None /\ \A q \in Req \ {p} : reply'[q] = reply[q]
  BY <1>t, <1>2 DEF LoginTypeOK
<1>5. Exchanging(p)'
  BY <1>t, <1>h, <1>4 DEF Exchanging, Called, Consumed
<1>6. RequestInv(p)'
  BY <1>t, <1>h, <1>5 DEF RequestInv
<1> QED BY <1>3, <1>4, <1>6, <1>h, QuietStep DEF OthersStay

\* Spending a code leaves it what it is bound to.
LEMMA Spends ==
  ASSUME LoginTypeOK, NEW c \in Code, codes[c] # None,
         codes' = codes \/ codes' = [codes EXCEPT ![c].spent = TRUE]
  PROVE  /\ codes' \in [Code -> Grant \cup {None}]
         /\ \A d \in Code : codes[d] # None =>
              /\ codes'[d] # None /\ codes'[d].realm = codes[d].realm
              /\ codes'[d].state = codes[d].state /\ codes'[d].challenge = codes[d].challenge
         /\ \A d \in Code : codes[d] = None => codes'[d] = None
<1> DEFINE new == [codes[c] EXCEPT !.spent = TRUE]
<1>1. codes[c] \in Grant
  BY DEF LoginTypeOK
<1>2. /\ new \in Grant /\ new.realm = codes[c].realm /\ new.state = codes[c].state
      /\ new.challenge = codes[c].challenge
  BY <1>1 DEF Grant
<1>3. codes' = codes \/ codes' = [codes EXCEPT ![c] = new]
  OBVIOUS
<1> HIDE DEF new
<1> QED BY <1>1, <1>2, <1>3, Records DEF LoginTypeOK

LEMMA TokenEndpointStep ==
  ASSUME IInv, NEW p \in Req, TokenEndpoint(p)
  PROVE  IInv'
<1> DEFINE c == req[p].code
<1>h. /\ UNCHANGED <<clock, live, handed, locations, pc, req, response, started, exchanges>>
      /\ pc[p] = "exchanging"
  BY DEF TokenEndpoint, storeVars
<1>t. LoginTypeOK /\ RequestInv(p) /\ Exchanging(p) /\ Called(p)
  BY <1>h DEF IInv, RequestsInv, RequestInv, Exchanging
<1>1. c \in Code /\ codes[c] # None
  BY <1>t DEF Called
<1>2. codes' = codes \/ codes' = [codes EXCEPT ![c].spent = TRUE]
  BY DEF TokenEndpoint
<1>3. \E s \in {200, 400}, t \in Code \cup {None} :
         /\ reply' = [reply EXCEPT ![p] = [status |-> s, token |-> t]]
         /\ t # None => t = c /\ redeemable(p)
  BY <1>1 DEF TokenEndpoint
<1> HIDE DEF c
<1>4. PICK s \in {200, 400}, t \in Code \cup {None} :
         /\ reply' = [reply EXCEPT ![p] = [status |-> s, token |-> t]]
         /\ t # None => t = c /\ redeemable(p)
  BY <1>3
<1> DEFINE new == [status |-> s, token |-> t]
<1>5. new \in HttpReply /\ new.token = t /\ reply' = [reply EXCEPT ![p] = new]
  BY <1>4 DEF HttpReply
<1> HIDE DEF new
<1>6. /\ codes' \in [Code -> Grant \cup {None}]
      /\ \A d \in Code : codes[d] # None =>
           /\ codes'[d] # None /\ codes'[d].realm = codes[d].realm
           /\ codes'[d].state = codes[d].state /\ codes'[d].challenge = codes[d].challenge
      /\ \A d \in Code : codes[d] = None => codes'[d] = None
  BY <1>1, <1>2, <1>t, Spends
<1>7. LoginTypeOK'
  BY <1>t, <1>h, <1>5, <1>6 DEF LoginTypeOK, TypeOK
<1>8. reply'[p].token = t /\ \A q \in Req \ {p} : reply'[q] = reply[q]
  BY <1>t, <1>5 DEF LoginTypeOK
<1>9. t # None => Redeemed(p, t)'
  <2>1. redeemable(p) => codes[c].realm = req[p].realm /\ codes[c].challenge = req[p].verifier
    BY DEF redeemable, c
  <2> QED BY <2>1, <1>1, <1>4, <1>6, <1>h DEF Redeemed
<1>10. Called(p)' /\ Consumed(p)'
  BY <1>t, <1>h, <1>6 DEF Exchanging, Called, Consumed
<1>11. Exchanging(p)'
  BY <1>t, <1>h, <1>8, <1>9, <1>10 DEF Exchanging
<1>12. RequestInv(p)'
  BY <1>t, <1>h, <1>11 DEF RequestInv
<1>13. {p} \in SUBSET Req /\ \A q \in {p} : pc'[q] # "creating" /\ RequestInv(q)'
  BY <1>12, <1>h
<1>14. \A q \in Req \ {p} : /\ pc'[q] = pc[q] /\ req'[q] = req[q]
                            /\ reply'[q] = reply[q] /\ response'[q] = response[q]
  BY <1>8, <1>h
<1>15. \A d \in Code : codes[d] = None /\ codes'[d] # None =>
         \E l \in locations : /\ codes'[d].realm = l.realm /\ codes'[d].state = l.state
                              /\ codes'[d].challenge = l.challenge
  BY <1>6
<1>16. UNCHANGED <<live, handed, locations, started, exchanges>>
  BY <1>h
<1> QED BY <1>6, <1>7, <1>13, <1>14, <1>15, <1>16, CodesStep

LEMMA AuthorizeStep ==
  ASSUME IInv, NEW l \in locations, NEW c \in Code, Authorize(l, c)
  PROVE  IInv'
<1> DEFINE new == [realm |-> l.realm, state |-> l.state, challenge |-> l.challenge,
                   spent |-> FALSE]
<1>h. /\ UNCHANGED <<clock, live, handed, locations, pc, req, reply, response, started, exchanges>>
      /\ codes[c] = None /\ codes' = [codes EXCEPT ![c] = new]
  BY DEF Authorize, storeVars
<1>t. LoginTypeOK
  BY DEF IInv
<1>1. /\ new \in Grant /\ new.realm = l.realm /\ new.state = l.state
      /\ new.challenge = l.challenge
  BY <1>t DEF LoginTypeOK, Location, Grant
<1> HIDE DEF new
<1>2. LoginTypeOK'
  BY <1>t, <1>h, <1>1 DEF LoginTypeOK, TypeOK
<1>3. codes'[c] = new /\ \A d \in Code \ {c} : codes'[d] = codes[d]
  BY <1>t, <1>h DEF LoginTypeOK
<1>4. {} \in SUBSET Req
  OBVIOUS
<1> QED BY <1>1, <1>2, <1>3, <1>4, <1>h, CodesStep

LEMMA TickStep ==
  ASSUME IInv, LoginTick
  PROVE  IInv'
<1> DEFINE L == MaxClock
<1>1. clock \in 0 .. L /\ L \in Nat
  BY StateStoreAssumption DEF StateStoreAssumption, IInv, LoginTypeOK, TypeOK
<1>2. clock < L /\ clock' = clock + 1
  BY DEF LoginTick, Tick
<1> HIDE DEF L
<1>3. clock' \in 0 .. L
  BY <1>1, <1>2
<1> USE DEF L
<1>h. UNCHANGED <<live, handed, locations, codes, pc, req, reply, response, started, exchanges>>
  BY DEF LoginTick, Tick
<1>4. LoginTypeOK'
  BY <1>3, <1>h DEF IInv, LoginTypeOK, TypeOK
<1>5. {} \in SUBSET Req
  OBVIOUS
<1> QED BY <1>4, <1>5, <1>h, CodesStep

-----------------------------------------------------------------------------
LEMMA InitInv == LoginInit => IInv
<1> SUFFICES ASSUME LoginInit PROVE IInv
  OBVIOUS
<1> DEFINE L == MaxClock
<1>a. L \in Nat
  BY StateStoreAssumption DEF StateStoreAssumption
<1> HIDE DEF L
<1>b. 0 \in 0 .. L
  BY <1>a
<1> USE DEF L
<1>c. clock \in 0 .. MaxClock /\ live = {} /\ handed \in [Verifier -> Nat]
  BY <1>b DEF LoginInit, Init
<1>1. LoginTypeOK
  BY <1>c DEF LoginInit, LoginTypeOK, TypeOK
<1>2. HeldInv /\ LocationInv /\ CountInv
  BY DEF LoginInit, Init, HeldInv, LocationInv, CountInv
<1>3. RequestsInv
  BY DEF LoginInit, RequestsInv, RequestInv
<1> QED BY <1>1, <1>2, <1>3 DEF IInv

LEMMA NextKeeps == IInv /\ [LoginNext]_vars => IInv'
<1> SUFFICES ASSUME IInv, [LoginNext]_vars PROVE IInv'
  OBVIOUS
<1>1. ASSUME NEW p \in Req, Login(p) PROVE IInv'
  BY <1>1, LoginRefusedStep, LoginStartsStep DEF Login
<1>2. ASSUME NEW p \in Req, Callback(p) PROVE IInv'
  <2>1. PICK c \in KnownCode \cup {None}, s \in KnownState \cup {None} :
           CallbackRefused(p, c, s) \/ \E i \in Instance : CallbackStarts(p, i, c, s)
    BY <1>2 DEF Callback
  <2>2. CASE CallbackRefused(p, c, s)
    BY <2>2, CallbackRefusedStep
  <2>3. ASSUME NEW i \in Instance, CallbackStarts(p, i, c, s) PROVE IInv'
    <3>1. c \in KnownCode /\ s \in KnownState
      BY <2>3 DEF CallbackStarts
    <3>2. c \in Code /\ codes[c] # None /\ s \in State
      BY <3>1 DEF KnownCode, KnownState, IInv, LoginTypeOK, Location
    <3> QED BY <2>3, <3>2, CallbackStartsStep
  <2> QED BY <2>1, <2>2, <2>3
<1>3. ASSUME NEW p \in Req, Handle(p) PROVE IInv'
  <2>1. CASE Create(p)
    BY <2>1, LoginStoredStep, LoginThrowsStep DEF Create
  <2>2. CASE Consume(p)
    BY <2>2, CallbackTakesStep, CallbackUnknownRealmStep, CallbackMissesStep, ConsumeThrowsStep
       DEF Consume
  <2> QED BY <1>3, <2>1, <2>2, CallbackAnswersStep, ExchangeThrowsStep DEF Handle
<1>4. ASSUME NEW p \in Req, Http(p) PROVE IInv'
  BY <1>4, TokenEndpointStep, HttpFailsStep DEF Http
<1>5. ASSUME NEW p \in Req, Finish(p) PROVE IInv'
  BY <1>5, FinishStep
<1>6. ASSUME NEW l \in locations, NEW c \in Code, Authorize(l, c) PROVE IInv'
  BY <1>6, AuthorizeStep
<1>7. CASE LoginTick
  BY <1>7, TickStep
<1>8. CASE UNCHANGED vars
  <2>1. UNCHANGED <<clock, live, handed, locations, codes, pc, req, reply, response, started,
                    exchanges>>
    BY <1>8 DEF vars, storeVars
  <2>2. LoginTypeOK'
    BY <2>1 DEF IInv, LoginTypeOK, TypeOK
  <2>3. {} \in SUBSET Req
    OBVIOUS
  <2> QED BY <2>1, <2>2, <2>3, CodesStep
<1> QED BY <1>1, <1>2, <1>3, <1>4, <1>5, <1>6, <1>7, <1>8 DEF LoginNext

-----------------------------------------------------------------------------
\* What the invariant says of the cookies, of the exchanges and of the realms.

LEMMA TokensFollow == IInv => TokensForTheLogin
<1> SUFFICES ASSUME IInv, NEW p \in Req, pc[p] = "responded", response[p].token # None
             PROVE  LET g == codes[response[p].token] IN
                    /\ g.challenge = req[p].verifier
                    /\ g.state = req[p].state
                    /\ g.realm = response[p].realm
                    /\ started[g.challenge].realm = response[p].realm
  BY DEF TokensForTheLogin
<1> DEFINE g == codes[response[p].token]
<1>1. /\ Consumed(p) /\ Redeemed(p, response[p].token)
      /\ response[p].realm = req[p].realm
  BY DEF IInv, RequestsInv, RequestInv, Responded
<1>2. PICK l \in locations : g.realm = l.realm /\ g.state = l.state /\ g.challenge = l.challenge
  BY <1>1 DEF IInv, LocationInv, Redeemed
<1>3. started[l.challenge].realm = l.realm
  BY DEF IInv, LocationInv
<1> QED BY <1>1, <1>2, <1>3 DEF Consumed, Redeemed

LEMMA CountsFollow == IInv => ExchangedOnce
<1> SUFFICES ASSUME IInv, NEW v \in Verifier PROVE exchanges[v] <= 1
  BY DEF ExchangedOnce
<1>1. exchanges[v] \in Nat /\ handed[v] \in Nat
  BY DEF IInv, LoginTypeOK, TypeOK
<1> QED BY <1>1 DEF IInv, CountInv

LEMMA RoutesFollow == IInv => RealmRouting
BY DEF IInv, RequestsInv, RequestInv, Exchanging, Responded, RealmRouting

-----------------------------------------------------------------------------
\* The inductive invariant holds of every behaviour of the instances.
THEOREM Invariance == LoginSpec => []IInv
<1>1. LoginInit => IInv
  BY InitInv
<1>2. IInv /\ [LoginNext]_vars => IInv'
  BY NextKeeps
<1> QED BY <1>1, <1>2, PTL DEF LoginSpec

\* Every variable keeps its type.
THEOREM TypeCorrect == LoginSpec => []LoginTypeOK
<1>1. IInv => LoginTypeOK
  BY DEF IInv
<1> QED BY <1>1, Invariance, PTL

\* The tokens in a callback's cookies are those of the login whose state it
\* brought, whatever else browsers sent meanwhile, and of that login's realm.
THEOREM TokensCorrect == LoginSpec => []TokensForTheLogin
BY TokensFollow, Invariance, PTL

\* A verifier is sent to Keycloak at most once, by whichever instance.
THEOREM OneExchange == LoginSpec => []ExchangedOnce
BY CountsFollow, Invariance, PTL

\* A MultiRealmManager exchanges at the realm of the login, and refuses no
\* login of a realm that it serves.
THEOREM RoutesCorrect == LoginSpec => []RealmRouting
BY RoutesFollow, Invariance, PTL

-----------------------------------------------------------------------------
\* A step of the login flow is a step of the store, or leaves the store alone.
LEMMA StoreSteps ==
  ASSUME IInv, [LoginNext]_vars
  PROVE  [Next]_storeVars
<1>1. ASSUME NEW p \in Req, NEW s \in State, pc[p] = "creating", stores(p, s)
      PROVE  Next
  <2>1. Creating(p)
    BY <1>1 DEF IInv, RequestsInv, RequestInv
  <2>2. /\ req[p].verifier \in Verifier
        /\ stored_realm(req[p].inst, req[p].realm) \in Realm
        /\ StateTtl \in Ttl
    BY <2>1, LoginAssumption DEF LoginAssumption, Creating, stored_realm
  <2> QED BY <1>1, <2>2 DEF stores, Next
<1>2. ASSUME NEW p \in Req, Login(p) PROVE UNCHANGED storeVars
  BY <1>2 DEF Login, LoginRefused, LoginStarts
<1>3. ASSUME NEW p \in Req, Callback(p) PROVE UNCHANGED storeVars
  BY <1>3 DEF Callback, CallbackRefused, CallbackStarts
<1>4. ASSUME NEW p \in Req, Create(p) PROVE [Next]_storeVars
  BY <1>1, <1>4 DEF Create, LoginStored, LoginThrows
<1>5. ASSUME NEW p \in Req, Consume(p) PROVE [Next]_storeVars
  BY <1>5 DEF Consume, CallbackTakes, CallbackUnknownRealm, CallbackMisses, ConsumeThrows,
              Next
<1>6. ASSUME NEW p \in Req,
             CallbackAnswers(p) \/ ExchangeThrows(p) \/ Http(p) \/ Finish(p)
      PROVE  UNCHANGED storeVars
  BY <1>6 DEF CallbackAnswers, ExchangeThrows, Http, TokenEndpoint, HttpFails, Finish
<1>7. ASSUME NEW l \in locations, NEW c \in Code, Authorize(l, c)
      PROVE  UNCHANGED storeVars
  BY <1>7 DEF Authorize
<1>8. ASSUME LoginTick PROVE Next
  BY <1>8 DEF LoginTick, Next
<1>9. ASSUME UNCHANGED vars PROVE UNCHANGED storeVars
  BY <1>9 DEF vars
<1> QED BY <1>2, <1>3, <1>4, <1>5, <1>6, <1>7, <1>8, <1>9 DEF LoginNext, Handle

\* Whatever the handlers do, the store they share is one that keeps its promise:
\* they store a verifier once, under a state that is free, and take an entry with
\* the deadline and the realm it was stored with.
THEOREM UsesStore == LoginSpec => Spec
<1>1. LoginInit => Init
  BY DEF LoginInit
<1>2. IInv /\ [LoginNext]_vars => [Next]_storeVars
  BY StoreSteps
<1> QED BY <1>1, <1>2, Invariance, PTL DEF LoginSpec, Spec
=============================================================================
