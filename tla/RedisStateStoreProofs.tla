------------------------ MODULE RedisStateStoreProofs ------------------------
(***************************************************************************)
(* The safety properties of RedisStateStore, for any number of coroutines, *)
(* states, verifiers, lifetimes, attempts and any width of an int, and     *)
(* that it implements StateStore.                                          *)
(***************************************************************************)
EXTENDS RedisStateStore, TLAPS

\* A lifetime that Redis gets is an integer, and positive if it fits an int.
LEMMA Lifetime ==
  ASSUME NEW ttl \in Ttl
  PROVE  /\ ttl_seconds(ttl) \in Int
         /\ ttl < IntLimit => ttl_seconds(ttl) > 0
<1> DEFINE L == IntLimit
           n == IF ttl > 1 THEN ttl ELSE 1
<1>1. L \in Nat
  BY RedisAssumption DEF RedisAssumption
<1>2. L > 1
  BY RedisAssumption DEF RedisAssumption
<1>3. ttl \in Int
  BY RedisAssumption DEF RedisAssumption
<1>4. ttl_seconds(ttl) = ((n + L) % (2 * L)) - L
  BY DEF ttl_seconds, to_int
<1> HIDE DEF L
<1>5. n \in Int /\ (ttl < L => n < L) /\ n >= 1
  BY <1>1, <1>2, <1>3
<1> HIDE DEF n
<1>6. \A a, b \in Int : b > 0 => a % b \in Int
  OBVIOUS
<1>7. \A a, b \in Int : 0 <= a /\ a < b => a % b = a
  OBVIOUS
<1>8. 2 * L \in Int /\ 2 * L > 0 /\ n + L \in Int
  BY <1>1, <1>2, <1>5
<1>9. ttl_seconds(ttl) \in Int
  BY <1>1, <1>4, <1>6, <1>8
<1>10. ASSUME ttl < L PROVE ttl_seconds(ttl) > 0
  <2>1. 0 <= n + L /\ n + L < 2 * L
    BY <1>1, <1>5, <1>10
  <2>2. (n + L) % (2 * L) = n + L
    BY <1>7, <1>8, <2>1
  <2> QED BY <1>1, <1>4, <1>5, <2>2
<1> QED BY <1>9, <1>10 DEF L

LEMMA Bounds == 0 \in 0 .. MaxAttempts - 1 /\ MaxAttempts \in Int
<1> DEFINE M == MaxAttempts
<1>1. M \in Nat \ {0}
  BY RedisAssumption DEF RedisAssumption
<1> HIDE DEF M
<1> QED BY <1>1 DEF M

\* None is none of the values it stands beside.
LEMMA NoneApart ==
  /\ None \notin State /\ None \notin Realm /\ None \notin StateEntry /\ None \notin CreateCall
  /\ None \notin Int /\ None \notin Reply
  BY RedisAssumption DEF RedisAssumption

\* The arguments of a create call in progress.
LEMMA OwnType ==
  ASSUME TypeOK, CallInv, NEW p \in Proc, Creating(p)
  PROVE  /\ own(p) \in Verifier
         /\ arg[p].entry.realm \in Realm
         /\ arg[p].ttl \in Ttl
  BY DEF CallInv, CreateCall, StateEntry, own

\* The command a coroutine waits for.
LEMMA SetCommand ==
  ASSUME TypeOK, CallInv, NEW p \in Proc, pc[p] = "set"
  PROVE  /\ command(p) \in Command
         /\ command(p).op = "SET"
         /\ command(p).key = key[p]
         /\ command(p).ttl = ttl_seconds(arg[p].ttl)
         /\ command(p).value = [form |-> "fields", verifier |-> own(p), realm |-> arg[p].entry.realm]
<1>1. Creating(p)
  BY DEF Creating
<1>2. key[p] \in State
  BY DEF CallInv
<1> QED BY <1>1, <1>2, OwnType DEF command, encode_state_entry, Command, Value, own

LEMMA GetdelCommand ==
  ASSUME TypeOK, CallInv, NEW p \in Proc, pc[p] = "getdel"
  PROVE  command(p) \in Command /\ command(p).op = "GETDEL" /\ command(p).key = arg[p]
  BY DEF CallInv, command, Command

-----------------------------------------------------------------------------
\* The steps of the client.  ConsumedIntact follows from CallInv, HandedInv and
\* what GetdelHit decodes.

LEMMA CallCreateStep ==
  ASSUME IInv, NEW p \in Proc, NEW e \in StateEntry, NEW ttl \in Ttl, CallCreate(p, e, ttl)
  PROVE  IInv'
<1> USE DEF IInv
<1> DEFINE v == e.code_verifier
<1>a. v \in Verifier /\ e.realm \in Realm /\ e.realm # None
  BY NoneApart DEF StateEntry
<1>b. [entry |-> e, ttl |-> ttl] \in CreateCall
  BY DEF CreateCall
<1>c. arg'[p] = [entry |-> e, ttl |-> ttl] /\ pc'[p] = "draw" /\ own(p)' = v
  BY DEF CallCreate, TypeOK, own
<1>d. \A q \in Proc \ {p} : arg'[q] = arg[q] /\ pc'[q] = pc[q] /\ own(q)' = own(q)
  BY DEF CallCreate, TypeOK, own
<1>e. requested[v] = None /\ due[v] = None
  BY <1>a DEF CallCreate, HandedInv
<1>f. \A w \in Verifier : requested'[w] = IF w = v THEN e.realm ELSE requested[w]
  BY DEF CallCreate, TypeOK
<1>g. reply[p] = None /\ ret[p] = None /\ pc[p] = "idle"
  BY DEF CallCreate, CallInv
<1>h. UNCHANGED <<clock, redis, due, handed, key, reply, stray, ret, received>>
  BY DEF CallCreate, serverVars
<1>i. /\ arg' \in [Proc -> CreateCall \cup State \cup {None}]
      /\ pc' = [pc EXCEPT ![p] = "draw"] /\ attempt' = [attempt EXCEPT ![p] = 0]
      /\ requested' \in [Verifier -> Realm \cup {None}]
  BY <1>a, <1>b DEF CallCreate, TypeOK
<1> HIDE DEF v
<1>1. TypeOK'
  BY <1>h, <1>i, Bounds DEF TypeOK
<1>2. CallInv'
  BY <1>b, <1>c, <1>d, <1>g, <1>h DEF CallInv, Creating
<1>3. MapInv'
  <2>1. \A f \in redis : f.verifier \in Verifier /\ f.realm # None
    BY NoneApart DEF TypeOK, Slot
  <2>2. \A f \in redis : f.verifier # v
    BY <1>e, <2>1 DEF MapInv
  <2> QED BY <1>f, <1>h, <2>1, <2>2 DEF MapInv
<1>4. OwnInv'
  <2>1. \A q \in Proc \ {p} : Creating(q) => own(q) \in Verifier /\ own(q) # v
    BY <1>e, OwnType, NoneApart DEF OwnInv
  <2>2. \A q \in Proc \ {p} : /\ Creating(q)' <=> Creating(q)
                              /\ Setting(q)' <=> Setting(q)
    BY <1>d, <1>h DEF Creating, Setting, Stored
  <2>3. Creating(p)' /\ Setting(p)'
    BY <1>c DEF Creating, Setting
  <2>4. arg'[p].entry.realm = e.realm
    BY <1>c
  <2> QED BY <1>a, <1>c, <1>d, <1>e, <1>f, <1>h, <2>1, <2>2, <2>3, <2>4 DEF OwnInv
<1>5. StrayInv'
  <2>1. \A q \in Proc : Straying(q) => lost(q) \in Verifier /\ stray[q].value.realm # None
    BY NoneApart DEF TypeOK, Straying, lost, Command, Value
  <2>2. \A q \in Proc : Straying(q) => lost(q) # v
    BY <1>e, <2>1 DEF StrayInv
  <2>3. \A q \in Proc \ {p} : Creating(q)' => Creating(q)
    BY <1>d DEF Creating
  <2>4. \A q \in Proc : (Straying(q)' <=> Straying(q)) /\ lost(q)' = lost(q)
    BY <1>h DEF Straying, lost
  <2> QED BY <1>c, <1>d, <1>f, <1>h, <2>1, <2>2, <2>3, <2>4 DEF StrayInv
<1>6. HandedInv'
  <2>1. \A q \in Proc : Bulk(q) => found_by(q) \in Verifier /\ reply[q].value.realm # None
    BY NoneApart DEF TypeOK, Bulk, found_by, Reply, Value
  <2>2. \A q \in Proc : (Bulk(q)' <=> Bulk(q)) /\ found_by(q)' = found_by(q)
    BY <1>h DEF Bulk, found_by
  <2>3. \A w \in Verifier : requested'[w] # None <=> w = v \/ requested[w] # None
    BY <1>a, <1>f
  <2>4. \A q \in Proc : Bulk(q) => requested'[found_by(q)] = reply[q].value.realm
    BY <1>e, <1>f, <2>1 DEF HandedInv
  <2>5. ReceivedOnce'
    BY <1>h DEF HandedInv, ReceivedOnce
  <2>6. /\ \A w \in Verifier : due'[w] = None => handed'[w] = 0
        /\ \A w \in Verifier : due'[w] # None => requested'[w] # None
    BY <1>h, <2>3 DEF HandedInv
  <2>7. ASSUME NEW q \in Proc, Bulk(q)'
        PROVE  /\ handed'[found_by(q)'] = 1 /\ received'[found_by(q)'] = 0
               /\ requested'[found_by(q)'] = reply'[q].value.realm
               /\ reply'[q].value.form = "bare" => reply'[q].value.realm = ""
               /\ \A r \in Proc : Bulk(r)' /\ found_by(r)' = found_by(q)' => r = q
    <3>1. Bulk(q) /\ found_by(q)' = found_by(q) /\ reply'[q] = reply[q]
      BY <1>h, <2>2, <2>7
    <3>2. \A r \in Proc : Bulk(r) /\ found_by(r) = found_by(q) => r = q
      BY <3>1 DEF HandedInv
    <3>3. \A r \in Proc : Bulk(r)' /\ found_by(r)' = found_by(q)' => r = q
      BY <2>2, <3>1, <3>2
    <3>4. handed[found_by(q)] = 1 /\ received[found_by(q)] = 0
      BY <3>1 DEF HandedInv
    <3>5. reply[q].value.form = "bare" => reply[q].value.realm = ""
      BY <3>1 DEF HandedInv
    <3>6. requested'[found_by(q)'] = reply'[q].value.realm
      BY <2>4, <3>1
    <3> QED BY <1>h, <3>1, <3>3, <3>4, <3>5, <3>6
  <2> QED BY <2>5, <2>6, <2>7 DEF HandedInv
<1>7. OutcomeInv'
  <2>1. \A q \in Proc : Stored(q)' \/ pc'[q] = "created" =>
          q # p /\ (Stored(q) \/ pc[q] = "created")
    BY <1>c, <1>d, <1>g, <1>h DEF Stored
  <2>2. \A q \in Proc : reply'[q] # None => q # p
    BY <1>g, <1>h
  <2> QED BY <1>d, <1>h, <2>1, <2>2 DEF OutcomeInv
<1>8. ConsumedIntact'
  <2>1. \A q \in Proc : pc[q] = "consumed" /\ ret[q] # None =>
          ret[q].code_verifier \in Verifier /\ ret[q].realm # None
    BY NoneApart DEF CallInv, StateEntry
  <2> QED BY <1>c, <1>d, <1>e, <1>f, <1>h, <2>1 DEF ConsumedIntact
<1> QED BY <1>1, <1>2, <1>3, <1>4, <1>5, <1>6, <1>7, <1>8

\* What most steps of a coroutine have in common: they take the answer, if there
\* is one, and touch neither Redis nor another coroutine.
LEMMA ClientStep ==
  ASSUME IInv, TypeOK', NEW p \in Proc,
         UNCHANGED <<clock, redis, due, handed, requested>>,
         UNCHANGED stray \/ StrayInv',
         UNCHANGED received \/ HandedInv',
         \A q \in Proc \ {p} : /\ pc'[q] = pc[q] /\ arg'[q] = arg[q] /\ key'[q] = key[q]
                              /\ reply'[q] = reply[q] /\ ret'[q] = ret[q],
         reply'[p] = None,
         Creating(p)' => /\ Creating(p) /\ arg'[p] = arg[p]
                         /\ pc'[p] = "created" <=> Stored(p)
                         /\ pc[p] # "created",
         pc'[p] = "getdel" => arg'[p] \in State,
         pc'[p] \in {"set", "created"} => key'[p] \in State,
         pc'[p] = "created" => ret'[p] = key[p] /\ key'[p] = key[p],
         pc'[p] = "consumed" => ret'[p] \in StateEntry \cup {None},
         pc'[p] = "consumed" /\ ret'[p] # None =>
           requested[ret'[p].code_verifier] = ret'[p].realm,
         pc'[p] \notin {"created", "consumed"} => ret'[p] = None
  PROVE  IInv'
<1> USE DEF IInv
<1>1. \A q \in Proc : /\ Creating(q)' => Creating(q) /\ arg'[q] = arg[q]
                      /\ Creating(q)' => own(q)' = own(q)
  BY DEF Creating, own
<1>2. \A q \in Proc : Creating(q)' => (Setting(q)' <=> Setting(q))
  BY DEF Creating, Setting, Stored
<1>3. \A q \in Proc \ {p} : Stored(q)' <=> Stored(q)
  BY DEF Stored
<1>4. ~ Stored(p)' /\ (Stored(p) => Creating(p))
  BY DEF Stored, Creating
<1>5. CallInv'
  <2>1. ASSUME NEW q \in Proc \ {p}
        PROVE  /\ Creating(q)' => arg'[q] \in CreateCall
               /\ pc'[q] = "getdel" => arg'[q] \in State
               /\ pc'[q] \in {"set", "created"} => key'[q] \in State
               /\ pc'[q] = "created" => ret'[q] = key'[q]
               /\ pc'[q] = "consumed" => ret'[q] \in StateEntry \cup {None}
               /\ pc'[q] \notin {"created", "consumed"} => ret'[q] = None
               /\ reply'[q] # None =>
                    \/ pc'[q] = "set" /\ reply'[q].status \in {"OK", "nil", "error"}
                    \/ pc'[q] = "getdel" /\ reply'[q].status \in {"nil", "bulk"}
    BY <1>1 DEF CallInv
  <2>2. Creating(p)' => arg'[p] \in CreateCall
    BY <1>1 DEF CallInv
  <2> QED BY <2>1, <2>2 DEF CallInv
<1>6. MapInv'
  BY DEF MapInv
<1>7. OwnInv'
  BY <1>1, <1>2 DEF OwnInv
<1>8. ASSUME UNCHANGED stray PROVE StrayInv'
  BY <1>1, <1>8 DEF StrayInv, Straying, lost
<1>9. ASSUME UNCHANGED received PROVE HandedInv'
  <2>1. \A q \in Proc : Bulk(q)' => Bulk(q) /\ reply'[q] = reply[q]
    BY DEF Bulk
  <2>2. \A q \in Proc : Bulk(q)' => found_by(q)' = found_by(q)
    BY <2>1 DEF found_by
  <2>3. ReceivedOnce'
    BY <1>9 DEF HandedInv, ReceivedOnce
  <2>4. /\ \A w \in Verifier : due'[w] = None => handed'[w] = 0
        /\ \A w \in Verifier : due'[w] # None => requested'[w] # None
    BY DEF HandedInv
  <2>5. ASSUME NEW q \in Proc, Bulk(q)'
        PROVE  /\ handed'[found_by(q)'] = 1 /\ received'[found_by(q)'] = 0
               /\ requested'[found_by(q)'] = reply'[q].value.realm
               /\ reply'[q].value.form = "bare" => reply'[q].value.realm = ""
               /\ \A r \in Proc : Bulk(r)' /\ found_by(r)' = found_by(q)' => r = q
    <3>1. Bulk(q) /\ found_by(q)' = found_by(q) /\ reply'[q] = reply[q]
      BY <2>1, <2>2, <2>5
    <3>2. /\ handed[found_by(q)] = 1 /\ received[found_by(q)] = 0
          /\ requested[found_by(q)] = reply[q].value.realm
          /\ reply[q].value.form = "bare" => reply[q].value.realm = ""
      BY <3>1 DEF HandedInv
    <3>3. \A r \in Proc : Bulk(r) /\ found_by(r) = found_by(q) => r = q
      BY <3>1 DEF HandedInv
    <3>4. \A r \in Proc : Bulk(r)' /\ found_by(r)' = found_by(q)' => r = q
      BY <2>1, <2>2, <3>1, <3>3
    <3> QED BY <1>9, <3>1, <3>2, <3>4
  <2> QED BY <2>3, <2>4, <2>5 DEF HandedInv
<1>10. OutcomeInv'
  <2>1. ASSUME NEW q \in Proc, Stored(q)' \/ pc'[q] = "created"
        PROVE  \/ handed'[own(q)'] = 1
               \/ due'[own(q)'] <= clock'
               \/ \E e \in redis' : e.state = key'[q] /\ e.verifier = own(q)'
    <3>1. Creating(q)'
      BY <2>1 DEF Stored, Creating
    <3>2. Stored(q) \/ pc[q] = "created"
      BY <1>3, <1>4, <2>1, <3>1
    <3>3. key'[q] = key[q]
      BY <1>4, <2>1
    <3>4. own(q)' = own(q)
      BY <1>1, <3>1
    <3>5. \/ handed[own(q)] = 1
          \/ due[own(q)] <= clock
          \/ \E e \in redis : e.state = key[q] /\ e.verifier = own(q)
      BY <3>2 DEF OutcomeInv
    <3> QED BY <3>3, <3>4, <3>5
  <2>2. ASSUME NEW q \in Proc, reply'[q] # None, reply'[q].status = "error"
        PROVE  arg'[q].ttl >= IntLimit
    <3>1. q # p
      BY <2>2
    <3>2. reply[q] # None /\ reply[q].status = "error" /\ arg'[q] = arg[q]
      BY <2>2, <3>1
    <3> QED BY <3>2 DEF OutcomeInv
  <2> QED BY <2>1, <2>2 DEF OutcomeInv
<1>11. ConsumedIntact'
  <2>1. ASSUME NEW q \in Proc, pc'[q] = "consumed", ret'[q] # None
        PROVE  requested'[ret'[q].code_verifier] = ret'[q].realm
    <3>1. CASE q = p
      BY <2>1, <3>1
    <3>2. CASE q # p
      BY <2>1, <3>2 DEF ConsumedIntact
    <3> QED BY <3>1, <3>2
  <2> QED BY <2>1 DEF ConsumedIntact
<1> QED BY <1>5, <1>6, <1>7, <1>8, <1>9, <1>10, <1>11

LEMMA ClientSteps ==
  ASSUME IInv, NEW p \in Proc,
         \/ Send(p) \/ Return(p) \/ Fails(p) \/ FailsEarly(p) \/ Resume(p)
         \/ \E s \in State : CallConsume(p, s)
  PROVE  IInv'
<1> USE DEF IInv
<1>1. ASSUME NEW s \in State, Draw(p, s) PROVE IInv'
  <2>h. UNCHANGED <<clock, redis, due, handed, arg, attempt, reply, stray, ret, requested, received>>
    BY <1>1 DEF Draw, serverVars
  <2>a. /\ pc[p] = "draw" /\ reply[p] = None /\ ret[p] = None
        /\ pc' = [pc EXCEPT ![p] = "set"] /\ key' = [key EXCEPT ![p] = s]
    BY <1>1 DEF Draw, CallInv
  <2>b. TypeOK'
    BY <2>a, <2>h DEF TypeOK
  <2>c. pc'[p] = "set" /\ key'[p] = s
    BY <2>a DEF TypeOK
  <2>d. \A q \in Proc \ {p} : pc'[q] = pc[q] /\ key'[q] = key[q]
    BY <2>a DEF TypeOK
  <2>e. Creating(p) /\ ~ Stored(p)
    BY <2>a DEF Creating, Stored
  <2> QED BY <2>a, <2>b, <2>c, <2>d, <2>e, <2>h, ClientStep
<1>2. ASSUME RandFails(p) \/ Fails(p) PROVE IInv'
  <2>h. UNCHANGED <<clock, redis, due, handed, arg, attempt, key, stray, ret, requested, received>>
    BY <1>2 DEF RandFails, Fails, Throw, serverVars
  <2>a. /\ pc' = [pc EXCEPT ![p] = "thrown"] /\ reply' = [reply EXCEPT ![p] = None]
        /\ ret[p] = None
    BY <1>2 DEF RandFails, Fails, Throw, CallInv
  <2>b. TypeOK'
    BY <2>a, <2>h DEF TypeOK
  <2>c. pc'[p] = "thrown" /\ reply'[p] = None
    BY <2>a DEF TypeOK
  <2>d. \A q \in Proc \ {p} : pc'[q] = pc[q] /\ reply'[q] = reply[q]
    BY <2>a DEF TypeOK
  <2>e. ~ Creating(p)'
    BY <2>c DEF Creating
  <2> QED BY <2>a, <2>b, <2>c, <2>d, <2>e, <2>h, ClientStep
<1>3. ASSUME SetOk(p) PROVE IInv'
  <2>h. UNCHANGED <<clock, redis, due, handed, arg, attempt, key, stray, requested, received>>
    BY <1>3 DEF SetOk, serverVars
  <2>a. /\ pc[p] = "set" /\ Stored(p)
        /\ pc' = [pc EXCEPT ![p] = "created"] /\ reply' = [reply EXCEPT ![p] = None]
        /\ ret' = [ret EXCEPT ![p] = key[p]]
    BY <1>3 DEF SetOk, Stored
  <2>b. key[p] \in State
    BY <2>a DEF CallInv
  <2>c. TypeOK'
    BY <2>a, <2>b, <2>h DEF TypeOK
  <2>d. pc'[p] = "created" /\ reply'[p] = None /\ ret'[p] = key[p]
    BY <2>a DEF TypeOK
  <2>e. \A q \in Proc \ {p} : pc'[q] = pc[q] /\ reply'[q] = reply[q] /\ ret'[q] = ret[q]
    BY <2>a DEF TypeOK
  <2>f. Creating(p)
    BY <2>a DEF Creating
  <2> QED BY <2>a, <2>b, <2>c, <2>d, <2>e, <2>f, <2>h, ClientStep
<1>4. ASSUME SetTaken(p) PROVE IInv'
  <2>h. UNCHANGED <<clock, redis, due, handed, arg, key, stray, ret, requested, received>>
    BY <1>4 DEF SetTaken, serverVars
  <2>a. /\ pc[p] = "set" /\ ~ Stored(p) /\ ret[p] = None
        /\ pc' = [pc EXCEPT ![p] = "draw"] /\ reply' = [reply EXCEPT ![p] = None]
        /\ attempt' = [attempt EXCEPT ![p] = attempt[p] + 1] /\ attempt[p] + 1 # MaxAttempts
    BY <1>4 DEF SetTaken, Stored, CallInv, last_attempt, next_attempt
  <2>b. attempt[p] + 1 \in 0 .. MaxAttempts - 1
    BY <2>a, Bounds DEF TypeOK
  <2>c. TypeOK'
    BY <2>a, <2>b, <2>h DEF TypeOK
  <2>d. pc'[p] = "draw" /\ reply'[p] = None
    BY <2>a DEF TypeOK
  <2>e. \A q \in Proc \ {p} : pc'[q] = pc[q] /\ reply'[q] = reply[q]
    BY <2>a DEF TypeOK
  <2>f. Creating(p)
    BY <2>a DEF Creating
  <2> QED BY <2>a, <2>c, <2>d, <2>e, <2>f, <2>h, ClientStep
<1>5. ASSUME SetGivesUp(p) PROVE IInv'
  <2>h. UNCHANGED <<clock, redis, due, handed, arg, attempt, key, stray, ret, requested, received>>
    BY <1>5 DEF SetGivesUp, Throw, serverVars
  <2>a. /\ pc' = [pc EXCEPT ![p] = "thrown"] /\ reply' = [reply EXCEPT ![p] = None]
        /\ ret[p] = None
    BY <1>5 DEF SetGivesUp, Throw, CallInv
  <2>b. TypeOK'
    BY <2>a, <2>h DEF TypeOK
  <2>c. pc'[p] = "thrown" /\ reply'[p] = None
    BY <2>a DEF TypeOK
  <2>d. \A q \in Proc \ {p} : pc'[q] = pc[q] /\ reply'[q] = reply[q]
    BY <2>a DEF TypeOK
  <2>e. ~ Creating(p)'
    BY <2>c DEF Creating
  <2> QED BY <2>a, <2>b, <2>c, <2>d, <2>e, <2>h, ClientStep
<1>6. ASSUME NEW s \in State, CallConsume(p, s) PROVE IInv'
  <2>h. UNCHANGED <<clock, redis, due, handed, attempt, key, reply, stray, ret, requested, received>>
    BY <1>6 DEF CallConsume, serverVars
  <2>a. /\ pc[p] = "idle" /\ reply[p] = None /\ ret[p] = None
        /\ pc' = [pc EXCEPT ![p] = "getdel"] /\ arg' = [arg EXCEPT ![p] = s]
    BY <1>6 DEF CallConsume, CallInv
  <2>b. TypeOK'
    BY <2>a, <2>h DEF TypeOK
  <2>c. pc'[p] = "getdel" /\ arg'[p] = s
    BY <2>a DEF TypeOK
  <2>d. \A q \in Proc \ {p} : pc'[q] = pc[q] /\ arg'[q] = arg[q]
    BY <2>a DEF TypeOK
  <2>e. ~ Creating(p)'
    BY <2>c DEF Creating
  <2> QED BY <2>a, <2>b, <2>c, <2>d, <2>e, <2>h, ClientStep
<1>7. ASSUME GetdelMiss(p) PROVE IInv'
  <2>h. UNCHANGED <<clock, redis, due, handed, arg, attempt, key, stray, ret, requested, received>>
    BY <1>7 DEF GetdelMiss, serverVars
  <2>a. /\ ret[p] = None
        /\ pc' = [pc EXCEPT ![p] = "consumed"] /\ reply' = [reply EXCEPT ![p] = None]
    BY <1>7 DEF GetdelMiss, CallInv
  <2>b. TypeOK'
    BY <2>a, <2>h DEF TypeOK
  <2>c. pc'[p] = "consumed" /\ reply'[p] = None
    BY <2>a DEF TypeOK
  <2>d. \A q \in Proc \ {p} : pc'[q] = pc[q] /\ reply'[q] = reply[q]
    BY <2>a DEF TypeOK
  <2>e. ~ Creating(p)'
    BY <2>c DEF Creating
  <2> QED BY <2>a, <2>b, <2>c, <2>d, <2>e, <2>h, ClientStep
<1>8. ASSUME Resume(p) PROVE IInv'
  <2>h. UNCHANGED <<clock, redis, due, handed, attempt, reply, stray, requested, received>>
    BY <1>8 DEF Resume, serverVars
  <2>a. /\ reply[p] = None
        /\ pc' = [pc EXCEPT ![p] = "idle"] /\ arg' = [arg EXCEPT ![p] = None]
        /\ key' = [key EXCEPT ![p] = None] /\ ret' = [ret EXCEPT ![p] = None]
    BY <1>8 DEF Resume, CallInv
  <2>b. TypeOK'
    BY <2>a, <2>h DEF TypeOK
  <2>c. pc'[p] = "idle" /\ ret'[p] = None
    BY <2>a DEF TypeOK
  <2>d. \A q \in Proc \ {p} : /\ pc'[q] = pc[q] /\ arg'[q] = arg[q] /\ key'[q] = key[q]
                               /\ ret'[q] = ret[q]
    BY <2>a DEF TypeOK
  <2>e. ~ Creating(p)'
    BY <2>c DEF Creating
  <2> QED BY <2>a, <2>b, <2>c, <2>d, <2>e, <2>h, ClientStep
<1>9. ASSUME FailsEarly(p) PROVE IInv'
  <2>h. UNCHANGED <<clock, redis, due, handed, arg, attempt, key, ret, requested, received>>
    BY <1>9 DEF FailsEarly, Throw, serverVars
  <2>a. /\ pc' = [pc EXCEPT ![p] = "thrown"] /\ reply' = [reply EXCEPT ![p] = None]
        /\ ret[p] = None /\ pc[p] \in {"set", "getdel"} /\ reply[p] = None
        /\ stray' = [stray EXCEPT ![p] = command(p)]
    BY <1>9 DEF FailsEarly, Throw, CallInv
  <2>b. command(p) \in Command
    BY <2>a, SetCommand, GetdelCommand
  <2>c. TypeOK'
    BY <2>a, <2>b, <2>h DEF TypeOK
  <2>d. pc'[p] = "thrown" /\ reply'[p] = None /\ stray'[p] = command(p)
    BY <2>a DEF TypeOK
  <2>e. \A q \in Proc \ {p} : pc'[q] = pc[q] /\ reply'[q] = reply[q] /\ stray'[q] = stray[q]
    BY <2>a DEF TypeOK
  <2>f. ~ Creating(p)'
    BY <2>d DEF Creating
  <2>g. StrayInv'
    <3>1. \A q \in Proc : Creating(q)' => Creating(q) /\ own(q)' = own(q) /\ q # p
      BY <2>e, <2>f, <2>h DEF Creating, own
    <3>2. \A q \in Proc \ {p} : (Straying(q)' <=> Straying(q)) /\ lost(q)' = lost(q)
      BY <2>e DEF Straying, lost
    <3>3. ASSUME Straying(p)'
          PROVE  /\ pc[p] = "set" /\ lost(p)' = own(p) /\ Creating(p) /\ Setting(p)
                 /\ stray'[p].value.realm = arg[p].entry.realm
                 /\ stray'[p].value.form = "fields"
      <4>1. pc[p] = "set"
        BY <2>a, <2>d, <3>3, GetdelCommand DEF Straying
      <4>2. Creating(p) /\ Setting(p)
        BY <2>a, <4>1 DEF Creating, Setting, Stored
      <4>3. stray'[p].value = [form |-> "fields", verifier |-> own(p), realm |-> arg[p].entry.realm]
        BY <2>d, <4>1, SetCommand
      <4> QED BY <4>1, <4>2, <4>3 DEF lost
    <3>4. ASSUME NEW q \in Proc \ {p}, Straying(q)'
          PROVE  /\ requested'[lost(q)'] = stray'[q].value.realm
                 /\ stray'[q].value.form = "fields"
                 /\ due'[lost(q)'] = None
                 /\ \A r \in Proc : Straying(r)' /\ lost(r)' = lost(q)' => r = q
                 /\ \A r \in Proc : Creating(r)' => own(r)' # lost(q)'
      <4>1. Straying(q) /\ lost(q)' = lost(q) /\ stray'[q] = stray[q]
        BY <2>e, <3>2, <3>4
      <4>2. \A r \in Proc : Creating(r) => own(r) # lost(q)
        BY <4>1 DEF StrayInv
      <4>3. \A r \in Proc : Straying(r) /\ lost(r) = lost(q) => r = q
        BY <4>1 DEF StrayInv
      <4>4. /\ requested[lost(q)] = stray[q].value.realm
            /\ stray[q].value.form = "fields" /\ due[lost(q)] = None
        BY <4>1 DEF StrayInv
      <4> QED BY <2>h, <3>1, <3>2, <3>3, <4>1, <4>2, <4>3, <4>4
    <3>5. ASSUME Straying(p)'
          PROVE  /\ requested'[lost(p)'] = stray'[p].value.realm
                 /\ stray'[p].value.form = "fields"
                 /\ due'[lost(p)'] = None
                 /\ \A r \in Proc : Straying(r)' /\ lost(r)' = lost(p)' => r = p
                 /\ \A r \in Proc : Creating(r)' => own(r)' # lost(p)'
      <4>1. requested[own(p)] = arg[p].entry.realm /\ due[own(p)] = None
        BY <3>3, <3>5 DEF OwnInv
      <4>2. \A r \in Proc : Creating(r) /\ own(r) = own(p) => r = p
        BY <3>3, <3>5 DEF OwnInv
      <4>3. \A r \in Proc : Straying(r) => own(p) # lost(r)
        BY <3>3, <3>5 DEF StrayInv
      <4> QED BY <2>h, <3>1, <3>2, <3>3, <3>5, <4>1, <4>2, <4>3
    <3> QED BY <3>4, <3>5 DEF StrayInv
  <2> QED BY <2>a, <2>c, <2>d, <2>e, <2>f, <2>g, <2>h, ClientStep
<1>10. ASSUME GetdelHit(p) PROVE IInv'
  <2> DEFINE w == found_by(p)
  <2>h. UNCHANGED <<clock, redis, due, handed, arg, attempt, key, stray, requested>>
    BY <1>10 DEF GetdelHit, serverVars
  <2>a. /\ Bulk(p) /\ w \in Verifier /\ reply[p].value \in Value
    BY <1>10 DEF GetdelHit, Bulk, TypeOK, Reply, Value, found_by
  <2>b. /\ pc' = [pc EXCEPT ![p] = "consumed"] /\ reply' = [reply EXCEPT ![p] = None]
        /\ received' = [received EXCEPT ![w] = received[w] + 1]
        /\ pc[p] = "getdel"
    BY <1>10 DEF GetdelHit, found_by
  <2>c. /\ handed[w] = 1 /\ received[w] = 0 /\ requested[w] = reply[p].value.realm
        /\ reply[p].value.form = "bare" => reply[p].value.realm = ""
    BY <2>a DEF HandedInv
  <2>d. PICK x : /\ ret' = [ret EXCEPT ![p] = x] /\ x \in StateEntry
                 /\ requested[x.code_verifier] = x.realm
    <3> DEFINE v == reply[p].value
               x == IF decode_state_entry(v) # None THEN decode_state_entry(v)
                    ELSE [code_verifier |-> v.verifier, realm |-> ""]
    <3>1. ret' = [ret EXCEPT ![p] = x]
      BY <1>10 DEF GetdelHit
    <3>2. x = [code_verifier |-> v.verifier, realm |-> v.realm]
      <4>1. [code_verifier |-> v.verifier, realm |-> v.realm] \in StateEntry
        BY <2>a DEF Value, StateEntry
      <4>2. CASE v.form = "bare"
        BY <2>c, <4>2 DEF decode_state_entry
      <4>3. CASE v.form # "bare"
        BY <4>1, <4>3, NoneApart DEF decode_state_entry
      <4> QED BY <4>2, <4>3
    <3>3. v.verifier = w /\ v.realm = requested[w] /\ v \in Value
      BY <2>a, <2>c DEF found_by
    <3> HIDE DEF x, v, w
    <3>4. x.code_verifier = w /\ x.realm = requested[w]
      BY <3>2, <3>3
    <3>5. x \in StateEntry
      BY <3>2, <3>3 DEF Value, StateEntry
    <3> QED BY <3>1, <3>4, <3>5
  <2> HIDE DEF w
  <2>e. received[w] + 1 \in Nat
    BY <2>a DEF TypeOK
  <2>f. TypeOK'
    BY <2>b, <2>d, <2>e, <2>h DEF TypeOK
  <2>g. pc'[p] = "consumed" /\ reply'[p] = None /\ ret'[p] = x
    BY <2>b, <2>d DEF TypeOK
  <2>i. \A q \in Proc \ {p} : pc'[q] = pc[q] /\ reply'[q] = reply[q] /\ ret'[q] = ret[q]
    BY <2>b, <2>d DEF TypeOK
  <2>j. ~ Creating(p)'
    BY <2>g DEF Creating
  <2>k. HandedInv'
    <3>1. \A v \in Verifier : received'[v] = IF v = w THEN 1 ELSE received[v]
      <4>1. received' = [received EXCEPT ![w] = 1]
        <5>1. \A n : n = 0 => n + 1 = 1
          OBVIOUS
        <5>2. received[w] = 0
          BY <2>c
        <5> QED BY <2>b, <5>1, <5>2
      <4> QED BY <2>a, <4>1 DEF TypeOK
    <3>2. ReceivedOnce'
      BY <2>c, <2>h, <3>1 DEF HandedInv, ReceivedOnce
    <3>3. /\ \A v \in Verifier : due'[v] = None => handed'[v] = 0
          /\ \A v \in Verifier : due'[v] # None => requested'[v] # None
      BY <2>h DEF HandedInv
    <3>4. ASSUME NEW q \in Proc, Bulk(q)'
          PROVE  /\ handed'[found_by(q)'] = 1 /\ received'[found_by(q)'] = 0
                 /\ requested'[found_by(q)'] = reply'[q].value.realm
                 /\ reply'[q].value.form = "bare" => reply'[q].value.realm = ""
                 /\ \A r \in Proc : Bulk(r)' /\ found_by(r)' = found_by(q)' => r = q
      <4>1. \A r \in Proc : Bulk(r)' => r # p /\ Bulk(r) /\ found_by(r)' = found_by(r)
        BY <2>g, <2>i DEF Bulk, found_by
      <4>2. q # p /\ Bulk(q) /\ found_by(q)' = found_by(q) /\ reply'[q] = reply[q]
        BY <2>i, <3>4, <4>1
      <4>3. /\ handed[found_by(q)] = 1 /\ received[found_by(q)] = 0
            /\ requested[found_by(q)] = reply[q].value.realm
            /\ reply[q].value.form = "bare" => reply[q].value.realm = ""
        BY <4>2 DEF HandedInv
      <4>4. \A r \in Proc : Bulk(r) /\ found_by(r) = found_by(q) => r = q
        BY <4>2 DEF HandedInv
      <4>5. found_by(q) \in Verifier /\ found_by(q) # w
        BY <2>a, <4>2, <4>4 DEF w, TypeOK, Bulk, found_by, Reply, Value
      <4> QED BY <2>h, <3>1, <4>1, <4>2, <4>3, <4>4, <4>5
    <3> QED BY <3>2, <3>3, <3>4 DEF HandedInv
  <2> QED BY <2>b, <2>d, <2>f, <2>g, <2>h, <2>i, <2>j, <2>k, ClientStep
<1> QED BY <1>1, <1>2, <1>3, <1>4, <1>5, <1>6, <1>7, <1>8, <1>9, <1>10 DEF Send, Return

-----------------------------------------------------------------------------
\* The steps of the server.

\* Deadlines are integers.
LEMMA Deadlines ==
  /\ \A d \in Deadline : d \in Int /\ d # None
  /\ \A ttl \in Ttl : TypeOK => clock + ttl_seconds(ttl) \in Deadline
<1>1. ASSUME NEW d \in Deadline PROVE d \in Int /\ d # None
  <2>1. PICK t \in 0 .. MaxClock, ttl \in Ttl : d = t + ttl_seconds(ttl)
    BY DEF Deadline
  <2>2. t \in Int /\ ttl_seconds(ttl) \in Int
    BY Lifetime
  <2>3. d \in Int
    BY <2>1, <2>2
  <2> QED BY <2>3, NoneApart
<1>2. ASSUME NEW ttl \in Ttl, TypeOK PROVE clock + ttl_seconds(ttl) \in Deadline
  BY <1>2 DEF Deadline, TypeOK
<1> QED BY <1>1, <1>2

\* A value stored under a free state: the expired entry it may replace had
\* come to its deadline, so that nothing is lost.
LEMMA Stores ==
  ASSUME IInv, NEW k \in State, NEW x \in Value, NEW d \in Deadline,
         x.form = "bare" => x.realm = "",
         due[x.verifier] = None,
         found(k) = {},
         redis' = without(redis, k) \cup
                    {[state |-> k, form |-> x.form, verifier |-> x.verifier,
                      realm |-> x.realm, expires_at |-> d]},
         due' = [due EXCEPT ![x.verifier] = d],
         UNCHANGED <<clock, handed>>,
         requested'[x.verifier] = x.realm,
         \A w \in Verifier : w # x.verifier => requested'[w] = requested[w]
  PROVE  /\ redis' \subseteq Slot
         /\ due' \in [Verifier -> Deadline \cup {None}]
         /\ \A w \in Verifier : due'[w] = IF w = x.verifier THEN d ELSE due[w]
         /\ MapInv'
         /\ \A q \in Proc : Stored(q) \/ pc[q] = "created" =>
              \/ handed'[own(q)] = 1
              \/ due'[own(q)] <= clock
              \/ \E e \in redis' : e.state = key[q] /\ e.verifier = own(q)
<1> USE DEF IInv
<1> DEFINE v == x.verifier
           new == [state |-> k, form |-> x.form, verifier |-> v, realm |-> x.realm, expires_at |-> d]
<1>1. v \in Verifier /\ x.realm \in Realm /\ x.form \in {"fields", "bare"}
  BY DEF Value
<1>2. new \in Slot
  BY <1>1 DEF Slot
<1>3. /\ new.state = k /\ new.form = x.form /\ new.verifier = v /\ new.realm = x.realm
      /\ new.expires_at = d
  OBVIOUS
<1>4. redis' = without(redis, k) \cup {new} /\ due' = [due EXCEPT ![v] = d]
  OBVIOUS
<1>5. due[v] = None /\ requested'[v] = x.realm /\ (x.form = "bare" => x.realm = "")
  OBVIOUS
<1>6. \A w \in Verifier : w # v => requested'[w] = requested[w]
  OBVIOUS
<1> HIDE DEF new, v
<1>7. redis' \subseteq Slot
  BY <1>2, <1>4 DEF TypeOK, without
<1>8. /\ due' \in [Verifier -> Deadline \cup {None}]
      /\ \A w \in Verifier : due'[w] = IF w = v THEN d ELSE due[w]
  BY <1>1, <1>4, ZenonT(90) DEF TypeOK
<1>9. \A e \in redis : /\ e.verifier \in Verifier /\ e.verifier # v
                       /\ e.expires_at \in Deadline /\ due[e.verifier] = e.expires_at
  <2>1. \A e \in redis : e.verifier \in Verifier /\ e.expires_at \in Deadline
    BY DEF TypeOK, Slot
  <2>2. \A e \in redis : due[e.verifier] = e.expires_at
    BY DEF MapInv
  <2> QED BY <1>5, <2>1, <2>2, Deadlines
<1>10. \A e \in redis' : e = new \/ (e \in redis /\ e.state # k)
  BY <1>4 DEF without
<1>11. MapInv'
  <2>1. ASSUME NEW e \in redis'
        PROVE  /\ requested'[e.verifier] = e.realm
               /\ due'[e.verifier] = e.expires_at
               /\ handed'[e.verifier] = 0
               /\ e.form = "bare" => e.realm = ""
    <3>1. CASE e = new
      <4>1. handed[v] = 0
        BY <1>1, <1>5 DEF HandedInv
      <4> QED BY <1>1, <1>3, <1>5, <1>8, <3>1, <4>1
    <3>2. CASE e \in redis /\ e.state # k
      <4>1. /\ requested[e.verifier] = e.realm
            /\ handed[e.verifier] = 0
            /\ e.form = "bare" => e.realm = ""
        BY <3>2 DEF MapInv
      <4> QED BY <1>6, <1>8, <1>9, <3>2, <4>1
    <3> QED BY <1>10, <3>1, <3>2
  <2>2. ASSUME NEW e \in redis', NEW f \in redis', e.state = f.state \/ e.verifier = f.verifier
        PROVE  e = f
    <3>1. CASE e \in redis /\ f \in redis
      BY <2>2, <3>1 DEF MapInv
    <3>2. CASE e = new /\ f # new
      BY <1>3, <1>9, <1>10, <2>2, <3>2
    <3>3. CASE e # new /\ f = new
      BY <1>3, <1>9, <1>10, <2>2, <3>3
    <3> QED BY <1>10, <3>1, <3>2, <3>3
  <2> QED BY <2>1, <2>2 DEF MapInv
<1>12. ASSUME NEW q \in Proc, Stored(q) \/ pc[q] = "created"
       PROVE  \/ handed'[own(q)] = 1
              \/ due'[own(q)] <= clock
              \/ \E e \in redis' : e.state = key[q] /\ e.verifier = own(q)
  <2>1. Creating(q) /\ ~ Setting(q)
    BY <1>12 DEF Creating, Setting, Stored
  <2>2. own(q) \in Verifier /\ due[own(q)] # None
    BY <2>1, OwnType DEF OwnInv
  <2>3. own(q) # v /\ due'[own(q)] = due[own(q)]
    BY <1>5, <1>8, <2>2
  <2>4. \/ handed[own(q)] = 1
        \/ due[own(q)] <= clock
        \/ \E e \in redis : e.state = key[q] /\ e.verifier = own(q)
    BY <1>12 DEF OutcomeInv
  <2>5. ASSUME NEW e \in redis, e.state = key[q], e.verifier = own(q), e \notin redis'
        PROVE  due[own(q)] <= clock
    <3>1. e.state = k
      BY <1>4, <2>5 DEF without
    <3>2. Expired(e)
      BY <3>1 DEF found
    <3> QED BY <1>9, <2>5, <3>2 DEF Expired
  <2> QED BY <2>3, <2>4, <2>5
<1> QED BY <1>7, <1>8, <1>11, <1>12 DEF v

\* An entry taken out leaves the verifiers of all others where they are.
LEMMA Takes ==
  ASSUME IInv, NEW k \in State, NEW e \in found(k),
         redis' = without(redis, k),
         handed' = [handed EXCEPT ![e.verifier] = @ + 1],
         UNCHANGED <<clock, due, received, requested>>
  PROVE  /\ redis' \subseteq Slot
         /\ handed' \in [Verifier -> Nat]
         /\ e.verifier \in Verifier /\ received[e.verifier] = 0
         /\ \A w \in Verifier : handed'[w] = IF w = e.verifier THEN 1 ELSE handed[w]
         /\ requested[e.verifier] = e.realm /\ (e.form = "bare" => e.realm = "")
         /\ MapInv'
         /\ ReceivedOnce'
         /\ \A w \in Verifier : due'[w] = None => handed'[w] = 0
         /\ \A q \in Proc : Bulk(q) => found_by(q) \in Verifier /\ found_by(q) # e.verifier
         /\ \A q \in Proc : Stored(q) \/ pc[q] = "created" =>
              \/ handed'[own(q)] = 1
              \/ due'[own(q)] <= clock
              \/ \E f \in redis' : f.state = key[q] /\ f.verifier = own(q)
<1> USE DEF IInv
<1> DEFINE v == e.verifier
<1>1. e \in redis /\ e.state = k
  BY DEF found
<1>2. v \in Verifier /\ e.expires_at \in Deadline
  BY <1>1 DEF TypeOK, Slot
<1>3. /\ handed[v] = 0 /\ due[v] = e.expires_at
      /\ requested[v] = e.realm /\ (e.form = "bare" => e.realm = "")
  BY <1>1 DEF MapInv
<1>4. handed' = [handed EXCEPT ![v] = 1]
  <2>1. \A n : n = 0 => n + 1 = 1
    OBVIOUS
  <2>2. handed' = [handed EXCEPT ![v] = handed[v] + 1]
    OBVIOUS
  <2> QED BY <1>3, <2>1, <2>2
<1> HIDE DEF v
<1>5. /\ handed' \in [Verifier -> Nat]
      /\ \A w \in Verifier : handed'[w] = IF w = v THEN 1 ELSE handed[w]
  <2>1. handed \in [Verifier -> Nat] /\ 1 \in Nat
    BY DEF TypeOK
  <2> QED BY <1>2, <1>4, <2>1
<1>6. received[v] = 0
  <2>1. received[v] \in Nat /\ received[v] <= handed[v]
    BY <1>2 DEF TypeOK, HandedInv, ReceivedOnce
  <2>2. \A m, n : m \in Nat /\ m <= n /\ n = 0 => m = 0
    OBVIOUS
  <2> QED BY <1>3, <2>1, <2>2
<1>7. redis' \subseteq Slot /\ \A f \in redis' : f \in redis /\ f.state # k
  BY DEF TypeOK, without
<1>8. \A f \in redis : f \in redis' \/ f = e
  BY <1>1 DEF without, MapInv
<1>9. \A f \in redis' : f.verifier \in Verifier /\ f.verifier # v
  BY <1>1, <1>7 DEF MapInv, Slot, v
<1>10. MapInv'
  <2>1. ASSUME NEW f \in redis'
        PROVE  /\ requested'[f.verifier] = f.realm
               /\ due'[f.verifier] = f.expires_at
               /\ handed'[f.verifier] = 0
               /\ (f.form = "bare" => f.realm = "")
    <3>1. /\ requested[f.verifier] = f.realm /\ due[f.verifier] = f.expires_at
          /\ handed[f.verifier] = 0 /\ (f.form = "bare" => f.realm = "")
      BY <1>7 DEF MapInv
    <3> QED BY <1>5, <1>9, <3>1
  <2>2. \A f, g \in redis' : f.state = g.state \/ f.verifier = g.verifier => f = g
    BY <1>7 DEF MapInv
  <2> QED BY <2>1, <2>2 DEF MapInv
<1>11. ReceivedOnce'
  <2>1. \A w \in Verifier : received[w] <= handed[w] /\ handed[w] <= 1
    BY DEF HandedInv, ReceivedOnce
  <2> QED BY <1>5, <1>6, <2>1 DEF ReceivedOnce
<1>12. \A w \in Verifier : due'[w] = None => handed'[w] = 0
  <2>1. due[v] # None
    BY <1>2, <1>3, Deadlines
  <2> QED BY <1>5, <2>1 DEF HandedInv
<1>13. \A q \in Proc : Bulk(q) => found_by(q) \in Verifier /\ found_by(q) # v
  <2>1. \A q \in Proc : Bulk(q) => found_by(q) \in Verifier
    BY DEF TypeOK, Bulk, found_by, Reply, Value
  <2>2. \A q \in Proc : Bulk(q) => handed[found_by(q)] = 1
    BY DEF HandedInv
  <2>3. 0 # 1
    OBVIOUS
  <2> QED BY <1>3, <2>1, <2>2, <2>3, Zenon
<1>14. ASSUME NEW q \in Proc, Stored(q) \/ pc[q] = "created"
       PROVE  \/ handed'[own(q)] = 1
              \/ due'[own(q)] <= clock
              \/ \E f \in redis' : f.state = key[q] /\ f.verifier = own(q)
  <2>1. Creating(q)
    BY <1>14 DEF Creating, Stored
  <2>2. own(q) \in Verifier
    BY <2>1, OwnType
  <2>3. \/ handed[own(q)] = 1
        \/ due[own(q)] <= clock
        \/ \E f \in redis : f.state = key[q] /\ f.verifier = own(q)
    BY <1>14 DEF OutcomeInv
  <2> QED BY <1>5, <1>8, <2>2, <2>3 DEF v
<1> QED BY <1>2, <1>3, <1>5, <1>6, <1>7, <1>10, <1>11, <1>12, <1>13, <1>14 DEF v

\* An answer that takes nothing out of Redis and stores nothing.
LEMMA ServeNothing ==
  ASSUME IInv, NEW p \in Proc, pc[p] \in {"set", "getdel"}, reply[p] = None,
         NEW r \in Reply, reply' = [reply EXCEPT ![p] = r],
         r.status \in {"nil", "error"},
         r.status = "error" => pc[p] = "set" /\ arg[p].ttl >= IntLimit,
         UNCHANGED <<clock, serverVars, pc, arg, attempt, key, stray, ret, requested, received>>
  PROVE  IInv'
<1> USE DEF IInv
<1>h. UNCHANGED <<clock, redis, due, handed, pc, arg, attempt, key, stray, ret, requested, received>>
  BY DEF serverVars
<1>a. reply'[p] = r /\ \A q \in Proc \ {p} : reply'[q] = reply[q]
  BY DEF TypeOK
<1>b. \A q \in Proc : /\ Creating(q)' <=> Creating(q)
                      /\ own(q)' = own(q)
                      /\ Stored(q)' <=> Stored(q)
                      /\ Setting(q)' <=> Setting(q)
                      /\ Bulk(q)' <=> Bulk(q)
                      /\ Bulk(q)' => reply'[q] = reply[q]
                      /\ Straying(q)' <=> Straying(q)
                      /\ lost(q)' = lost(q)
  BY <1>a, <1>h DEF Creating, own, Stored, Setting, Bulk, Straying, lost
<1>1. TypeOK'
  BY <1>h DEF TypeOK
<1>2. CallInv'
  <2>1. ASSUME NEW q \in Proc, reply'[q] # None
        PROVE  \/ pc'[q] = "set" /\ reply'[q].status \in {"OK", "nil", "error"}
               \/ pc'[q] = "getdel" /\ reply'[q].status \in {"nil", "bulk"}
    <3>1. CASE q = p
      BY <1>a, <1>h, <3>1
    <3>2. CASE q # p
      BY <1>a, <1>h, <2>1, <3>2 DEF CallInv
    <3> QED BY <3>1, <3>2
  <2>2. ASSUME NEW q \in Proc
        PROVE  /\ Creating(q)' => arg'[q] \in CreateCall
               /\ pc'[q] = "getdel" => arg'[q] \in State
               /\ pc'[q] \in {"set", "created"} => key'[q] \in State
               /\ pc'[q] = "created" => ret'[q] = key'[q]
               /\ pc'[q] = "consumed" => ret'[q] \in StateEntry \cup {None}
               /\ pc'[q] \notin {"created", "consumed"} => ret'[q] = None
    BY <1>b, <1>h DEF CallInv
  <2> QED BY <2>1, <2>2 DEF CallInv
<1>3. MapInv'
  BY <1>h DEF MapInv
<1>4. OwnInv'
  BY <1>b, <1>h DEF OwnInv
<1>5. StrayInv'
  BY <1>b, <1>h DEF StrayInv
<1>6. HandedInv'
  <2>1. \A q \in Proc : Bulk(q)' => found_by(q)' = found_by(q)
    BY <1>b DEF found_by
  <2>2. ReceivedOnce'
    BY <1>h DEF HandedInv, ReceivedOnce
  <2>3. /\ \A w \in Verifier : due'[w] = None => handed'[w] = 0
        /\ \A w \in Verifier : due'[w] # None => requested'[w] # None
    BY <1>h DEF HandedInv
  <2>4. ASSUME NEW q \in Proc, Bulk(q)'
        PROVE  /\ handed'[found_by(q)'] = 1 /\ received'[found_by(q)'] = 0
               /\ requested'[found_by(q)'] = reply'[q].value.realm
               /\ reply'[q].value.form = "bare" => reply'[q].value.realm = ""
               /\ \A s \in Proc : Bulk(s)' /\ found_by(s)' = found_by(q)' => s = q
    <3>1. Bulk(q) /\ found_by(q)' = found_by(q) /\ reply'[q] = reply[q]
      BY <1>b, <2>1, <2>4
    <3>2. /\ handed[found_by(q)] = 1 /\ received[found_by(q)] = 0
          /\ requested[found_by(q)] = reply[q].value.realm
          /\ reply[q].value.form = "bare" => reply[q].value.realm = ""
      BY <3>1 DEF HandedInv
    <3>3. \A s \in Proc : Bulk(s) /\ found_by(s) = found_by(q) => s = q
      BY <3>1 DEF HandedInv
    <3>4. \A s \in Proc : Bulk(s)' /\ found_by(s)' = found_by(q)' => s = q
      BY <1>b, <2>1, <3>1, <3>3
    <3> QED BY <1>h, <3>1, <3>2, <3>4
  <2> QED BY <2>2, <2>3, <2>4 DEF HandedInv
<1>7. OutcomeInv'
  <2>1. \A q \in Proc : Stored(q)' \/ pc'[q] = "created" =>
          \/ handed'[own(q)'] = 1
          \/ due'[own(q)'] <= clock'
          \/ \E e \in redis' : e.state = key'[q] /\ e.verifier = own(q)'
    BY <1>b, <1>h DEF OutcomeInv
  <2>2. ASSUME NEW q \in Proc, reply'[q] # None, reply'[q].status = "error"
        PROVE  arg'[q].ttl >= IntLimit
    <3>1. CASE q = p
      BY <1>a, <1>h, <2>2, <3>1
    <3>2. CASE q # p
      BY <1>a, <1>h, <2>2, <3>2 DEF OutcomeInv
    <3> QED BY <3>1, <3>2
  <2> QED BY <2>1, <2>2 DEF OutcomeInv
<1>8. ConsumedIntact'
  BY <1>h DEF ConsumedIntact
<1> QED BY <1>1, <1>2, <1>3, <1>4, <1>5, <1>6, <1>7, <1>8

\* The SET a coroutine waits for is executed.
LEMMA ServeStores ==
  ASSUME IInv, NEW p \in Proc, pc[p] = "set", reply[p] = None,
         found(key[p]) = {},
         reply' = [reply EXCEPT ![p] = answer("OK", None)],
         redis' = without(redis, key[p]) \cup
                    {[state |-> key[p], form |-> "fields", verifier |-> own(p),
                      realm |-> arg[p].entry.realm,
                      expires_at |-> clock + ttl_seconds(arg[p].ttl)]},
         due' = [due EXCEPT ![own(p)] = clock + ttl_seconds(arg[p].ttl)],
         UNCHANGED <<clock, handed, pc, arg, attempt, key, stray, ret, requested, received>>
  PROVE  IInv'
<1> USE DEF IInv
<1> DEFINE v == own(p)
           x == [form |-> "fields", verifier |-> own(p), realm |-> arg[p].entry.realm]
           d == clock + ttl_seconds(arg[p].ttl)
<1>h. UNCHANGED <<clock, handed, pc, arg, attempt, key, stray, ret, requested, received>>
  OBVIOUS
<1>a. Creating(p) /\ Setting(p) /\ key[p] \in State
  BY DEF Creating, Setting, Stored, CallInv
<1>b. v \in Verifier /\ arg[p].entry.realm \in Realm /\ arg[p].ttl \in Ttl
  BY <1>a, OwnType
<1>c. d \in Deadline
  BY <1>b, Deadlines
<1>d. x \in Value /\ x.verifier = v /\ x.realm = arg[p].entry.realm /\ x.form = "fields"
  BY <1>b DEF Value
<1>e. requested[v] = x.realm /\ due[v] = None
  BY <1>a, <1>d DEF OwnInv
<1>f. /\ redis' \subseteq Slot
      /\ due' \in [Verifier -> Deadline \cup {None}]
      /\ \A w \in Verifier : due'[w] = IF w = v THEN d ELSE due[w]
      /\ MapInv'
      /\ \A q \in Proc : Stored(q) \/ pc[q] = "created" =>
           \/ handed'[own(q)] = 1
           \/ due'[own(q)] <= clock
           \/ \E e \in redis' : e.state = key[q] /\ e.verifier = own(q)
  <2>1. redis' = without(redis, key[p]) \cup
                   {[state |-> key[p], form |-> x.form, verifier |-> x.verifier,
                     realm |-> x.realm, expires_at |-> d]}
    OBVIOUS
  <2>2. due' = [due EXCEPT ![x.verifier] = d] /\ found(key[p]) = {}
    OBVIOUS
  <2>3. due[x.verifier] = None /\ requested'[x.verifier] = x.realm
    BY <1>d, <1>e, <1>h
  <2>4. x.form = "bare" => x.realm = ""
    BY <1>d
  <2>5. x \in Value /\ x.verifier = v
    BY <1>d
  <2> HIDE DEF x, d, v
  <2>6. /\ redis' \subseteq Slot
        /\ due' \in [Verifier -> Deadline \cup {None}]
        /\ \A w \in Verifier : due'[w] = IF w = x.verifier THEN d ELSE due[w]
        /\ MapInv'
        /\ \A q \in Proc : Stored(q) \/ pc[q] = "created" =>
             \/ handed'[own(q)] = 1
             \/ due'[own(q)] <= clock
             \/ \E e \in redis' : e.state = key[q] /\ e.verifier = own(q)
    BY <1>a, <1>c, <1>h, <2>1, <2>2, <2>3, <2>4, <2>5, Stores, ZenonT(90)
  <2> QED BY <2>5, <2>6
<1>g. [state |-> key[p], form |-> "fields", verifier |-> v, realm |-> arg[p].entry.realm,
       expires_at |-> d] \in redis'
  OBVIOUS
<1>i. answer("OK", None) \in Reply
  BY DEF answer, Reply
<1>j. reply'[p] = answer("OK", None) /\ \A q \in Proc \ {p} : reply'[q] = reply[q]
  BY DEF TypeOK
<1>k. reply'[p] # None /\ reply'[p].status = "OK"
  BY <1>i, <1>j, NoneApart DEF answer
<1>l. reply' \in [Proc -> Reply \cup {None}]
  BY <1>i DEF TypeOK
<1> HIDE DEF v, x, d
<1>m. \A q \in Proc : /\ Creating(q)' <=> Creating(q)
                      /\ own(q)' = own(q)
                      /\ q # p => (Stored(q)' <=> Stored(q))
                      /\ q # p => (Setting(q)' <=> Setting(q))
                      /\ Bulk(q)' => Bulk(q) /\ reply'[q] = reply[q]
                      /\ Straying(q)' <=> Straying(q)
                      /\ lost(q)' = lost(q)
  BY <1>h, <1>j, <1>k DEF Creating, own, Stored, Setting, Bulk, Straying, lost
<1>n. ~ Setting(p)'
  BY <1>h, <1>k DEF Setting, Stored
<1>1. TypeOK'
  BY <1>f, <1>h, <1>l DEF TypeOK
<1>2. CallInv'
  <2>1. ASSUME NEW q \in Proc, reply'[q] # None
        PROVE  \/ pc'[q] = "set" /\ reply'[q].status \in {"OK", "nil", "error"}
               \/ pc'[q] = "getdel" /\ reply'[q].status \in {"nil", "bulk"}
    <3>1. CASE q = p
      BY <1>h, <1>k, <3>1
    <3>2. CASE q # p
      BY <1>h, <1>j, <2>1, <3>2 DEF CallInv
    <3> QED BY <3>1, <3>2
  <2>2. ASSUME NEW q \in Proc
        PROVE  /\ Creating(q)' => arg'[q] \in CreateCall
               /\ pc'[q] = "getdel" => arg'[q] \in State
               /\ pc'[q] \in {"set", "created"} => key'[q] \in State
               /\ pc'[q] = "created" => ret'[q] = key'[q]
               /\ pc'[q] = "consumed" => ret'[q] \in StateEntry \cup {None}
               /\ pc'[q] \notin {"created", "consumed"} => ret'[q] = None
    BY <1>h, <1>m DEF CallInv
  <2> QED BY <2>1, <2>2 DEF CallInv
<1>4. OwnInv'
  <2>1. \A q \in Proc : Creating(q) => own(q) \in Verifier
    BY OwnType
  <2>2. \A q \in Proc : Creating(q) /\ own(q) = v => q = p
    BY <1>a DEF OwnInv, v
  <2>3. d # None
    BY <1>c, Deadlines
  <2>4. \A q \in Proc : Creating(q)' => (due'[own(q)'] = None <=> Setting(q)')
    BY <1>f, <1>m, <1>n, <2>1, <2>2, <2>3 DEF OwnInv, v
  <2>5. \A q \in Proc : Creating(q)' => requested'[own(q)'] = arg'[q].entry.realm
    BY <1>h, <1>m DEF OwnInv
  <2>6. \A q, r \in Proc : Creating(q)' /\ Creating(r)' /\ own(r)' = own(q)' => r = q
    BY <1>m DEF OwnInv
  <2> QED BY <2>4, <2>5, <2>6 DEF OwnInv
<1>5. StrayInv'
  <2>1. \A q \in Proc : Straying(q) => lost(q) \in Verifier /\ lost(q) # v
    BY <1>a DEF StrayInv, v, TypeOK, Straying, lost, Command, Value
  <2>2. \A q \in Proc : Straying(q)' => due'[lost(q)'] = None
    BY <1>f, <1>m, <2>1 DEF StrayInv
  <2>3. \A q \in Proc : Straying(q)' =>
          requested'[lost(q)'] = stray'[q].value.realm /\ stray'[q].value.form = "fields"
    BY <1>h, <1>m DEF StrayInv
  <2>4. \A q, r \in Proc : Straying(q)' /\ Straying(r)' /\ lost(r)' = lost(q)' => r = q
    BY <1>m DEF StrayInv
  <2>5. \A q, r \in Proc : Straying(q)' /\ Creating(r)' => own(r)' # lost(q)'
    BY <1>m DEF StrayInv
  <2> QED BY <2>2, <2>3, <2>4, <2>5 DEF StrayInv
<1>6. HandedInv'
  <2>1. \A q \in Proc : Bulk(q)' => found_by(q)' = found_by(q)
    BY <1>m DEF found_by
  <2>2. ReceivedOnce'
    BY <1>h DEF HandedInv, ReceivedOnce
  <2>3. /\ \A w \in Verifier : due'[w] = None => handed'[w] = 0
        /\ \A w \in Verifier : due'[w] # None => requested'[w] # None
    <3>1. d # None /\ requested[v] # None
      BY <1>b, <1>c, <1>d, <1>e, Deadlines, NoneApart
    <3> QED BY <1>f, <1>h, <3>1, ZenonT(90) DEF HandedInv
  <2>4. ASSUME NEW q \in Proc, Bulk(q)'
        PROVE  /\ handed'[found_by(q)'] = 1 /\ received'[found_by(q)'] = 0
               /\ requested'[found_by(q)'] = reply'[q].value.realm
               /\ reply'[q].value.form = "bare" => reply'[q].value.realm = ""
               /\ \A s \in Proc : Bulk(s)' /\ found_by(s)' = found_by(q)' => s = q
    <3>1. Bulk(q) /\ found_by(q)' = found_by(q) /\ reply'[q] = reply[q]
      BY <1>m, <2>1, <2>4
    <3>2. /\ handed[found_by(q)] = 1 /\ received[found_by(q)] = 0
          /\ requested[found_by(q)] = reply[q].value.realm
          /\ reply[q].value.form = "bare" => reply[q].value.realm = ""
      BY <3>1 DEF HandedInv
    <3>3. \A s \in Proc : Bulk(s) /\ found_by(s) = found_by(q) => s = q
      BY <3>1 DEF HandedInv
    <3>4. \A s \in Proc : Bulk(s)' /\ found_by(s)' = found_by(q)' => s = q
      BY <1>m, <2>1, <3>1, <3>3
    <3> QED BY <1>h, <3>1, <3>2, <3>4
  <2> QED BY <2>2, <2>3, <2>4 DEF HandedInv
<1>7. OutcomeInv'
  <2>1. ASSUME NEW q \in Proc, Stored(q)' \/ pc'[q] = "created"
        PROVE  \/ handed'[own(q)'] = 1
               \/ due'[own(q)'] <= clock'
               \/ \E e \in redis' : e.state = key'[q] /\ e.verifier = own(q)'
    <3>1. CASE q = p
      BY <1>g, <1>h, <1>m, <3>1 DEF v
    <3>2. CASE q # p
      BY <1>f, <1>h, <1>m, <2>1, <3>2
    <3> QED BY <3>1, <3>2
  <2>2. ASSUME NEW q \in Proc, reply'[q] # None, reply'[q].status = "error"
        PROVE  arg'[q].ttl >= IntLimit
    <3>1. q # p
      BY <1>k, <2>2
    <3> QED BY <1>h, <1>j, <2>2, <3>1 DEF OutcomeInv
  <2> QED BY <2>1, <2>2 DEF OutcomeInv
<1>8. ConsumedIntact'
  BY <1>h DEF ConsumedIntact
<1> QED BY <1>1, <1>2, <1>f, <1>4, <1>5, <1>6, <1>7, <1>8

\* The GETDEL a coroutine waits for is executed, and finds an entry.
LEMMA ServeTakes ==
  ASSUME IInv, NEW p \in Proc, pc[p] = "getdel", reply[p] = None,
         NEW k \in State, NEW e \in found(k),
         reply' = [reply EXCEPT ![p] =
                     answer("bulk", [form |-> e.form, verifier |-> e.verifier, realm |-> e.realm])],
         redis' = without(redis, k),
         handed' = [handed EXCEPT ![e.verifier] = @ + 1],
         UNCHANGED <<clock, due, pc, arg, attempt, key, stray, ret, requested, received>>
  PROVE  IInv'
<1> USE DEF IInv
<1> DEFINE w == e.verifier
           x == [form |-> e.form, verifier |-> e.verifier, realm |-> e.realm]
<1>h. UNCHANGED <<clock, due, pc, arg, attempt, key, stray, ret, requested, received>>
  OBVIOUS
<1>c. /\ redis' \subseteq Slot
      /\ handed' \in [Verifier -> Nat]
      /\ w \in Verifier /\ received[w] = 0
      /\ \A v \in Verifier : handed'[v] = IF v = w THEN 1 ELSE handed[v]
      /\ requested[w] = e.realm /\ (e.form = "bare" => e.realm = "")
      /\ MapInv'
      /\ ReceivedOnce'
      /\ \A v \in Verifier : due'[v] = None => handed'[v] = 0
      /\ \A q \in Proc : Bulk(q) => found_by(q) \in Verifier /\ found_by(q) # w
      /\ \A q \in Proc : Stored(q) \/ pc[q] = "created" =>
           \/ handed'[own(q)] = 1
           \/ due'[own(q)] <= clock
           \/ \E f \in redis' : f.state = key[q] /\ f.verifier = own(q)
  BY Takes
<1>d. x \in Value /\ x.form = e.form /\ x.verifier = w /\ x.realm = e.realm
  BY DEF found, TypeOK, Slot, Value
<1>e. reply' = [reply EXCEPT ![p] = answer("bulk", x)]
  OBVIOUS
<1> HIDE DEF w, x
<1>f. answer("bulk", x) \in Reply
  BY <1>d DEF answer, Reply
<1>g. /\ reply'[p] = answer("bulk", x) /\ \A q \in Proc \ {p} : reply'[q] = reply[q]
      /\ reply' \in [Proc -> Reply \cup {None}]
  BY <1>e, <1>f DEF TypeOK
<1>i. reply'[p] # None /\ reply'[p].status = "bulk" /\ reply'[p].value = x
  BY <1>f, <1>g, NoneApart DEF answer
<1>j. \A q \in Proc : /\ Creating(q)' <=> Creating(q)
                      /\ own(q)' = own(q)
                      /\ Stored(q)' <=> Stored(q)
                      /\ Setting(q)' <=> Setting(q)
                      /\ q # p => (Bulk(q)' <=> Bulk(q)) /\ found_by(q)' = found_by(q)
                      /\ Straying(q)' <=> Straying(q)
                      /\ lost(q)' = lost(q)
  BY <1>g, <1>h, <1>i DEF Creating, own, Stored, Setting, Bulk, found_by, Straying, lost
<1>k. found_by(p)' = w
  BY <1>d, <1>i DEF found_by
<1>1. TypeOK'
  BY <1>c, <1>g, <1>h DEF TypeOK
<1>2. CallInv'
  <2>1. ASSUME NEW q \in Proc, reply'[q] # None
        PROVE  \/ pc'[q] = "set" /\ reply'[q].status \in {"OK", "nil", "error"}
               \/ pc'[q] = "getdel" /\ reply'[q].status \in {"nil", "bulk"}
    <3>1. CASE q = p
      BY <1>h, <1>i, <3>1
    <3>2. CASE q # p
      BY <1>g, <1>h, <2>1, <3>2 DEF CallInv
    <3> QED BY <3>1, <3>2
  <2>2. ASSUME NEW q \in Proc
        PROVE  /\ Creating(q)' => arg'[q] \in CreateCall
               /\ pc'[q] = "getdel" => arg'[q] \in State
               /\ pc'[q] \in {"set", "created"} => key'[q] \in State
               /\ pc'[q] = "created" => ret'[q] = key'[q]
               /\ pc'[q] = "consumed" => ret'[q] \in StateEntry \cup {None}
               /\ pc'[q] \notin {"created", "consumed"} => ret'[q] = None
    BY <1>h, <1>j DEF CallInv
  <2> QED BY <2>1, <2>2 DEF CallInv
<1>4. OwnInv'
  BY <1>h, <1>j DEF OwnInv
<1>5. StrayInv'
  BY <1>h, <1>j DEF StrayInv
<1>6. HandedInv'
  <2>1. \A v \in Verifier : due'[v] # None => requested'[v] # None
    BY <1>h DEF HandedInv
  <2>2. ASSUME NEW q \in Proc \ {p}, Bulk(q)'
        PROVE  /\ handed'[found_by(q)'] = 1 /\ received'[found_by(q)'] = 0
               /\ requested'[found_by(q)'] = reply'[q].value.realm
               /\ reply'[q].value.form = "bare" => reply'[q].value.realm = ""
               /\ \A s \in Proc : Bulk(s)' /\ found_by(s)' = found_by(q)' => s = q
    <3>1. Bulk(q) /\ found_by(q)' = found_by(q) /\ reply'[q] = reply[q]
      BY <1>g, <1>j, <2>2
    <3>2. /\ handed[found_by(q)] = 1 /\ received[found_by(q)] = 0
          /\ requested[found_by(q)] = reply[q].value.realm
          /\ reply[q].value.form = "bare" => reply[q].value.realm = ""
      BY <3>1 DEF HandedInv
    <3>3. \A s \in Proc : Bulk(s) /\ found_by(s) = found_by(q) => s = q
      BY <3>1 DEF HandedInv
    <3>4. found_by(q) \in Verifier /\ found_by(q) # w
      BY <1>c, <3>1
    <3>5. \A s \in Proc : Bulk(s)' /\ found_by(s)' = found_by(q)' => s = q
      BY <1>j, <1>k, <3>1, <3>3, <3>4
    <3> QED BY <1>c, <1>h, <3>1, <3>2, <3>4, <3>5, ZenonT(90)
  <2>3. /\ handed'[found_by(p)'] = 1 /\ received'[found_by(p)'] = 0
        /\ requested'[found_by(p)'] = reply'[p].value.realm
        /\ reply'[p].value.form = "bare" => reply'[p].value.realm = ""
        /\ \A s \in Proc : Bulk(s)' /\ found_by(s)' = found_by(p)' => s = p
    <3>1. \A s \in Proc : Bulk(s)' /\ found_by(s)' = found_by(p)' => s = p
      BY <1>c, <1>j, <1>k, ZenonT(90)
    <3>2. handed'[w] = 1 /\ received'[w] = 0
      BY <1>c, <1>h
    <3>3. requested'[w] = reply'[p].value.realm
      BY <1>c, <1>d, <1>h, <1>i
    <3>4. reply'[p].value.form = "bare" => reply'[p].value.realm = ""
      BY <1>c, <1>d, <1>i
    <3> QED BY <1>k, <3>1, <3>2, <3>3, <3>4
  <2> QED BY <1>c, <2>1, <2>2, <2>3, ZenonT(90) DEF HandedInv
<1>7. OutcomeInv'
  <2>1. ASSUME NEW q \in Proc, Stored(q)' \/ pc'[q] = "created"
        PROVE  \/ handed'[own(q)'] = 1
               \/ due'[own(q)'] <= clock'
               \/ \E f \in redis' : f.state = key'[q] /\ f.verifier = own(q)'
    <3>1. (Stored(q) \/ pc[q] = "created") /\ own(q)' = own(q)
      BY <1>h, <1>j, <2>1
    <3>2. \/ handed'[own(q)] = 1
          \/ due'[own(q)] <= clock
          \/ \E f \in redis' : f.state = key[q] /\ f.verifier = own(q)
      BY <1>c, <3>1
    <3> QED BY <1>h, <3>1, <3>2
  <2>2. ASSUME NEW q \in Proc, reply'[q] # None, reply'[q].status = "error"
        PROVE  arg'[q].ttl >= IntLimit
    <3>1. q # p
      BY <1>i, <2>2
    <3> QED BY <1>g, <1>h, <2>2, <3>1 DEF OutcomeInv
  <2> QED BY <2>1, <2>2 DEF OutcomeInv
<1>8. ConsumedIntact'
  BY <1>h DEF ConsumedIntact
<1> QED BY <1>1, <1>2, <1>c, <1>4, <1>5, <1>6, <1>7, <1>8

\* Steps of the server after which no coroutine is anywhere else: what remains
\* to show is what they do to Redis and to the abandoned commands.
LEMMA QuietStep ==
  ASSUME IInv, TypeOK', MapInv', StrayInv',
         UNCHANGED <<pc, arg, attempt, key, reply, ret, received>>,
         \A v \in Verifier : requested[v] # None => requested'[v] = requested[v],
         \A q \in Proc : Creating(q) => (due'[own(q)] = None <=> due[own(q)] = None),
         \A v \in Verifier : (due'[v] = None => handed'[v] = 0)
                             /\ (due'[v] # None => requested'[v] # None),
         ReceivedOnce',
         \A q \in Proc : Bulk(q) => handed'[found_by(q)] = 1,
         \A q \in Proc : Stored(q) \/ pc[q] = "created" =>
           \/ handed'[own(q)] = 1
           \/ due'[own(q)] <= clock'
           \/ \E e \in redis' : e.state = key[q] /\ e.verifier = own(q)
  PROVE  IInv'
<1> USE DEF IInv
<1>h. UNCHANGED <<pc, arg, attempt, key, reply, ret, received>>
  OBVIOUS
<1>a. \A q \in Proc : /\ Creating(q)' <=> Creating(q)
                      /\ own(q)' = own(q)
                      /\ Stored(q)' <=> Stored(q)
                      /\ Setting(q)' <=> Setting(q)
                      /\ Bulk(q)' <=> Bulk(q)
                      /\ found_by(q)' = found_by(q)
  BY <1>h DEF Creating, own, Stored, Setting, Bulk, found_by
<1>b. \A q \in Proc : Creating(q) => requested'[own(q)] = arg[q].entry.realm
  <2>1. \A q \in Proc : Creating(q) => own(q) \in Verifier /\ arg[q].entry.realm # None
    BY OwnType, NoneApart
  <2> QED BY <2>1 DEF OwnInv
<1>c. \A q \in Proc : Bulk(q) => requested'[found_by(q)] = reply[q].value.realm
  <2>1. \A q \in Proc : Bulk(q) => found_by(q) \in Verifier /\ reply[q].value.realm # None
    BY NoneApart DEF TypeOK, Bulk, found_by, Reply, Value
  <2> QED BY <2>1, ZenonT(90) DEF HandedInv
<1>1. CallInv'
  BY <1>a, <1>h DEF CallInv
<1>2. OwnInv'
  <2>1. \A q \in Proc : Creating(q)' => (due'[own(q)'] = None <=> Setting(q)')
    BY <1>a DEF OwnInv
  <2>2. \A q, r \in Proc : Creating(q)' /\ Creating(r)' /\ own(r)' = own(q)' => r = q
    BY <1>a DEF OwnInv
  <2> QED BY <1>a, <1>b, <1>h, <2>1, <2>2 DEF OwnInv
<1>3. HandedInv'
  <2>1. ASSUME NEW q \in Proc, Bulk(q)'
        PROVE  /\ handed'[found_by(q)'] = 1 /\ received'[found_by(q)'] = 0
               /\ requested'[found_by(q)'] = reply'[q].value.realm
               /\ reply'[q].value.form = "bare" => reply'[q].value.realm = ""
               /\ \A s \in Proc : Bulk(s)' /\ found_by(s)' = found_by(q)' => s = q
    <3>1. Bulk(q) /\ found_by(q)' = found_by(q) /\ reply'[q] = reply[q]
      BY <1>a, <1>h, <2>1
    <3>2. /\ received[found_by(q)] = 0
          /\ reply[q].value.form = "bare" => reply[q].value.realm = ""
      BY <3>1 DEF HandedInv
    <3>3. \A s \in Proc : Bulk(s) /\ found_by(s) = found_by(q) => s = q
      BY <3>1 DEF HandedInv
    <3>4. \A s \in Proc : Bulk(s)' /\ found_by(s)' = found_by(q)' => s = q
      BY <1>a, <3>1, <3>3
    <3> QED BY <1>c, <1>h, <3>1, <3>2, <3>4
  <2> QED BY <2>1 DEF HandedInv
<1>4. OutcomeInv'
  <2>1. \A q \in Proc : Stored(q)' \/ pc'[q] = "created" =>
          \/ handed'[own(q)'] = 1
          \/ due'[own(q)'] <= clock'
          \/ \E e \in redis' : e.state = key'[q] /\ e.verifier = own(q)'
    BY <1>a, <1>h
  <2>2. \A q \in Proc : reply'[q] # None /\ reply'[q].status = "error" => arg'[q].ttl >= IntLimit
    BY <1>h DEF OutcomeInv
  <2> QED BY <2>1, <2>2 DEF OutcomeInv
<1>5. ConsumedIntact'
  <2>1. ASSUME NEW q \in Proc, pc'[q] = "consumed", ret'[q] # None
        PROVE  requested'[ret'[q].code_verifier] = ret'[q].realm
    <3>1. pc[q] = "consumed" /\ ret[q] # None /\ ret'[q] = ret[q]
      BY <1>h, <2>1
    <3>2. ret[q].code_verifier \in Verifier /\ ret[q].realm # None
      BY <3>1, NoneApart DEF CallInv, StateEntry
    <3>3. requested[ret[q].code_verifier] = ret[q].realm
      BY <3>1 DEF ConsumedIntact
    <3> QED BY <3>1, <3>2, <3>3
  <2> QED BY <2>1 DEF ConsumedIntact
<1> QED BY <1>1, <1>2, <1>3, <1>4, <1>5

\* What a SET that stores something needs and does.
LEMMA SetAnswer ==
  ASSUME NEW c, NEW r, ExecuteSet(c, r), r.status = "OK"
  PROVE  /\ found(c.key) = {}
         /\ redis' = without(redis, c.key) \cup
                       {[state |-> c.key, form |-> c.value.form,
                         verifier |-> c.value.verifier, realm |-> c.value.realm,
                         expires_at |-> clock + c.ttl]}
         /\ due' = [due EXCEPT ![c.value.verifier] = clock + c.ttl]
         /\ UNCHANGED handed
<1>1. answer("error", None).status # "OK" /\ answer("nil", None).status # "OK"
  BY DEF answer
<1> QED BY <1>1 DEF ExecuteSet

\* The verifier of an abandoned SET.
LEMMA LostType ==
  ASSUME TypeOK, NEW p \in Proc, Straying(p)
  PROVE  /\ lost(p) \in Verifier /\ stray[p].value \in Value /\ stray[p].key \in State
         /\ \E ttl \in Ttl : stray[p].ttl = ttl_seconds(ttl)
  BY DEF TypeOK, Straying, lost, Command, Value

LEMMA ServeStrayStep ==
  ASSUME IInv, NEW p \in Proc, ServeStray(p)
  PROVE  IInv'
<1> USE DEF IInv
<1>h. UNCHANGED <<clock, pc, arg, attempt, key, reply, ret, requested, received>>
  BY DEF ServeStray
<1>a. /\ stray[p] # None /\ stray' = [stray EXCEPT ![p] = None]
      /\ stray[p] \in Command
  BY DEF ServeStray, TypeOK
<1>b. PICK r \in Reply : Execute(stray[p], r)
  BY DEF ServeStray
<1>c. stray' \in [Proc -> Command \cup {None}]
  BY <1>a DEF TypeOK
<1>d. \A q \in Proc : Straying(q)' => q # p /\ Straying(q) /\ stray'[q] = stray[q] /\ lost(q)' = lost(q)
  BY <1>a DEF Straying, lost, TypeOK
<1>e. \A q, s \in Proc : Straying(q)' /\ Straying(s)' /\ lost(s)' = lost(q)' => s = q
  BY <1>d DEF StrayInv
<1>f. \A q, s \in Proc : Straying(q)' /\ Creating(s)' => own(s)' # lost(q)'
  <2>1. \A s \in Proc : (Creating(s)' <=> Creating(s)) /\ own(s)' = own(s)
    BY <1>h DEF Creating, own
  <2> QED BY <1>d, <2>1 DEF StrayInv
<1>g. \A q \in Proc : Straying(q)' =>
        requested'[lost(q)'] = stray'[q].value.realm /\ stray'[q].value.form = "fields"
  BY <1>d, <1>h DEF StrayInv
<1>i. \A q \in Proc : Stored(q) \/ pc[q] = "created" =>
        \/ handed[own(q)] = 1
        \/ due[own(q)] <= clock
        \/ \E e \in redis : e.state = key[q] /\ e.verifier = own(q)
  BY DEF OutcomeInv
<1>j. /\ \A w \in Verifier : (due[w] = None => handed[w] = 0) /\ (due[w] # None => requested[w] # None)
      /\ \A q \in Proc : Bulk(q) => handed[found_by(q)] = 1
  BY DEF HandedInv
<1>1. CASE UNCHANGED serverVars
  <2>1. UNCHANGED <<redis, due, handed>>
    BY <1>1 DEF serverVars
  <2>2. TypeOK'
    BY <1>c, <1>h, <2>1 DEF TypeOK
  <2>3. MapInv'
    BY <1>h, <2>1 DEF MapInv
  <2>4. \A q \in Proc : Straying(q)' => due'[lost(q)'] = None
    BY <1>d, <2>1 DEF StrayInv
  <2>5. StrayInv'
    BY <1>e, <1>f, <1>g, <2>4 DEF StrayInv
  <2>6. ReceivedOnce'
    BY <1>h, <2>1 DEF HandedInv, ReceivedOnce
  <2> QED BY <1>h, <1>i, <1>j, <2>1, <2>2, <2>3, <2>5, <2>6, QuietStep
<1>2. CASE ExecuteSet(stray[p], r) /\ r.status = "OK"
  <2> DEFINE x == stray[p].value
             d == clock + stray[p].ttl
             k == stray[p].key
  <2>a. Straying(p) /\ lost(p) = x.verifier
    BY <1>2, <1>a DEF ExecuteSet, Straying, lost
  <2>b. x.verifier \in Verifier /\ x \in Value /\ k \in State
    BY <2>a, LostType
  <2>c. d \in Deadline
    BY <2>a, LostType, Deadlines
  <2>d. /\ requested[x.verifier] = x.realm /\ due[x.verifier] = None
        /\ (x.form = "bare" => x.realm = "")
    BY <2>a DEF StrayInv
  <2>e. /\ found(k) = {}
        /\ redis' = without(redis, k) \cup
                      {[state |-> k, form |-> x.form, verifier |-> x.verifier,
                        realm |-> x.realm, expires_at |-> d]}
        /\ due' = [due EXCEPT ![x.verifier] = d]
        /\ UNCHANGED handed
    BY <1>2, SetAnswer
  <2> HIDE DEF x, d, k
  <2>f. /\ redis' \subseteq Slot
        /\ due' \in [Verifier -> Deadline \cup {None}]
        /\ \A w \in Verifier : due'[w] = IF w = x.verifier THEN d ELSE due[w]
        /\ MapInv'
        /\ \A q \in Proc : Stored(q) \/ pc[q] = "created" =>
             \/ handed'[own(q)] = 1
             \/ due'[own(q)] <= clock
             \/ \E e \in redis' : e.state = key[q] /\ e.verifier = own(q)
    BY <1>h, <2>b, <2>c, <2>d, <2>e, Stores
  <2>g. d # None /\ requested[x.verifier] # None
    BY <2>b, <2>c, <2>d, Deadlines, NoneApart DEF Value
  <2>1. TypeOK'
    BY <1>c, <1>h, <2>e, <2>f DEF TypeOK
  <2>2. \A q \in Proc : Straying(q)' => due'[lost(q)'] = None
    <3>1. \A q \in Proc : Straying(q)' => lost(q) \in Verifier /\ lost(q) # x.verifier
      BY <1>d, <2>a, LostType DEF StrayInv
    <3> QED BY <1>d, <2>f, <3>1 DEF StrayInv
  <2>3. StrayInv'
    BY <1>e, <1>f, <1>g, <2>2 DEF StrayInv
  <2>4. \A q \in Proc : Creating(q) => (due'[own(q)] = None <=> due[own(q)] = None)
    <3>1. \A q \in Proc : Creating(q) => own(q) \in Verifier /\ own(q) # x.verifier
      BY <2>a, OwnType DEF StrayInv
    <3> QED BY <2>f, <3>1
  <2>5. \A w \in Verifier : (due'[w] = None => handed'[w] = 0) /\ (due'[w] # None => requested'[w] # None)
    BY <1>h, <1>j, <2>d, <2>e, <2>f, <2>g
  <2>6. ReceivedOnce'
    BY <1>h, <2>e DEF HandedInv, ReceivedOnce
  <2>7. \A q \in Proc : Bulk(q) => handed'[found_by(q)] = 1
    BY <1>j, <2>e
  <2> QED BY <1>h, <2>1, <2>3, <2>4, <2>5, <2>6, <2>7, <2>f, QuietStep
<1>3. ASSUME NEW e \in found(stray[p].key), stray[p].key \in State,
             redis' = without(redis, stray[p].key),
             handed' = [handed EXCEPT ![e.verifier] = @ + 1],
             UNCHANGED due
      PROVE  IInv'
  <2> DEFINE w == e.verifier
  <2>c. /\ redis' \subseteq Slot
        /\ handed' \in [Verifier -> Nat]
        /\ \A v \in Verifier : handed'[v] = IF v = w THEN 1 ELSE handed[v]
        /\ MapInv'
        /\ ReceivedOnce'
        /\ \A v \in Verifier : due'[v] = None => handed'[v] = 0
        /\ \A q \in Proc : Bulk(q) => found_by(q) \in Verifier /\ found_by(q) # w
        /\ \A q \in Proc : Stored(q) \/ pc[q] = "created" =>
             \/ handed'[own(q)] = 1
             \/ due'[own(q)] <= clock
             \/ \E f \in redis' : f.state = key[q] /\ f.verifier = own(q)
    BY <1>3, <1>h, Takes
  <2> HIDE DEF w
  <2>1. TypeOK'
    BY <1>3, <1>c, <1>h, <2>c DEF TypeOK
  <2>2. \A q \in Proc : Straying(q)' => due'[lost(q)'] = None
    BY <1>3, <1>d DEF StrayInv
  <2>3. StrayInv'
    BY <1>e, <1>f, <1>g, <2>2 DEF StrayInv
  <2>4. \A q \in Proc : Bulk(q) => handed'[found_by(q)] = 1
    BY <1>j, <2>c
  <2> QED BY <1>3, <1>h, <1>j, <2>1, <2>3, <2>4, <2>c, QuietStep
<1>4. CASE ExecuteSet(stray[p], r)
  BY <1>1, <1>2, <1>4 DEF ExecuteSet, answer
<1>5. CASE ExecuteGetdel(stray[p], r)
  <2>1. stray[p].key \in State
    BY <1>a DEF Command
  <2> QED BY <1>1, <1>3, <1>5, <2>1 DEF ExecuteGetdel
<1> QED BY <1>4, <1>5, <1>b DEF Execute

LEMMA LegacyStep ==
  ASSUME IInv, NEW s \in State, NEW v \in Verifier, NEW ttl \in Ttl, LegacyCreate(s, v, ttl)
  PROVE  IInv'
<1> USE DEF IInv
<1> DEFINE x == [form |-> "bare", verifier |-> v, realm |-> ""]
           d == clock + ttl_seconds(ttl)
           c == [op |-> "SET", key |-> s, value |-> x, ttl |-> ttl_seconds(ttl)]
<1>h. UNCHANGED <<clock, pc, arg, attempt, key, reply, stray, ret, received>>
  BY DEF LegacyCreate
<1>a. requested[v] = None /\ requested' = [requested EXCEPT ![v] = ""] /\ "" \in Realm
  BY RedisAssumption DEF LegacyCreate, RedisAssumption
<1>b. /\ requested' \in [Verifier -> Realm \cup {None}]
      /\ \A w \in Verifier : requested'[w] = IF w = v THEN "" ELSE requested[w]
  BY <1>a DEF TypeOK
<1>c. due[v] = None
  BY <1>a DEF HandedInv
<1>d. x \in Value /\ x.verifier = v /\ x.realm = "" /\ x.form = "bare"
  BY <1>a DEF Value
<1>e. d \in Deadline
  BY Deadlines
<1>f. d # None /\ "" # None
  BY <1>a, <1>e, Deadlines, NoneApart
<1>g. ExecuteSet(c, answer("OK", None)) /\ answer("OK", None).status = "OK"
  BY DEF LegacyCreate, answer
<1>i. /\ found(s) = {}
      /\ redis' = without(redis, s) \cup
                    {[state |-> s, form |-> x.form, verifier |-> x.verifier,
                      realm |-> x.realm, expires_at |-> d]}
      /\ due' = [due EXCEPT ![x.verifier] = d]
      /\ UNCHANGED handed
  <2>1. c.key = s /\ c.value = x /\ c.ttl = ttl_seconds(ttl)
    OBVIOUS
  <2> HIDE DEF c, x
  <2> QED BY <1>g, <2>1, SetAnswer
<1> HIDE DEF x, d, c
<1>j. /\ redis' \subseteq Slot
      /\ due' \in [Verifier -> Deadline \cup {None}]
      /\ \A w \in Verifier : due'[w] = IF w = v THEN d ELSE due[w]
      /\ MapInv'
      /\ \A q \in Proc : Stored(q) \/ pc[q] = "created" =>
           \/ handed'[own(q)] = 1
           \/ due'[own(q)] <= clock
           \/ \E e \in redis' : e.state = key[q] /\ e.verifier = own(q)
  <2>1. requested'[x.verifier] = x.realm /\ due[x.verifier] = None
    BY <1>b, <1>c, <1>d
  <2>2. \A w \in Verifier : w # x.verifier => requested'[w] = requested[w]
    BY <1>b, <1>d
  <2>3. x.form = "bare" => x.realm = ""
    BY <1>d
  <2>4. /\ redis' \subseteq Slot
        /\ due' \in [Verifier -> Deadline \cup {None}]
        /\ \A w \in Verifier : due'[w] = IF w = x.verifier THEN d ELSE due[w]
        /\ MapInv'
        /\ \A q \in Proc : Stored(q) \/ pc[q] = "created" =>
             \/ handed'[own(q)] = 1
             \/ due'[own(q)] <= clock
             \/ \E e \in redis' : e.state = key[q] /\ e.verifier = own(q)
    BY <1>d, <1>e, <1>h, <1>i, <2>1, <2>2, <2>3, Stores
  <2> QED BY <1>d, <2>4
<1>1. TypeOK'
  BY <1>b, <1>h, <1>i, <1>j DEF TypeOK
<1>2. StrayInv'
  <2>1. \A q \in Proc : Straying(q) => lost(q) \in Verifier /\ lost(q) # v
    <3>1. \A q \in Proc : Straying(q) => stray[q].value.realm # None
      BY LostType, NoneApart DEF Value
    <3> QED BY <1>a, <3>1, LostType DEF StrayInv
  <2>2. \A q \in Proc : /\ Straying(q)' <=> Straying(q)
                        /\ lost(q)' = lost(q)
                        /\ Creating(q)' <=> Creating(q)
                        /\ own(q)' = own(q)
    BY <1>h DEF Straying, lost, Creating, own
  <2>3. \A q \in Proc : Straying(q) => requested'[lost(q)] = stray[q].value.realm /\ due'[lost(q)] = None
    BY <1>b, <1>j, <2>1 DEF StrayInv
  <2> QED BY <1>h, <2>2, <2>3 DEF StrayInv
<1>3. \A w \in Verifier : requested[w] # None => requested'[w] = requested[w]
  BY <1>a, <1>b
<1>4. \A q \in Proc : Creating(q) => (due'[own(q)] = None <=> due[own(q)] = None)
  <2>1. \A q \in Proc : Creating(q) => own(q) \in Verifier /\ arg[q].entry.realm # None
    BY OwnType, NoneApart
  <2>2. \A q \in Proc : Creating(q) => own(q) # v
    BY <1>a, <2>1 DEF OwnInv
  <2> QED BY <1>j, <2>1, <2>2
<1>5. \A w \in Verifier : (due'[w] = None => handed'[w] = 0) /\ (due'[w] # None => requested'[w] # None)
  BY <1>b, <1>f, <1>i, <1>j DEF HandedInv
<1>6. ReceivedOnce'
  BY <1>h, <1>i DEF HandedInv, ReceivedOnce
<1>7. \A q \in Proc : Bulk(q) => handed'[found_by(q)] = 1
  BY <1>i DEF HandedInv
<1> QED BY <1>1, <1>2, <1>3, <1>4, <1>5, <1>6, <1>7, <1>h, <1>j, QuietStep

LEMMA TickStep ==
  ASSUME IInv, Tick
  PROVE  IInv'
<1> USE DEF IInv
<1>h. UNCHANGED <<redis, due, handed, pc, arg, attempt, key, reply, stray, ret, requested, received>>
  BY DEF Tick, serverVars
<1>1. TypeOK'
  <2>1. clock' \in 0 .. MaxClock
    <3> DEFINE M == MaxClock
    <3>1. M \in Nat
      BY RedisAssumption DEF RedisAssumption
    <3>2. clock \in 0 .. M /\ clock < M /\ clock' = clock + 1
      BY DEF TypeOK, Tick
    <3> HIDE DEF M
    <3>3. clock' \in 0 .. M
      BY <3>1, <3>2
    <3> QED BY <3>3 DEF M
  <2> QED BY <1>h, <2>1 DEF TypeOK
<1>2. MapInv'
  BY <1>h DEF MapInv
<1>3. StrayInv'
  BY <1>h DEF StrayInv, Straying, lost, Creating, own
<1>4. ReceivedOnce'
  BY <1>h DEF HandedInv, ReceivedOnce
<1>5. ASSUME NEW q \in Proc, Stored(q) \/ pc[q] = "created"
      PROVE  \/ handed'[own(q)] = 1
             \/ due'[own(q)] <= clock'
             \/ \E e \in redis' : e.state = key[q] /\ e.verifier = own(q)
  <2>1. Creating(q) /\ ~ Setting(q)
    BY <1>5 DEF Creating, Setting, Stored
  <2>2. own(q) \in Verifier /\ due[own(q)] # None
    BY <2>1, OwnType DEF OwnInv
  <2>3. due[own(q)] \in Int
    BY <2>2, Deadlines DEF TypeOK
  <2>4. clock \in Int /\ clock' = clock + 1
    BY DEF Tick, TypeOK
  <2>5. \/ handed[own(q)] = 1
        \/ due[own(q)] <= clock
        \/ \E e \in redis : e.state = key[q] /\ e.verifier = own(q)
    BY <1>5 DEF OutcomeInv
  <2>6. due[own(q)] <= clock => due[own(q)] <= clock'
    BY <2>3, <2>4
  <2> QED BY <1>h, <2>5, <2>6
<1>6. \A w \in Verifier : (due'[w] = None => handed'[w] = 0) /\ (due'[w] # None => requested'[w] # None)
  BY <1>h DEF HandedInv
<1>7. \A q \in Proc : Bulk(q) => handed'[found_by(q)] = 1
  BY <1>h DEF HandedInv
<1> QED BY <1>1, <1>2, <1>3, <1>4, <1>5, <1>6, <1>7, <1>h, QuietStep

LEMMA ServeStep ==
  ASSUME IInv, NEW p \in Proc, Serve(p)
  PROVE  IInv'
<1> USE DEF IInv
<1>h. UNCHANGED <<clock, pc, arg, attempt, key, stray, ret, requested, received>>
  BY DEF Serve
<1>a. pc[p] \in {"set", "getdel"} /\ reply[p] = None
  BY DEF Serve
<1>b. PICK r \in Reply : Execute(command(p), r) /\ reply' = [reply EXCEPT ![p] = r]
  BY DEF Serve
<1>1. CASE pc[p] = "set"
  <2> DEFINE c == command(p)
  <2>a. /\ c.op = "SET" /\ c.key = key[p] /\ c.ttl = ttl_seconds(arg[p].ttl)
        /\ c.value = [form |-> "fields", verifier |-> own(p), realm |-> arg[p].entry.realm]
    BY <1>1, SetCommand
  <2>b. ExecuteSet(c, r)
    BY <1>b, <2>a DEF Execute, ExecuteGetdel
  <2>c. arg[p].ttl \in Ttl /\ arg[p].ttl \in Int /\ IntLimit \in Int
    <3>1. arg[p].ttl \in Ttl
      BY <1>1, OwnType DEF Creating
    <3>2. arg[p].ttl \in Int
      BY <3>1, RedisAssumption DEF RedisAssumption
    <3>3. IntLimit \in Int
      <4> DEFINE L == IntLimit
      <4>1. L \in Nat
        BY RedisAssumption DEF RedisAssumption
      <4> HIDE DEF L
      <4>2. L \in Int
        BY <4>1
      <4> QED BY <4>2 DEF L
    <3> QED BY <3>1, <3>2, <3>3
  <2> HIDE DEF c
  <2>1. CASE c.ttl <= 0 /\ r = answer("error", None) /\ UNCHANGED serverVars
    <3>1. ~ (ttl_seconds(arg[p].ttl) > 0)
      BY <2>1, <2>a, <2>c, Lifetime
    <3>2. arg[p].ttl >= IntLimit
      BY <2>c, <3>1, Lifetime
    <3>3. r.status = "error"
      BY <2>1 DEF answer
    <3> QED BY <1>1, <1>a, <1>b, <1>h, <2>1, <3>2, <3>3, ServeNothing
  <2>2. CASE r = answer("nil", None) /\ UNCHANGED serverVars
    <3>1. r.status = "nil"
      BY <2>2 DEF answer
    <3> QED BY <1>a, <1>b, <1>h, <2>2, <3>1, ServeNothing
  <2>3. CASE r = answer("OK", None) /\ ~ UNCHANGED serverVars
    <3>1. r.status = "OK"
      BY <2>3 DEF answer
    <3>2. /\ found(c.key) = {}
          /\ redis' = without(redis, c.key) \cup
                        {[state |-> c.key, form |-> c.value.form,
                          verifier |-> c.value.verifier, realm |-> c.value.realm,
                          expires_at |-> clock + c.ttl]}
          /\ due' = [due EXCEPT ![c.value.verifier] = clock + c.ttl]
          /\ UNCHANGED handed
      BY <2>b, <3>1, SetAnswer
    <3>3. /\ c.value.form = "fields" /\ c.value.verifier = own(p)
          /\ c.value.realm = arg[p].entry.realm
      BY <2>a
    <3> QED BY <1>1, <1>a, <1>b, <1>h, <2>3, <2>a, <3>2, <3>3, ServeStores
  <2>4. CASE UNCHANGED serverVars /\ r = answer("OK", None)
    <3>1. r.status = "OK"
      BY <2>4 DEF answer
    <3>2. /\ found(c.key) = {}
          /\ redis' = without(redis, c.key) \cup
                        {[state |-> c.key, form |-> c.value.form,
                          verifier |-> c.value.verifier, realm |-> c.value.realm,
                          expires_at |-> clock + c.ttl]}
          /\ due' = [due EXCEPT ![c.value.verifier] = clock + c.ttl]
          /\ UNCHANGED handed
      BY <2>b, <3>1, SetAnswer
    <3>3. /\ c.value.form = "fields" /\ c.value.verifier = own(p)
          /\ c.value.realm = arg[p].entry.realm
      BY <2>a
    <3> QED BY <1>1, <1>a, <1>b, <1>h, <2>4, <2>a, <3>2, <3>3, ServeStores
  <2> QED BY <2>1, <2>2, <2>3, <2>4, <2>b DEF ExecuteSet
<1>2. CASE pc[p] = "getdel"
  <2>a. command(p).op = "GETDEL" /\ command(p).key = arg[p] /\ arg[p] \in State
    BY <1>2, GetdelCommand DEF CallInv
  <2>b. ExecuteGetdel(command(p), r)
    BY <1>b, <2>a DEF Execute, ExecuteSet
  <2>1. CASE r = answer("nil", None) /\ UNCHANGED serverVars
    <3>1. r.status = "nil"
      BY <2>1 DEF answer
    <3> QED BY <1>a, <1>b, <1>h, <2>1, <3>1, ServeNothing
  <2>2. ASSUME NEW e \in found(arg[p]),
               r = answer("bulk", [form |-> e.form, verifier |-> e.verifier, realm |-> e.realm]),
               redis' = without(redis, arg[p]),
               handed' = [handed EXCEPT ![e.verifier] = @ + 1],
               UNCHANGED due
        PROVE  IInv'
    BY <1>2, <1>a, <1>b, <1>h, <2>2, <2>a, ServeTakes
  <2> QED BY <2>1, <2>2, <2>a, <2>b DEF ExecuteGetdel
<1> QED BY <1>1, <1>2, <1>a

-----------------------------------------------------------------------------
LEMMA InitHolds == ASSUME Init PROVE IInv
<1>1. TypeOK
  <2>1. 0 \in 0 .. MaxClock
    <3> DEFINE M == MaxClock
    <3>1. M \in Nat
      BY RedisAssumption DEF RedisAssumption
    <3> HIDE DEF M
    <3>2. 0 \in 0 .. M
      BY <3>1
    <3> QED BY <3>2 DEF M
  <2> QED BY <2>1, Bounds DEF Init, TypeOK
<1>2. CallInv /\ MapInv /\ OwnInv /\ StrayInv /\ OutcomeInv /\ ConsumedIntact
  BY DEF Init, CallInv, MapInv, OwnInv, StrayInv, OutcomeInv, ConsumedIntact, Creating, Stored,
         Straying
<1>3. HandedInv
  BY DEF Init, HandedInv, ReceivedOnce, Bulk
<1> QED BY <1>1, <1>2, <1>3 DEF IInv

LEMMA NextKeeps == ASSUME IInv, [Next]_vars PROVE IInv'
<1>1. ASSUME NEW p \in Proc, NEW e \in StateEntry, NEW ttl \in Ttl, CallCreate(p, e, ttl)
      PROVE  IInv'
  BY <1>1, CallCreateStep
<1>2. ASSUME NEW p \in Proc,
             \/ Send(p) \/ Return(p) \/ Fails(p) \/ FailsEarly(p) \/ Resume(p)
             \/ \E s \in State : CallConsume(p, s)
      PROVE  IInv'
  BY <1>2, ClientSteps
<1>3. ASSUME NEW p \in Proc, Serve(p) \/ ServeStray(p)
      PROVE  IInv'
  BY <1>3, ServeStep, ServeStrayStep
<1>4. ASSUME NEW s \in State, NEW v \in Verifier, NEW ttl \in Ttl, LegacyCreate(s, v, ttl)
      PROVE  IInv'
  BY <1>4, LegacyStep
<1>5. CASE Tick
  BY <1>5, TickStep
<1>6. CASE UNCHANGED vars
  <2>1. UNCHANGED <<clock, redis, due, handed, pc, arg, attempt, key, reply, stray, ret, requested, received>>
    BY <1>6 DEF vars, serverVars
  <2>2. TypeOK' /\ CallInv' /\ MapInv' /\ OwnInv'
    BY <2>1, ZenonT(90) DEF IInv, TypeOK, CallInv, MapInv, OwnInv, Creating, own, Setting, Stored
  <2>3. StrayInv' /\ OutcomeInv' /\ ConsumedIntact'
    BY <2>1 DEF IInv, StrayInv, OutcomeInv, ConsumedIntact, Creating, own, Stored, Straying, lost
  <2>4. HandedInv'
    BY <2>1 DEF IInv, HandedInv, ReceivedOnce, Bulk, found_by
  <2> QED BY <2>2, <2>3, <2>4 DEF IInv
<1> QED BY <1>1, <1>2, <1>3, <1>4, <1>5, <1>6 DEF Next, Answer

\* The inductive invariant holds in every reachable state.
THEOREM Invariance == Spec => []IInv
<1>1. Init => IInv
  BY InitHolds
<1>2. IInv /\ [Next]_vars => IInv'
  BY NextKeeps
<1> QED BY <1>1, <1>2, PTL DEF Spec

\* Every variable keeps its type.
THEOREM TypeCorrect == Spec => []TypeOK
<1>1. IInv => TypeOK
  BY DEF IInv
<1> QED BY <1>1, Invariance, PTL

\* Whatever is lost, late or repeated, no verifier reaches two callers.
THEOREM OneReceiver == Spec => []ReceivedOnce
<1>1. IInv => ReceivedOnce
  BY DEF IInv, HandedInv
<1> QED BY <1>1, Invariance, PTL

\* The state a create call returned leads to its own entry while that lasts.
THEOREM CreateCorrect == Spec => []CreateOutcome
<1>1. ASSUME IInv PROVE CreateOutcome
  <2>1. ASSUME NEW p \in Proc, pc[p] = "created"
        PROVE  \/ handed[own(p)] = 1
               \/ due[own(p)] # None /\ due[own(p)] <= clock
               \/ \E e \in redis : e.state = ret[p] /\ e.verifier = own(p)
    <3>1. Creating(p) /\ ~ Setting(p) /\ ret[p] = key[p]
      BY <1>1, <2>1 DEF Creating, Setting, IInv, CallInv
    <3>2. due[own(p)] # None
      BY <1>1, <3>1 DEF IInv, OwnInv
    <3> QED BY <1>1, <2>1, <3>1, <3>2 DEF IInv, OutcomeInv
  <2>2. \A p \in Proc : reply[p] # None /\ reply[p].status = "error" => arg[p].ttl >= IntLimit
    BY <1>1 DEF IInv, OutcomeInv
  <2> QED BY <2>1, <2>2 DEF CreateOutcome, own
<1> QED BY <1>1, Invariance, PTL

\* A consume call returns what a create call was given.
THEOREM ConsumeCorrect == Spec => []ConsumedIntact
<1>1. IInv => ConsumedIntact
  BY DEF IInv
<1> QED BY <1>1, Invariance, PTL

-----------------------------------------------------------------------------
\* A SET that is executed is a Put, which drops the expired entry it replaces;
\* a GETDEL that finds an entry is a Take.  Everything else leaves the store.

LEMMA ExecuteImplements ==
  ASSUME IInv, NEW c \in Command, NEW r, Execute(c, r), UNCHANGED clock,
         c.op = "SET" => due[c.value.verifier] = None
  PROVE  [Store!Next]_(Store!storeVars)
<1> USE DEF IInv
<1> DEFINE k == c.key
<1>a. \A e \in redis : /\ entry(e) \in held
                       /\ entry(e).state = e.state /\ entry(e).verifier = e.verifier
                       /\ entry(e).expires_at = e.expires_at
  BY DEF held, entry
<1>b. \A f \in held : \E e \in redis : f = entry(e)
  BY DEF held
<1>1. CASE UNCHANGED serverVars
  BY <1>1 DEF serverVars, Store!storeVars, held
<1>2. CASE ExecuteSet(c, r) /\ r.status = "OK"
  <2> DEFINE x == c.value
             v == c.value.verifier
             d == clock + c.ttl
             new == [state |-> k, form |-> x.form, verifier |-> v, realm |-> x.realm,
                     expires_at |-> d]
             gone == {entry(e) : e \in {f \in redis : f.state = k}}
  <2>a. c.op = "SET"
    BY <1>2 DEF ExecuteSet
  <2>b. k \in State /\ x \in Value /\ \E ttl \in Ttl : c.ttl = ttl_seconds(ttl)
    BY <2>a DEF Command
  <2>c. v \in Verifier /\ x.realm \in Realm
    BY <2>b DEF Value
  <2>d. found(k) = {} /\ redis' = without(redis, k) \cup {new} /\ UNCHANGED handed
    BY <1>2, SetAnswer
  <2>e. entry(new) = [state |-> k, verifier |-> v, realm |-> x.realm, expires_at |-> d]
    BY DEF entry
  <2>f. due[v] = None /\ handed[v] = 0
    BY <2>a, <2>c DEF HandedInv
  <2> HIDE DEF new, d, v, x, k
  <2>1. gone \in SUBSET {f \in held : Store!Expired(f)}
    <3>1. \A e \in redis : e.state = k => Expired(e)
      BY <2>d DEF found
    <3>2. \A e \in redis : e.state = k => entry(e) \in held /\ Store!Expired(entry(e))
      BY <1>a, <3>1 DEF Expired, Store!Expired
    <3> QED BY <3>2
  <2>2. \A f \in held \ gone : f.state # k /\ f.verifier # v
    <3>1. \A e \in redis : e.verifier # v
      <4>1. \A e \in redis : due[e.verifier] = e.expires_at /\ e.expires_at \in Deadline
        BY DEF MapInv, TypeOK, Slot
      <4> QED BY <2>f, <4>1, Deadlines
    <3> QED BY <1>a, <1>b, <3>1
  <2>3. held' = (held \ gone) \cup {entry(new)}
    <3>1. \A f \in held' : f \in held \ gone \/ f = entry(new)
      <4>1. ASSUME NEW f \in held' PROVE f \in held \ gone \/ f = entry(new)
        <5>1. PICK e \in redis' : f = entry(e)
          BY DEF held
        <5>2. CASE e = new
          BY <5>1, <5>2
        <5>3. CASE e \in redis /\ e.state # k
          <6>1. \A g \in gone : g.state = k
            BY <1>a
          <6> QED BY <1>a, <5>1, <5>3, <6>1
        <5> QED BY <2>d, <5>2, <5>3 DEF without
      <4> QED BY <4>1
    <3>2. \A f \in held \ gone : f \in held'
      BY <1>b, <2>d DEF held, without
    <3>3. entry(new) \in held'
      BY <2>d DEF held
    <3> QED BY <3>1, <3>2, <3>3
  <2>4. Store!Put(k, v, x.realm, d)
    BY <2>1, <2>2, <2>3, <2>d, <2>e, <2>f DEF Store!Put
  <2> QED BY <2>4, <2>b, <2>c DEF Store!Next, d
<1>3. ASSUME NEW e \in found(k), redis' = without(redis, k),
             handed' = [handed EXCEPT ![e.verifier] = @ + 1]
      PROVE  Store!Next
  <2>1. e \in redis /\ e.state = k /\ ~ Expired(e)
    BY DEF found
  <2>2. entry(e) \in held /\ ~ Store!Expired(entry(e)) /\ entry(e).verifier = e.verifier
    BY <1>a, <2>1 DEF Expired, Store!Expired
  <2>3. held' = held \ ({} \cup {entry(e)})
    <3>1. \A f \in redis : f \in redis' <=> f # e
      BY <1>3, <2>1 DEF without, MapInv
    <3>2. \A f \in redis' : f \in redis
      BY <1>3 DEF without
    <3>3. \A f \in redis : entry(f) = entry(e) => f = e
      <4>1. \A f \in redis : entry(f) = entry(e) => f.state = e.state
        <5>1. \A f \in redis : entry(f).state = f.state
          BY <1>a
        <5> QED BY <2>1, <5>1
      <4>2. \A f \in redis : f.state = e.state => f = e
        BY <2>1 DEF MapInv
      <4> QED BY <4>1, <4>2
    <3>4. \A f \in redis' : entry(f) \in held \ {entry(e)}
      BY <1>a, <3>1, <3>2, <3>3
    <3>5. \A f \in held \ {entry(e)} : f \in held'
      BY <1>b, <3>1 DEF held
    <3> QED BY <3>4, <3>5 DEF held
  <2>4. {} \in SUBSET {f \in held : Store!Expired(f)}
    OBVIOUS
  <2>5. Store!Take(entry(e))
    BY <1>3, <2>2, <2>3, <2>4 DEF Store!Take
  <2> QED BY <2>2, <2>5 DEF Store!Next
<1>4. CASE ExecuteSet(c, r)
  BY <1>1, <1>2, <1>4 DEF ExecuteSet, answer
<1>5. CASE ExecuteGetdel(c, r)
  BY <1>1, <1>3, <1>5 DEF ExecuteGetdel
<1> QED BY <1>4, <1>5 DEF Execute

LEMMA StepImplements ==
  ASSUME IInv, [Next]_vars
  PROVE  [Store!Next]_(Store!storeVars)
<1> USE DEF IInv
<1>1. ASSUME UNCHANGED <<clock, serverVars>> PROVE UNCHANGED Store!storeVars
  BY <1>1 DEF serverVars, Store!storeVars, held
<1>2. ASSUME NEW p \in Proc,
             \/ \E e \in StateEntry, ttl \in Ttl : CallCreate(p, e, ttl)
             \/ \E s \in State : CallConsume(p, s)
             \/ Send(p) \/ Fails(p) \/ FailsEarly(p) \/ Return(p) \/ Resume(p)
      PROVE  UNCHANGED <<clock, serverVars>>
  BY <1>2 DEF CallCreate, CallConsume, Send, Draw, RandFails, Throw, Fails, FailsEarly, Return,
              SetOk, SetTaken, SetGivesUp, GetdelMiss, GetdelHit, Resume
<1>3. ASSUME NEW p \in Proc, Serve(p)
      PROVE  [Store!Next]_(Store!storeVars)
  <2>1. PICK r \in Reply : Execute(command(p), r)
    BY <1>3 DEF Serve
  <2>2. UNCHANGED clock /\ pc[p] \in {"set", "getdel"} /\ reply[p] = None
    BY <1>3 DEF Serve
  <2>3. command(p) \in Command
    BY <2>2, SetCommand, GetdelCommand
  <2>4. command(p).op = "SET" => due[command(p).value.verifier] = None
    <3>1. CASE pc[p] = "set"
      <4>1. Creating(p) /\ Setting(p)
        BY <2>2, <3>1 DEF Creating, Setting, Stored
      <4>2. command(p).value.verifier = own(p)
        <5>1. command(p).value = [form |-> "fields", verifier |-> own(p), realm |-> arg[p].entry.realm]
          BY <3>1, SetCommand
        <5> QED BY <5>1
      <4> QED BY <4>1, <4>2 DEF OwnInv
    <3>2. CASE pc[p] = "getdel"
      BY <3>2, GetdelCommand
    <3> QED BY <2>2, <3>1, <3>2
  <2> QED BY <2>1, <2>2, <2>3, <2>4, ExecuteImplements
<1>4. ASSUME NEW p \in Proc, ServeStray(p)
      PROVE  [Store!Next]_(Store!storeVars)
  <2>1. PICK r \in Reply : Execute(stray[p], r)
    BY <1>4 DEF ServeStray
  <2>2. UNCHANGED clock /\ stray[p] # None /\ stray[p] \in Command
    BY <1>4 DEF ServeStray, TypeOK
  <2>3. stray[p].op = "SET" => due[stray[p].value.verifier] = None
    BY <2>2 DEF StrayInv, Straying, lost
  <2> QED BY <2>1, <2>2, <2>3, ExecuteImplements
<1>5. ASSUME NEW s \in State, NEW v \in Verifier, NEW ttl \in Ttl, LegacyCreate(s, v, ttl)
      PROVE  [Store!Next]_(Store!storeVars)
  <2> DEFINE x == [form |-> "bare", verifier |-> v, realm |-> ""]
             c == [op |-> "SET", key |-> s, value |-> x, ttl |-> ttl_seconds(ttl)]
  <2>1. Execute(c, answer("OK", None)) /\ UNCHANGED clock
    BY <1>5 DEF LegacyCreate, Execute
  <2>2. x \in Value /\ x.verifier = v
    BY RedisAssumption DEF Value, RedisAssumption
  <2>3. due[v] = None
    BY <1>5 DEF LegacyCreate, HandedInv
  <2>4. c \in Command /\ c.value = x
    BY <2>2 DEF Command
  <2> HIDE DEF c, x
  <2> QED BY <2>1, <2>2, <2>3, <2>4, ExecuteImplements
<1>6. CASE Tick
  BY <1>6 DEF Tick, serverVars, Store!Next, Store!Tick, held
<1>7. CASE UNCHANGED vars
  BY <1>1, <1>7 DEF vars
<1> QED BY <1>1, <1>2, <1>3, <1>4, <1>5, <1>6, <1>7 DEF Next, Answer

\* Redis, with commands and replies that are lost or late, implements the
\* one-time store.
THEOREM Implements == Spec => ImplementsStore
<1>1. Init => Store!Init
  BY DEF Init, Store!Init, held
<1>2. IInv /\ [Next]_vars => [Store!Next]_(Store!storeVars)
  BY StepImplements
<1> QED BY <1>1, <1>2, Invariance, PTL DEF Spec, Store!Spec, ImplementsStore

=============================================================================
