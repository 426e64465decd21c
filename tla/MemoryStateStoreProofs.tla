----------------------- MODULE MemoryStateStoreProofs -----------------------
(***************************************************************************)
(* The safety properties of MemoryStateStore, for any number of            *)
(* coroutines, states, verifiers, lifetimes and attempts, and that it      *)
(* implements StateStore.                                                  *)
(***************************************************************************)
EXTENDS MemoryStateStore, TLAPS

\* The arguments of a create call in progress.
LEMMA OwnType ==
  ASSUME TypeOK, CallInv, NEW p \in Proc, Creating(p)
  PROVE  /\ own(p) \in Verifier
         /\ arg[p].entry.realm \in Realm
         /\ arg[p].ttl \in Ttl
  BY DEF CallInv, CreateCall, StateEntry, own

\* At most one coroutine is in the critical section, none while m_ is free.
LEMMA Alone ==
  ASSUME MutexInv
  PROVE  /\ m_ = None => \A q \in Proc : pc[q] \notin {"allocate", "erase"}
         /\ \A p, q \in Proc :
              (pc[p] \in {"allocate", "erase"} /\ pc[q] \in {"allocate", "erase"})
                => p = q
  BY MemoryAssumption DEF MemoryAssumption, MutexInv

LEMMA CallCreateStep ==
  ASSUME IInv, NEW p \in Proc, NEW e \in StateEntry, NEW ttl \in Ttl, CallCreate(p, e, ttl)
  PROVE  IInv'
<1> USE DEF IInv, CallCreate
<1>a. e.code_verifier \in Verifier /\ e.realm \in Realm /\ e.realm # None
  BY MemoryAssumption DEF MemoryAssumption, StateEntry
<1>b. [entry |-> e, ttl |-> ttl] \in CreateCall
  BY DEF CreateCall
<1>c. arg'[p] = [entry |-> e, ttl |-> ttl] /\ own(p)' = e.code_verifier
  BY DEF TypeOK, own
<1>d. \A q \in Proc \ {p} : arg'[q] = arg[q] /\ pc'[q] = pc[q]
  BY DEF TypeOK
<1>e. \A v \in Verifier : requested'[v] = IF v = e.code_verifier THEN e.realm
                                                           ELSE requested[v]
  BY DEF TypeOK
<1>1. TypeOK'
  BY <1>a, <1>b DEF TypeOK
<1>2. MutexInv'
  BY MemoryAssumption DEF MemoryAssumption, TypeOK, MutexInv
<1>3. CallInv'
  BY <1>b, <1>c, <1>d DEF TypeOK, CallInv, Creating
<1>4. MapInv'
  <2>1. \A f \in map_ : /\ f.verifier \in Verifier
                        /\ requested[f.verifier] # None
    BY MemoryAssumption DEF MemoryAssumption, TypeOK, MapInv, Slot
  <2> QED BY <1>e, <2>1 DEF MapInv
<1>5. OwnInv'
  <2>1. \A q \in Proc \ {p} : Creating(q) =>
          requested[own(q)] # None /\ own(q) \in Verifier
    BY OwnType, MemoryAssumption DEF MemoryAssumption, OwnInv
  <2>2. \A q \in Proc \ {p} : /\ Creating(q)' <=> Creating(q)
                              /\ own(q)' = own(q)
    BY <1>d DEF Creating, own
  <2>3. handed[e.code_verifier] = 0 /\ \A f \in map_ : f.verifier # e.code_verifier
    BY <1>a, MemoryAssumption DEF MemoryAssumption, TypeOK, HandedInv, MapInv, Slot
  <2> QED BY <1>a, <1>c, <1>d, <1>e, <2>1, <2>2, <2>3 DEF OwnInv
<1>6. HandedInv'
  BY DEF TypeOK, HandedInv, HandedOnce, InErase
<1>7. RetInv'
  <2>1. \A q \in Proc : pc[q] \in {"erase", "consumed"} /\ ret[q] # None =>
           ret[q].code_verifier \in Verifier /\ ret[q].realm # None
    BY MemoryAssumption DEF MemoryAssumption, CallInv, StateEntry
  <2> QED BY <1>d, <1>e, <2>1 DEF TypeOK, RetInv
<1>8. CreateOutcome'
  BY DEF TypeOK, CreateOutcome, Creating
<1> QED BY <1>1, <1>2, <1>3, <1>4, <1>5, <1>6, <1>7, <1>8

LEMMA CreateLockStep ==
  ASSUME IInv, NEW p \in Proc, CreateLock(p)
  PROVE  IInv'
<1> USE DEF IInv, CreateLock, cleanup_expired_unsafe
<1>1. TypeOK'
  BY MemoryAssumption, OwnType DEF MemoryAssumption, TypeOK, MutexInv
<1>2. MutexInv'
  BY MemoryAssumption DEF MemoryAssumption, TypeOK, MutexInv
<1>3. CallInv'
  BY MemoryAssumption DEF MemoryAssumption, TypeOK, CallInv, Creating
<1>4. MapInv'
  BY OwnType DEF TypeOK, MapInv, OwnInv, Creating, own
<1>5. OwnInv'
  BY OwnType DEF TypeOK, OwnInv, Creating, own
<1>6. HandedInv'
  <2>1. \A q \in Proc : pc[q] # "erase" /\ pc'[q] # "erase"
    BY Alone DEF TypeOK
  <2> QED BY <2>1 DEF HandedInv, HandedOnce, InErase
<1>7. RetInv'
  BY DEF TypeOK, RetInv
<1>8. CreateOutcome'
  <2>1. \A q \in Proc \ {p} : pc'[q] = pc[q]
    BY DEF TypeOK
  <2>2. \A e \in map_ : e \in map_' \/ due[e.verifier] <= clock
    BY DEF MapInv
  <2> QED BY <2>1, <2>2 DEF TypeOK, CreateOutcome
<1> QED BY <1>1, <1>2, <1>3, <1>4, <1>5, <1>6, <1>7, <1>8

LEMMA InsertStep ==
  ASSUME IInv, NEW p \in Proc, NEW s \in State, Insert(p, s)
  PROVE  IInv'
<1> USE DEF IInv, Insert, contains, assign, erase
<1> DEFINE v == own(p)
           new == [state |-> s, verifier |-> v, realm |-> arg[p].entry.realm,
                   expires_at |-> clock + arg[p].ttl]
<1>a. Creating(p)
  BY DEF Creating
<1>b. new \in Slot
  BY <1>a, OwnType DEF TypeOK, Slot, Deadline
<1>c. map_' = map_ \cup {new} /\ \A e \in map_ : e.state # s
  BY DEF own
<1>d. new.state = s /\ new.verifier = v /\ new.expires_at \in Deadline
  BY <1>b DEF Slot
<1>e. due' = [due EXCEPT ![v] = new.expires_at]
  BY DEF own
<1>f. \A q \in Proc : pc[q] # "erase" /\ pc'[q] # "erase"
  BY Alone DEF TypeOK
<1>g. handed[v] = 0 /\ v \in Verifier /\ \A e \in map_ : e.verifier # v
  BY <1>a, OwnType DEF OwnInv
<1>h. \A q \in Proc \ {p} : Creating(q) => own(q) # v
  BY <1>a DEF OwnInv
<1> HIDE DEF new, v
<1>1. TypeOK'
  BY <1>b, <1>c, <1>d, <1>e, MemoryAssumption DEF MemoryAssumption, TypeOK
<1>2. MutexInv'
  BY MemoryAssumption DEF MemoryAssumption, TypeOK, MutexInv
<1>3. CallInv'
  BY MemoryAssumption DEF MemoryAssumption, TypeOK, CallInv, Creating
<1>4. MapInv'
  BY OwnType DEF TypeOK, MapInv, OwnInv, Creating, own
<1>5. OwnInv'
  <2>1. \A q \in Proc : own(q)' = own(q) /\ (Creating(q)' <=> Creating(q))
    BY DEF TypeOK, Creating, own
  <2>2. due'[v] # None
    BY <1>d, <1>e, <1>g, MemoryAssumption
    DEF MemoryAssumption, TypeOK, Deadline
  <2>3. \A q \in Proc \ {p} : /\ pc'[q] = pc[q]
                              /\ Creating(q) => due'[own(q)] = due[own(q)]
    BY <1>e, <1>h, OwnType DEF TypeOK
  <2>4. pc'[p] = "created"
    BY DEF TypeOK
  <2> QED BY <1>a, <1>c, <1>d, <1>h, <2>1, <2>2, <2>3, <2>4 DEF OwnInv, v
<1>6. HandedInv'
  BY <1>c, <1>d, <1>f, <1>g DEF HandedInv, HandedOnce, InErase
<1>7. RetInv'
  BY DEF TypeOK, RetInv
<1>8. CreateOutcome'
  <2>1. \A q \in Proc \ {p} : /\ pc'[q] = pc[q] /\ ret'[q] = ret[q]
                              /\ Creating(q) => due'[own(q)] = due[own(q)]
    BY <1>e, <1>h, OwnType DEF TypeOK
  <2>2. ret'[p] = s /\ pc'[p] = "created"
    BY DEF TypeOK
  <2> QED BY <1>c, <1>d, <1>h, <2>1, <2>2 DEF CreateOutcome, Creating, own, v
<1> QED BY <1>1, <1>2, <1>3, <1>4, <1>5, <1>6, <1>7, <1>8

LEMMA CollideStep ==
  ASSUME IInv, NEW p \in Proc, NEW s \in State, Collide(p, s)
  PROVE  IInv'
<1> USE DEF IInv, Collide, last_attempt, next_attempt
<1>1. TypeOK'
  BY MemoryAssumption, OwnType DEF MemoryAssumption, TypeOK, MutexInv
<1>2. MutexInv'
  BY MemoryAssumption DEF MemoryAssumption, TypeOK, MutexInv
<1>3. CallInv'
  BY MemoryAssumption DEF MemoryAssumption, TypeOK, CallInv, Creating
<1>4. MapInv'
  BY OwnType DEF TypeOK, MapInv, OwnInv, Creating, own
<1>5. OwnInv'
  BY OwnType DEF TypeOK, OwnInv, Creating, own
<1>6. HandedInv'
  BY DEF TypeOK, HandedInv, HandedOnce, InErase
<1>7. RetInv'
  BY DEF TypeOK, RetInv
<1>8. CreateOutcome'
  BY DEF TypeOK, CreateOutcome, Creating
<1> QED BY <1>1, <1>2, <1>3, <1>4, <1>5, <1>6, <1>7, <1>8

LEMMA ThrowStep ==
  ASSUME IInv, NEW p \in Proc, Throw(p)
  PROVE  IInv'
<1> USE DEF IInv, Throw
<1>1. TypeOK'
  BY MemoryAssumption, OwnType DEF MemoryAssumption, TypeOK, MutexInv
<1>2. MutexInv'
  BY MemoryAssumption DEF MemoryAssumption, TypeOK, MutexInv
<1>3. CallInv'
  BY MemoryAssumption DEF MemoryAssumption, TypeOK, CallInv, Creating
<1>4. MapInv'
  BY OwnType DEF TypeOK, MapInv, OwnInv, Creating, own
<1>5. OwnInv'
  BY OwnType DEF TypeOK, OwnInv, Creating, own
<1>6. HandedInv'
  BY DEF TypeOK, HandedInv, HandedOnce, InErase
<1>7. RetInv'
  BY DEF TypeOK, RetInv
<1>8. CreateOutcome'
  BY DEF TypeOK, CreateOutcome, OwnInv, Creating, own
<1> QED BY <1>1, <1>2, <1>3, <1>4, <1>5, <1>6, <1>7, <1>8

LEMMA CallConsumeStep ==
  ASSUME IInv, NEW p \in Proc, NEW s \in State, CallConsume(p, s)
  PROVE  IInv'
<1> USE DEF IInv, CallConsume
<1>1. TypeOK'
  BY MemoryAssumption, OwnType DEF MemoryAssumption, TypeOK, MutexInv
<1>2. MutexInv'
  BY MemoryAssumption DEF MemoryAssumption, TypeOK, MutexInv
<1>3. CallInv'
  BY MemoryAssumption DEF MemoryAssumption, TypeOK, CallInv, Creating
<1>4. MapInv'
  BY OwnType DEF TypeOK, MapInv, OwnInv, Creating, own
<1>5. OwnInv'
  BY OwnType DEF TypeOK, OwnInv, Creating, own
<1>6. HandedInv'
  BY DEF TypeOK, HandedInv, HandedOnce, InErase
<1>7. RetInv'
  BY DEF TypeOK, RetInv
<1>8. CreateOutcome'
  BY DEF TypeOK, CreateOutcome, Creating
<1> QED BY <1>1, <1>2, <1>3, <1>4, <1>5, <1>6, <1>7, <1>8

LEMMA ConsumeFindStep ==
  ASSUME IInv, NEW p \in Proc, NEW e \in map_, ConsumeFind(p, e)
  PROVE  IInv'
<1> USE DEF IInv, ConsumeFind, cleanup_expired_unsafe, moved_out
<1>a. /\ e.verifier \in Verifier /\ e.realm \in Realm
      /\ moved_out(e) \in StateEntry
  BY DEF TypeOK, Slot, StateEntry
<1>b. \A q \in Proc : pc[q] # "erase" /\ (pc'[q] = "erase" <=> q = p)
  BY Alone DEF TypeOK
<1>c. handed[e.verifier] = 0
  BY <1>b DEF HandedInv, InErase
<1>d. \A v \in Verifier : handed'[v] = IF v = e.verifier THEN 1 ELSE handed[v]
  BY <1>a, <1>c DEF TypeOK
<1>e. ret'[p] = moved_out(e) /\ \A q \in Proc \ {p} : pc'[q] = pc[q] /\ ret'[q] = ret[q]
  BY DEF TypeOK
<1>1. TypeOK'
  BY <1>a DEF TypeOK
<1>2. MutexInv'
  BY MemoryAssumption DEF MemoryAssumption, TypeOK, MutexInv
<1>3. CallInv'
  BY <1>a, <1>e DEF TypeOK, CallInv, Creating
<1>4. MapInv'
  BY OwnType DEF TypeOK, MapInv, OwnInv, Creating, own
<1>5. OwnInv'
  BY OwnType DEF TypeOK, OwnInv, Creating, own
<1>6. HandedInv'
  <2>1. \A f \in map_' : f \in map_ /\ f.verifier \in Verifier
    BY DEF TypeOK, Slot
  <2>2. \A f \in map_' : InErase(f)' <=> f = e
    BY <1>b, <2>1 DEF InErase, MapInv
  <2>3. \A f \in map_' : handed'[f.verifier] = IF InErase(f)' THEN 1 ELSE 0
    BY <1>b, <1>d, <2>1, <2>2 DEF HandedInv, InErase, MapInv
  <2>4. requested[e.verifier] # None
    BY <1>a, MemoryAssumption DEF MemoryAssumption, MapInv
  <2> QED BY <1>a, <1>b, <1>d, <2>3, <2>4 DEF HandedInv, HandedOnce
<1>7. RetInv'
  BY <1>e DEF RetInv, MapInv
<1>8. CreateOutcome'
  <2>1. \A f \in map_ : f \in map_' \/ due[f.verifier] <= clock
    BY DEF MapInv
  <2>2. \A q \in Proc \ {p} : Creating(q) => own(q) \in Verifier
    BY OwnType
  <2> QED BY <1>c, <1>d, <1>e, <2>1, <2>2 DEF TypeOK, CreateOutcome, Creating, own
<1> QED BY <1>1, <1>2, <1>3, <1>4, <1>5, <1>6, <1>7, <1>8

LEMMA ConsumeEraseStep ==
  ASSUME IInv, NEW p \in Proc, ConsumeErase(p)
  PROVE  IInv'
<1> USE DEF IInv, ConsumeErase, erase
<1>1. TypeOK'
  BY MemoryAssumption, OwnType DEF MemoryAssumption, TypeOK, MutexInv
<1>2. MutexInv'
  BY MemoryAssumption DEF MemoryAssumption, TypeOK, MutexInv
<1>3. CallInv'
  BY MemoryAssumption DEF MemoryAssumption, TypeOK, CallInv, Creating
<1>4. MapInv'
  BY OwnType DEF TypeOK, MapInv, OwnInv, Creating, own
<1>5. OwnInv'
  BY OwnType DEF TypeOK, OwnInv, Creating, own
<1>6. HandedInv'
  <2>1. \A q \in Proc : pc'[q] # "erase" /\ (pc[q] = "erase" <=> q = p)
    BY Alone DEF TypeOK
  <2> QED BY <2>1 DEF HandedInv, HandedOnce, InErase
<1>7. RetInv'
  BY DEF TypeOK, RetInv
<1>8. CreateOutcome'
  <2>1. \A q \in Proc \ {p} : pc'[q] = pc[q]
    BY DEF TypeOK
  <2>2. \A e \in map_ : e \in map_' \/ handed[e.verifier] = 1
    BY DEF HandedInv, InErase
  <2> QED BY <2>1, <2>2 DEF TypeOK, CreateOutcome
<1> QED BY <1>1, <1>2, <1>3, <1>4, <1>5, <1>6, <1>7, <1>8

LEMMA ConsumeMissStep ==
  ASSUME IInv, NEW p \in Proc, ConsumeMiss(p)
  PROVE  IInv'
<1> USE DEF IInv, ConsumeMiss, cleanup_expired_unsafe
<1>1. TypeOK'
  BY MemoryAssumption, OwnType DEF MemoryAssumption, TypeOK, MutexInv
<1>2. MutexInv'
  BY MemoryAssumption DEF MemoryAssumption, TypeOK, MutexInv
<1>3. CallInv'
  BY MemoryAssumption DEF MemoryAssumption, TypeOK, CallInv, Creating
<1>4. MapInv'
  BY OwnType DEF TypeOK, MapInv, OwnInv, Creating, own
<1>5. OwnInv'
  BY OwnType DEF TypeOK, OwnInv, Creating, own
<1>6. HandedInv'
  <2>1. \A q \in Proc : pc[q] # "erase" /\ pc'[q] # "erase"
    BY Alone DEF TypeOK
  <2> QED BY <2>1 DEF HandedInv, HandedOnce, InErase
<1>7. RetInv'
  BY DEF TypeOK, CallInv, RetInv
<1>8. CreateOutcome'
  <2>1. \A q \in Proc \ {p} : pc'[q] = pc[q]
    BY DEF TypeOK
  <2>2. \A e \in map_ : e \in map_' \/ due[e.verifier] <= clock
    BY DEF MapInv
  <2> QED BY <2>1, <2>2 DEF TypeOK, CreateOutcome
<1> QED BY <1>1, <1>2, <1>3, <1>4, <1>5, <1>6, <1>7, <1>8

LEMMA ResumeStep ==
  ASSUME IInv, NEW p \in Proc, Resume(p)
  PROVE  IInv'
<1> USE DEF IInv, Resume
<1>1. TypeOK'
  BY MemoryAssumption, OwnType DEF MemoryAssumption, TypeOK, MutexInv
<1>2. MutexInv'
  BY MemoryAssumption DEF MemoryAssumption, TypeOK, MutexInv
<1>3. CallInv'
  BY MemoryAssumption DEF MemoryAssumption, TypeOK, CallInv, Creating
<1>4. MapInv'
  BY OwnType DEF TypeOK, MapInv, OwnInv, Creating, own
<1>5. OwnInv'
  BY OwnType DEF TypeOK, OwnInv, Creating, own
<1>6. HandedInv'
  BY DEF TypeOK, HandedInv, HandedOnce, InErase
<1>7. RetInv'
  BY DEF TypeOK, RetInv
<1>8. CreateOutcome'
  BY DEF TypeOK, CreateOutcome, Creating
<1> QED BY <1>1, <1>2, <1>3, <1>4, <1>5, <1>6, <1>7, <1>8

LEMMA TickStep ==
  ASSUME IInv, Tick
  PROVE  IInv'
<1> USE DEF IInv, Tick
<1>1. TypeOK'
  BY MemoryAssumption DEF MemoryAssumption, TypeOK
<1>2. MutexInv' /\ CallInv' /\ OwnInv'
  BY DEF MutexInv, CallInv, OwnInv, Creating, own
<1>3. MapInv' /\ HandedInv' /\ RetInv'
  BY DEF MapInv, HandedInv, HandedOnce, InErase, RetInv
<1>4. CreateOutcome'
  <2>1. \A d \in Deadline : d <= clock => d <= clock'
    BY MemoryAssumption DEF MemoryAssumption, TypeOK, Deadline
  <2>2. \A q \in Proc : Creating(q) => own(q) \in Verifier
    BY OwnType
  <2>3. \A q \in Proc : due[own(q)] \in Deadline /\ due[own(q)] <= clock
                          => due[own(q)] <= clock'
    BY <2>1
  <2>4. \A q \in Proc : pc[q] = "created" => due[own(q)] \in Deadline
    BY <2>2 DEF TypeOK, OwnInv, Creating
  <2> QED BY <2>3, <2>4 DEF CreateOutcome, Creating, own
<1> QED BY <1>1, <1>2, <1>3, <1>4

LEMMA Inductive == IInv /\ [Next]_vars => IInv'
<1> SUFFICES ASSUME IInv, [Next]_vars PROVE IInv'
  OBVIOUS
<1>1. ASSUME NEW p \in Proc, Allocate(p) PROVE IInv'
  BY <1>1, InsertStep, CollideStep, ThrowStep DEF Allocate, GiveUp, RandFails
<1>2. ASSUME UNCHANGED vars PROVE IInv'
  BY <1>2 DEF vars, IInv, TypeOK, MutexInv, CallInv, MapInv, OwnInv, HandedInv,
              HandedOnce, InErase, RetInv, CreateOutcome, Creating, own
<1> QED
  BY <1>1, <1>2, CallCreateStep, CreateLockStep, CallConsumeStep,
     ConsumeFindStep, ConsumeEraseStep, ConsumeMissStep, ResumeStep, TickStep
  DEF Next

THEOREM Invariance == Spec => []IInv
<1>1. Init => IInv
  BY MemoryAssumption
  DEF MemoryAssumption, Init, IInv, TypeOK, MutexInv, CallInv, MapInv, OwnInv,
      HandedInv, HandedOnce, RetInv, CreateOutcome, Creating
<1> QED BY <1>1, Inductive, PTL DEF Spec

-----------------------------------------------------------------------------
\* Each concurrent call keeps the map, the mutex and the calls well typed.
THEOREM TypeCorrect == Spec => []TypeOK
<1>1. IInv => TypeOK
  BY DEF IInv
<1> QED BY <1>1, Invariance, PTL

\* No verifier reaches two callers, however many coroutines replay a state.
THEOREM OneTimeUse == Spec => []HandedOnce
<1>1. IInv => HandedOnce
  BY DEF IInv, HandedInv
<1> QED BY <1>1, Invariance, PTL

\* A returned state leads to its own entry until that is due or handed out.
THEOREM CreateCorrect == Spec => []CreateOutcome
<1>1. IInv => CreateOutcome
  BY DEF IInv
<1> QED BY <1>1, Invariance, PTL

\* A consume call returns a verifier with the realm it was stored with.
THEOREM ConsumeCorrect == Spec => []ConsumedIntact
<1>1. IInv => ConsumedIntact
  BY DEF IInv, RetInv, ConsumedIntact
<1> QED BY <1>1, Invariance, PTL

-----------------------------------------------------------------------------
held == {e \in map_ : ~ InErase(e)}

\* Every step of the map is a step of the abstract store or changes nothing
\* it can see.  A verifier is taken when its strings are moved out.
LEMMA StepImplements ==
  ASSUME IInv, [Next]_vars
  PROVE  [Store!Next]_(Store!storeVars)
<1> USE DEF IInv, held
<1>1. ASSUME NEW p \in Proc, UNCHANGED <<clock, map_, handed>>,
             pc' = [pc EXCEPT ![p] = pc'[p]], pc[p] # "erase", pc'[p] # "erase",
             \A q \in Proc \ {p} : arg'[q] = arg[q]
      PROVE  UNCHANGED Store!storeVars
  <2>1. \A e : InErase(e)' <=> InErase(e)
    BY <1>1 DEF TypeOK, InErase
  <2> QED BY <1>1, <2>1 DEF Store!storeVars
<1>2. ASSUME m_ = None, NEW p \in Proc, pc' = [pc EXCEPT ![p] = pc'[p]],
             pc'[p] # "erase", UNCHANGED <<clock, handed>>,
             map_' = cleanup_expired_unsafe(map_, clock)
      PROVE  Store!Sweep
  <2>1. \A e : ~ InErase(e) /\ ~ InErase(e)'
    BY <1>2, Alone DEF TypeOK, InErase
  <2>2. held = map_ /\ held' = map_'
    BY <2>1
  <2> DEFINE gone == map_ \ map_'
  <2>3. gone \in SUBSET {e \in held : Store!Expired(e)}
    BY <1>2, <2>2 DEF cleanup_expired_unsafe, Store!Expired
  <2>4. held' = held \ gone
    BY <1>2, <2>2 DEF cleanup_expired_unsafe
  <2> QED BY <1>2, <2>3, <2>4 DEF Store!Sweep
<1>3. ASSUME NEW p \in Proc,
             \/ \E e \in StateEntry, ttl \in Ttl : CallCreate(p, e, ttl)
             \/ \E s \in State : Collide(p, s) \/ CallConsume(p, s)
             \/ Throw(p) \/ Resume(p)
      PROVE  UNCHANGED Store!storeVars
  BY <1>1, <1>3 DEF TypeOK, CallCreate, Collide, CallConsume, Throw, Resume
<1>4. ASSUME NEW p \in Proc, CreateLock(p) \/ ConsumeMiss(p) PROVE Store!Sweep
  BY <1>2, <1>4 DEF TypeOK, CreateLock, ConsumeMiss
<1>5. ASSUME NEW p \in Proc, NEW s \in State, Insert(p, s)
      PROVE  Store!Put(s, own(p), arg[p].entry.realm, clock + arg[p].ttl)
  <2>1. \A e : ~ InErase(e) /\ ~ InErase(e)'
    BY <1>5, Alone DEF TypeOK, InErase, Insert
  <2>2. held = map_ /\ held' = map_'
    BY <2>1
  <2>3. handed[own(p)] = 0 /\ \A e \in map_ : e.verifier # own(p)
    BY <1>5 DEF OwnInv, Insert, Creating
  <2>4. /\ \A e \in held \ {} : e.state # s /\ e.verifier # own(p)
        /\ held' = (held \ {}) \cup
             {[state |-> s, verifier |-> own(p), realm |-> arg[p].entry.realm,
               expires_at |-> clock + arg[p].ttl]}
    BY <1>5, <2>2, <2>3 DEF Insert, contains, assign, erase, own
  <2>5. {} \in SUBSET {e \in held : Store!Expired(e)}
    OBVIOUS
  <2> QED BY <1>5, <2>3, <2>4, <2>5 DEF Store!Put, Insert
<1>6. ASSUME NEW p \in Proc, NEW e \in map_, ConsumeFind(p, e)
      PROVE  e \in held /\ Store!Take(e)
  <2>1. \A f : ~ InErase(f) /\ (InErase(f)' <=> f.state = e.state)
    BY <1>6, Alone DEF TypeOK, InErase, ConsumeFind
  <2>2. held = map_
    BY <2>1
  <2> DEFINE gone == map_ \ map_'
  <2>3. gone \in SUBSET {f \in held : Store!Expired(f)}
    BY <1>6, <2>2 DEF ConsumeFind, cleanup_expired_unsafe, Store!Expired
  <2>4. held' = held \ (gone \cup {e})
    BY <1>6, <2>1, <2>2 DEF ConsumeFind, cleanup_expired_unsafe, MapInv
  <2>5. ~ Store!Expired(e)
    BY <1>6 DEF ConsumeFind, cleanup_expired_unsafe, Store!Expired
  <2> QED BY <1>6, <2>2, <2>3, <2>4, <2>5 DEF Store!Take, ConsumeFind
<1>7. ASSUME NEW p \in Proc, ConsumeErase(p) PROVE UNCHANGED Store!storeVars
  <2>1. \A f : ~ InErase(f)' /\ (InErase(f) <=> f.state = arg[p])
    BY <1>7, Alone DEF TypeOK, InErase, ConsumeErase
  <2>2. held' = held
    BY <1>7, <2>1 DEF ConsumeErase, erase
  <2> QED BY <1>7, <2>2 DEF Store!storeVars, ConsumeErase
<1>8. ASSUME Tick PROVE Store!Tick
  <2>1. held' = held
    BY <1>8 DEF Tick, InErase
  <2> QED BY <1>8, <2>1 DEF Tick, Store!Tick
<1>9. ASSUME UNCHANGED vars PROVE UNCHANGED Store!storeVars
  BY <1>9 DEF vars, InErase, Store!storeVars
<1>10. ASSUME NEW p \in Proc, Allocate(p) PROVE [Store!Next]_(Store!storeVars)
  <2>1. ASSUME NEW s \in State, Insert(p, s) PROVE Store!Next
    <3>1. /\ own(p) \in Verifier /\ arg[p].entry.realm \in Realm
          /\ arg[p].ttl \in Ttl
      BY <2>1, OwnType DEF Insert, Creating
    <3> QED BY <2>1, <3>1, <1>5 DEF Store!Next
  <2>2. CASE \E s \in State : Collide(p, s) \/ Throw(p)
    BY <2>2, <1>3
  <2>3. CASE Throw(p)
    BY <2>3, <1>3
  <2> QED BY <1>10, <2>1, <2>2, <2>3 DEF Allocate, GiveUp, RandFails
<1> QED
  BY <1>3, <1>4, <1>6, <1>7, <1>8, <1>9, <1>10 DEF Next, Store!Next

\* The mutex-protected map, with its random draws and its late second reading
\* of the clock, is a one-time store with lifetimes.
THEOREM Implements == Spec => ImplementsStore
<1>1. Init => Store!Init
  BY DEF Init, Store!Init
<1>2. IInv /\ [Next]_vars => [Store!Next]_(Store!storeVars)
  BY StepImplements
<1> QED BY <1>1, <1>2, Invariance, PTL DEF Spec, Store!Spec, ImplementsStore
=============================================================================
