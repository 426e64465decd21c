-------------------------- MODULE MemoryStateStore --------------------------
(***************************************************************************)
(* MemoryStateStore (memory.hpp, memory.cpp): a map of pending logins      *)
(* behind one mutex, called by coroutines that run on several threads.     *)
(*                                                                         *)
(* create_state_entry reads the clock twice under the mutex, once to sweep *)
(* expired entries and once to set the deadline, and draws random states   *)
(* in between: it takes a step for the lock and the sweep and a step per   *)
(* draw.  consume_state_entry takes a step for the lock, the sweep and the *)
(* lookup, which moves the strings out, and a step that erases the slot.   *)
(***************************************************************************)
EXTENDS Integers

CONSTANTS
  Proc,         \* coroutines that call the store
  State,        \* values random_state_32 can draw
  Verifier,     \* code verifiers; every create call brings its own
  Realm,        \* realm names callers store, "" included (create_state)
  Ttl,          \* lifetimes callers ask for, in seconds
  MaxAttempts,  \* draws before create_state_entry gives up (8 in the code)
  MaxClock,     \* bound on the clock
  None          \* std::nullopt, an unlocked mutex, an unused verifier

StateEntry == [code_verifier: Verifier, realm: Realm]
CreateCall == [entry: StateEntry, ttl: Ttl]

ASSUME MemoryAssumption ==
  /\ Ttl \subseteq Int
  /\ MaxAttempts \in Nat \ {0}
  /\ MaxClock \in Nat
  /\ None \notin Proc \cup State \cup Realm \cup StateEntry \cup CreateCall \cup Int

VARIABLES
  clock,      \* steady_clock
  map_,       \* the entries, keyed by state
  m_,         \* the coroutine that holds the mutex, or None
  attempt,    \* loop counter of the create call that holds the mutex
  pc,         \* where each coroutine is
  arg,        \* the arguments of its call
  ret,        \* what its call returned
  requested,  \* history: the realm each verifier was to be stored with
  due,        \* history: the deadline each verifier was stored with
  handed      \* history: how often each verifier was moved out of the map

vars == <<clock, map_, m_, attempt, pc, arg, ret, requested, due, handed>>

Deadline == {t + ttl : t \in 0 .. MaxClock, ttl \in Ttl}
Slot == [state: State, verifier: Verifier, realm: Realm, expires_at: Deadline]

TypeOK ==
  /\ clock \in 0 .. MaxClock
  /\ map_ \subseteq Slot
  /\ m_ \in Proc \cup {None}
  /\ attempt \in 0 .. MaxAttempts - 1
  /\ pc \in [Proc -> {"idle", "create", "allocate", "consume", "erase",
                      "created", "consumed", "thrown"}]
  /\ arg \in [Proc -> CreateCall \cup State \cup {None}]
  /\ ret \in [Proc -> StateEntry \cup State \cup {None}]
  /\ requested \in [Verifier -> Realm \cup {None}]
  /\ due \in [Verifier -> Deadline \cup {None}]
  /\ handed \in [Verifier -> Nat]

Init ==
  /\ clock = 0
  /\ map_ = {}
  /\ m_ = None
  /\ attempt = 0
  /\ pc = [p \in Proc |-> "idle"]
  /\ arg = [p \in Proc |-> None]
  /\ ret = [p \in Proc |-> None]
  /\ requested = [v \in Verifier |-> None]
  /\ due = [v \in Verifier |-> None]
  /\ handed = [v \in Verifier |-> 0]

-----------------------------------------------------------------------------
\* Seeded faults (see "mutants" in PROJECT.json): each restates the operator
\* of the same stem with a mistake the code could have made.
cleanup_keeps_boundary(m, now) == {e \in m : ~ (e.expires_at < now)}
contains_ignored(m, s) == FALSE
last_attempt_off_by_one == attempt = MaxAttempts
next_attempt_stuck == attempt
moved_out_realm(e) == [code_verifier |-> e.verifier, realm |-> ""]

-----------------------------------------------------------------------------
cleanup_expired_unsafe(m, now) == {e \in m : ~ (e.expires_at <= now)}

contains(m, s) == \E e \in m : e.state = s

erase(m, s) == {e \in m : e.state # s}

\* map_[state] = Entry{...}: replaces whatever the key held.
assign(m, e) == erase(m, e.state) \cup {e}

\* StateEntry{.code_verifier = move(verifier), .realm = move(realm)}
moved_out(e) == [code_verifier |-> e.verifier, realm |-> e.realm]

\* for (int attempt = 0; attempt < 8; ++attempt)
last_attempt == attempt + 1 = MaxAttempts
next_attempt == attempt + 1

-----------------------------------------------------------------------------
\* A caller starts create_state_entry with a verifier of its own, or
\* create_state, which stores the empty realm.
CallCreate(p, e, ttl) ==
  /\ pc[p] = "idle"
  /\ requested[e.code_verifier] = None
  /\ requested' = [requested EXCEPT ![e.code_verifier] = e.realm]
  /\ arg' = [arg EXCEPT ![p] = [entry |-> e, ttl |-> ttl]]
  /\ pc' = [pc EXCEPT ![p] = "create"]
  /\ UNCHANGED <<clock, map_, m_, attempt, ret, due, handed>>

\* std::lock_guard, then the sweep.
CreateLock(p) ==
  /\ pc[p] = "create"
  /\ m_ = None
  /\ m_' = p
  /\ map_' = cleanup_expired_unsafe(map_, clock)
  /\ attempt' = 0
  /\ pc' = [pc EXCEPT ![p] = "allocate"]
  /\ UNCHANGED <<clock, arg, ret, requested, due, handed>>

\* A draw that is free: insert with a deadline from a second clock reading.
Insert(p, s) ==
  /\ pc[p] = "allocate"
  /\ ~ contains(map_, s)
  /\ map_' = assign(map_, [state |-> s,
                           verifier |-> arg[p].entry.code_verifier,
                           realm |-> arg[p].entry.realm,
                           expires_at |-> clock + arg[p].ttl])
  /\ due' = [due EXCEPT ![arg[p].entry.code_verifier] = clock + arg[p].ttl]
  /\ ret' = [ret EXCEPT ![p] = s]
  /\ m_' = None
  /\ pc' = [pc EXCEPT ![p] = "created"]
  /\ UNCHANGED <<clock, attempt, arg, requested, handed>>

\* A draw that is taken: continue.
Collide(p, s) ==
  /\ pc[p] = "allocate"
  /\ contains(map_, s)
  /\ ~ last_attempt
  /\ attempt' = next_attempt
  /\ UNCHANGED <<clock, map_, m_, pc, arg, ret, requested, due, handed>>

\* The last draw is taken, or RAND_bytes fails on any draw: throw.
Throw(p) ==
  /\ pc[p] = "allocate"
  /\ m_' = None
  /\ pc' = [pc EXCEPT ![p] = "thrown"]
  /\ UNCHANGED <<clock, map_, attempt, arg, ret, requested, due, handed>>

GiveUp(p, s) == contains(map_, s) /\ last_attempt /\ Throw(p)
RandFails(p) == Throw(p)

CallConsume(p, s) ==
  /\ pc[p] = "idle"
  /\ arg' = [arg EXCEPT ![p] = s]
  /\ pc' = [pc EXCEPT ![p] = "consume"]
  /\ UNCHANGED <<clock, map_, m_, attempt, ret, requested, due, handed>>

\* Seeded fault: the lookup without the mutex.
ConsumeFind_unlocked(p, e) ==
  /\ pc[p] = "consume"
  /\ e \in cleanup_expired_unsafe(map_, clock)
  /\ e.state = arg[p]
  /\ map_' = cleanup_expired_unsafe(map_, clock)
  /\ ret' = [ret EXCEPT ![p] = moved_out(e)]
  /\ handed' = [handed EXCEPT ![e.verifier] = @ + 1]
  /\ pc' = [pc EXCEPT ![p] = "erase"]
  /\ UNCHANGED <<clock, m_, attempt, arg, requested, due>>

\* std::lock_guard, the sweep, and a lookup that finds entry e: its strings
\* are moved out.
ConsumeFind(p, e) ==
  /\ pc[p] = "consume"
  /\ m_ = None
  /\ e \in cleanup_expired_unsafe(map_, clock)
  /\ e.state = arg[p]
  /\ m_' = p
  /\ map_' = cleanup_expired_unsafe(map_, clock)
  /\ ret' = [ret EXCEPT ![p] = moved_out(e)]
  /\ handed' = [handed EXCEPT ![e.verifier] = @ + 1]
  /\ pc' = [pc EXCEPT ![p] = "erase"]
  /\ UNCHANGED <<clock, attempt, arg, requested, due>>

\* map_.erase(it)
ConsumeErase(p) ==
  /\ pc[p] = "erase"
  /\ map_' = erase(map_, arg[p])
  /\ m_' = None
  /\ pc' = [pc EXCEPT ![p] = "consumed"]
  /\ UNCHANGED <<clock, attempt, arg, ret, requested, due, handed>>

ConsumeMiss(p) ==
  /\ pc[p] = "consume"
  /\ m_ = None
  /\ ~ contains(cleanup_expired_unsafe(map_, clock), arg[p])
  /\ map_' = cleanup_expired_unsafe(map_, clock)
  /\ pc' = [pc EXCEPT ![p] = "consumed"]
  /\ UNCHANGED <<clock, m_, attempt, arg, ret, requested, due, handed>>

\* The caller has taken the result or the exception.
Resume(p) ==
  /\ pc[p] \in {"created", "consumed", "thrown"}
  /\ pc' = [pc EXCEPT ![p] = "idle"]
  /\ arg' = [arg EXCEPT ![p] = None]
  /\ ret' = [ret EXCEPT ![p] = None]
  /\ UNCHANGED <<clock, map_, m_, attempt, requested, due, handed>>

Tick ==
  /\ clock < MaxClock
  /\ clock' = clock + 1
  /\ UNCHANGED <<map_, m_, attempt, pc, arg, ret, requested, due, handed>>

Allocate(p) ==
  \/ \E s \in State : Insert(p, s) \/ Collide(p, s) \/ GiveUp(p, s)
  \/ RandFails(p)

Next ==
  \/ \E p \in Proc :
        \/ \E e \in StateEntry, ttl \in Ttl : CallCreate(p, e, ttl)
        \/ CreateLock(p)
        \/ Allocate(p)
        \/ \E s \in State : CallConsume(p, s)
        \/ \E e \in map_ : ConsumeFind(p, e)
        \/ ConsumeErase(p)
        \/ ConsumeMiss(p)
        \/ Resume(p)
  \/ Tick

Spec == Init /\ [][Next]_vars

\* A thread inside the critical section is scheduled again.  No fairness of
\* the failure of RAND_bytes is assumed.
FairSpec ==
  Spec /\ \A p \in Proc :
            WF_vars(\/ \E s \in State : Insert(p, s) \/ Collide(p, s) \/ GiveUp(p, s)
                    \/ ConsumeErase(p))

-----------------------------------------------------------------------------
\* The store does what StateStore promises.  An entry counts as taken when its
\* strings are moved out, one step before its slot is erased.
InErase(e) == \E p \in Proc : pc[p] = "erase" /\ arg[p] = e.state

Store == INSTANCE StateStore WITH live <- {e \in map_ : ~ InErase(e)}
ImplementsStore == Store!Spec

\* A verifier reaches at most one caller, whatever calls run concurrently
\* (docs/security.md: "PKCE state entries are one-time values").
HandedOnce == \A v \in Verifier : handed[v] <= 1

\* The state a create call returned leads to that call's own entry until the
\* entry is handed out or its deadline passes, whatever other callers drew
\* meanwhile; and a call that threw left nothing behind.
CreateOutcome ==
  \A p \in Proc :
    /\ pc[p] = "created" =>
         LET v == arg[p].entry.code_verifier IN
         \/ handed[v] = 1
         \/ due[v] <= clock
         \/ \E e \in map_ : e.state = ret[p] /\ e.verifier = v
    /\ pc[p] = "thrown" =>
         LET v == arg[p].entry.code_verifier IN
         handed[v] = 0 /\ \A e \in map_ : e.verifier # v

\* What a consume call returns is the pair some create call was given: the
\* verifier with its own realm.
ConsumedIntact ==
  \A p \in Proc : pc[p] = "consumed" /\ ret[p] # None =>
                    requested[ret[p].code_verifier] = ret[p].realm

\* The critical section always ends: the draws are bounded.
LockReleased == \A p \in Proc : (m_ = p) ~> (m_ # p)

-----------------------------------------------------------------------------
\* A create call that has not been resumed still names the verifier it brought.
Creating(p) == pc[p] \in {"create", "allocate", "created", "thrown"}
own(p) == arg[p].entry.code_verifier

\* The mutex is held exactly by the coroutine inside the critical section.
MutexInv == \A p \in Proc : m_ = p <=> pc[p] \in {"allocate", "erase"}

\* Arguments and results have the shape the position in the code requires.
CallInv ==
  \A p \in Proc :
    /\ Creating(p) => arg[p] \in CreateCall
    /\ pc[p] \in {"consume", "erase"} => arg[p] \in State
    /\ pc[p] \in {"idle", "create", "allocate", "consume"} => ret[p] = None
    /\ pc[p] = "erase" => ret[p] \in StateEntry
    /\ pc[p] = "consumed" => ret[p] \in StateEntry \cup {None}

\* States and verifiers are keys of the map, and a slot holds what was asked.
MapInv ==
  /\ \A e, f \in map_ : (e.state = f.state \/ e.verifier = f.verifier) => e = f
  /\ \A e \in map_ : /\ requested[e.verifier] = e.realm
                     /\ due[e.verifier] = e.expires_at

\* The verifier of a create call is its own, and reaches the map and another
\* caller only through its insert.
OwnInv ==
  \A p \in Proc : Creating(p) =>
    /\ requested[own(p)] = arg[p].entry.realm
    /\ \A q \in Proc : Creating(q) /\ own(q) = own(p) => q = p
    /\ pc[p] = "created" => due[own(p)] # None
    /\ pc[p] # "created" => /\ handed[own(p)] = 0
                            /\ \A e \in map_ : e.verifier # own(p)

\* A verifier is moved out once: it was asked for, and its slot is in the map
\* only until the step that follows the move.
HandedInv ==
  /\ HandedOnce
  /\ \A v \in Verifier : requested[v] = None => handed[v] = 0
  /\ \A e \in map_ : handed[e.verifier] = IF InErase(e) THEN 1 ELSE 0
  /\ \A p \in Proc : pc[p] = "erase" => \E e \in map_ : e.state = arg[p]

\* What consume calls return is what was asked for.
RetInv ==
  \A p \in Proc : pc[p] \in {"erase", "consumed"} /\ ret[p] # None =>
                    requested[ret[p].code_verifier] = ret[p].realm

\* The inductive invariant that the safety properties rest on (proved in
\* MemoryStateStoreProofs).
IInv == /\ TypeOK /\ MutexInv /\ CallInv /\ MapInv /\ OwnInv /\ HandedInv
        /\ RetInv /\ CreateOutcome
=============================================================================
