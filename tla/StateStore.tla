----------------------------- MODULE StateStore -----------------------------
(***************************************************************************)
(* What a PKCE state store promises (the StateStoreLike concept of         *)
(* concepts.hpp with the realm-carrying operations of state_store.hpp):    *)
(* an entry put under a state before its deadline is handed out at most    *)
(* once, never at or after the deadline, and leaves the store in no other  *)
(* way than by being handed out or by having expired.                      *)
(* MemoryStateStore and RedisStateStore implement this specification;      *)
(* LoginFlow is built on it.                                               *)
(***************************************************************************)
EXTENDS Integers

CONSTANTS
  State,      \* the random state strings
  Verifier,   \* PKCE code verifiers, one per started login
  Realm,      \* realm names stored with a verifier, "" included
  Ttl,        \* lifetimes, in seconds
  MaxClock    \* bound: the clock stops here

ASSUME StateStoreAssumption ==
  /\ Ttl \subseteq Int
  /\ MaxClock \in Nat

VARIABLES
  clock,      \* the time of the store
  live,       \* the entries held
  handed      \* history: how often each verifier was handed out

storeVars == <<clock, live, handed>>

Deadline == {t + ttl : t \in 0 .. MaxClock, ttl \in Ttl}

\* One stored login: StateEntry of state_store.hpp with its key and deadline.
Entry == [state: State, verifier: Verifier, realm: Realm, expires_at: Deadline]

Expired(e) == e.expires_at <= clock

TypeOK ==
  /\ clock \in 0 .. MaxClock
  /\ live \subseteq Entry
  /\ handed \in [Verifier -> Nat]

Init ==
  /\ clock = 0
  /\ live = {}
  /\ handed = [v \in Verifier |-> 0]

-----------------------------------------------------------------------------
\* Seeded faults (see "mutants" in PROJECT.json): the verifier and the realm
\* change places; the read leaves the entry.
Put_swapped(s, v, r, d) ==
  /\ \A e \in live : e.state # s /\ e.verifier # v
  /\ handed[v] = 0
  /\ live' = live \cup {[state |-> s, verifier |-> r, realm |-> v, expires_at |-> d]}
  /\ UNCHANGED <<clock, handed>>

Take_without_erase(e) ==
  /\ e \in live
  /\ ~ Expired(e)
  /\ handed' = [handed EXCEPT ![e.verifier] = @ + 1]
  /\ UNCHANGED <<clock, live>>

-----------------------------------------------------------------------------
\* Every operation may drop any of the entries that have expired.

\* create_state_entry: hold verifier v and realm r under a state s that no
\* unexpired entry has, until d.
Put(s, v, r, d) ==
  \E gone \in SUBSET {e \in live : Expired(e)} :
    /\ \A e \in live \ gone : e.state # s /\ e.verifier # v
    /\ handed[v] = 0
    /\ live' = (live \ gone) \cup
                 {[state |-> s, verifier |-> v, realm |-> r, expires_at |-> d]}
    /\ UNCHANGED <<clock, handed>>

\* consume_state_entry: hand out the unexpired entry e and forget it.
Take(e) ==
  \E gone \in SUBSET {f \in live : Expired(f)} :
    /\ e \in live
    /\ ~ Expired(e)
    /\ live' = live \ (gone \cup {e})
    /\ handed' = [handed EXCEPT ![e.verifier] = @ + 1]
    /\ UNCHANGED clock

\* Expired entries are dropped by an operation with no other effect.
Sweep ==
  \E gone \in SUBSET {e \in live : Expired(e)} :
    /\ live' = live \ gone
    /\ UNCHANGED <<clock, handed>>

Tick ==
  /\ clock < MaxClock
  /\ clock' = clock + 1
  /\ UNCHANGED <<live, handed>>

Next ==
  \/ \E s \in State, v \in Verifier, r \in Realm, ttl \in Ttl :
        Put(s, v, r, clock + ttl)
  \/ \E e \in live : Take(e)
  \/ Sweep
  \/ Tick

Spec == Init /\ [][Next]_storeVars

-----------------------------------------------------------------------------
\* One-time use: no verifier is handed out twice (docs/security.md, "PKCE
\* state entries are one-time values").
HandedOnce == \A v \in Verifier : handed[v] <= 1
=============================================================================
