-------------------------- MODULE RedisStateStore ---------------------------
(***************************************************************************)
(* RedisStateStore (redis.hpp, redis.cpp): pending logins kept in a Redis  *)
(* that all instances of the service share, under one key prefix.          *)
(*                                                                         *)
(* A coroutine that awaits a command is apart from the command itself: the *)
(* server may execute it and its reply be lost, or the client may report a *)
(* failure first and the server execute it later.  The server and the      *)
(* connection are external, modelled from the commands redis.cpp sends and *)
(* the replies it tells apart.  An older version of the service that       *)
(* stores bare verifiers may write to the same Redis.                      *)
(***************************************************************************)
EXTENDS Integers

CONSTANTS
  Proc,         \* coroutines, of any of the instances
  State,        \* values random_state_32 can draw; keys, under the one prefix
  Verifier,     \* code verifiers; every create call brings its own
  Realm,        \* realm names callers store, "" included (create_state)
  Ttl,          \* lifetimes callers ask for, in seconds
  IntLimit,     \* the least number too large for an int (2^31)
  MaxAttempts,  \* draws before create_state_entry gives up (8 in the code)
  MaxClock,     \* bound on the clock
  None

StateEntry == [code_verifier: Verifier, realm: Realm]
CreateCall == [entry: StateEntry, ttl: Ttl]

\* static_cast<int>(n)
to_int(n) == ((n + IntLimit) % (2 * IntLimit)) - IntLimit

\* static_cast<int>(std::max<std::int64_t>(1, ttl.count()))
ttl_seconds(ttl) == to_int(IF ttl > 1 THEN ttl ELSE 1)

\* The text of a value: "verifier=...&realm=..." or, before the realm was
\* stored, the verifier alone.
Value == [form: {"fields", "bare"}, verifier: Verifier, realm: Realm]
Command == [op: {"SET"}, key: State, value: Value, ttl: {ttl_seconds(t) : t \in Ttl}]
             \cup [op: {"GETDEL"}, key: State]
Reply == [status: {"OK", "nil", "error"}, value: {None}]
           \cup [status: {"bulk"}, value: Value]

ASSUME RedisAssumption ==
  /\ "" \in Realm
  /\ Ttl \subseteq Int
  /\ IntLimit \in Nat /\ IntLimit > 1
  /\ MaxAttempts \in Nat \ {0}
  /\ MaxClock \in Nat
  /\ None \notin Proc \cup State \cup Realm \cup StateEntry \cup CreateCall \cup Reply \cup Int

VARIABLES
  clock,      \* the server's clock
  redis,      \* the keys it holds
  pc,         \* where each coroutine is
  arg,        \* the arguments of its call
  attempt,    \* the loop counter of its create call
  key,        \* the state it drew last
  reply,      \* the answer to the command it awaits, None before there is one
  stray,      \* bound: at most one abandoned command per coroutine
  ret,        \* what its call returned
  requested,  \* history: the realm each verifier was to be stored with
  due,        \* history: the deadline each verifier was stored with
  handed,     \* history: how often each verifier left Redis by a GETDEL
  received    \* history: how often each verifier reached a caller

serverVars == <<redis, due, handed>>
vars == <<clock, serverVars, pc, arg, attempt, key, reply, stray, ret,
          requested, received>>

Deadline == {t + ttl_seconds(ttl) : t \in 0 .. MaxClock, ttl \in Ttl}
Slot == [state: State, form: {"fields", "bare"}, verifier: Verifier, realm: Realm,
         expires_at: Deadline]

TypeOK ==
  /\ clock \in 0 .. MaxClock
  /\ redis \subseteq Slot
  /\ pc \in [Proc -> {"idle", "draw", "set", "getdel",
                      "created", "consumed", "thrown"}]
  /\ arg \in [Proc -> CreateCall \cup State \cup {None}]
  /\ attempt \in [Proc -> 0 .. MaxAttempts - 1]
  /\ key \in [Proc -> State \cup {None}]
  /\ reply \in [Proc -> Reply \cup {None}]
  /\ stray \in [Proc -> Command \cup {None}]
  /\ ret \in [Proc -> StateEntry \cup State \cup {None}]
  /\ requested \in [Verifier -> Realm \cup {None}]
  /\ due \in [Verifier -> Deadline \cup {None}]
  /\ handed \in [Verifier -> Nat]
  /\ received \in [Verifier -> Nat]

Init ==
  /\ clock = 0
  /\ redis = {}
  /\ pc = [p \in Proc |-> "idle"]
  /\ arg = [p \in Proc |-> None]
  /\ attempt = [p \in Proc |-> 0]
  /\ key = [p \in Proc |-> None]
  /\ reply = [p \in Proc |-> None]
  /\ stray = [p \in Proc |-> None]
  /\ ret = [p \in Proc |-> None]
  /\ requested = [v \in Verifier |-> None]
  /\ due = [v \in Verifier |-> None]
  /\ handed = [v \in Verifier |-> 0]
  /\ received = [v \in Verifier |-> 0]

-----------------------------------------------------------------------------
\* Seeded faults (see "mutants" in PROJECT.json).
last_attempt_off_by_one(p) == attempt[p] = MaxAttempts
decode_drops_realm(v) ==
  IF v.form = "bare" THEN None ELSE [code_verifier |-> v.verifier, realm |-> ""]

-----------------------------------------------------------------------------
\* The server.
Expired(e) == e.expires_at <= clock
without(m, s) == {e \in m : e.state # s}
found(s) == {e \in redis : e.state = s /\ ~ Expired(e)}

answer(s, v) == [status |-> s, value |-> v]

\* Seeded fault: SET without NX.
ExecuteSet_without_NX(c, r) ==
  /\ c.op = "SET"
  /\ \/ c.ttl <= 0 /\ r = answer("error", None) /\ UNCHANGED serverVars
     \/ /\ c.ttl > 0
        /\ r = answer("OK", None)
        /\ redis' = without(redis, c.key) \cup
                      {[state |-> c.key, form |-> c.value.form,
                        verifier |-> c.value.verifier, realm |-> c.value.realm,
                        expires_at |-> clock + c.ttl]}
        /\ due' = [due EXCEPT ![c.value.verifier] = clock + c.ttl]
        /\ UNCHANGED handed

\* SET key value EX ttl NX
ExecuteSet(c, r) ==
  /\ c.op = "SET"
  /\ \/ c.ttl <= 0 /\ r = answer("error", None) /\ UNCHANGED serverVars
     \/ c.ttl > 0 /\ found(c.key) # {} /\ r = answer("nil", None) /\ UNCHANGED serverVars
     \/ /\ c.ttl > 0
        /\ found(c.key) = {}
        /\ r = answer("OK", None)
        /\ redis' = without(redis, c.key) \cup
                      {[state |-> c.key, form |-> c.value.form,
                        verifier |-> c.value.verifier, realm |-> c.value.realm,
                        expires_at |-> clock + c.ttl]}
        /\ due' = [due EXCEPT ![c.value.verifier] = clock + c.ttl]
        /\ UNCHANGED handed

\* Seeded fault: GET instead of GETDEL.
ExecuteGetdel_keeps(c, r) ==
  /\ c.op = "GETDEL"
  /\ \/ found(c.key) = {} /\ r = answer("nil", None) /\ UNCHANGED serverVars
     \/ \E e \in found(c.key) :
          /\ r = answer("bulk", [form |-> e.form, verifier |-> e.verifier, realm |-> e.realm])
          /\ handed' = [handed EXCEPT ![e.verifier] = @ + 1]
          /\ UNCHANGED <<redis, due>>

\* GETDEL key
ExecuteGetdel(c, r) ==
  /\ c.op = "GETDEL"
  /\ \/ found(c.key) = {} /\ r = answer("nil", None) /\ UNCHANGED serverVars
     \/ \E e \in found(c.key) :
          /\ r = answer("bulk", [form |-> e.form, verifier |-> e.verifier, realm |-> e.realm])
          /\ redis' = without(redis, c.key)
          /\ handed' = [handed EXCEPT ![e.verifier] = @ + 1]
          /\ UNCHANGED due

Execute(c, r) == ExecuteSet(c, r) \/ ExecuteGetdel(c, r)

-----------------------------------------------------------------------------
\* The client.

\* Texts of values: encoding keeps verifier and realm apart; decoding finds no
\* "verifier" field in a bare verifier.
encode_state_entry(e) ==
  [form |-> "fields", verifier |-> e.code_verifier, realm |-> e.realm]
decode_state_entry(v) ==
  IF v.form = "bare" THEN None ELSE [code_verifier |-> v.verifier, realm |-> v.realm]

last_attempt(p) == attempt[p] + 1 = MaxAttempts
next_attempt(p) == attempt[p] + 1

command(p) ==
  IF pc[p] = "set"
    THEN [op |-> "SET", key |-> key[p], value |-> encode_state_entry(arg[p].entry),
          ttl |-> ttl_seconds(arg[p].ttl)]
    ELSE [op |-> "GETDEL", key |-> arg[p]]

CallCreate(p, e, ttl) ==
  /\ pc[p] = "idle"
  /\ requested[e.code_verifier] = None
  /\ requested' = [requested EXCEPT ![e.code_verifier] = e.realm]
  /\ arg' = [arg EXCEPT ![p] = [entry |-> e, ttl |-> ttl]]
  /\ attempt' = [attempt EXCEPT ![p] = 0]
  /\ pc' = [pc EXCEPT ![p] = "draw"]
  /\ UNCHANGED <<clock, serverVars, key, reply, stray, ret, received>>

\* random_state_32, and the command is sent.
Draw(p, s) ==
  /\ pc[p] = "draw"
  /\ key' = [key EXCEPT ![p] = s]
  /\ pc' = [pc EXCEPT ![p] = "set"]
  /\ UNCHANGED <<clock, serverVars, arg, attempt, reply, stray, ret, requested,
                 received>>

Throw(p) ==
  /\ pc' = [pc EXCEPT ![p] = "thrown"]
  /\ reply' = [reply EXCEPT ![p] = None]
  /\ UNCHANGED <<clock, serverVars, arg, attempt, key, ret, requested, received>>

RandFails(p) == pc[p] = "draw" /\ Throw(p) /\ UNCHANGED stray

\* Seeded fault: a nil reply counts as success.
SetOk_on_nil(p) ==
  /\ pc[p] = "set"
  /\ reply[p] # None
  /\ reply[p].status \in {"OK", "nil"}
  /\ ret' = [ret EXCEPT ![p] = key[p]]
  /\ reply' = [reply EXCEPT ![p] = None]
  /\ pc' = [pc EXCEPT ![p] = "created"]
  /\ UNCHANGED <<clock, serverVars, arg, attempt, key, stray, requested, received>>

SetOk(p) ==
  /\ pc[p] = "set"
  /\ reply[p] # None
  /\ reply[p].status = "OK"
  /\ ret' = [ret EXCEPT ![p] = key[p]]
  /\ reply' = [reply EXCEPT ![p] = None]
  /\ pc' = [pc EXCEPT ![p] = "created"]
  /\ UNCHANGED <<clock, serverVars, arg, attempt, key, stray, requested, received>>

\* A nil reply: the key exists; draw again.
SetTaken(p) ==
  /\ pc[p] = "set"
  /\ reply[p] # None
  /\ reply[p].status = "nil"
  /\ ~ last_attempt(p)
  /\ attempt' = [attempt EXCEPT ![p] = next_attempt(p)]
  /\ reply' = [reply EXCEPT ![p] = None]
  /\ pc' = [pc EXCEPT ![p] = "draw"]
  /\ UNCHANGED <<clock, serverVars, arg, key, stray, ret, requested, received>>

SetGivesUp(p) ==
  /\ pc[p] = "set"
  /\ reply[p] # None
  /\ \/ reply[p].status = "nil" /\ last_attempt(p)
     \/ reply[p].status = "error"
  /\ Throw(p)
  /\ UNCHANGED stray

CallConsume(p, s) ==
  /\ pc[p] = "idle"
  /\ arg' = [arg EXCEPT ![p] = s]
  /\ pc' = [pc EXCEPT ![p] = "getdel"]
  /\ UNCHANGED <<clock, serverVars, attempt, key, reply, stray, ret, requested,
                 received>>

GetdelMiss(p) ==
  /\ pc[p] = "getdel"
  /\ reply[p] # None
  /\ reply[p].status = "nil"
  /\ reply' = [reply EXCEPT ![p] = None]
  /\ pc' = [pc EXCEPT ![p] = "consumed"]
  /\ UNCHANGED <<clock, serverVars, arg, attempt, key, stray, ret, requested,
                 received>>

\* The decoded entry or, when there is none to decode, the bare verifier with
\* no realm.
GetdelHit(p) ==
  /\ pc[p] = "getdel"
  /\ reply[p] # None
  /\ reply[p].status = "bulk"
  /\ LET decoded == decode_state_entry(reply[p].value) IN
       ret' = [ret EXCEPT ![p] =
                 IF decoded # None THEN decoded
                 ELSE [code_verifier |-> reply[p].value.verifier, realm |-> ""]]
  /\ received' = [received EXCEPT ![reply[p].value.verifier] = @ + 1]
  /\ reply' = [reply EXCEPT ![p] = None]
  /\ pc' = [pc EXCEPT ![p] = "consumed"]
  /\ UNCHANGED <<clock, serverVars, arg, attempt, key, stray, requested>>

\* !response: the connection fails while p waits, and the command is dropped,
\* or was executed and its reply is lost.
Fails(p) == pc[p] \in {"set", "getdel"} /\ Throw(p) /\ UNCHANGED stray

\* !response, and the command is still on its way to the server.
FailsEarly(p) ==
  /\ pc[p] \in {"set", "getdel"}
  /\ reply[p] = None
  /\ stray[p] = None
  /\ stray' = [stray EXCEPT ![p] = command(p)]
  /\ Throw(p)

Resume(p) ==
  /\ pc[p] \in {"created", "consumed", "thrown"}
  /\ pc' = [pc EXCEPT ![p] = "idle"]
  /\ arg' = [arg EXCEPT ![p] = None]
  /\ key' = [key EXCEPT ![p] = None]
  /\ ret' = [ret EXCEPT ![p] = None]
  /\ UNCHANGED <<clock, serverVars, attempt, reply, stray, requested, received>>

-----------------------------------------------------------------------------
\* The environment.

\* The server executes the command p waits for.
Serve(p) ==
  /\ pc[p] \in {"set", "getdel"}
  /\ reply[p] = None
  /\ \E r \in Reply : /\ Execute(command(p), r)
                      /\ reply' = [reply EXCEPT ![p] = r]
  /\ UNCHANGED <<clock, pc, arg, attempt, key, stray, ret, requested, received>>

\* The server executes a command nobody waits for any more.
ServeStray(p) ==
  /\ stray[p] # None
  /\ \E r \in Reply : Execute(stray[p], r)
  /\ stray' = [stray EXCEPT ![p] = None]
  /\ UNCHANGED <<clock, pc, arg, attempt, key, reply, ret, requested, received>>

\* An instance of the version before the realm was stored creates a state.
LegacyCreate(s, v, ttl) ==
  /\ requested[v] = None
  /\ requested' = [requested EXCEPT ![v] = ""]
  /\ ExecuteSet([op |-> "SET", key |-> s,
                 value |-> [form |-> "bare", verifier |-> v, realm |-> ""],
                 ttl |-> ttl_seconds(ttl)], answer("OK", None))
  /\ UNCHANGED <<clock, pc, arg, attempt, key, reply, stray, ret, received>>

Tick ==
  /\ clock < MaxClock
  /\ clock' = clock + 1
  /\ UNCHANGED <<serverVars, pc, arg, attempt, key, reply, stray, ret, requested,
                 received>>

-----------------------------------------------------------------------------
Send(p) == (\E s \in State : Draw(p, s)) \/ RandFails(p)
Answer(p) == Serve(p) \/ Fails(p) \/ FailsEarly(p)
Return(p) == \/ SetOk(p) \/ SetTaken(p) \/ SetGivesUp(p)
             \/ GetdelMiss(p) \/ GetdelHit(p)

Next ==
  \/ \E p \in Proc :
        \/ \E e \in StateEntry, ttl \in Ttl : CallCreate(p, e, ttl)
        \/ \E s \in State : CallConsume(p, s)
        \/ Send(p) \/ Answer(p) \/ Return(p)
        \/ ServeStray(p)
        \/ Resume(p)
  \/ \E s \in State, v \in Verifier, ttl \in Ttl : LegacyCreate(s, v, ttl)
  \/ Tick

Spec == Init /\ [][Next]_vars

-----------------------------------------------------------------------------
\* Redis, with commands and replies that are lost or late, is the one-time
\* store of StateStore: an entry leaves it by one GETDEL or by its expiry.
entry(e) == [state |-> e.state, verifier |-> e.verifier, realm |-> e.realm,
             expires_at |-> e.expires_at]
held == {entry(e) : e \in redis}
Store == INSTANCE StateStore WITH live <- held, Ttl <- {ttl_seconds(t) : t \in Ttl}
ImplementsStore == Store!Spec

\* No verifier reaches two callers, whatever is lost, late or repeated
\* (docs/architecture.md: "Redis-backed one-time state store").
ReceivedOnce == \A v \in Verifier : received[v] <= handed[v] /\ handed[v] <= 1

\* The state a create call returned leads to its own entry until that is due
\* or handed out, in spite of late SETs of calls that have failed; and Redis
\* refuses a lifetime only when it does not fit an int, never one of zero.
CreateOutcome ==
  \A p \in Proc :
    /\ pc[p] = "created" =>
         LET v == arg[p].entry.code_verifier IN
         \/ handed[v] = 1
         \/ due[v] # None /\ due[v] <= clock
         \/ \E e \in redis : e.state = ret[p] /\ e.verifier = v
    /\ reply[p] # None /\ reply[p].status = "error" => arg[p].ttl >= IntLimit

\* What a consume call returns is what a create call, of this or of the older
\* version, was given.
ConsumedIntact ==
  \A p \in Proc : pc[p] = "consumed" /\ ret[p] # None =>
                    requested[ret[p].code_verifier] = ret[p].realm

-----------------------------------------------------------------------------
\* The inductive invariant behind these properties.

\* The verifier a create call brings; it has not been stored yet while Setting.
own(p) == arg[p].entry.code_verifier
Creating(p) == pc[p] \in {"draw", "set", "created"}
Stored(p) == pc[p] = "set" /\ reply[p] # None /\ reply[p].status = "OK"
Setting(p) == pc[p] = "draw" \/ (pc[p] = "set" /\ ~ Stored(p))

\* A SET whose caller has given up, and the verifier in it.
Straying(p) == stray[p] # None /\ stray[p].op = "SET"
lost(p) == stray[p].value.verifier

\* A verifier on its way to the caller.
Bulk(p) == reply[p] # None /\ reply[p].status = "bulk"
found_by(p) == reply[p].value.verifier

\* What is known of a call at each place.
CallInv ==
  \A p \in Proc :
    /\ Creating(p) => arg[p] \in CreateCall
    /\ pc[p] = "getdel" => arg[p] \in State
    /\ pc[p] \in {"set", "created"} => key[p] \in State
    /\ pc[p] = "created" => ret[p] = key[p]
    /\ pc[p] = "consumed" => ret[p] \in StateEntry \cup {None}
    /\ pc[p] \notin {"created", "consumed"} => ret[p] = None
    /\ reply[p] # None =>
         \/ pc[p] = "set" /\ reply[p].status \in {"OK", "nil", "error"}
         \/ pc[p] = "getdel" /\ reply[p].status \in {"nil", "bulk"}

\* States and verifiers are keys of what Redis holds, which is what was asked
\* for and has not been handed out.
MapInv ==
  /\ \A e \in redis :
       /\ requested[e.verifier] = e.realm
       /\ due[e.verifier] = e.expires_at
       /\ handed[e.verifier] = 0
       /\ e.form = "bare" => e.realm = ""
  /\ \A e, f \in redis : e.state = f.state \/ e.verifier = f.verifier => e = f

\* A create call's verifier is its own, and nowhere else until it is stored.
OwnInv ==
  \A p \in Proc : Creating(p) =>
    /\ requested[own(p)] = arg[p].entry.realm
    /\ due[own(p)] = None <=> Setting(p)
    /\ \A q \in Proc : Creating(q) /\ own(q) = own(p) => q = p

\* Nor is the verifier of an abandoned SET.
StrayInv ==
  \A p \in Proc : Straying(p) =>
    /\ requested[lost(p)] = stray[p].value.realm
    /\ stray[p].value.form = "fields"
    /\ due[lost(p)] = None
    /\ \A q \in Proc : Straying(q) /\ lost(q) = lost(p) => q = p
    /\ \A q \in Proc : Creating(q) => own(q) # lost(p)

\* A verifier that has left Redis is with one caller, or on its way to one.
HandedInv ==
  /\ \A v \in Verifier : due[v] = None => handed[v] = 0
  /\ \A v \in Verifier : due[v] # None => requested[v] # None
  /\ ReceivedOnce
  /\ \A p \in Proc : Bulk(p) =>
       /\ handed[found_by(p)] = 1 /\ received[found_by(p)] = 0
       /\ requested[found_by(p)] = reply[p].value.realm
       /\ reply[p].value.form = "bare" => reply[p].value.realm = ""
       /\ \A q \in Proc : Bulk(q) /\ found_by(q) = found_by(p) => q = p

\* What CreateOutcome says of a call that has returned holds from the OK on.
OutcomeInv ==
  \A p \in Proc :
    /\ Stored(p) \/ pc[p] = "created" =>
         \/ handed[own(p)] = 1
         \/ due[own(p)] <= clock
         \/ \E e \in redis : e.state = key[p] /\ e.verifier = own(p)
    /\ reply[p] # None /\ reply[p].status = "error" => arg[p].ttl >= IntLimit

IInv == /\ TypeOK /\ CallInv /\ MapInv /\ OwnInv /\ StrayInv /\ HandedInv
        /\ OutcomeInv /\ ConsumedIntact

=============================================================================
