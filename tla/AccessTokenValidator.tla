------------------------ MODULE AccessTokenValidator ------------------------
(***************************************************************************)
(* AccessTokenValidator (access_token_validator.hpp): concurrent calls of  *)
(* validate that share one JWKS cache.  A call copies the cached keys, or, *)
(* when there are none that have not expired, fetches the key set itself   *)
(* (there is no single flight), stores it and uses it.                     *)
(*                                                                         *)
(* Keycloak publishes keys and retires them; a reply shows the keys of the *)
(* instant it was made, and may be handled up to MaxLatency later.         *)
(***************************************************************************)
EXTENDS Integers

CONSTANTS
  Call,        \* concurrent calls of validate
  Key,         \* signing keys, each with its kid
  Exp,         \* exp claims of the tokens presented
  CacheTtl,    \* jwks_cache_ttl, in seconds
  Skew,        \* clock_skew_seconds
  MaxLatency,  \* bound: the age at which a reply has been handled
  MaxClock,    \* bound on the clock
  None

ASSUME ValidatorAssumption ==
  /\ Exp \subseteq Int
  /\ CacheTtl \in Nat
  /\ Skew \in Nat
  /\ MaxLatency \in Nat
  /\ MaxClock \in Nat
  /\ None \notin Call \cup Key \cup Int

VARIABLES
  clock,
  published,     \* the keys in Keycloak's key set
  published_at,  \* history: when each key was published
  retired_at,    \* history: when each key was retired
  cache_,        \* the keys cached and when they expire
  pc, token,     \* where each call is, and its token
  reply,         \* the reply to its fetch
  keys,          \* its copy of the keys
  read_at,       \* history: when it copied them
  result

keycloakVars == <<published, published_at, retired_at>>
callVars == <<pc, token, reply, keys, read_at, result>>
vars == <<clock, keycloakVars, cache_, callVars>>

\* What a call still needs of a token that decodes.  Whether its signature and
\* its other claims are right is drawn when they are looked at.
Token == [key: Key, exp: Exp]
\* Any status but a 2xx, and none at all, count as 502.
HttpReply == [status: {200, 502}, keys: SUBSET Key, at: 0 .. MaxClock]
Result == [status: {200, 401, 403, 500, 502},
           error: {"", "auth_config_missing", "invalid_jwt_format", "jwks_fetch_failed", "jwks_parse_failed",
                   "jwks_key_not_found", "jwt_signature_invalid", "jwt_expired",
                   "jwt_claim_mismatch"}]

TypeOK ==
  /\ clock \in 0 .. MaxClock
  /\ published \subseteq Key
  /\ published_at \in [Key -> 0 .. MaxClock \cup {None}]
  /\ retired_at \in [Key -> 0 .. MaxClock \cup {None}]
  /\ cache_ \in [keys: SUBSET Key, expires_at: 0 .. MaxClock + CacheTtl]
  /\ pc \in [Call -> {"idle", "fetching", "checking", "done"}]
  /\ token \in [Call -> Token \cup {None}]
  /\ reply \in [Call -> HttpReply \cup {None}]
  /\ keys \in [Call -> SUBSET Key]
  /\ read_at \in [Call -> 0 .. MaxClock]
  /\ result \in [Call -> Result \cup {None}]

Init ==
  /\ clock = 0
  /\ published \in SUBSET Key
  /\ published_at = [k \in Key |-> IF k \in published THEN 0 ELSE None]
  /\ retired_at = [k \in Key |-> None]
  /\ cache_ = [keys |-> {}, expires_at |-> 0]
  /\ pc = [p \in Call |-> "idle"]
  /\ token = [p \in Call |-> None]
  /\ reply = [p \in Call |-> None]
  /\ keys = [p \in Call |-> {}]
  /\ read_at = [p \in Call |-> 0]
  /\ result = [p \in Call |-> None]

-----------------------------------------------------------------------------
\* Seeded faults (see "mutants" in PROJECT.json).
cached_keys_unbounded == cache_.keys

-----------------------------------------------------------------------------
\* cached_keys: under the mutex, a copy of the keys, or none.
cached_keys ==
  IF cache_.keys # {} /\ clock < cache_.expires_at THEN cache_.keys ELSE {}

done(p, status, error) ==
  /\ result' = [result EXCEPT ![p] = [status |-> status, error |-> error]]
  /\ pc' = [pc EXCEPT ![p] = "done"]

copies(p, ks) ==
  /\ keys' = [keys EXCEPT ![p] = ks]
  /\ read_at' = [read_at EXCEPT ![p] = clock]

\* The configuration has no issuer, key set address or required audience; or
\* the token is empty or does not decode, or has no usable alg or kid.
ValidateRefuses(p) ==
  /\ pc[p] = "idle"
  /\ \/ done(p, 500, "auth_config_missing")
     \/ done(p, 401, "invalid_jwt_format")
  /\ UNCHANGED <<clock, keycloakVars, cache_, token, reply, keys, read_at>>

ValidateCached(p, t) ==
  /\ pc[p] = "idle"
  /\ cached_keys # {}
  /\ token' = [token EXCEPT ![p] = t]
  /\ copies(p, cached_keys)
  /\ pc' = [pc EXCEPT ![p] = "checking"]
  /\ UNCHANGED <<clock, keycloakVars, cache_, reply, result>>

\* No keys: refresh_jwks, and its request is awaited.
ValidateFetches(p, t) ==
  /\ pc[p] = "idle"
  /\ cached_keys = {}
  /\ token' = [token EXCEPT ![p] = t]
  /\ pc' = [pc EXCEPT ![p] = "fetching"]
  /\ UNCHANGED <<clock, keycloakVars, cache_, reply, keys, read_at, result>>

refreshed(p) == reply[p].status = 200 /\ reply[p].keys # {}

\* The fetch failed, or brought no key: the cache stays as it is, unused.
RefreshFails(p) ==
  /\ pc[p] = "fetching"
  /\ reply[p] # None
  /\ ~ refreshed(p)
  /\ done(p, 502, IF reply[p].status = 200 THEN "jwks_parse_failed"
                                           ELSE "jwks_fetch_failed")
  /\ reply' = [reply EXCEPT ![p] = None]
  /\ UNCHANGED <<clock, keycloakVars, cache_, token, keys, read_at>>

\* The awaited request ends with an exception, which leaves validate.
FetchThrows(p) ==
  /\ pc[p] = "fetching"
  /\ pc' = [pc EXCEPT ![p] = "idle"]
  /\ token' = [token EXCEPT ![p] = None]
  /\ reply' = [reply EXCEPT ![p] = None]
  /\ UNCHANGED <<clock, keycloakVars, cache_, keys, read_at, result>>

\* Seeded fault: the deadline is that of the cache before, renewed.
RefreshStores_twice_as_long(p) ==
  /\ pc[p] = "fetching"
  /\ reply[p] # None
  /\ refreshed(p)
  /\ cache_' = [keys |-> reply[p].keys,
                expires_at |-> IF cache_.expires_at > clock
                                 THEN cache_.expires_at + CacheTtl
                                 ELSE clock + CacheTtl]
  /\ copies(p, reply[p].keys)
  /\ reply' = [reply EXCEPT ![p] = None]
  /\ pc' = [pc EXCEPT ![p] = "checking"]
  /\ UNCHANGED <<clock, keycloakVars, token, result>>

\* The keys replace those cached, whichever fetch is the later one.
RefreshStores(p) ==
  /\ pc[p] = "fetching"
  /\ reply[p] # None
  /\ refreshed(p)
  /\ cache_' = [keys |-> reply[p].keys, expires_at |-> clock + CacheTtl]
  /\ copies(p, reply[p].keys)
  /\ reply' = [reply EXCEPT ![p] = None]
  /\ pc' = [pc EXCEPT ![p] = "checking"]
  /\ UNCHANGED <<clock, keycloakVars, token, result>>

\* The rest of validate, without an await: the key, the signature, the issuer,
\* exp, nbf, and the audience and the azp if they are configured.
Check(p) ==
  LET expired == clock > token[p].exp + Skew IN
  /\ pc[p] = "checking"
  /\ \/ token[p].key \notin keys[p] /\ done(p, 401, "jwks_key_not_found")
     \/ /\ token[p].key \in keys[p]
        /\ \/ done(p, 401, "jwt_signature_invalid")
           \/ done(p, 401, "jwt_claim_mismatch")
           \/ expired /\ done(p, 401, "jwt_expired")
           \/ ~ expired /\ done(p, 403, "jwt_claim_mismatch")
           \/ ~ expired /\ done(p, 200, "")
  /\ keys' = [keys EXCEPT ![p] = {}]
  /\ UNCHANGED <<clock, keycloakVars, cache_, token, reply, read_at>>

Return(p) ==
  /\ pc[p] = "done"
  /\ pc' = [pc EXCEPT ![p] = "idle"]
  /\ token' = [token EXCEPT ![p] = None]
  /\ read_at' = [read_at EXCEPT ![p] = 0]
  /\ result' = [result EXCEPT ![p] = None]
  /\ UNCHANGED <<clock, keycloakVars, cache_, reply, keys>>

-----------------------------------------------------------------------------
\* The environment.
Publish(k) ==
  /\ published_at[k] = None
  /\ published' = published \cup {k}
  /\ published_at' = [published_at EXCEPT ![k] = clock]
  /\ UNCHANGED <<clock, retired_at, cache_, callVars>>

Retire(k) ==
  /\ k \in published
  /\ published' = published \ {k}
  /\ retired_at' = [retired_at EXCEPT ![k] = clock]
  /\ UNCHANGED <<clock, published_at, cache_, callVars>>

Serve(p) ==
  /\ pc[p] = "fetching"
  /\ reply[p] = None
  /\ reply' = [reply EXCEPT ![p] =
                 [status |-> 200, keys |-> published, at |-> clock]]
  /\ UNCHANGED <<clock, keycloakVars, cache_, pc, token, keys, read_at, result>>

\* The request or its reply is lost, or the server fails.
HttpFails(p) ==
  /\ pc[p] = "fetching"
  /\ reply' = [reply EXCEPT ![p] =
                 [status |-> 502, keys |-> {}, at |-> clock]]
  /\ UNCHANGED <<clock, keycloakVars, cache_, pc, token, keys, read_at, result>>

Tick ==
  /\ clock < MaxClock
  /\ \A p \in Call :
       pc[p] = "fetching" /\ reply[p] # None => clock < reply[p].at + MaxLatency
  /\ clock' = clock + 1
  /\ UNCHANGED <<keycloakVars, cache_, callVars>>

-----------------------------------------------------------------------------
Validate(p) ==
  \/ ValidateRefuses(p)
  \/ \E t \in Token : ValidateCached(p, t) \/ ValidateFetches(p, t)
Proceed(p) == RefreshFails(p) \/ FetchThrows(p) \/ RefreshStores(p) \/ Check(p)

Next ==
  \/ \E p \in Call : \/ Validate(p) \/ Proceed(p) \/ Return(p)
                     \/ Serve(p) \/ HttpFails(p)
  \/ \E k \in Key : Publish(k) \/ Retire(k)
  \/ Tick

Spec == Init /\ [][Next]_vars

-----------------------------------------------------------------------------
\* The keys used at a read have been in a reply that was made less than
\* CacheTtl + MaxLatency before, or by the call's own fetch.
Window(age) == age < CacheTtl + MaxLatency \/ age <= MaxLatency

\* A key is unknown only if that shortly before the read it was not published:
\* a new key is picked up although an unknown kid causes no fetch, and although
\* a late reply may replace a newer key set.
UnknownKeyWindow ==
  \A p \in Call : pc[p] = "done" /\ result[p].error = "jwks_key_not_found" =>
    LET k == token[p].key IN
    k \in published => Window(read_at[p] - published_at[k])

\* What is cached was published, at the latest, CacheTtl + MaxLatency before
\* it expires.
CachedKeysPublished ==
  \A k \in cache_.keys :
    /\ published_at[k] # None
    /\ retired_at[k] # None => cache_.expires_at <= retired_at[k] + MaxLatency + CacheTtl

=============================================================================
