---------------------------- MODULE BearerAuthProofs ----------------------------
(***************************************************************************)
(* What BearerAuth says of the keys a token is accepted or refused with,   *)
(* and of what is attached to a request, for any number of calls and keys, *)
(* any cache lifetime, skew, latency and expiry.                           *)
(*                                                                         *)
(* ValidInv is inductive for the validator alone (Next), whoever calls it; *)
(* BearerInv adds what the middleware keeps.                               *)
(***************************************************************************)
EXTENDS BearerAuth, TLAPS

\* Keycloak: a key is published at most once, and retired after that.
KeyInv ==
  \A k \in Key :
    /\ k \in published <=> published_at[k] # None /\ retired_at[k] = None
    /\ published_at[k] # None => published_at[k] <= clock
    /\ retired_at[k] # None => published_at[k] # None /\ retired_at[k] <= clock

\* ks may be the key set of the instant t, for all that is known of the keys:
\* those in it were not retired before t, those not in it not published before.
Shown(ks, t) ==
  \A k \in Key :
    /\ k \in ks => published_at[k] # None /\ (retired_at[k] # None => t <= retired_at[k])
    /\ k \notin ks /\ k \in published => t <= published_at[k]

\* A reply shows the key set of an instant at most MaxLatency ago.
ReplyOf(p) ==
  reply[p] # None =>
    /\ pc[p] = "fetching"
    /\ reply[p].at <= clock /\ clock <= reply[p].at + MaxLatency
    /\ reply[p].status = 200 => Shown(reply[p].keys, reply[p].at)

\* The deadline of the cache is CacheTtl after a reply was handled.
CacheInv ==
  cache_.keys # {} =>
    /\ cache_.expires_at <= clock + CacheTtl
    /\ \A k \in Key :
         /\ k \in cache_.keys =>
              /\ published_at[k] # None
              /\ retired_at[k] # None => cache_.expires_at <= retired_at[k] + MaxLatency + CacheTtl
         /\ k \notin cache_.keys /\ k \in published =>
              cache_.expires_at <= published_at[k] + MaxLatency + CacheTtl

\* What the read of a call says of a key it has, and of one it has not.
Known(p, k) ==
  /\ published_at[k] # None
  /\ retired_at[k] # None => Window(read_at[p] - retired_at[k])
Missed(p, k) == k \in published => Window(read_at[p] - published_at[k])

ReadOf(p) ==
  /\ read_at[p] <= clock
  /\ pc[p] = "fetching" => token[p] \in Token
  /\ pc[p] = "checking" =>
       /\ token[p] \in Token
       /\ \A k \in Key : IF k \in keys[p] THEN Known(p, k) ELSE Missed(p, k)
  /\ pc[p] = "done" =>
       /\ result[p].status = 200 => token[p] \in Token /\ Known(p, token[p].key)
       /\ result[p].error = "jwks_key_not_found" =>
            token[p] \in Token /\ Missed(p, token[p].key)

CallInv == \A p \in Call : ReplyOf(p) /\ ReadOf(p)

ValidInv == TypeOK /\ KeyInv /\ CacheInv /\ CallInv

\* The call of a request validates its token, and no time passes between a
\* verdict and its return.
CallerInv ==
  \A p \in Call :
    /\ pc[p] = "idle" => token[p] = None
    /\ pc[p] # "idle" => request[p] \in Token /\ token[p] \in {request[p], None}
    /\ pc[p] = "done" /\ result[p].status = 200 => clock <= token[p].exp + Skew

BearerInv == ValidInv /\ BearerTypeOK /\ CallerInv

-----------------------------------------------------------------------------
\* The windows, whatever the lifetime and the latency.

LEMMA Bounds ==
  /\ MaxLatency \in Int /\ MaxLatency >= 0
  /\ CacheTtl \in Int /\ CacheTtl >= 0
  /\ MaxClock \in Int /\ 0 \in 0 .. MaxClock
  /\ Skew \in Int
<1> DEFINE L == MaxLatency
           T == CacheTtl
           M == MaxClock
           S == Skew
<1>1. L \in Nat
  BY ValidatorAssumption DEF ValidatorAssumption
<1>2. T \in Nat
  BY ValidatorAssumption DEF ValidatorAssumption
<1>3. M \in Nat
  BY ValidatorAssumption DEF ValidatorAssumption
<1>s. S \in Nat
  BY ValidatorAssumption DEF ValidatorAssumption
<1> HIDE DEF L, T, M, S
<1>4. L \in Int /\ L >= 0 /\ T \in Int /\ T >= 0 /\ M \in Int /\ 0 \in 0 .. M /\ S \in Int
  BY <1>1, <1>2, <1>3, <1>s
<1> QED BY <1>4 DEF L, T, M, S

LEMMA Windows ==
  /\ \A c, e, r \in Int : c < e /\ e <= r + MaxLatency + CacheTtl => Window(c - r)
  /\ \A c, a, r \in Int : a <= r /\ c <= a + MaxLatency => Window(c - r)
  /\ \A c, r \in Int : c <= r => Window(c - r)
  /\ \A c, a, r \in Int : a <= r /\ c <= a + MaxLatency =>
       c + CacheTtl <= r + MaxLatency + CacheTtl
  /\ \A c, e \in Int : e <= c + CacheTtl => e <= c + MaxLatency + CacheTtl
  /\ \A c, e \in Int : e <= c + CacheTtl => e <= c + 1 + CacheTtl
  /\ \A c, a \in Int : c < a + MaxLatency => c + 1 <= a + MaxLatency
  /\ \A c \in Int : c <= c + MaxLatency
<1> DEFINE L == MaxLatency
           T == CacheTtl
<1>1. L \in Int /\ L >= 0 /\ T \in Int /\ T >= 0
  BY Bounds
<1>2. \A n : Window(n) <=> n < T + L \/ n <= L
  BY DEF Window
<1> HIDE DEF L, T
<1>3. \A c, e, r \in Int : c < e /\ e <= r + L + T => c - r < T + L
  BY <1>1
<1>4. \A c, a, r \in Int : a <= r /\ c <= a + L => c - r <= L
  BY <1>1
<1>5. \A c, r \in Int : c <= r => c - r <= L
  BY <1>1
<1>6. \A c, a, r \in Int : a <= r /\ c <= a + L => c + T <= r + L + T
  BY <1>1
<1>7. /\ \A c, e \in Int : e <= c + T => e <= c + L + T
      /\ \A c, e \in Int : e <= c + T => e <= c + 1 + T
      /\ \A c, a \in Int : c < a + L => c + 1 <= a + L
      /\ \A c \in Int : c <= c + L
  BY <1>1
<1>8. /\ \A c, e, r \in Int : c < e /\ e <= r + L + T => Window(c - r)
      /\ \A c, a, r \in Int : a <= r /\ c <= a + L => Window(c - r)
      /\ \A c, r \in Int : c <= r => Window(c - r)
  BY <1>2, <1>3, <1>4, <1>5
<1> QED BY <1>6, <1>7, <1>8 DEF L, T

\* Times are integers.
LEMMA Times ==
  ASSUME TypeOK
  PROVE  /\ clock \in Int /\ cache_.expires_at \in Int
         /\ \A p \in Call : read_at[p] \in Int
         /\ \A p \in Call : reply[p] # None => reply[p] \in HttpReply /\ reply[p].at \in Int
         /\ \A k \in Key : published_at[k] # None => published_at[k] \in Int
         /\ \A k \in Key : retired_at[k] # None => retired_at[k] \in Int
<1>1. clock \in Int /\ \A p \in Call : read_at[p] \in Int
  BY DEF TypeOK
<1>2. cache_.expires_at \in Int
  BY Bounds DEF TypeOK
<1>3. \A p \in Call : reply[p] # None => reply[p] \in HttpReply /\ reply[p].at \in Int
  BY DEF TypeOK, HttpReply
<1>4. /\ \A k \in Key : published_at[k] # None => published_at[k] \in Int
      /\ \A k \in Key : retired_at[k] # None => retired_at[k] \in Int
  BY DEF TypeOK
<1> QED BY <1>1, <1>2, <1>3, <1>4

-----------------------------------------------------------------------------
\* The steps of a call.

\* A step of p is right if it leaves the cache and p right.
LEMMA CallStep ==
  ASSUME ValidInv, NEW p \in Call, TypeOK',
         UNCHANGED <<clock, published, published_at, retired_at>>,
         \A q \in Call \ {p} :
           /\ pc'[q] = pc[q] /\ token'[q] = token[q] /\ reply'[q] = reply[q]
           /\ keys'[q] = keys[q] /\ read_at'[q] = read_at[q] /\ result'[q] = result[q],
         UNCHANGED cache_ \/ CacheInv',
         ReplyOf(p)', ReadOf(p)'
  PROVE  ValidInv'
<1>1. KeyInv'
  BY DEF ValidInv, KeyInv
<1>2. CacheInv'
  BY DEF ValidInv, CacheInv
<1>3. \A q \in Call \ {p} : ReplyOf(q)'
  BY DEF ValidInv, CallInv, ReplyOf, Shown
<1>4. ASSUME NEW q \in Call \ {p} PROVE ReadOf(q)'
  <2>1. ReadOf(q)
    BY DEF ValidInv, CallInv
  <2>2. \A k : (Known(q, k)' <=> Known(q, k)) /\ (Missed(q, k)' <=> Missed(q, k))
    BY DEF Known, Missed
  <2> QED BY <2>1, <2>2 DEF ReadOf
<1>5. CallInv'
  BY <1>3, <1>4 DEF CallInv
<1> QED BY <1>1, <1>2, <1>5 DEF ValidInv

\* None of the replies, tokens and results is None.
LEMMA DoneStep ==
  ASSUME ValidInv, NEW p \in Call, NEW s, NEW e, done(p, s, e),
         [status |-> s, error |-> e] \in Result
  PROVE  /\ pc' \in [Call -> {"idle", "fetching", "checking", "done"}] /\ pc'[p] = "done"
         /\ result' \in [Call -> Result \cup {None}]
         /\ result'[p].status = s /\ result'[p].error = e
         /\ \A q \in Call \ {p} : pc'[q] = pc[q] /\ result'[q] = result[q]
<1>1. result'[p] = [status |-> s, error |-> e]
  BY DEF done, ValidInv, TypeOK
<1>2. result'[p].status = s /\ result'[p].error = e
  BY <1>1
<1>3. pc' \in [Call -> {"idle", "fetching", "checking", "done"}] /\ pc'[p] = "done"
  BY DEF done, ValidInv, TypeOK
<1>4. result' \in [Call -> Result \cup {None}]
  BY DEF done, ValidInv, TypeOK
<1>5. \A q \in Call \ {p} : pc'[q] = pc[q] /\ result'[q] = result[q]
  BY DEF done, ValidInv, TypeOK
<1> QED BY <1>2, <1>3, <1>4, <1>5

LEMMA RefusesStep ==
  ASSUME ValidInv, NEW p \in Call, ValidateRefuses(p)
  PROVE  ValidInv'
<1>h. UNCHANGED <<clock, published, published_at, retired_at, cache_, token, reply, keys, read_at>>
  BY DEF ValidateRefuses, keycloakVars
<1>a. PICK s, e : /\ done(p, s, e) /\ [status |-> s, error |-> e] \in Result
                  /\ s # 200 /\ e # "jwks_key_not_found"
  <2>1. [status |-> 500, error |-> "auth_config_missing"] \in Result
    BY DEF Result
  <2>2. [status |-> 401, error |-> "invalid_jwt_format"] \in Result
    BY DEF Result
  <2> QED BY <2>1, <2>2 DEF ValidateRefuses
<1>b. /\ pc' \in [Call -> {"idle", "fetching", "checking", "done"}] /\ pc'[p] = "done"
      /\ result' \in [Call -> Result \cup {None}]
      /\ result'[p].status # 200 /\ result'[p].error # "jwks_key_not_found"
      /\ \A q \in Call \ {p} : pc'[q] = pc[q] /\ result'[q] = result[q]
  BY <1>a, DoneStep
<1>1. TypeOK'
  BY <1>b, <1>h DEF ValidInv, TypeOK
<1>2. reply[p] = None /\ read_at[p] <= clock
  BY DEF ValidInv, CallInv, ReplyOf, ReadOf, ValidateRefuses
<1>3. ReplyOf(p)' /\ ReadOf(p)'
  BY <1>2, <1>b, <1>h DEF ReplyOf, ReadOf
<1> QED BY <1>1, <1>3, <1>b, <1>h, CallStep

LEMMA CachedStep ==
  ASSUME ValidInv, NEW p \in Call, NEW t \in Token, ValidateCached(p, t)
  PROVE  ValidInv'
<1>h. UNCHANGED <<clock, published, published_at, retired_at, cache_, reply, result>>
  BY DEF ValidateCached, keycloakVars
<1>a. cached_keys = cache_.keys /\ cache_.keys # {} /\ clock < cache_.expires_at
  BY DEF ValidateCached, cached_keys
<1>b. /\ pc[p] = "idle"
      /\ pc' = [pc EXCEPT ![p] = "checking"] /\ token' = [token EXCEPT ![p] = t]
      /\ keys' = [keys EXCEPT ![p] = cache_.keys] /\ read_at' = [read_at EXCEPT ![p] = clock]
  BY <1>a DEF ValidateCached, copies
<1>c. cache_.keys \in SUBSET Key /\ clock \in 0 .. MaxClock
  BY DEF ValidInv, TypeOK
<1>1. TypeOK'
  BY <1>b, <1>c, <1>h DEF ValidInv, TypeOK
<1>2. pc'[p] = "checking" /\ token'[p] = t /\ keys'[p] = cache_.keys /\ read_at'[p] = clock
  BY <1>b DEF ValidInv, TypeOK
<1>3. \A q \in Call \ {p} : /\ pc'[q] = pc[q] /\ token'[q] = token[q] /\ keys'[q] = keys[q]
                           /\ read_at'[q] = read_at[q]
  BY <1>b DEF ValidInv, TypeOK
<1>4. reply[p] = None
  BY <1>b DEF ValidInv, CallInv, ReplyOf
<1>5. ReplyOf(p)'
  BY <1>4, <1>h DEF ReplyOf
<1>6. ASSUME NEW k \in Key PROVE IF k \in cache_.keys THEN Known(p, k)' ELSE Missed(p, k)'
  <2>1. CASE k \in cache_.keys
    <3>1. ASSUME retired_at[k] # None PROVE Window(clock - retired_at[k])
      <4>1. cache_.expires_at <= retired_at[k] + MaxLatency + CacheTtl
        BY <1>a, <2>1, <3>1 DEF ValidInv, CacheInv
      <4>2. clock \in Int /\ cache_.expires_at \in Int /\ retired_at[k] \in Int
        BY <3>1, Times DEF ValidInv
      <4> QED BY <1>a, <4>1, <4>2, Windows
    <3>2. published_at[k] # None
      BY <1>a, <2>1 DEF ValidInv, CacheInv
    <3> QED BY <1>2, <1>h, <2>1, <3>1, <3>2 DEF Known, Window
  <2>2. CASE k \notin cache_.keys
    <3>1. ASSUME k \in published PROVE Window(clock - published_at[k])
      <4>1. cache_.expires_at <= published_at[k] + MaxLatency + CacheTtl
        BY <1>a, <2>2, <3>1 DEF ValidInv, CacheInv
      <4>2. published_at[k] # None
        BY <3>1 DEF ValidInv, KeyInv
      <4>3. clock \in Int /\ cache_.expires_at \in Int /\ published_at[k] \in Int
        BY <4>2, Times DEF ValidInv
      <4> QED BY <1>a, <4>1, <4>3, Windows
    <3> QED BY <1>2, <1>h, <2>2, <3>1 DEF Missed, Window
  <2> QED BY <2>1, <2>2
<1>7. read_at'[p] <= clock'
  BY <1>2, <1>c, <1>h, Bounds
<1>8. ReadOf(p)'
  BY <1>2, <1>6, <1>7 DEF ReadOf
<1> QED BY <1>1, <1>3, <1>5, <1>8, <1>h, CallStep

LEMMA FetchesStep ==
  ASSUME ValidInv, NEW p \in Call, NEW t \in Token, ValidateFetches(p, t)
  PROVE  ValidInv'
<1>h. UNCHANGED <<clock, published, published_at, retired_at, cache_, reply, keys, read_at, result>>
  BY DEF ValidateFetches, keycloakVars
<1>b. /\ pc[p] = "idle"
      /\ pc' = [pc EXCEPT ![p] = "fetching"] /\ token' = [token EXCEPT ![p] = t]
  BY DEF ValidateFetches
<1>1. TypeOK'
  BY <1>b, <1>h DEF ValidInv, TypeOK
<1>2. pc'[p] = "fetching" /\ token'[p] = t
  BY <1>b DEF ValidInv, TypeOK
<1>3. \A q \in Call \ {p} : pc'[q] = pc[q] /\ token'[q] = token[q]
  BY <1>b DEF ValidInv, TypeOK
<1>4. reply[p] = None /\ read_at[p] <= clock
  BY <1>b DEF ValidInv, CallInv, ReplyOf, ReadOf
<1>5. ReplyOf(p)' /\ ReadOf(p)'
  BY <1>2, <1>4, <1>h DEF ReplyOf, ReadOf
<1> QED BY <1>1, <1>3, <1>5, <1>h, CallStep

LEMMA RefreshFailsStep ==
  ASSUME ValidInv, NEW p \in Call, RefreshFails(p)
  PROVE  ValidInv'
<1>h. UNCHANGED <<clock, published, published_at, retired_at, cache_, token, keys, read_at>>
  BY DEF RefreshFails, keycloakVars
<1>a. PICK s, e : /\ done(p, s, e) /\ [status |-> s, error |-> e] \in Result
                  /\ s # 200 /\ e # "jwks_key_not_found"
  <2>1. [status |-> 502, error |-> "jwks_parse_failed"] \in Result
    BY DEF Result
  <2>2. [status |-> 502, error |-> "jwks_fetch_failed"] \in Result
    BY DEF Result
  <2> QED BY <2>1, <2>2 DEF RefreshFails
<1>b. /\ pc' \in [Call -> {"idle", "fetching", "checking", "done"}] /\ pc'[p] = "done"
      /\ result' \in [Call -> Result \cup {None}]
      /\ result'[p].status # 200 /\ result'[p].error # "jwks_key_not_found"
      /\ \A q \in Call \ {p} : pc'[q] = pc[q] /\ result'[q] = result[q]
  BY <1>a, DoneStep
<1>c. reply' = [reply EXCEPT ![p] = None]
  BY DEF RefreshFails
<1>d. reply'[p] = None /\ \A q \in Call \ {p} : reply'[q] = reply[q]
  BY <1>c DEF ValidInv, TypeOK
<1>1. TypeOK'
  BY <1>b, <1>c, <1>h DEF ValidInv, TypeOK
<1>2. read_at[p] <= clock
  BY DEF ValidInv, CallInv, ReadOf
<1>3. ReplyOf(p)' /\ ReadOf(p)'
  BY <1>2, <1>b, <1>d, <1>h DEF ReplyOf, ReadOf
<1> QED BY <1>1, <1>3, <1>b, <1>d, <1>h, CallStep

LEMMA FetchThrowsStep ==
  ASSUME ValidInv, NEW p \in Call, FetchThrows(p)
  PROVE  ValidInv'
<1>h. UNCHANGED <<clock, published, published_at, retired_at, cache_, keys, read_at, result>>
  BY DEF FetchThrows, keycloakVars
<1>a. /\ pc' = [pc EXCEPT ![p] = "idle"] /\ token' = [token EXCEPT ![p] = None]
      /\ reply' = [reply EXCEPT ![p] = None]
  BY DEF FetchThrows
<1>1. TypeOK'
  BY <1>a, <1>h DEF ValidInv, TypeOK
<1>2. pc'[p] = "idle" /\ reply'[p] = None
  BY <1>a DEF ValidInv, TypeOK
<1>3. \A q \in Call \ {p} : pc'[q] = pc[q] /\ token'[q] = token[q] /\ reply'[q] = reply[q]
  BY <1>a DEF ValidInv, TypeOK
<1>4. read_at[p] <= clock
  BY DEF ValidInv, CallInv, ReadOf
<1>5. ReplyOf(p)' /\ ReadOf(p)'
  BY <1>2, <1>4, <1>h DEF ReplyOf, ReadOf
<1> QED BY <1>1, <1>3, <1>5, <1>h, CallStep

LEMMA RefreshStoresStep ==
  ASSUME ValidInv, NEW p \in Call, RefreshStores(p)
  PROVE  ValidInv'
<1> DEFINE r == reply[p]
<1>h. UNCHANGED <<clock, published, published_at, retired_at, token, result>>
  BY DEF RefreshStores, keycloakVars
<1>a. /\ pc[p] = "fetching" /\ r # None /\ r.status = 200 /\ r.keys # {}
      /\ cache_' = [keys |-> r.keys, expires_at |-> clock + CacheTtl]
      /\ pc' = [pc EXCEPT ![p] = "checking"] /\ reply' = [reply EXCEPT ![p] = None]
      /\ keys' = [keys EXCEPT ![p] = r.keys] /\ read_at' = [read_at EXCEPT ![p] = clock]
  BY DEF RefreshStores, refreshed, copies
<1>b. r.keys \in SUBSET Key /\ r.at \in Int /\ clock \in Int /\ clock \in 0 .. MaxClock
  BY <1>a, Times DEF ValidInv, HttpReply, TypeOK
<1>c. Shown(r.keys, r.at) /\ clock <= r.at + MaxLatency
  BY <1>a DEF ValidInv, CallInv, ReplyOf
<1>d. token[p] \in Token
  BY <1>a DEF ValidInv, CallInv, ReadOf
<1>e. cache_'.keys = r.keys /\ cache_'.expires_at = clock + CacheTtl
  BY <1>a
<1>f. clock + CacheTtl \in 0 .. MaxClock + CacheTtl
  <2>1. \A c, m, t \in Int : c \in 0 .. m /\ t >= 0 => c + t \in 0 .. m + t
    OBVIOUS
  <2> QED BY <1>b, <2>1, Bounds
<1> HIDE DEF r
<1>1. TypeOK'
  <2>1. cache_' \in [keys: SUBSET Key, expires_at: 0 .. MaxClock + CacheTtl]
    BY <1>a, <1>b, <1>f
  <2> QED BY <2>1, <1>a, <1>b, <1>h DEF ValidInv, TypeOK
<1>2. pc'[p] = "checking" /\ reply'[p] = None /\ keys'[p] = r.keys /\ read_at'[p] = clock
  BY <1>a DEF ValidInv, TypeOK
<1>3. \A q \in Call \ {p} : /\ pc'[q] = pc[q] /\ reply'[q] = reply[q] /\ keys'[q] = keys[q]
                           /\ read_at'[q] = read_at[q]
  BY <1>a DEF ValidInv, TypeOK
<1>4. ASSUME NEW k \in Key, k \in r.keys
      PROVE  /\ published_at[k] # None
             /\ retired_at[k] # None =>
                  /\ Window(clock - retired_at[k])
                  /\ clock + CacheTtl <= retired_at[k] + MaxLatency + CacheTtl
  <2>1. published_at[k] # None /\ (retired_at[k] # None => r.at <= retired_at[k])
    BY <1>4, <1>c DEF Shown
  <2>2. retired_at[k] # None => retired_at[k] \in Int
    BY Times DEF ValidInv
  <2> QED BY <1>b, <1>c, <2>1, <2>2, Windows
<1>5. ASSUME NEW k \in Key, k \notin r.keys, k \in published
      PROVE  /\ Window(clock - published_at[k])
             /\ clock + CacheTtl <= published_at[k] + MaxLatency + CacheTtl
  <2>1. r.at <= published_at[k]
    BY <1>5, <1>c DEF Shown
  <2>2. published_at[k] # None
    BY <1>5 DEF ValidInv, KeyInv
  <2>3. published_at[k] \in Int
    BY <2>2, Times DEF ValidInv
  <2> QED BY <1>b, <1>c, <2>1, <2>3, Windows
<1>6. CacheInv'
  <2>1. clock + CacheTtl <= clock + CacheTtl
    BY <1>b, Bounds
  <2> QED BY <1>4, <1>5, <1>e, <1>h, <2>1 DEF CacheInv
<1>7. ReplyOf(p)'
  BY <1>2 DEF ReplyOf
<1>8. ReadOf(p)'
  <2>1. \A k \in Key : IF k \in r.keys THEN Known(p, k)' ELSE Missed(p, k)'
    BY <1>2, <1>4, <1>5, <1>h DEF Known, Missed, Window
  <2>2. read_at'[p] <= clock'
    BY <1>2, <1>b, <1>h
  <2> QED BY <1>2, <1>d, <1>h, <2>1, <2>2 DEF ReadOf
<1> QED BY <1>1, <1>3, <1>6, <1>7, <1>8, <1>h, CallStep

LEMMA CheckedStep ==
  ASSUME ValidInv, NEW p \in Call, Check(p),
         NEW s, NEW e, done(p, s, e), [status |-> s, error |-> e] \in Result,
         s = 200 => token[p].key \in keys[p],
         e = "jwks_key_not_found" => token[p].key \notin keys[p]
  PROVE  ValidInv'
<1>h. UNCHANGED <<clock, published, published_at, retired_at, cache_, token, reply, read_at>>
  BY DEF Check, keycloakVars
<1>a. pc[p] = "checking" /\ keys' = [keys EXCEPT ![p] = {}]
  BY DEF Check
<1>b. /\ token[p] \in Token /\ read_at[p] <= clock /\ reply[p] = None
      /\ \A k \in Key : IF k \in keys[p] THEN Known(p, k) ELSE Missed(p, k)
  BY <1>a DEF ValidInv, CallInv, ReadOf, ReplyOf
<1>c. token[p].key \in Key
  BY <1>b DEF Token
<1>e. /\ pc' \in [Call -> {"idle", "fetching", "checking", "done"}] /\ pc'[p] = "done"
      /\ result' \in [Call -> Result \cup {None}]
      /\ result'[p].status = s /\ result'[p].error = e
      /\ \A q \in Call \ {p} : pc'[q] = pc[q] /\ result'[q] = result[q]
  BY DoneStep
<1>1. TypeOK'
  BY <1>a, <1>e, <1>h DEF ValidInv, TypeOK
<1>2. \A q \in Call \ {p} : keys'[q] = keys[q]
  BY <1>a DEF ValidInv, TypeOK
<1>3. \A k : (Known(p, k)' <=> Known(p, k)) /\ (Missed(p, k)' <=> Missed(p, k))
  BY <1>h DEF Known, Missed, Window
<1>4. ReadOf(p)'
  BY <1>3, <1>b, <1>c, <1>e, <1>h DEF ReadOf
<1>5. ReplyOf(p)'
  BY <1>b, <1>h DEF ReplyOf
<1> QED BY <1>1, <1>2, <1>4, <1>5, <1>e, <1>h, CallStep

LEMMA CheckStep ==
  ASSUME ValidInv, NEW p \in Call, Check(p)
  PROVE  ValidInv'
<1> DEFINE K == token[p].key \in keys[p]
<1>1. CASE ~ K /\ done(p, 401, "jwks_key_not_found")
  <2>1. [status |-> 401, error |-> "jwks_key_not_found"] \in Result
    BY DEF Result
  <2> QED BY <1>1, <2>1, CheckedStep
<1>2. CASE K /\ done(p, 401, "jwt_signature_invalid")
  <2>1. [status |-> 401, error |-> "jwt_signature_invalid"] \in Result
    BY DEF Result
  <2> QED BY <1>2, <2>1, CheckedStep
<1>3. CASE K /\ done(p, 401, "jwt_claim_mismatch")
  <2>1. [status |-> 401, error |-> "jwt_claim_mismatch"] \in Result
    BY DEF Result
  <2> QED BY <1>3, <2>1, CheckedStep
<1>4. CASE K /\ done(p, 401, "jwt_expired")
  <2>1. [status |-> 401, error |-> "jwt_expired"] \in Result
    BY DEF Result
  <2> QED BY <1>4, <2>1, CheckedStep
<1>5. CASE K /\ done(p, 403, "jwt_claim_mismatch")
  <2>1. [status |-> 403, error |-> "jwt_claim_mismatch"] \in Result
    BY DEF Result
  <2> QED BY <1>5, <2>1, CheckedStep
<1>6. CASE K /\ done(p, 200, "")
  <2>1. [status |-> 200, error |-> ""] \in Result
    BY DEF Result
  <2>2. "" # "jwks_key_not_found"
    OBVIOUS
  <2>3. PICK e : /\ K /\ done(p, 200, e) /\ [status |-> 200, error |-> e] \in Result
                 /\ e # "jwks_key_not_found"
    BY <1>6, <2>1, <2>2, Zenon
  <2> QED BY <2>3, CheckedStep
<1> QED BY <1>1, <1>2, <1>3, <1>4, <1>5, <1>6, ZenonT(90) DEF Check

LEMMA ReturnStep ==
  ASSUME ValidInv, NEW p \in Call, Return(p)
  PROVE  ValidInv'
<1>h. UNCHANGED <<clock, published, published_at, retired_at, cache_, reply, keys>>
  BY DEF Return, keycloakVars
<1>a. /\ pc[p] = "done" /\ pc' = [pc EXCEPT ![p] = "idle"] /\ token' = [token EXCEPT ![p] = None]
      /\ read_at' = [read_at EXCEPT ![p] = 0] /\ result' = [result EXCEPT ![p] = None]
  BY DEF Return
<1>1. TypeOK'
  BY <1>a, <1>h, Bounds DEF ValidInv, TypeOK
<1>2. pc'[p] = "idle" /\ read_at'[p] = 0
  BY <1>a DEF ValidInv, TypeOK
<1>3. \A q \in Call \ {p} : /\ pc'[q] = pc[q] /\ token'[q] = token[q]
                           /\ read_at'[q] = read_at[q] /\ result'[q] = result[q]
  BY <1>a DEF ValidInv, TypeOK
<1>4. reply[p] = None
  BY <1>a DEF ValidInv, CallInv, ReplyOf
<1>5. 0 <= clock
  BY DEF ValidInv, TypeOK
<1>6. ReplyOf(p)' /\ ReadOf(p)'
  BY <1>2, <1>4, <1>5, <1>h DEF ReplyOf, ReadOf
<1> QED BY <1>1, <1>3, <1>6, <1>h, CallStep

\* The key set of this instant is shown, whatever is known of the keys.
LEMMA RepliedStep ==
  ASSUME ValidInv, NEW p \in Call, pc[p] = "fetching",
         UNCHANGED <<clock, published, published_at, retired_at, cache_, pc, token, keys, read_at,
                     result>>,
         NEW r \in HttpReply, reply' = [reply EXCEPT ![p] = r],
         r.at = clock, r.status = 200 => r.keys = published
  PROVE  ValidInv'
<1>1. TypeOK'
  BY DEF ValidInv, TypeOK
<1>2. reply'[p] = r /\ \A q \in Call \ {p} : reply'[q] = reply[q]
  BY DEF ValidInv, TypeOK
<1>3. Shown(published, clock)'
  <2>1. \A k \in Key : k \in published => published_at[k] # None /\ retired_at[k] = None
    BY DEF ValidInv, KeyInv
  <2> QED BY <2>1 DEF Shown
<1>4. clock \in Int
  BY Times DEF ValidInv
<1>5. clock <= clock + MaxLatency /\ clock <= clock
  BY <1>4, Windows
<1>6. ReplyOf(p)'
  BY <1>2, <1>3, <1>5 DEF ReplyOf
<1>7. ReadOf(p)'
  <2>1. \A k : (Known(p, k)' <=> Known(p, k)) /\ (Missed(p, k)' <=> Missed(p, k))
    BY DEF Known, Missed, Window
  <2> QED BY <2>1 DEF ValidInv, CallInv, ReadOf
<1> QED BY <1>1, <1>2, <1>6, <1>7, CallStep

LEMMA ServeStep ==
  ASSUME ValidInv, NEW p \in Call, Serve(p) \/ HttpFails(p)
  PROVE  ValidInv'
<1> DEFINE R == [status |-> 200, keys |-> published, at |-> clock]
           F == [status |-> 502, keys |-> {}, at |-> clock]
<1>h. /\ UNCHANGED <<clock, published, published_at, retired_at, cache_, pc, token, keys, read_at,
                     result>>
      /\ pc[p] = "fetching"
  BY DEF Serve, HttpFails, keycloakVars
<1>1. R \in HttpReply /\ R.at = clock /\ R.keys = published
  BY DEF ValidInv, TypeOK, HttpReply
<1>2. F \in HttpReply /\ F.at = clock /\ F.status # 200
  BY DEF ValidInv, TypeOK, HttpReply
<1>3. Serve(p) => reply' = [reply EXCEPT ![p] = R]
  BY DEF Serve
<1>4. HttpFails(p) => reply' = [reply EXCEPT ![p] = F]
  BY DEF HttpFails
<1> HIDE DEF R, F
<1> QED BY <1>1, <1>2, <1>3, <1>4, <1>h, RepliedStep

-----------------------------------------------------------------------------
\* The steps of the environment.

LEMMA PublishStep ==
  ASSUME ValidInv, NEW k \in Key, Publish(k)
  PROVE  ValidInv'
<1>h. UNCHANGED <<clock, retired_at, cache_, pc, token, reply, keys, read_at, result>>
  BY DEF Publish, callVars
<1>a. /\ published_at[k] = None /\ published' = published \cup {k}
      /\ published_at' = [published_at EXCEPT ![k] = clock]
  BY DEF Publish
<1>b. /\ published \in SUBSET Key /\ clock \in 0 .. MaxClock /\ clock \in Int
      /\ published_at \in [Key -> 0 .. MaxClock \cup {None}]
  BY Times DEF ValidInv, TypeOK
<1>c. clock # None
  BY <1>b, ValidatorAssumption DEF ValidatorAssumption
<1>d. /\ published_at'[k] = clock /\ \A j \in Key \ {k} : published_at'[j] = published_at[j]
      /\ k \in published' /\ \A j \in Key \ {k} : j \in published' <=> j \in published
      /\ retired_at[k] = None /\ k \notin published
  BY <1>a, <1>b DEF ValidInv, KeyInv
<1>1. TypeOK'
  BY <1>a, <1>b, <1>h DEF ValidInv, TypeOK
<1>2. KeyInv'
  <2>1. clock <= clock
    BY <1>b
  <2> QED BY <1>c, <1>d, <1>h, <2>1 DEF ValidInv, KeyInv
<1>3. CacheInv'
  <2>1. cache_.keys # {} => cache_.expires_at <= clock + MaxLatency + CacheTtl
    BY Times, Windows DEF ValidInv, CacheInv
  <2> QED BY <1>c, <1>d, <1>h, <2>1 DEF ValidInv, CacheInv
<1>4. \A q \in Call : ReplyOf(q)'
  <2>1. ASSUME NEW q \in Call, reply[q] # None, reply[q].status = 200
        PROVE  Shown(reply[q].keys, reply[q].at)'
    BY <1>c, <1>d, <1>h, <2>1 DEF ValidInv, CallInv, ReplyOf, Shown
  <2> QED BY <1>h, <2>1 DEF ValidInv, CallInv, ReplyOf
<1>5. ASSUME NEW q \in Call PROVE ReadOf(q)'
  <2>1. read_at[q] <= clock /\ read_at[q] \in Int
    BY Times DEF ValidInv, CallInv, ReadOf
  <2>2. Window(read_at[q] - clock)
    BY <1>b, <2>1, Windows
  <2>3. \A j \in Key : (Known(q, j) => Known(q, j)') /\ (Missed(q, j) => Missed(q, j)')
    BY <1>c, <1>d, <1>h, <2>2 DEF Known, Missed, Window
  <2>4. \A t \in Token : t.key \in Key
    BY DEF Token
  <2> QED BY <1>h, <2>3, <2>4 DEF ValidInv, CallInv, ReadOf
<1> QED BY <1>1, <1>2, <1>3, <1>4, <1>5 DEF ValidInv, CallInv

LEMMA RetireStep ==
  ASSUME ValidInv, NEW k \in Key, Retire(k)
  PROVE  ValidInv'
<1>h. UNCHANGED <<clock, published_at, cache_, pc, token, reply, keys, read_at, result>>
  BY DEF Retire, callVars
<1>a. /\ k \in published /\ published' = published \ {k}
      /\ retired_at' = [retired_at EXCEPT ![k] = clock]
  BY DEF Retire
<1>b. /\ published \in SUBSET Key /\ clock \in 0 .. MaxClock /\ clock \in Int
      /\ retired_at \in [Key -> 0 .. MaxClock \cup {None}]
  BY Times DEF ValidInv, TypeOK
<1>c. clock # None
  BY <1>b, ValidatorAssumption DEF ValidatorAssumption
<1>d. /\ retired_at'[k] = clock /\ \A j \in Key \ {k} : retired_at'[j] = retired_at[j]
      /\ k \notin published' /\ \A j \in Key \ {k} : j \in published' <=> j \in published
      /\ published_at[k] # None
  BY <1>a, <1>b DEF ValidInv, KeyInv
<1>1. TypeOK'
  BY <1>a, <1>b, <1>h DEF ValidInv, TypeOK
<1>2. KeyInv'
  <2>1. clock <= clock
    BY <1>b
  <2> QED BY <1>c, <1>d, <1>h, <2>1 DEF ValidInv, KeyInv
<1>3. CacheInv'
  <2>1. cache_.keys # {} => cache_.expires_at <= clock + MaxLatency + CacheTtl
    BY Times, Windows DEF ValidInv, CacheInv
  <2> QED BY <1>c, <1>d, <1>h, <2>1 DEF ValidInv, CacheInv
<1>4. \A q \in Call : ReplyOf(q)'
  <2>1. ASSUME NEW q \in Call, reply[q] # None, reply[q].status = 200
        PROVE  Shown(reply[q].keys, reply[q].at)'
    BY <1>c, <1>d, <1>h, <2>1 DEF ValidInv, CallInv, ReplyOf, Shown
  <2> QED BY <1>h, <2>1 DEF ValidInv, CallInv, ReplyOf
<1>5. ASSUME NEW q \in Call PROVE ReadOf(q)'
  <2>1. read_at[q] <= clock /\ read_at[q] \in Int
    BY Times DEF ValidInv, CallInv, ReadOf
  <2>2. Window(read_at[q] - clock)
    BY <1>b, <2>1, Windows
  <2>3. \A j \in Key : (Known(q, j) => Known(q, j)') /\ (Missed(q, j) => Missed(q, j)')
    BY <1>d, <1>h, <2>2 DEF Known, Missed, Window
  <2>4. \A t \in Token : t.key \in Key
    BY DEF Token
  <2> QED BY <1>h, <2>3, <2>4 DEF ValidInv, CallInv, ReadOf
<1> QED BY <1>1, <1>2, <1>3, <1>4, <1>5 DEF ValidInv, CallInv

LEMMA TickStep ==
  ASSUME ValidInv, Tick
  PROVE  ValidInv'
<1>h. UNCHANGED <<published, published_at, retired_at, cache_, pc, token, reply, keys, read_at,
                  result>>
  BY DEF Tick, keycloakVars, callVars
<1>a. clock' = clock + 1 /\ clock < MaxClock /\ clock \in Int /\ clock \in 0 .. MaxClock
  BY Times DEF ValidInv, Tick, TypeOK
<1>b. clock' \in 0 .. MaxClock /\ \A n \in Int : n <= clock => n <= clock'
  BY <1>a, Bounds
<1>1. TypeOK'
  BY <1>b, <1>h DEF ValidInv, TypeOK
<1>2. KeyInv'
  BY <1>b, <1>h, Times DEF ValidInv, KeyInv
<1>3. CacheInv'
  <2>1. cache_.keys # {} => cache_.expires_at <= clock' + CacheTtl
    BY <1>a, Times, Windows DEF ValidInv, CacheInv
  <2> QED BY <1>h, <2>1 DEF ValidInv, CacheInv
<1>4. ASSUME NEW q \in Call PROVE ReplyOf(q)'
  <2>1. reply[q] # None => clock' <= reply[q].at + MaxLatency
    BY <1>a, Times, Windows DEF ValidInv, CallInv, ReplyOf, Tick
  <2> QED BY <1>b, <1>h, <2>1, Times DEF ValidInv, CallInv, ReplyOf, Shown
<1>5. ASSUME NEW q \in Call PROVE ReadOf(q)'
  <2>1. \A j : (Known(q, j)' <=> Known(q, j)) /\ (Missed(q, j)' <=> Missed(q, j))
    BY <1>h DEF Known, Missed, Window
  <2>2. read_at'[q] <= clock'
    BY <1>b, <1>h, Times DEF ValidInv, CallInv, ReadOf
  <2> QED BY <1>h, <2>1, <2>2 DEF ValidInv, CallInv, ReadOf
<1> QED BY <1>1, <1>2, <1>3, <1>4, <1>5 DEF ValidInv, CallInv

-----------------------------------------------------------------------------
\* The validator: every step, whoever calls it.

LEMMA InitValid == Init => ValidInv
<1> SUFFICES ASSUME Init PROVE ValidInv
  OBVIOUS
<1>1. 0 \in 0 .. MaxClock /\ 0 \in Int /\ 0 <= 0
  BY Bounds
<1>2. 0 \in 0 .. MaxClock + CacheTtl
  <2>1. \A m, t \in Int : 0 \in 0 .. m /\ t >= 0 => 0 \in 0 .. m + t
    OBVIOUS
  <2> QED BY <2>1, Bounds
<1>3. TypeOK
  BY <1>1, <1>2 DEF Init, TypeOK
<1>4. KeyInv
  BY <1>1, ValidatorAssumption DEF Init, KeyInv, ValidatorAssumption
<1>5. CacheInv
  BY DEF Init, CacheInv
<1>6. CallInv
  BY <1>1 DEF Init, CallInv, ReplyOf, ReadOf
<1> QED BY <1>3, <1>4, <1>5, <1>6 DEF ValidInv

LEMMA NextValid == ValidInv /\ [Next]_vars => ValidInv'
<1> SUFFICES ASSUME ValidInv, [Next]_vars PROVE ValidInv'
  OBVIOUS
<1>1. ASSUME NEW p \in Call, Validate(p) PROVE ValidInv'
  BY <1>1, RefusesStep, CachedStep, FetchesStep DEF Validate
<1>2. ASSUME NEW p \in Call, Proceed(p) PROVE ValidInv'
  BY <1>2, RefreshFailsStep, FetchThrowsStep, RefreshStoresStep, CheckStep DEF Proceed
<1>3. ASSUME NEW p \in Call, Return(p) \/ Serve(p) \/ HttpFails(p) PROVE ValidInv'
  BY <1>3, ReturnStep, ServeStep
<1>4. ASSUME NEW k \in Key, Publish(k) \/ Retire(k) PROVE ValidInv'
  BY <1>4, PublishStep, RetireStep
<1>5. CASE Tick
  BY <1>5, TickStep
<1>6. CASE UNCHANGED vars
  <2>1. TypeOK' /\ KeyInv' /\ CacheInv'
    BY <1>6 DEF ValidInv, TypeOK, KeyInv, CacheInv, vars, keycloakVars, callVars
  <2>2. \A p : (ReplyOf(p)' <=> ReplyOf(p)) /\ (ReadOf(p)' <=> ReadOf(p))
    BY <1>6 DEF ReplyOf, Shown, ReadOf, Known, Missed, Window, vars, keycloakVars, callVars
  <2> QED BY <2>1, <2>2 DEF ValidInv, CallInv
<1> QED BY <1>1, <1>2, <1>3, <1>4, <1>5, <1>6 DEF Next

-----------------------------------------------------------------------------
\* The middleware: its steps are steps of the validator, or leave it alone.

LEMMA BearerStep ==
  ASSUME [BearerNext]_<<vars, bearerVars>>, BearerInv
  PROVE  [Next]_vars
<1>1. ASSUME NEW p \in Call,
             \/ \E h \in Header : Arrive(p, h)
             \/ Answer(p) \/ Unauthorized(p)
      PROVE  UNCHANGED vars
  BY <1>1 DEF Arrive, Answer, Unauthorized
<1>2. ASSUME NEW p \in Call, Authenticate(p) PROVE Validate(p)
  BY <1>2 DEF Authenticate, Validate
<1>3. ASSUME NEW p \in Call, Authenticated(p) PROVE Return(p)
  BY <1>3 DEF Authenticated
<1>4. CASE UNCHANGED <<vars, bearerVars>>
  BY <1>4
<1>5. Elapse => Tick
  BY DEF Elapse
<1> QED BY <1>1, <1>2, <1>3, <1>4, <1>5 DEF BearerNext, Next

\* A step of p that keeps what its caller relies on.
LEMMA CallerStep ==
  ASSUME BearerInv, NEW p \in Call,
         \A q \in Call \ {p} :
           /\ pc'[q] = pc[q] /\ token'[q] = token[q] /\ result'[q] = result[q]
           /\ request'[q] = request[q],
         UNCHANGED clock,
         pc'[p] = "idle" => token'[p] = None,
         pc'[p] # "idle" => request'[p] \in Token /\ token'[p] \in {request'[p], None},
         pc'[p] = "done" /\ result'[p].status = 200 => clock <= token'[p].exp + Skew
  PROVE  CallerInv'
BY DEF BearerInv, CallerInv

LEMMA ArriveStep ==
  ASSUME BearerInv, ValidInv', NEW p \in Call,
         \/ \E h \in Header : Arrive(p, h)
         \/ Answer(p) \/ Unauthorized(p)
  PROVE  BearerTypeOK' /\ CallerInv'
<1>h. UNCHANGED <<clock, pc, token, result>>
  BY DEF Arrive, Answer, Unauthorized, vars, callVars
<1>1. BearerTypeOK'
  BY DEF BearerInv, ValidInv, BearerTypeOK, Arrive, Answer, Unauthorized
<1>2. None \notin Token
  BY BearerAssumption DEF BearerAssumption
<1>3. pc[p] = "idle" \/ UNCHANGED request
  BY <1>2 DEF BearerInv, CallerInv, Arrive, Answer, Unauthorized
<1>4. \A q \in Call \ {p} : request'[q] = request[q]
  BY DEF BearerInv, BearerTypeOK, Arrive, Answer, Unauthorized
<1>5. CallerInv'
  BY <1>3, <1>4, <1>h DEF BearerInv, CallerInv
<1> QED BY <1>1, <1>5

LEMMA AuthenticateStep ==
  ASSUME BearerInv, ValidInv', NEW p \in Call, Authenticate(p)
  PROVE  BearerTypeOK' /\ CallerInv'
<1>h. UNCHANGED <<clock, request, user_data>>
  BY DEF Authenticate, ValidateRefuses, ValidateCached, ValidateFetches
<1>1. BearerTypeOK'
  BY <1>h DEF BearerInv, ValidInv, BearerTypeOK, Authenticate
<1>2. request[p] \in Token /\ pc[p] = "idle" /\ token[p] = None
  BY DEF BearerInv, CallerInv, Authenticate, ValidateRefuses, ValidateCached, ValidateFetches
<1>3. CASE ValidateRefuses(p)
  <2>1. \/ done(p, 500, "auth_config_missing")
        \/ done(p, 401, "invalid_jwt_format")
    BY <1>3 DEF ValidateRefuses
  <2>2. /\ \A q \in Call \ {p} : pc'[q] = pc[q] /\ result'[q] = result[q]
        /\ pc'[p] = "done" /\ result'[p].status # 200
    BY <2>1 DEF done, BearerInv, ValidInv, TypeOK
  <2>3. UNCHANGED token
    BY <1>3 DEF ValidateRefuses
  <2> QED BY <1>1, <1>2, <1>h, <2>2, <2>3, CallerStep
<1>4. CASE ValidateCached(p, request[p]) \/ ValidateFetches(p, request[p])
  <2>1. /\ \A q \in Call \ {p} : pc'[q] = pc[q] /\ token'[q] = token[q]
        /\ pc'[p] \in {"fetching", "checking"} /\ token'[p] = request[p] /\ UNCHANGED result
    BY <1>4 DEF ValidateCached, ValidateFetches, BearerInv, ValidInv, TypeOK
  <2> QED BY <1>1, <1>2, <1>h, <2>1, CallerStep
<1> QED BY <1>3, <1>4 DEF Authenticate

LEMMA AuthenticatedStep ==
  ASSUME BearerInv, ValidInv', NEW p \in Call, Authenticated(p)
  PROVE  BearerTypeOK' /\ CallerInv'
<1>h. UNCHANGED <<clock, request>>
  BY DEF Authenticated, Return
<1>1. /\ pc'[p] = "idle" /\ token'[p] = None
      /\ \A q \in Call \ {p} : pc'[q] = pc[q] /\ token'[q] = token[q] /\ result'[q] = result[q]
  BY DEF Authenticated, Return, BearerInv, ValidInv, TypeOK
<1>2. token[p] \in Token \cup {None} /\ accepted(p) \in BOOLEAN
  BY DEF BearerInv, ValidInv, TypeOK, accepted
<1>3. BearerTypeOK'
  BY <1>2, <1>h DEF BearerInv, ValidInv, BearerTypeOK, Authenticated, set_request_context
<1> QED BY <1>1, <1>3, <1>h, CallerStep

LEMMA ProceedStep ==
  ASSUME BearerInv, ValidInv', NEW p \in Call, UNCHANGED bearerVars,
         Proceed(p) \/ Serve(p) \/ HttpFails(p)
  PROVE  BearerTypeOK' /\ CallerInv'
<1>h. UNCHANGED <<clock, request, user_data, ok>>
  BY DEF bearerVars, Proceed, RefreshFails, FetchThrows, RefreshStores, Check, Serve, HttpFails
<1>1. BearerTypeOK'
  BY <1>h DEF BearerInv, ValidInv, BearerTypeOK
<1>2. CASE Serve(p) \/ HttpFails(p)
  BY <1>2, <1>1, <1>h DEF Serve, HttpFails, BearerInv, CallerInv
<1>3. CASE RefreshStores(p)
  <2>1. /\ \A q \in Call \ {p} : pc'[q] = pc[q]
        /\ pc[p] = "fetching" /\ pc'[p] = "checking" /\ UNCHANGED <<token, result>>
    BY <1>3 DEF RefreshStores, BearerInv, ValidInv, TypeOK
  <2> QED BY <1>1, <1>h, <2>1, CallerStep DEF BearerInv, CallerInv
<1>4. CASE RefreshFails(p)
  <2>1. pc[p] = "fetching" /\ UNCHANGED token /\ \E e : done(p, 502, e)
    BY <1>4 DEF RefreshFails
  <2>2. /\ \A q \in Call \ {p} : pc'[q] = pc[q] /\ result'[q] = result[q]
        /\ pc'[p] = "done" /\ result'[p].status # 200
    BY <2>1 DEF done, BearerInv, ValidInv, TypeOK
  <2> QED BY <1>1, <1>h, <2>1, <2>2, CallerStep DEF BearerInv, CallerInv
<1>5. CASE Check(p)
  <2>1. pc[p] = "checking" /\ UNCHANGED token /\ token[p] \in Token
    BY <1>5 DEF Check, BearerInv, ValidInv, CallInv, ReadOf
  <2> DEFINE expired == clock > token[p].exp + Skew
  <2>a. \/ done(p, 401, "jwks_key_not_found") \/ done(p, 401, "jwt_signature_invalid")
        \/ done(p, 401, "jwt_claim_mismatch") \/ done(p, 401, "jwt_expired")
        \/ done(p, 403, "jwt_claim_mismatch")
        \/ ~ expired /\ done(p, 200, "")
    BY <1>5, Zenon DEF Check
  <2> HIDE DEF expired
  <2>2. /\ \A q \in Call \ {p} : pc'[q] = pc[q] /\ result'[q] = result[q]
        /\ pc'[p] = "done"
        /\ result'[p].status = 200 => ~ expired
    <3>1. ASSUME NEW s, NEW e, done(p, s, e)
          PROVE  /\ \A q \in Call \ {p} : pc'[q] = pc[q] /\ result'[q] = result[q]
                 /\ pc'[p] = "done" /\ result'[p].status = s
      BY <3>1 DEF done, BearerInv, ValidInv, TypeOK
    <3>2. 401 # 200 /\ 403 # 200
      OBVIOUS
    <3>3. CASE expired
      BY <2>a, <3>1, <3>2, <3>3
    <3>4. CASE ~ expired
      <4>1. PICK s, e : done(p, s, e)
        BY <2>a, ZenonT(90)
      <4> QED BY <3>1, <3>4, <4>1
    <3> QED BY <3>3, <3>4
  <2>3. clock \in Int /\ Skew \in Int
    BY Times, Bounds DEF BearerInv, ValidInv
  <2>4. token[p].exp \in Int
    BY <2>1, ValidatorAssumption DEF Token, ValidatorAssumption
  <2>5. \A c, x, w \in Int : ~ (c > x + w) => c <= x + w
    OBVIOUS
  <2>6. result'[p].status = 200 => clock <= token[p].exp + Skew
    BY <2>2, <2>3, <2>4, <2>5 DEF expired
  <2> QED BY <1>1, <1>h, <2>1, <2>2, <2>6, CallerStep DEF BearerInv, CallerInv
<1>6. CASE FetchThrows(p)
  <2>1. /\ \A q \in Call \ {p} : pc'[q] = pc[q] /\ token'[q] = token[q]
        /\ pc'[p] = "idle" /\ token'[p] = None /\ UNCHANGED result
    BY <1>6 DEF FetchThrows, BearerInv, ValidInv, TypeOK
  <2> QED BY <1>1, <1>h, <2>1, CallerStep
<1> QED BY <1>2, <1>3, <1>4, <1>5, <1>6 DEF Proceed

LEMMA EnvironmentStep ==
  ASSUME BearerInv, ValidInv', UNCHANGED bearerVars,
         (\E k \in Key : Publish(k) \/ Retire(k)) \/ Elapse
  PROVE  BearerTypeOK' /\ CallerInv'
<1>h. UNCHANGED <<pc, token, result, request, user_data, ok>>
  BY DEF bearerVars, Publish, Retire, Elapse, Tick, callVars
<1>1. BearerTypeOK'
  BY <1>h DEF BearerInv, ValidInv, BearerTypeOK
<1>2. UNCHANGED clock \/ \A p \in Call : pc[p] # "done"
  BY DEF Publish, Retire, Elapse
<1>3. CallerInv'
  BY <1>2, <1>h DEF BearerInv, CallerInv
<1> QED BY <1>1, <1>3

LEMMA NextBearer == BearerInv /\ [BearerNext]_<<vars, bearerVars>> => BearerInv'
<1> SUFFICES ASSUME BearerInv, [BearerNext]_<<vars, bearerVars>> PROVE BearerInv'
  OBVIOUS
<1>1. ValidInv'
  BY BearerStep, NextValid DEF BearerInv
<1>2. CASE BearerNext
  BY <1>1, <1>2, ArriveStep, AuthenticateStep, AuthenticatedStep, ProceedStep, EnvironmentStep
  DEF BearerNext, BearerInv
<1>3. CASE UNCHANGED <<vars, bearerVars>>
  <2>1. BearerTypeOK' /\ CallerInv'
    BY <1>1, <1>3 DEF BearerInv, ValidInv, BearerTypeOK, CallerInv, vars, callVars, bearerVars
  <2> QED BY <1>1, <2>1 DEF BearerInv
<1> QED BY <1>2, <1>3

LEMMA InitBearer == BearerInit => BearerInv
<1> SUFFICES ASSUME BearerInit PROVE BearerInv
  OBVIOUS
<1>1. ValidInv
  BY InitValid DEF BearerInit
<1>2. BearerTypeOK
  BY <1>1 DEF BearerInit, BearerTypeOK, ValidInv
<1>3. CallerInv
  BY DEF BearerInit, Init, CallerInv
<1> QED BY <1>1, <1>2, <1>3 DEF BearerInv

-----------------------------------------------------------------------------
\* BearerInv is an invariant: every step of the middleware keeps it.
THEOREM Invariance == BearerSpec => []BearerInv
BY InitBearer, NextBearer, PTL DEF BearerSpec

\* Every variable keeps its type.
THEOREM TypeCorrect == BearerSpec => []BearerTypeOK
<1>1. BearerInv => BearerTypeOK
  BY DEF BearerInv
<1> QED BY <1>1, Invariance, PTL

\* What refresh_jwks caches was published MaxLatency before, or later: the cache
\* never outlives a retired key by more than CacheTtl + MaxLatency.
THEOREM CacheCorrect == BearerSpec => []CachedKeysPublished
<1>1. BearerInv => CachedKeysPublished
  <2>1. ValidInv => CachedKeysPublished
    BY DEF ValidInv, TypeOK, CacheInv, CachedKeysPublished
  <2> QED BY <2>1 DEF BearerInv
<1> QED BY <1>1, Invariance, PTL

\* validate finds a published key unknown only shortly after its publication.
THEOREM UnknownCorrect == BearerSpec => []UnknownKeyWindow
<1>1. BearerInv => UnknownKeyWindow
  <2>1. ValidInv => UnknownKeyWindow
    BY DEF ValidInv, CallInv, ReadOf, Missed, UnknownKeyWindow
  <2> QED BY <2>1 DEF BearerInv
<1> QED BY <1>1, Invariance, PTL

\* Only the end of a request's own authentication attaches a context to it.
LEMMA OnlyAuthenticated ==
  ASSUME BearerInv, [BearerNext]_<<vars, bearerVars>>, NEW p \in Call, Attaching(p)
  PROVE  Authenticated(p)
<1>1. ASSUME NEW q \in Call,
             \/ \E h \in Header : Arrive(q, h)
             \/ Answer(q) \/ Unauthorized(q)
      PROVE  FALSE
  <2>1. UNCHANGED pc /\ user_data'[p] \in {user_data[p], None}
    BY <1>1 DEF Arrive, Answer, Unauthorized, BearerInv, BearerTypeOK, vars, callVars
  <2> QED BY <2>1 DEF Attaching
<1>2. ASSUME NEW q \in Call, Authenticate(q) PROVE FALSE
  <2>1. UNCHANGED user_data /\ (pc[p] = "done" => pc'[p] = pc[p])
    BY <1>2 DEF Authenticate, ValidateRefuses, ValidateCached, ValidateFetches, done,
                BearerInv, ValidInv, TypeOK
  <2> QED BY <2>1 DEF Attaching
<1>3. ASSUME NEW q \in Call, UNCHANGED bearerVars, Proceed(q) \/ Serve(q) \/ HttpFails(q)
      PROVE  FALSE
  <2>1. UNCHANGED user_data /\ (pc[p] = "done" => pc'[p] = pc[p])
    BY <1>3, ZenonT(90)
       DEF bearerVars, Proceed, RefreshFails, FetchThrows, RefreshStores, Check, Serve, HttpFails,
           done,
           BearerInv, ValidInv, TypeOK
  <2> QED BY <2>1 DEF Attaching
<1>4. ASSUME UNCHANGED bearerVars, (\E k \in Key : Publish(k) \/ Retire(k)) \/ Elapse
      PROVE  FALSE
  <2>1. UNCHANGED user_data /\ UNCHANGED pc
    BY <1>4 DEF bearerVars, Publish, Retire, Elapse, Tick, callVars
  <2> QED BY <2>1 DEF Attaching
<1>5. ASSUME NEW q \in Call, q # p, Authenticated(q) PROVE FALSE
  <2>1. pc'[p] = pc[p] /\ user_data'[p] = user_data[p]
    BY <1>5 DEF Authenticated, set_request_context, Return, BearerInv, ValidInv, TypeOK, BearerTypeOK
  <2> QED BY <2>1 DEF Attaching
<1>6. CASE UNCHANGED <<vars, bearerVars>>
  BY <1>6 DEF Attaching, vars, callVars, bearerVars
<1> QED BY <1>1, <1>2, <1>3, <1>4, <1>5, <1>6 DEF BearerNext

\* authenticate attaches and reports only what validate accepted, for the token
\* of the request, before its exp and the skew, with a key that was published.
THEOREM AttachCorrect == BearerSpec => AttachedWasAccepted
<1>1. ASSUME BearerInv, [BearerNext]_<<vars, bearerVars>>
      PROVE  \A p \in Call : Attaching(p) => Trustworthy(p)
  <2> SUFFICES ASSUME NEW p \in Call, Attaching(p) PROVE Trustworthy(p)
    OBVIOUS
  <2>1. Authenticated(p)
    BY <1>1, OnlyAuthenticated
  <2>2. accepted(p)
    BY <1>1, <2>1 DEF Attaching, Authenticated, BearerInv, BearerTypeOK
  <2>3. user_data'[p] = token[p]
    BY <1>1, <2>1, <2>2 DEF Authenticated, set_request_context, BearerInv, BearerTypeOK
  <2>4. pc[p] = "done" /\ result[p].status = 200
    BY <2>1, <2>2 DEF Authenticated, Return, accepted
  <2>5. token[p] \in Token /\ Known(p, token[p].key)
    BY <1>1, <2>4 DEF BearerInv, ValidInv, CallInv, ReadOf
  <2>6. None \notin Token
    BY BearerAssumption DEF BearerAssumption
  <2>7. token[p] = request[p] /\ clock <= token[p].exp + Skew
    BY <1>1, <2>4, <2>5, <2>6 DEF BearerInv, CallerInv
  <2> QED BY <2>3, <2>5, <2>7 DEF Trustworthy, Known
<1> QED BY <1>1, Invariance, PTL DEF BearerSpec, AttachedWasAccepted
=============================================================================
