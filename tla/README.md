# A TLA+ verification of UIdentity

UIdentity is a C++23 library of Keycloak / OpenID Connect building blocks for
the unet HTTP server: PKCE login, OAuth callback, cookie sessions, token
operations, JWT validation and several realms in one service. This directory
holds TLA+ models of it, the TLC configurations that check them, and theorems
that TLAPS proves about the stores, the login flow, the cookie session, the token
operations, the authentication of requests and the texts between the parts.
`PROJECT.json` maps every definition to the lines
it stands for; paths there start at `src/`, the root of the repository. Paths
below are relative to that root, `K/` standing for `include/uidentity/keycloak/`.

To check everything: `tlc -config X.cfg M` for each run of section 4, and
`tlapm M.tla` for `MemoryStateStoreProofs`,
`RedisStateStoreProofs`, `LoginFlowProofs`, `SessionProofs`,
`TokenServiceProofs`, `BearerAuthProofs`, `KeycloakDocumentsProofs` and
`EncodingsProofs`.

## 1. Inventory

| Component | State it keeps | Operations | Talks to |
| --- | --- | --- | --- |
| State store interface, `K/state_store/state_store.hpp`, `api_models/concepts.hpp` | none | `create_state(_entry)`, `consume_state(_entry)`, `cleanup_expired_unsafe` | the stores |
| `MemoryStateStore`, `K/state_store/memory.hpp`, `src/keycloak/state_store/memory.cpp` | a map of pending logins and its mutex | the same | the clock, `RAND_bytes` |
| `RedisStateStore`, `.../redis.hpp`, `.../redis.cpp` | keys with a lifetime, in a Redis shared by all instances | the same | Redis: `SET EX NX`, `GETDEL` |
| `AuthHandler`, `handlers/AuthHandler.h` | none of its own; the browser's cookies | `login`, `callback`, `logout` | a client (below), `TokenService`, the browser |
| `MultiRealmManager`, `K/multi_realm.hpp` | a fixed table of realms | constructor, `start_login`, `complete_login`, `refresh_tokens`, `revoke_token`, `validate` | store, token services, validators |
| `KeycloakClient`, `K/keycloak_client.hpp` | one realm | `start_login`, `complete_login`, `authenticate_request` | the same |
| `TokenService`, `K/oauth/token_service.hpp` | none; tokens at Keycloak | exchange, refresh, revoke, introspect, userinfo | Keycloak over the HTTP client |
| `AccessTokenValidator`, `K/jwt/access_token_validator.hpp` | the JWKS cache and its mutex | `validate` | Keycloak's key set, the clocks |
| `BearerAuthMiddleware`, `api_models/http_context.hpp` | the context attached to a request | `authenticate`, `set/get_request_context` | the validator |
| JSON scanner, `K/detail/json_utils.hpp`; JWT utilities, `K/detail/jwt_utils.hpp`; discovery, `K/oidc/discovery.hpp` | none | skip, extract, split; roles, audiences, key sets, base64url; one request | every reader of a reply or a token |
| Encodings: `utils/cookies.hpp`, `utils/url_encode.hpp`, `K/detail/oidc_utils.hpp`, `pkce.cpp`, `PkceAuthStrategy` | none | escapes, forms, cookies, URLs, Base64url | browsers, Keycloak, Redis |
| Probes, configuration, umbrella header | none | three probe handlers | |

How they interact. `AuthHandler::login` awaits `start_login` of its client, which
makes a PKCE pair, stores the verifier (and, with `MultiRealmManager`, the realm)
under a fresh random state and returns the authorization URL. The browser comes
back with a code and the state; `callback` awaits `complete_login`, which consumes
the state, picks the realm and awaits the token exchange. The tokens become two
cookies per realm; `logout` awaits the revocation of the refresh token and expires
both. An API request goes through the middleware to the validator, which fetches and
caches the key set, and what is read of the token becomes the request's context.
Handlers are coroutines: at every `co_await` others run, on this and on other
instances.

What is hard, by component:

* **State stores.** Concurrent replays of one state; states that collide; expiry at
  the exact deadline and between two clock readings; commands executed after the
  caller gave up, or whose reply was lost; values of an older version. Correct means:
  a verifier is handed out at most once, unaltered, before its deadline, and a state
  that was returned leads to the entry it was created for.
* **Login flow.** Repeated and mixed-up callbacks, on several differently
  configured instances, with failing store and HTTP calls. Correct means: tokens go
  out only in answer to the state of the same login, one exchange per login, at the
  realm the login asked for; every request is answered.
* **Session.** Responses of several tabs arrive in any order or get lost. Correct
  means: a realm's cookies are of one login of that realm, and a logout ends that one.
* **Token operations.** Lost replies and proxies that answer. Correct means: what a
  result says of a token was true.
* **Validator and middleware.** No single flight, so an older reply may be stored over
  a newer one, while keys rotate; a request may be authenticated more than once.
  Correct means: the time a retired key is accepted, and a new one refused, is bounded,
  and a context that is attached was earned by the request's own token.
* **Documents.** The scanner finds a member by its quoted name, wherever that string
  comes first. Correct means: claims, keys and endpoints are read as they were written,
  in any order of the members, also when clients and roles are called like a claim.
* **Encodings.** Each text has a writer and a reader, which do not always belong to
  the same program. Correct means: what is read is what was written, whatever bytes
  it contains, and no byte of a value can be taken for a delimiter.

Every one of these hazards is listed, at its line, under `hazards` in `PROJECT.json`,
with the properties that cover it, or the reason why none does.

## 2. Plan

| Step | Modules | Why in this order | State |
| --- | --- | --- | --- |
| 1 | `StateStore` (proofs in `LoginFlowProofs`) | the promise everything else relies on | proved |
| 2 | `MemoryStateStore`, `MemoryStateStoreProofs` | implements it | proved |
| 3 | `RedisStateStore`, `RedisStateStoreProofs` | implements it under lost and late commands | proved |
| 4 | `LoginFlow` (extends `StateStore` by realms and token exchange), `LoginFlowProofs` | the main behaviour | proved |
| 5 | `AccessTokenValidator`, `BearerAuth` (the middleware over it), `BearerAuthProofs` | the other shared state of the process | proved |
| 6 | `Session`, `SessionProofs` | what the browser is left with | proved |
| 7 | `TokenService`, `TokenServiceProofs` | token operations | proved |
| 8 | `JsonScan`, `KeycloakDocuments`, `KeycloakDocumentsProofs` | what is read of Keycloak's documents | proved |
| 9 | `Encodings`, `EncodingsProofs` | the texts between the parts | proved |
| 10 | `RealmRegistry` (the constructor of `MultiRealmManager`, a realm configured twice) | | open |

Abstract specifications: `StateStore` is the one both stores implement and
`LoginFlow` extends. `LoginFlow` takes the store's calls as single steps, which the
refinements justify; the exceptions a real store can end with are its own actions.

## 3. Modules

**StateStore.** `live` is the set of pending entries, `handed` counts how often
each verifier was given out. `Put` stands for `create_state_entry` (some state that
no live entry has), `Take` for a `consume_state_entry` that finds its entry before
the deadline, `Sweep` for `cleanup_expired_unsafe` and for the expiry of a Redis
key. An entry may stay after its deadline but is never taken then.

**MemoryStateStore.** `map_`, `m_` and `attempt` are the code's; `pc`, `arg`, `ret`
are the coroutines. A create call is the lock with the sweep (`CreateLock`), one step
per draw (`Insert`, `Collide`, `GiveUp`, `RandFails`), the clock running in between
because line 70 of memory.cpp reads it again. A consume call that finds its entry
is split between the moves of lines 97-100 and the erase of line 101
(`ConsumeFind`, `ConsumeErase`): that nobody sees the hollow entry is something the
mutex has to provide. `requested`, `due` and `handed` are history.

**RedisStateStore.** A coroutine that awaits a command is one thing and the command
another: `Serve` executes and answers, `Fails` and `FailsEarly` end the await with an
error after or before the server has executed, and `ServeStray` executes a command
nobody waits for (at most one per coroutine, a bound). `to_int` narrows a lifetime to
the ints from `-IntLimit` to `IntLimit - 1`. `LegacyCreate` is an instance of the
version that stored bare verifiers (redis.cpp:197).

**LoginFlow.** Request handlers of several instances, some with a
`MultiRealmManager` and some with a `KeycloakClient`, on one store. `LoginStarts`,
`LoginStored`, `CallbackStarts`, `CallbackTakes`, `CallbackAnswers` are the stretches
between awaits; the others are the early returns and exceptions. Keycloak
(`Authorize`, `TokenEndpoint`), the HTTP client (`HttpFails`) and the browsers, which
may send any code with any state they were given to any instance, are external.

**Session.** `jar` is one browser's cookies, `grants` Keycloak's logins.
`Callback` is the end of a successful callback, `LogoutRevokes`, `RevocationEnds`,
`RevocationThrows`, `LogoutClears`, `LogoutAtOnce`, `LogoutRefused` are the paths of
`AuthHandler::logout`. A login id stands for its two tokens.

**TokenService.** `Send`, `Parse`, `Missing`, `UnknownRealm` and `Throws` are the
stretches of every operation; the operators `parse_token_response`,
`revocation_result`, `introspection_result` and `userinfo_result` are the parts in which
they differ. Keycloak may or may not rotate a refresh token. A `200` that did not
come from Keycloak is left out for revocations, since nothing in such a reply could be
looked at.

**AccessTokenValidator.** `cache_` is the code's. `ValidateRefuses`,
`ValidateCached`, `ValidateFetches`, `RefreshStores`, `RefreshFails`, `Check` are the
stretches of `validate`, `refresh_jwks` included; `Publish`, `Retire` and `Serve` are
Keycloak. `FetchThrows` is the exception of `send`, which passes through `validate` and
`authenticate` and leaves the cache and the request as they were. One clock stands for the steady clock of the cache and the system clock of
`exp`. The verdicts of the signature and of the claims other than `exp` are drawn.

**BearerAuth** extends it by `BearerAuthMiddleware::authenticate`: `Authenticate`
starts a validation of the header's token, `Authenticated` goes on with its result,
`Unauthorized` is the return without one. `request` and `user_data` are the request and
the context attached to it, for which its token stands. A request may be authenticated
again and again before it is answered. The validator's runs and theorems are those of
this composition.

**JsonScan.** Recursive functions for the scanners; a position stands for a byte
offset, a token of the constant set `String` for a quoted string. `endless` is the
value of a loop whose turn moves nothing. The texts are written token by token by a
serializer (external) that remembers in `values` where each value is, so what the
scanners return is compared with what was written. A string is one token: that a search
can also find a name at the end of a longer string, behind an escaped quote, is the subject
of `StringsWhole`, and outside of what is said of claims and keys.

**KeycloakDocuments** extends it by what is read with the scanner: the roles and
audiences of a token (`extract_all_roles`, `extract_audience_values`), its key set
(`extract_jwks`, `kid`, `kty` and `n` for five members) and its endpoints
(`discover`, one for eight). Keycloak (external) writes the members of these documents
in any order, any of them missing.

**Encodings.** Texts are sequences of bytes, as in the code, and each operator is the
function of its name: `url_encode`, `url_decode` with what an `istringstream` makes of
two characters, forms, `Cookie` and `Set-Cookie`, the value of a login state in Redis,
base64url with its accumulator of 32 bits, the three parts of a JWT, JSON strings,
absolute URIs with ports of 16 bits, the authorization URL, and `split_ws`. One state
machine writes names and values byte by byte; each property reads them as another
kind of text. A base URL (`Root`) is what `url_of` writes of its parts: a host, a
port or none, a path or none; `request_url` is the same with a slash for an empty path,
which `parse_absolute_uri` never leaves. `RootAssumption` says which parts can be told apart again
in a text: `parse_absolute_uri` takes what follows the last colon of the authority for a
port, so a bare IPv6 address needs a port behind it, and looks for `://` in the whole
text, so a path behind no scheme has no colon. A scheme has none, and a base URL no query.

`MC*` modules give the constants that are functions or large sets, and the symmetry.
Each operator that ends in a word of its own after the name of another
(`cached_keys_unbounded`, `decode_form_component_late`) restates one with a mistake; `mutants` in
`PROJECT.json` pairs each with a property that fails when it takes the operator's place.

## 4. Runs

| Run | Module, configuration | States | Asks |
| --- | --- | --- | --- |
| `store_promise` | StateStore | 3 000 | Does the abstract store keep its promise? |
| `memory_safety` | MCMemoryStateStore | 270 000 | Does the in-memory store implement it (`ImplementsStore`), give each create call its own entry back (`CreateOutcome`) unaltered (`ConsumedIntact`)? |
| `memory_progress` | ...Live | 16 000 | Is the mutex always released, also when all draws are taken? |
| `redis_safety` | MCRedisStateStore | 1 500 000 | The same of Redis, with commands lost or late; which lifetimes does Redis refuse? |
| `login_safety` | MCLoginFlow | 3 600 000 | Tokens only for the state's login, one exchange per login, at its realm; who is told `unknown_realm`? |
| `login_progress` | ...Live | 16 000 | Is every request answered? |
| `bearer_safety` | MCBearerAuth | 7 100 000 | What does an attached context prove; how long is a retired key accepted and a new one refused? |
| `session_safety` | MCSession | 44 000 | What do the cookies hold when responses overtake each other? |
| `logout_docs` | MCSessionDocs | violation | Does a logout always expire the cookies, as docs/security.md says? |
| `token_service` | MCTokenService | 400 000 | What may a caller conclude from a result? |
| `documents_read` | MCKeycloakDocuments | 255 000 | Do the scanners find what a serializer wrote; are claims, keys and endpoints read exactly? |
| `encodings` | MCEncodings | 102 000 | Does every text come back as what it was written from? |

Bounds, and why they are enough to see what matters:

* Two coroutines, calls or requests at a time: every race above is between two. The
  mutex run has three, so that one can wait while another is served.
* Two states and three verifiers (memory), two and two (Redis): a draw can be taken
  twice in a row, so the last attempt is reached with `MaxAttempts = 2` (8 in the
  code), and a state can be drawn again after its entry has gone.
* The clock goes past every deadline; `Ttl` includes 0. In Redis, `IntLimit` is 8, so
  that a lifetime of 9 overflows as one of 2^31 would.
* Login: two realms and three instances (both realms, one of them, a
  `KeycloakClient`), two logins and two codes: enough to mix two logins up. The
  lifetime is one tick.
* Session: two realms, three logins, two tabs. The login before, the one after and one
  in the other realm.
* Tokens: four, so that one rotation is possible; one session in one of two realms. With
  one session the last clause but one of `RefreshedTokens`, that new tokens are of the
  session of the token that was sent, says nothing in this run (two sessions in two realms,
  with tokens for a rotation, are beyond five minutes); it rests on `RefreshesOwnTokens`.
* Keys: two, and a clock that runs to 4, past `CacheTtl + MaxLatency = 3`, so that an
  older reply can be stored over a newer one, and past `exp + Skew`. `MaxLatency`
  bounds only how long a reply that has been made can take to be handled; without it the
  windows would not be bounded, in the program either.
* Documents: texts of up to 12 tokens nested up to three deep, which has an array in an
  object in an array and an object whose member is shadowed by a nested one of the same
  name; two keys with one or two values of each member, a `kid` that is called `kty` and
  an `x5c` that holds `kid` among them; two roles of the realm, one of which is called
  `resource_access`, and one of each client (`MaxClientRoles`); two audiences and two
  clients (`MaxClients`), one of which is called `roles` and one `realm_access`.
* Encodings: two fields of three bytes in all, of sixteen bytes among which is every
  delimiter, escape character and blank of every format. An escape is one byte that is
  written in three, and the shortest text in which two values can be mixed up has two
  fields. The base URLs are an IPv6 address with a port, and a host without a scheme but
  with a path; each is tried with no slash and with two at its end.

`documents_read` and `encodings` may stop (the texts are finished), so these two runs
do not check for deadlock. Runs with a symmetry set check safety only.

What the runs show beyond the plain answers:

* `logout_docs` is violated: when the HTTP client's `send` throws, `logout` is left at
  AuthHandler.h:120, before the cookies are expired, although docs/security.md:37 and :43
  say that logout expires both and that revocation failures are not surfaced. See
  `findings`.
* `RealmRouting` has to admit two causes of `unknown_realm`: an instance that does not
  serve the realm has already consumed the login by then, and so has a
  `MultiRealmManager` that meets a state stored by a `KeycloakClient` (or by the older
  version), which carries no realm.
* `CreateOutcome` of Redis is about calls that return: a call that throws after its
  SET was executed leaves an entry nobody knows, until it expires.
* The window of `AttachedWasAccepted` and `UnknownKeyWindow` is `CacheTtl + MaxLatency`,
  not `CacheTtl`: the lifetime of a key set starts when its reply is handled, not when
  Keycloak made it.
* A request whose second authentication fails still carries the context of the first:
  `authenticate` does not clear `user_data` (bearer_auth_middleware.hpp:45).
  `AttachedWasAccepted` is therefore about the moment of attaching: the key of the token
  has been published, was not retired before the window, and the verdict is of this token.
* `RefreshedTokens` and `RefusedDidNothing` do not say that a failed refresh left the
  token usable: after a 502 (a lost reply) Keycloak may have replaced it. That a 4xx means
  that nothing was done rests on an assumption about what is external: no proxy answers a
  4xx of its own after Keycloak has acted (`HttpFails`).
* `FindsFirstKey` is what `extract_json_value` guarantees; a member of the same name
  nested in an earlier one wins over the top-level member, and so does a value that is the
  quoted name. `ClaimsExact` and `PublishedExact` hold under the condition that none
  precedes (`first_found`); in a discovery document the alias of an endpoint for mutual TLS
  (`mtls_endpoint_aliases` of RFC 8705) shadows the endpoint when it comes first.
* `FormRoundTrip` also has a percent sign that no writer of the program puts there: if what
  follows is no number, or is cut off, it stays as it is; if an `istringstream` makes a number
  of it, a byte takes its place. A digit before anything that is no digit (`%1g`) is such a number,
  so that what is behind the digit is lost; before and behind these nothing is.
* `CookieRoundTrip` has to admit a foreign cookie whose name decodes to the name of one of
  ours: the one that comes later in the header wins.
* `UrlRoundTrip`: the realm in a context is the last segment of the issuer as it is written
  there, percent-encoded. `PkceAuthStrategy` does not trim the slash at the end of a base
  URL, as `realm_root` does. `omit_default_port` is read nowhere.

Fairness. `memory_progress` assumes that a thread inside the critical section runs
again (weak fairness of the steps under the mutex), nothing about waiting threads and
no failing `RAND_bytes` that would end a call.
`login_progress` assumes that a coroutine whose awaited call has ended is resumed, and
that store calls and HTTP requests end, with an answer or an error: the clients are
external, and a client that never returns would hang the handler, which
has no timeout of its own. No fairness is assumed of browsers, users or the clock.

## 5. Proofs

| Module | Theorems | Say |
| --- | --- | --- |
| `MemoryStateStoreProofs` | `TypeCorrect`, `OneTimeUse`, `CreateCorrect`, `ConsumeCorrect` | `TypeOK`, `HandedOnce`, `CreateOutcome`, `ConsumedIntact` |
| | `Implements` | the in-memory store implements `StateStore` |
| `RedisStateStoreProofs` | `TypeCorrect`, `OneReceiver`, `CreateCorrect`, `ConsumeCorrect` | `TypeOK`, `ReceivedOnce`, `CreateOutcome`, `ConsumedIntact` |
| | `Implements` | the Redis store implements `StateStore` |
| `LoginFlowProofs` | `StoreTyped`, `StoreOneTimeUse` | `TypeOK`, `HandedOnce` of `StateStore` |
| | `UsesStore` | the login flow is a user of that store: its behaviours are behaviours of `StateStore` |
| | `TypeCorrect`, `TokensCorrect`, `OneExchange`, `RoutesCorrect` | `LoginTypeOK`, `TokensForTheLogin`, `ExchangedOnce`, `RealmRouting` |
| `SessionProofs` | `TypeCorrect`, `Isolation`, `OneLogin`, `LoginsKept` | `TypeOK`, `RealmIsolation`, `SameLogin`, `LoginKept` |
| `TokenServiceProofs` | `TypeCorrect`, `ActiveTokensValid`, `RefusalsHarmless`, `RefreshesOwnTokens` | `TypeOK`, `ActiveWhenSeen`, `RefusedDidNothing`, `RefreshedTokens` |
| `BearerAuthProofs` | `TypeCorrect`, `CacheCorrect`, `UnknownCorrect`, `AttachCorrect` | `BearerTypeOK`, `CachedKeysPublished`, `UnknownKeyWindow`, `AttachedWasAccepted` |
| `KeycloakDocumentsProofs` | `ValuesSkipped`, `FirstKeyFound` | `SkipsValues`, `FindsFirstKey` |
| | `DocumentsScanned` | the two, of the specification of `documents_read` |
| | `ClaimsReadExactly`, `PublishedReadExactly` | `ClaimsExact`, `PublishedExact` |
| `EncodingsProofs` | `FormsReadBack`, `CookiesReadBack`, `StateEntriesReadBack`, `TokensReadBack`, `StringsReadWhole`, `UrlsReadBack` | `FormRoundTrip`, `CookieRoundTrip`, `StateEntryRoundTrip`, `TokenRoundTrip`, `StringsWhole`, `UrlRoundTrip` |
| | `ParsesWritten` | `parse_absolute_uri` takes a URL apart into the parts it was written of |
| | `DecimalReadBack` | `stoi` reads what `to_string` wrote, for every natural number |

Each module but the last also has `Invariance`, that its inductive invariant holds of
every behaviour. The theorems hold for every set of coroutines, instances, states,
verifiers, realms, codes, keys, tokens and logins, all integer lifetimes, every number
of attempts above zero and every bound on the clock, and those of documents for all
names and any number of claims, roles, clients and keys, from the named assumptions of
the modules. Those say that constants which are compared are different, that numbers are
numbers, (`RecordAssumption`) that `None` is not a record, and (`RootAssumption`) which
base URLs there are.

None of the invariants is inductive as it stands. What is added to each, and the
argument:

**In-memory store.** Nothing in `HandedOnce` says why an entry that is in the map was
not handed out before. `IInv` adds, in named parts: the mutex is held by exactly the
coroutine inside the critical section (`MutexInv`); the shape of arguments and results
at each place of the code (`CallInv`); states and verifiers are keys of the map, whose
slots hold what was asked for (`MapInv`); a create call's verifier is its own and
nowhere else before its insert (`OwnInv`); an entry in the map has been handed out
just when a coroutine is between its moves and its erase (`HandedInv`); results are
what was asked for (`RetInv`). The proof has one lemma per action, each with one step
per part; `Alone` says that a coroutine in the critical section is the only one there,
which is all the argument for `ConsumeErase` needs. The refinement maps `live` to the
map without the slot whose strings have been moved out: `Insert` is then `Put`,
`ConsumeFind` is `Take`, the sweeps are `Sweep`, and everything else stutters.

**Redis.** There is no mutex; what takes its place is that a command is executed at
once and that each verifier is in one place. A verifier that a create call, or a
command it left behind, has yet to store is not in Redis and was never handed out (its
`due` is `None`); each stored verifier has one key; a verifier that left Redis is with
one caller, or in an answer on its way to one, or lost. An executed `SET` is then
`Put`, which drops an expired entry of the same state as Redis does, a `GETDEL` that
hits is `Take`, also when nobody waits for it, and all the rest stutters.

**Login flow.** The argument follows a verifier: it is with the request that stores it
and nowhere else (`Creating`), or in the store, under the one state its authorization
URL carries, with the realm its instance stores (`HeldInv`), or handed out to one
request, which brought that state (`Consumed`). A code is issued for an authorization
URL (`LocationInv`), and Keycloak redeems it for the URL's challenge and realm
(`Redeemed`); so the code whose tokens a request gets belongs to the login whose
verifier it was handed. A verifier is sent only when it is handed out (`CountInv`),
which the store does once. The actions are grouped by what they do to the logins
beside their own request (`QuietStep`, `TakeStep`, `StoreStep`, `CodesStep`); for each
kind one lemma (`Others`) shows that no other request is disturbed.

**Session.** Responses on their way carry nothing, or both cookies of one realm, cleared
or of one login granted there (`Carries`); so the cookies of a realm change together, in
whatever order responses arrive. `LoginKept` is about the step in which a response
arrives, and takes a second invariant (`CallbacksInv`): the response of a callback carries
what `add_token_cookies` made of its own realm and login.

**Token operations.** What a result says was said by a reply (`Parsed`), and a reply on
its way only says what is true (`Truthful`): Keycloak accepts a token later only if it
was valid when it was sent (`Sent`, because no step brings a token back to life), a 4xx
is made by Keycloak only when it has done nothing for the operation, and new tokens are
of the sent token's session (`Issues`). `AccessInv` says that an access token that is
in a reply or a result is there only, which Keycloak's issuing a fresh one keeps.

**Bearer authentication.** `ValidInv` states, of the cache, of a reply on its way and of
a call's copy of the keys, when their keys were published and retired relative to when
they were made; it is inductive for the validator alone. `BearerInv` adds what the
middleware knows: the token of a call is its request's, and its result that of a check
made at this very instant.

**JSON scanner.** `skip_json_value` calls itself, so that it has a value at all has to be
shown first: a turn of it only calls turns of lower rank, by how much of the text is left
(`Descends`), as long as what those return is no earlier than where they began
(`Within`); a function that descends is well defined (`Recursion`, from which follows
`Skipping`). `SkipsValues` is not inductive, since it says nothing of a value that has only begun
and nothing of the same text with more behind it. `IInv` is about all texts that may
follow what has been written (`extensions`): a complete value ends where it was ended in
each of them (`ValuesInv`), and in each the loop of an open object or array gets to the
member or element that is being written (`OpenInv`, of the nested stack `open`).
Opening, separating and closing each move that turn on by one (`FrameOpens`,
`FramePunctuates`, `FrameCommas`, `FrameCloses`); `ScalarInv` is that a bare scalar is
followed by a delimiter. A value that was cut off has no extension to end in: by
induction from the innermost one, every loop runs to the end of the text (`CutOff`).
`FindsFirstKey` takes the same kind of argument for the search (`Searching`), which only reads
on.

**Keycloak's documents.** The machine writes members, each name once (`WrittenInv`);
the rest is about all documents of such members. A text is `Whole` if
`skip_json_value` passes it wherever it stands before a delimiter or at the end. Atoms
are (`AtomWhole`), and so is what is listed of them between brackets (`EnclosedWhole`):
the loop passes one item after the other (`ListedLoop`), by an induction on the items
still to come. The first token of an object that equals a quoted name and precedes no
member of it is that member's name, so the search ends there (`KeyFound`) and returns
the value's place (`MemberFound`), or nothing (`MemberMissing`); this is where
`first_found` is needed. `SplitListed` shows that the elements of an array are its
items, `WalkListed` that the walk over `resource_access` adds the roles of each client
in order, and `AppendUnique` that the list of roles stays `is_without_repeats` of the
part that has been taken. The inductions are on sets of sequences that are closed under
one more item in front or behind (`ByFront`, `ByBack`).

**Encodings.** The state machine only writes names and values of bytes (the lemma
`FieldsTyped`), and each round trip is then a statement about all lists of names and values, of any
length and of all 256 bytes. It takes induction over texts, and the library's induction
theorems are stated for an operator that no installed prover can instantiate. So the
induction is done here on sets: from the well-foundedness of `<` follows that a set of
numbers that is not empty has a smallest one (`Smallest`), and from that the principles
that are used: a set with 0 that is closed under successor holds all numbers (`Induct`); a
set with the empty text that is closed under writing one more byte in front, or behind,
holds all texts (`FromFront`, `FromBack`); a loop that only reads on has a result at every
position (`ReadingOn`, `FromEnd`); and a function that descends is well defined
(`Recursion`), which gives `FlattenSeq` of the community modules its equations.
Every reader of the code is a loop over positions. Each is given a name (`decoding`,
`reading`, `scanning`, `parsing`, `accumulating`), and shown to have a result at every
position of every text, and to go on behind a text it has passed just as on what follows
alone (`DecodingAfter`, `ReadingAfter`, `ScanningAfter`, `ParsingAfter`). Every writer puts
one piece for each byte (`expanded`), so reading back is an induction from the front:
`ReadBack` for percent encoding and forms (and `ReadBackBefore`, whatever follows, from which
`EscapesKept` has what stands before and behind a percent sign that is none of the writer's), `TailedParts` for parts behind delimiters,
`EndsEscaped` and `ReadsEscaped` for JSON strings. That the pieces hold no delimiter is
`Delimited`. base64url does not work by the byte; its invariant is `read_whole`: behind i
characters all 6i div 8 whole bytes are out, and the 6i mod 8 lowest bits of the
accumulator are the highest of the next byte. The accumulator of the code is never
cleared; `Shifted` says that what the 32 bits drop does not matter to these.
That a quoted key occurs in the string of a value only at its end (`NameOccurs`) is because
every quote that is written of a value is behind a backslash, and a key that is written
as it is contains none.
A URL is not read from its front but cut, at its first `://`, slash, colon and question
mark. The argument is where these are: each part is free of the marks that are looked for
while it is read (`separable`), so the places of the marks are those where the parts meet
(`Cuts`), and each part is what lies between two of them (`ParsesWritten`); a port is
written by repeated division and read by repeated multiplication (`StoiAppended`), and
fits its 16 bits. What remains is that every URL the program makes is separable: `url_encode`
and `build_form_body` write none of the marks (`UrlEncodeType`, `BodyType`), trimming the
slashes of a base URL only takes slashes from its path (`RootText`: it has a host, which
does not end in one), and so an endpoint, a request to it and an authorization URL are a
base URL with another path and query (`EndpointUrl`, `AskedSent`, `LoginSent`). The last
slash of a realm's root is the one before the realm (`RealmRead`). Scopes are words: a
word behind a blank is split off just as it is alone (`SplittingAfter`, `SplitWordAnd`).

Every invariant of the runs is stated by a theorem. Only model-checked is liveness
(`LockReleased`, `Answered`), which is beyond this prover.

## 6. Not modelled

* The constructor of `MultiRealmManager` (the table is filled once and never changes;
  a realm that is configured twice keeps its first runtime) and the realm lookup of
  its `validate`, the same as that of `refresh_tokens`.
* RSA keys and signatures, random bytes and SHA-256: they belong to OpenSSL. A state
  stands for a random value, a signature verdict is drawn.
* The conversions of JSON integers and booleans (`std::stoi` and a comparison), the
  clamp of `verifier_len`, and `PkceAuthStrategy`'s check of missing fields.
* JSON with mismatched brackets, such as `[}`, on which a loop of `skip_json_value` stands
  still. No serializer writes such a text, but the header of a bearer token is scanned before
  its signature is checked, so not every text need come from a serializer.
* `cleanup_expired_unsafe` called from outside a store call: it is public, takes no lock
  and nothing in the repository calls it so.
* The process-local map of `MemoryStateStore` across restarts: docs/security.md:7 advises Redis for
  more than one instance; after a restart every pending login is answered as unknown,
  which is `CallbackMisses`.
* Probes (three handlers that read one flag), configuration records, the umbrella
  header: nothing that depends on an order.
* `src/main.cpp` (the `/api/v1/me` flow that refreshes a session, the Redis bootstrap,
  `UnetHttpClient`): described in docs/ but not in the repository.
