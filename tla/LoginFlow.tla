----------------------------- MODULE LoginFlow ------------------------------
(***************************************************************************)
(* The PKCE login flow: AuthHandler::login and ::callback of several       *)
(* service instances over one state store, each with a MultiRealmManager   *)
(* or a KeycloakClient, and the token exchange with Keycloak.              *)
(*                                                                         *)
(* It extends StateStore, which MemoryStateStore and RedisStateStore       *)
(* implement, by the handlers that call it.  Keycloak (one-time codes      *)
(* bound to a realm and a challenge), the HTTP client and the browsers are *)
(* external.  Browsers may repeat a callback, send it to any instance, or  *)
(* pair the code of one login with the state of another.                   *)
(***************************************************************************)
EXTENDS StateStore

CONSTANTS
  Req,          \* requests handled concurrently, of all instances
  Instance,     \* instances of the service that share the store
  Multi,        \* those that run a MultiRealmManager; others, a KeycloakClient
  Configured,   \* [Instance -> the realms the instance is configured with]
  RealmName,    \* names of realms
  Code,         \* authorization codes Keycloak can issue
  StateTtl,     \* lifetime of a login in seconds (5 minutes in the handler)
  None

ASSUME LoginAssumption ==
  /\ Multi \subseteq Instance
  /\ Configured \in [Instance -> (SUBSET RealmName) \ {{}}]
  /\ \A i \in Instance \ Multi : \E r \in RealmName : Configured[i] = {r}
  /\ "" \notin RealmName
  /\ StateTtl \in Nat \ {0}
  /\ Realm = RealmName \cup {""}
  /\ Ttl = {StateTtl}
  /\ None \notin Instance \cup RealmName \cup State \cup Verifier \cup Code

VARIABLES
  locations,  \* Location headers sent: authorization URLs
  codes,      \* Keycloak: what each issued code is bound to
  pc,         \* where each handler is
  req,        \* the request it handles, with the verifier and realm it works on
  reply,      \* the HTTP client's response to its token request
  response,   \* its response
  started,    \* history: the realm and instance of each verifier's login
  exchanges   \* history: how often each verifier was sent to Keycloak

vars == <<storeVars, locations, codes, pc, req, reply, response, started,
          exchanges>>

Location == [realm: RealmName, state: State, challenge: Verifier]
Grant == [realm: RealmName, state: State, challenge: Verifier, spent: BOOLEAN]
Request == [inst: Instance, realm: RealmName \cup {None}, code: Code \cup {None},
            state: State \cup {None}, verifier: Verifier \cup {None}]
\* The status_code of the reply (0 when there was none) and the access token in
\* its body: the code it was issued for, or None.
HttpReply == [status: {0, 200, 400}, token: Code \cup {None}]
Started == [realm: RealmName, inst: Instance]
Response == [status: {200, 302, 400, 401, 404, 500, 502},
             error: {"", "missing_realm", "unknown_realm", "missing_code_or_state",
                     "invalid_or_expired_state", "exchange_failed", "exception"},
             realm: RealmName \cup {None}, token: Code \cup {None}]

ASSUME RecordAssumption == None \notin Grant \cup Request \cup Started

LoginTypeOK ==
  /\ TypeOK
  /\ locations \subseteq Location
  /\ codes \in [Code -> Grant \cup {None}]
  /\ pc \in [Req -> {"idle", "creating", "consuming", "exchanging", "responded"}]
  /\ req \in [Req -> Request \cup {None}]
  /\ reply \in [Req -> HttpReply \cup {None}]
  /\ response \in [Req -> Response \cup {None}]
  /\ started \in [Verifier -> Started \cup {None}]
  /\ exchanges \in [Verifier -> Nat]

LoginInit ==
  /\ Init
  /\ locations = {}
  /\ codes = [c \in Code |-> None]
  /\ pc = [p \in Req |-> "idle"]
  /\ req = [p \in Req |-> None]
  /\ reply = [p \in Req |-> None]
  /\ response = [p \in Req |-> None]
  /\ started = [v \in Verifier |-> None]
  /\ exchanges = [v \in Verifier |-> 0]

-----------------------------------------------------------------------------
\* Seeded faults (see "mutants" in PROJECT.json).
stored_realm_default(i, r) == CHOOSE d \in Configured[i] : TRUE
parse_ignores_transport(rep) ==
  [ok |-> rep.token # None, status |-> rep.status, error |-> "exchange_failed"]

-----------------------------------------------------------------------------
has_realm(i, r) == r \in Configured[i]

\* The realm in the stored StateEntry: MultiRealmManager stores the realm of
\* the login, KeycloakClient's create_state stores none.
stored_realm(i, r) == IF i \in Multi THEN r ELSE ""

\* The realm a consumed entry is exchanged at: that of the entry, or the one
\* KeycloakClient is configured with, whatever the entry says.
exchange_realm(i, e) ==
  IF i \in Multi THEN e.realm ELSE CHOOSE r \in RealmName : Configured[i] = {r}

\* parse_token_response
parse_token_response(rep) ==
  LET status == IF rep.status > 0 THEN rep.status ELSE 502 IN
  [ok |-> status >= 200 /\ status < 300 /\ rep.token # None,
   status |-> status, error |-> "exchange_failed"]

respond(p, status, error, realm, token) ==
  /\ response' = [response EXCEPT ![p] = [status |-> status, error |-> error,
                                          realm |-> realm, token |-> token]]
  /\ pc' = [pc EXCEPT ![p] = "responded"]

fail(p, status, error) == respond(p, status, error, None, None)

-----------------------------------------------------------------------------
\* AuthHandler::login

\* No realm parameter, or one this instance does not serve.
LoginRefused(p, i, r) ==
  /\ pc[p] = "idle"
  /\ \/ r = None /\ fail(p, 400, "missing_realm")
     \/ r # None /\ ~ has_realm(i, r) /\ fail(p, 404, "unknown_realm")
  /\ UNCHANGED <<storeVars, locations, codes, req, reply, started, exchanges>>

\* start_login: generate_pkce_pair, and the create call is awaited.
LoginStarts(p, i, r, v) ==
  /\ pc[p] = "idle"
  /\ has_realm(i, r)
  /\ started[v] = None
  /\ started' = [started EXCEPT ![v] = [realm |-> r, inst |-> i]]
  /\ req' = [req EXCEPT ![p] = [inst |-> i, realm |-> r, code |-> None,
                                state |-> None, verifier |-> v]]
  /\ pc' = [pc EXCEPT ![p] = "creating"]
  /\ UNCHANGED <<storeVars, locations, codes, reply, response, exchanges>>

stores(p, s) ==
  Put(s, req[p].verifier, stored_realm(req[p].inst, req[p].realm), clock + StateTtl)

\* The entry is stored; the browser is sent to Keycloak.
LoginStored(p, s) ==
  /\ pc[p] = "creating"
  /\ stores(p, s)
  /\ locations' = locations \cup
       {[realm |-> req[p].realm, state |-> s, challenge |-> req[p].verifier]}
  /\ respond(p, 302, "", None, None)
  /\ UNCHANGED <<codes, req, reply, started, exchanges>>

\* The create call throws, which may leave its entry behind (a lost reply).
LoginThrows(p) ==
  /\ pc[p] = "creating"
  /\ (\E s \in State : stores(p, s)) \/ UNCHANGED storeVars
  /\ fail(p, 500, "exception")
  /\ UNCHANGED <<locations, codes, req, reply, started, exchanges>>

-----------------------------------------------------------------------------
\* AuthHandler::callback

CallbackRefused(p, c, s) ==
  /\ pc[p] = "idle"
  /\ c = None \/ s = None
  /\ fail(p, 400, "missing_code_or_state")
  /\ UNCHANGED <<storeVars, locations, codes, req, reply, started, exchanges>>

\* complete_login: the consume call is awaited.
CallbackStarts(p, i, c, s) ==
  /\ pc[p] = "idle"
  /\ c # None /\ s # None
  /\ req' = [req EXCEPT ![p] = [inst |-> i, realm |-> None, code |-> c,
                                state |-> s, verifier |-> None]]
  /\ pc' = [pc EXCEPT ![p] = "consuming"]
  /\ UNCHANGED <<storeVars, locations, codes, reply, response, started, exchanges>>

\* Seeded fault: the entry is read and left in the store.
CallbackTakes_by_reading(p, e) ==
  LET r == exchange_realm(req[p].inst, e) IN
  /\ pc[p] = "consuming"
  /\ e.state = req[p].state
  /\ ~ Expired(e)
  /\ has_realm(req[p].inst, r)
  /\ req' = [req EXCEPT ![p].realm = r, ![p].verifier = e.verifier]
  /\ exchanges' = [exchanges EXCEPT ![e.verifier] = @ + 1]
  /\ pc' = [pc EXCEPT ![p] = "exchanging"]
  /\ UNCHANGED <<storeVars, locations, codes, reply, response, started>>

\* The state is consumed, and its realm served here: the code and the verifier
\* go to the token endpoint of the realm.
CallbackTakes(p, e) ==
  LET r == exchange_realm(req[p].inst, e) IN
  /\ pc[p] = "consuming"
  /\ e.state = req[p].state
  /\ Take(e)
  /\ has_realm(req[p].inst, r)
  /\ req' = [req EXCEPT ![p].realm = r, ![p].verifier = e.verifier]
  /\ exchanges' = [exchanges EXCEPT ![e.verifier] = @ + 1]
  /\ pc' = [pc EXCEPT ![p] = "exchanging"]
  /\ UNCHANGED <<locations, codes, reply, response, started>>

\* The state is consumed, and then its realm is not one served here.
CallbackUnknownRealm(p, e) ==
  /\ pc[p] = "consuming"
  /\ e.state = req[p].state
  /\ Take(e)
  /\ ~ has_realm(req[p].inst, exchange_realm(req[p].inst, e))
  /\ req' = [req EXCEPT ![p].verifier = e.verifier]
  /\ fail(p, 400, "unknown_realm")
  /\ UNCHANGED <<locations, codes, reply, started, exchanges>>

CallbackMisses(p) ==
  /\ pc[p] = "consuming"
  /\ \A e \in live : e.state = req[p].state => Expired(e)
  /\ Sweep
  /\ fail(p, 401, "invalid_or_expired_state")
  /\ UNCHANGED <<locations, codes, req, reply, started, exchanges>>

\* The consume call throws, which may have used up the state.
ConsumeThrows(p) ==
  /\ pc[p] = "consuming"
  /\ \/ \E e \in live : e.state = req[p].state /\ Take(e)
     \/ UNCHANGED storeVars
  /\ fail(p, 500, "exception")
  /\ UNCHANGED <<locations, codes, req, reply, started, exchanges>>

\* The HTTP client throws.
ExchangeThrows(p) ==
  /\ pc[p] = "exchanging"
  /\ fail(p, 500, "exception")
  /\ reply' = [reply EXCEPT ![p] = None]
  /\ UNCHANGED <<storeVars, locations, codes, req, started, exchanges>>

\* Seeded faults: the cookies are of a default realm; a reply without a status
\* is not answered.
CallbackAnswers_default_realm(p) ==
  /\ pc[p] = "exchanging"
  /\ reply[p] # None
  /\ LET result == parse_token_response(reply[p]) IN
       \/ result.ok /\ respond(p, 302, "", CHOOSE r \in Configured[req[p].inst] : TRUE,
                               reply[p].token)
       \/ ~ result.ok /\ fail(p, result.status, result.error)
  /\ reply' = [reply EXCEPT ![p] = None]
  /\ UNCHANGED <<storeVars, locations, codes, req, started, exchanges>>
CallbackAnswers_not_without_status(p) ==
  /\ pc[p] = "exchanging"
  /\ reply[p] # None
  /\ reply[p].status > 0
  /\ LET result == parse_token_response(reply[p]) IN
       \/ result.ok /\ respond(p, 302, "", req[p].realm, reply[p].token)
       \/ ~ result.ok /\ fail(p, result.status, result.error)
  /\ reply' = [reply EXCEPT ![p] = None]
  /\ UNCHANGED <<storeVars, locations, codes, req, started, exchanges>>

\* The token response is parsed, and the tokens become cookies of the realm.
CallbackAnswers(p) ==
  /\ pc[p] = "exchanging"
  /\ reply[p] # None
  /\ LET result == parse_token_response(reply[p]) IN
       \/ result.ok /\ respond(p, 302, "", req[p].realm, reply[p].token)
       \/ ~ result.ok /\ fail(p, result.status, result.error)
  /\ reply' = [reply EXCEPT ![p] = None]
  /\ UNCHANGED <<storeVars, locations, codes, req, started, exchanges>>

\* The response is sent and the coroutine ends.
Finish(p) ==
  /\ pc[p] = "responded"
  /\ pc' = [pc EXCEPT ![p] = "idle"]
  /\ req' = [req EXCEPT ![p] = None]
  /\ response' = [response EXCEPT ![p] = None]
  /\ UNCHANGED <<storeVars, locations, codes, reply, started, exchanges>>

-----------------------------------------------------------------------------
\* The environment.

\* A user follows an authorization URL and signs in.
Authorize(l, c) ==
  /\ codes[c] = None
  /\ codes' = [codes EXCEPT ![c] = [realm |-> l.realm, state |-> l.state,
                                    challenge |-> l.challenge, spent |-> FALSE]]
  /\ UNCHANGED <<storeVars, locations, pc, req, reply, response, started, exchanges>>

redeemable(p) ==
  LET g == codes[req[p].code] IN
  /\ ~ g.spent
  /\ g.realm = req[p].realm
  /\ g.challenge = req[p].verifier

\* The token endpoint of the request's realm redeems the code, once, for its
\* challenge's verifier.  A refused attempt may spend the code, too.
TokenEndpoint(p) ==
  /\ pc[p] = "exchanging"
  /\ reply[p] = None
  /\ \/ /\ redeemable(p)
        /\ codes' = [codes EXCEPT ![req[p].code].spent = TRUE]
        /\ reply' = [reply EXCEPT ![p] = [status |-> 200, token |-> req[p].code]]
     \/ /\ ~ redeemable(p)
        /\ codes' = codes \/ codes' = [codes EXCEPT ![req[p].code].spent = TRUE]
        /\ reply' = [reply EXCEPT ![p] = [status |-> 400, token |-> None]]
  /\ UNCHANGED <<storeVars, locations, pc, req, response, started, exchanges>>

\* The request or its reply is lost, or something in between answers without
\* an access token.
HttpFails(p) ==
  /\ pc[p] = "exchanging"
  /\ reply[p] # None => reply[p].token # None
  /\ \E status \in {0, 200} :
       reply' = [reply EXCEPT ![p] = [status |-> status, token |-> None]]
  /\ UNCHANGED <<storeVars, locations, codes, pc, req, response, started, exchanges>>

LoginTick ==
  /\ Tick
  /\ UNCHANGED <<locations, codes, pc, req, reply, response, started, exchanges>>

-----------------------------------------------------------------------------
\* What browsers have been given to send back.
KnownCode == {c \in Code : codes[c] # None}
KnownState == {l.state : l \in locations}

Login(p) ==
  \E i \in Instance :
    \/ \E r \in RealmName \cup {None} : LoginRefused(p, i, r)
    \/ \E r \in RealmName, v \in Verifier : LoginStarts(p, i, r, v)

Callback(p) ==
  \E c \in KnownCode \cup {None}, s \in KnownState \cup {None} :
    CallbackRefused(p, c, s) \/ \E i \in Instance : CallbackStarts(p, i, c, s)

Create(p) == (\E s \in State : LoginStored(p, s)) \/ LoginThrows(p)

Consume(p) == \/ \E e \in live : CallbackTakes(p, e) \/ CallbackUnknownRealm(p, e)
              \/ CallbackMisses(p)
              \/ ConsumeThrows(p)

Handle(p) == Create(p) \/ Consume(p) \/ CallbackAnswers(p) \/ ExchangeThrows(p)

Http(p) == TokenEndpoint(p) \/ HttpFails(p)

LoginNext ==
  \/ \E p \in Req : Login(p) \/ Callback(p) \/ Handle(p) \/ Http(p) \/ Finish(p)
  \/ \E l \in locations, c \in Code : Authorize(l, c)
  \/ LoginTick

LoginSpec == LoginInit /\ [][LoginNext]_vars

\* The store's calls end, by a result or an exception, token requests are
\* answered or fail, and coroutines are resumed.
FairSpec ==
  /\ LoginSpec
  /\ \A p \in Req : /\ WF_vars(Create(p) \/ Consume(p))
                   /\ WF_vars(TokenEndpoint(p))
                   /\ WF_vars(CallbackAnswers(p))

-----------------------------------------------------------------------------
\* Token cookies go out only in answer to the state of a login for that realm
\* with a code issued to the same login (docs/security.md: the callback's
\* order "ties the callback to the generated verifier").
TokensForTheLogin ==
  \A p \in Req : pc[p] = "responded" /\ response[p].token # None =>
    LET g == codes[response[p].token] IN
    /\ g.challenge = req[p].verifier
    /\ g.state = req[p].state
    /\ g.realm = response[p].realm
    /\ started[g.challenge].realm = response[p].realm

\* One exchange per login: however often, and wherever, a callback arrives, a
\* verifier goes to Keycloak at most once.
ExchangedOnce == \A v \in Verifier : exchanges[v] <= 1

\* A MultiRealmManager sends a verifier to the realm its login asked for, and
\* burns a login as unknown_realm only when it does not serve that realm or a
\* KeycloakClient stored the login without one.
RealmRouting ==
  \A p \in Req :
    /\ pc[p] = "exchanging" /\ req[p].inst \in Multi =>
         req[p].realm = started[req[p].verifier].realm
    /\ pc[p] = "responded" /\ response[p].error = "unknown_realm" /\ req[p] # None =>
         LET login == started[req[p].verifier] IN
           ~ has_realm(req[p].inst, login.realm) \/ login.inst \notin Multi

\* Every request is answered.
Answered == \A p \in Req : pc[p] # "idle" ~> pc[p] = "responded"
=============================================================================
