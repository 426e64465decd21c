------------------------------ MODULE BearerAuth ------------------------------
(***************************************************************************)
(* BearerAuthMiddleware::authenticate (bearer_auth_middleware.hpp), which  *)
(* KeycloakClient::authenticate_request forwards to, over one shared       *)
(* AccessTokenValidator: a request with an Authorization header, the       *)
(* validation it awaits, and the RequestContext that is attached to it.    *)
(*                                                                         *)
(* A request is served by a call of AccessTokenValidator, and may be       *)
(* authenticated any number of times (one middleware over another) before  *)
(* it is answered; in between keys are rotated, the cache expires and      *)
(* other requests are authenticated.  A context stands for its token.      *)
(***************************************************************************)
EXTENDS AccessTokenValidator

CONSTANT Unusable    \* no Authorization header, or one that is not Bearer and a token

ASSUME BearerAssumption == Unusable # None /\ {Unusable, None} \cap Token = {}

VARIABLES
  request,    \* the Authorization header of the request each call serves
  user_data,  \* the context attached to it
  ok          \* AuthResult::ok of its last authentication

bearerVars == <<request, user_data, ok>>

Header == {Unusable} \cup Token

\* A request, its attached context and the outcome of its authentication.
BearerTypeOK ==
  /\ TypeOK
  /\ request \in [Call -> Header \cup {None}]
  /\ user_data \in [Call -> Token \cup {None}]
  /\ ok \in [Call -> BOOLEAN]

BearerInit ==
  /\ Init
  /\ request = [p \in Call |-> None]
  /\ user_data = [p \in Call |-> None]
  /\ ok = [p \in Call |-> FALSE]

-----------------------------------------------------------------------------
\* A request comes in, and is answered (external).
Arrive(p, h) ==
  /\ request[p] = None
  /\ request' = [request EXCEPT ![p] = h]
  /\ UNCHANGED <<vars, user_data, ok>>

Answer(p) ==
  /\ request[p] # None
  /\ pc[p] = "idle"
  /\ request' = [request EXCEPT ![p] = None]
  /\ user_data' = [user_data EXCEPT ![p] = None]
  /\ ok' = [ok EXCEPT ![p] = FALSE]
  /\ UNCHANGED vars

-----------------------------------------------------------------------------
\* authenticate: no header, or another scheme.
Unauthorized(p) ==
  /\ pc[p] = "idle"
  /\ request[p] = Unusable
  /\ ok' = [ok EXCEPT ![p] = FALSE]
  /\ UNCHANGED <<vars, request, user_data>>

\* authenticate awaits validate of the token.
Authenticate(p) ==
  /\ request[p] \in Token
  /\ \/ ValidateRefuses(p)
     \/ ValidateCached(p, request[p])
     \/ ValidateFetches(p, request[p])
  /\ ok' = [ok EXCEPT ![p] = FALSE]
  /\ UNCHANGED <<request, user_data>>

\* Seeded fault: the context is attached whatever validate returned.
accepted_always(p) == TRUE

accepted(p) == result[p].status = 200

set_request_context(p, context) == user_data' = [user_data EXCEPT ![p] = context]

\* authenticate goes on with the result: a failure leaves the context of an
\* earlier authentication of the request where it is.
Authenticated(p) ==
  /\ Return(p)
  /\ ok' = [ok EXCEPT ![p] = accepted(p)]
  /\ IF accepted(p) THEN set_request_context(p, token[p]) ELSE UNCHANGED user_data
  /\ UNCHANGED request

\* No clock is read between the checks of validate and the end of authenticate.
Elapse == Tick /\ \A p \in Call : pc[p] # "done"

BearerNext ==
  \/ \E p \in Call : \/ \E h \in Header : Arrive(p, h)
                     \/ Answer(p) \/ Unauthorized(p) \/ Authenticate(p) \/ Authenticated(p)
                     \/ UNCHANGED bearerVars /\ (Proceed(p) \/ Serve(p) \/ HttpFails(p))
  \/ UNCHANGED bearerVars /\ \E k \in Key : Publish(k) \/ Retire(k)
  \/ UNCHANGED bearerVars /\ Elapse

BearerSpec == BearerInit /\ [][BearerNext]_<<vars, bearerVars>>

-----------------------------------------------------------------------------
\* p's authentication succeeds, or a context is attached to its request.
Attaching(p) ==
  \/ pc[p] = "done" /\ pc'[p] = "idle" /\ ok'[p]
  \/ user_data'[p] # user_data[p] /\ user_data'[p] # None

Trustworthy(p) ==
  LET accepted_token == user_data'[p]
      retired == retired_at[accepted_token.key]
  IN
  /\ accepted_token = request[p]
  /\ published_at[accepted_token.key] # None
  /\ clock <= accepted_token.exp + Skew
  /\ retired # None => Window(read_at[p] - retired)

\* The context that a handler finds is that of the token of its own request, and
\* is fit to be trusted: it is attached, and success reported, only by an
\* authentication that ends before the token's exp and the skew, and that read a
\* key which Keycloak published, and still did CacheTtl + MaxLatency before
\* (docs/security.md: keys are cached for UIDENTITY_AUTH_JWKS_CACHE_TTL_SECONDS),
\* whatever fetches failed or overtook each other and whatever other requests
\* were authenticated in between.  A request that fails a later authentication
\* can still carry it.
AttachedWasAccepted ==
  [][\A p \in Call : Attaching(p) => Trustworthy(p)]_<<vars, bearerVars>>
=============================================================================
