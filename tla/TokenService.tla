---------------------------- MODULE TokenService -----------------------------
(***************************************************************************)
(* TokenService's operations on tokens (refresh_tokens, revoke_token,      *)
(* introspect_token, fetch_user_info), directly and through the realm      *)
(* lookup of MultiRealmManager, and what their results say of the tokens   *)
(* at Keycloak when replies are lost and something between the service and *)
(* Keycloak answers in its place.  exchange_authorization_code is part of  *)
(* LoginFlow.                                                              *)
(*                                                                         *)
(* Keycloak and the HTTP client are external: a session has one refresh    *)
(* token at a time and access tokens issued with it; Keycloak may rotate   *)
(* the refresh token when it is used, and revokes whole sessions.          *)
(***************************************************************************)
EXTENDS Integers

CONSTANTS
  Call,       \* operations in flight together
  Realm,      \* realms that have a TokenService
  OtherRealm, \* a realm that has none
  Token,      \* tokens Keycloak can issue
  Session,
  None

ASSUME ServiceAssumption ==
  /\ OtherRealm \notin Realm
  /\ None \notin Token \cup Session \cup Realm \cup {OtherRealm}

VARIABLES
  tokens,   \* Keycloak's tokens
  ended,    \* the sessions it has ended
  pc,       \* where each operation is
  call,     \* its arguments
  reply,    \* the HTTP client's response
  result,   \* its OAuthResult, or the exception it ends with
  valid,    \* history: whether its token was valid at some time of the operation
  applied   \* history: whether Keycloak did what the operation asked for

vars == <<tokens, ended, pc, call, reply, result, valid, applied>>

Op == {"refresh", "revoke", "introspect", "userinfo"}
TokenAtKeycloak == [kind: {"access", "refresh"}, realm: Realm, session: Session,
                    spent: BOOLEAN]
Arguments == [op: Op, realm: Realm \cup {OtherRealm}, token: Token \cup {None}]
\* A response: its status_code, and what its body has of what is looked for.
Reply == [status: {0, 200, 302, 400, 401, 503}, access: Token \cup {None},
          refresh: Token \cup {None}, active: BOOLEAN, sub: BOOLEAN]
OAuthResult == [ok: BOOLEAN, status: {200, 302, 400, 401, 500, 502, 503},
                error: {"", "missing_token", "rejected", "inactive_token",
                        "token_response_missing_access_token", "unknown_realm",
                        "exception"},
                access: Token \cup {None}, refresh: Token \cup {None}, sub: BOOLEAN]

ASSUME RecordAssumption == None \notin TokenAtKeycloak \cup Reply \cup OAuthResult

\* A result is ok just when it has no error.
Consistent(res) == res.ok = (res.status = 200 /\ res.error = "")

TypeOK ==
  /\ tokens \in [Token -> TokenAtKeycloak \cup {None}]
  /\ ended \subseteq Session
  /\ pc \in [Call -> {"idle", "sent", "returned"}]
  /\ call \in [Call -> Arguments \cup {None}]
  /\ reply \in [Call -> Reply \cup {None}]
  /\ result \in [Call -> OAuthResult \cup {None}]
  /\ \A p \in Call : result[p] # None => Consistent(result[p])
  /\ valid \in [Call -> BOOLEAN]
  /\ applied \in [Call -> BOOLEAN]

\* A login has issued the tokens of each session: an access token and a refresh
\* token; the remaining tokens are there for refreshes to issue.
Init ==
  /\ tokens \in [Token -> TokenAtKeycloak \cup {None}]
  /\ \A t \in Token : tokens[t] # None => ~ tokens[t].spent
  /\ \A s \in Session, k \in {"access", "refresh"} :
       \E t \in Token : tokens[t] # None /\ tokens[t].session = s /\ tokens[t].kind = k
  /\ \A t, u \in Token :
       /\ tokens[t] # None /\ tokens[u] # None
       /\ tokens[t].session = tokens[u].session
       => /\ tokens[t].realm = tokens[u].realm
          /\ tokens[t].kind = tokens[u].kind => t = u
  /\ ended = {}
  /\ pc = [p \in Call |-> "idle"]
  /\ call = [p \in Call |-> None]
  /\ reply = [p \in Call |-> None]
  /\ result = [p \in Call |-> None]
  /\ valid = [p \in Call |-> FALSE]
  /\ applied = [p \in Call |-> FALSE]

-----------------------------------------------------------------------------
\* Seeded faults (see "mutants" in PROJECT.json).
http_status_as_refusal(rep) == IF rep.status > 0 THEN rep.status ELSE 400
successful_below_400(status) == status >= 200 /\ status < 400
introspection_result_by_claims(rep) ==
  [ok |-> rep.status = 200, status |-> IF rep.status > 0 THEN rep.status ELSE 502,
   error |-> IF rep.status = 200 THEN "" ELSE "rejected",
   access |-> None, refresh |-> None, sub |-> rep.sub]

-----------------------------------------------------------------------------
http_status(rep) == IF rep.status > 0 THEN rep.status ELSE 502

successful(status) == status >= 200 /\ status < 300

failed(status, error) == [ok |-> FALSE, status |-> status, error |-> error,
                          access |-> None, refresh |-> None, sub |-> FALSE]

succeeded(status, access, refresh, sub) ==
  [ok |-> TRUE, status |-> status, error |-> "",
   access |-> access, refresh |-> refresh, sub |-> sub]

\* Seeded fault: the body is not looked at.
parse_token_response_unchecked(rep) ==
  IF successful(http_status(rep))
    THEN succeeded(http_status(rep), rep.access, rep.refresh, FALSE)
    ELSE failed(http_status(rep), "rejected")

\* parse_token_response
parse_token_response(rep) ==
  IF ~ successful(http_status(rep)) THEN failed(http_status(rep), "rejected")
  ELSE IF rep.access = None THEN failed(http_status(rep), "token_response_missing_access_token")
  ELSE succeeded(http_status(rep), rep.access, rep.refresh, FALSE)

revocation_result(rep) ==
  IF ~ successful(http_status(rep)) THEN failed(http_status(rep), "rejected")
  ELSE succeeded(http_status(rep), None, None, FALSE)

introspection_result(rep) ==
  IF ~ successful(http_status(rep)) THEN failed(http_status(rep), "rejected")
  ELSE IF ~ rep.active THEN failed(401, "inactive_token")
  ELSE succeeded(http_status(rep), None, None, rep.sub)

\* A userinfo response without a sub is a success without one.
userinfo_result(rep) ==
  IF ~ successful(http_status(rep)) THEN failed(http_status(rep), "rejected")
  ELSE succeeded(http_status(rep), None, None, rep.sub)

result_of(op, rep) ==
  CASE op = "refresh" -> parse_token_response(rep)
    [] op = "revoke" -> revocation_result(rep)
    [] op = "introspect" -> introspection_result(rep)
    [] op = "userinfo" -> userinfo_result(rep)

-----------------------------------------------------------------------------
live(t) == /\ tokens[t] # None
           /\ ~ tokens[t].spent
           /\ tokens[t].session \notin ended

return(p, res) == /\ result' = [result EXCEPT ![p] = res]
                  /\ reply' = [reply EXCEPT ![p] = None]
                  /\ pc' = [pc EXCEPT ![p] = "returned"]

starts(p, op, r, t) ==
  /\ pc[p] = "idle"
  /\ call' = [call EXCEPT ![p] = [op |-> op, realm |-> r, token |-> t]]

\* The overloads of refresh_tokens and revoke_token with a realm, and lookup_realm
\* of MultiRealmManager, throw for a realm that is not configured.
UnknownRealm(p, op, t) ==
  /\ starts(p, op, OtherRealm, t)
  /\ return(p, failed(500, "unknown_realm"))
  /\ UNCHANGED <<tokens, ended, valid, applied>>

Missing(p, op, r) ==
  /\ starts(p, op, r, None)
  /\ return(p, failed(400, "missing_token"))
  /\ UNCHANGED <<tokens, ended, valid, applied>>

\* The form or the userinfo request goes to the endpoint of the realm.
Send(p, op, r, t) ==
  /\ starts(p, op, r, t)
  /\ pc' = [pc EXCEPT ![p] = "sent"]
  /\ valid' = [valid EXCEPT ![p] = live(t) /\ tokens[t].realm = r]
  /\ UNCHANGED <<tokens, ended, reply, result, applied>>

Parse(p) ==
  /\ pc[p] = "sent"
  /\ reply[p] # None
  /\ return(p, result_of(call[p].op, reply[p]))
  /\ UNCHANGED <<tokens, ended, call, valid, applied>>

\* The HTTP client throws, whatever became of the request, and so does the
\* operation.
Throws(p) ==
  /\ pc[p] = "sent"
  /\ return(p, failed(500, "exception"))
  /\ UNCHANGED <<tokens, ended, call, valid, applied>>

Finish(p) ==
  /\ pc[p] = "returned"
  /\ pc' = [pc EXCEPT ![p] = "idle"]
  /\ call' = [call EXCEPT ![p] = None]
  /\ result' = [result EXCEPT ![p] = None]
  /\ valid' = [valid EXCEPT ![p] = FALSE]
  /\ applied' = [applied EXCEPT ![p] = FALSE]
  /\ UNCHANGED <<tokens, ended, reply>>

-----------------------------------------------------------------------------
\* Keycloak and the HTTP client (external).

reaches(p, op) == pc[p] = "sent" /\ reply[p] = None /\ call[p].op = op
accepts(p) == live(call[p].token) /\ tokens[call[p].token].realm = call[p].realm
replies(p, status, access, refresh, active, sub) ==
  reply' = [reply EXCEPT ![p] = [status |-> status, access |-> access,
              refresh |-> refresh, active |-> active, sub |-> sub]]

\* grant_type=refresh_token: new tokens of the session, and the old refresh
\* token stays or is replaced.
Refreshed(p, a, r) ==
  LET t == call[p].token
      issued(kind) == [tokens[t] EXCEPT !.kind = kind]
  IN
  /\ reaches(p, "refresh")
  /\ accepts(p) /\ tokens[t].kind = "refresh"
  /\ tokens[a] = None
  /\ \/ r = t /\ tokens' = [tokens EXCEPT ![a] = issued("access")]
     \/ /\ r # a /\ tokens[r] = None
        /\ tokens' = [tokens EXCEPT ![a] = issued("access"), ![r] = issued("refresh"),
                                    ![t].spent = TRUE]
  /\ applied' = [applied EXCEPT ![p] = TRUE]
  /\ replies(p, 200, a, r, FALSE, FALSE)
  /\ UNCHANGED <<ended, pc, call, result, valid>>

Revoked(p) ==
  /\ reaches(p, "revoke")
  /\ accepts(p)
  /\ ended' = ended \cup {tokens[call[p].token].session}
  /\ applied' = [applied EXCEPT ![p] = TRUE]
  /\ replies(p, 200, None, None, FALSE, FALSE)
  /\ UNCHANGED <<tokens, pc, call, result, valid>>

Described(p) ==
  LET access == accepts(p) /\ tokens[call[p].token].kind = "access" IN
  /\ \/ reaches(p, "introspect") /\ replies(p, 200, None, None, accepts(p), accepts(p))
     \/ reaches(p, "userinfo") /\ access /\ replies(p, 200, None, None, FALSE, TRUE)
     \/ reaches(p, "userinfo") /\ ~ access /\ replies(p, 401, None, None, FALSE, FALSE)
  /\ UNCHANGED <<tokens, ended, pc, call, result, valid, applied>>

\* A refresh or a revocation of a token that is not (or no longer) valid there.
Rejected(p) ==
  /\ \/ reaches(p, "refresh") /\ ~ (accepts(p) /\ tokens[call[p].token].kind = "refresh")
     \/ reaches(p, "revoke") /\ ~ accepts(p)
  /\ replies(p, 400, None, None, FALSE, FALSE)
  /\ UNCHANGED <<tokens, ended, pc, call, result, valid, applied>>

\* The request or its reply is lost, or a proxy answers: 302, 503, or a page of
\* its own.  (A 200 to a revocation is all it takes to succeed, whoever sent it:
\* that case is left out, no result could tell.)
HttpFails(p) ==
  /\ pc[p] = "sent"
  /\ \E status \in {0, 302, 503} \cup (IF call[p].op = "revoke" THEN {} ELSE {200}) :
       replies(p, status, None, None, FALSE, FALSE)
  /\ UNCHANGED <<tokens, ended, pc, call, result, valid, applied>>

\* A session ends by itself.
SessionEnds(s) ==
  /\ s \notin ended
  /\ ended' = ended \cup {s}
  /\ UNCHANGED <<tokens, pc, call, reply, result, valid, applied>>

Issued == {t \in Token : tokens[t] # None}

Start(p) ==
  \E op \in Op :
    \/ op \in {"refresh", "revoke"} /\ \E t \in Issued : UnknownRealm(p, op, t)
    \/ \E r \in Realm : Missing(p, op, r) \/ \E t \in Issued : Send(p, op, r, t)

Keycloak(p) ==
  \/ \E a \in Token, r \in Token : Refreshed(p, a, r)
  \/ Revoked(p) \/ Described(p) \/ Rejected(p)

Next ==
  \/ \E p \in Call : Start(p) \/ Parse(p) \/ Throws(p) \/ Finish(p)
                     \/ Keycloak(p) \/ HttpFails(p)
  \/ \E s \in Session : SessionEnds(s)

Spec == Init /\ [][Next]_vars

-----------------------------------------------------------------------------
returned(p, op) == pc[p] = "returned" /\ call[p].op = op

\* A successful introspection, or a userinfo result with a subject, was true of
\* the token in its realm at some time of the operation, although sessions end,
\* tokens are replaced and replies go missing meanwhile.
ActiveWhenSeen ==
  \A p \in Call :
    /\ result[p] # None => result[p].ok
    /\ \/ returned(p, "introspect")
       \/ returned(p, "userinfo") /\ result[p].sub
    => valid[p]

\* A refresh or a revocation that failed with a 4xx did nothing at Keycloak: a lost
\* reply is never reported so.  This rests on HttpFails: nothing between the service
\* and Keycloak answers a 4xx of its own after Keycloak has acted.
RefusedDidNothing ==
  \A p \in Call :
    (returned(p, "refresh") \/ returned(p, "revoke"))
      /\ result[p].status \in 400..499 => ~ applied[p]

\* The tokens of a successful refresh are those Keycloak issued for this very
\* operation, in the session of the token that was sent.
RefreshedTokens ==
  \A p \in Call : returned(p, "refresh") /\ result[p].ok =>
    LET res == result[p] IN
    /\ applied[p]
    /\ res.access # None /\ res.refresh # None
    /\ \A t \in {res.access, res.refresh} :
         tokens[t].session = tokens[call[p].token].session
    /\ \A q \in Call \ {p} : returned(q, "refresh") => result[q].access # res.access
=============================================================================
