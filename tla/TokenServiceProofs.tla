-------------------------- MODULE TokenServiceProofs --------------------------
(***************************************************************************)
(* What TokenService says of results, for any number of operations, realms,*)
(* sessions and tokens.  The argument is about what is known of a token    *)
(* and of Keycloak while an operation is sent (Sent) and when it has       *)
(* returned (Returned), and that no two operations hold one access token.  *)
(***************************************************************************)
EXTENDS TokenService, TLAPS

\* The operation has got the tokens a and r, issued for it in the session of the
\* token it sent.
Issues(p, a, r) ==
  LET session == tokens[call[p].token].session IN
  /\ call[p].token \in Token /\ tokens[call[p].token] # None
  /\ applied[p]
  /\ a \in Token /\ tokens[a] # None /\ tokens[a].session = session
  /\ r \in Token /\ tokens[r] # None /\ tokens[r].session = session

\* What a reply on its way says is true.
Truthful(p, rep) ==
  /\ call[p].op = "introspect" /\ rep.active => valid[p]
  /\ call[p].op = "userinfo" /\ rep.sub => valid[p]
  /\ call[p].op \in {"refresh", "revoke"} /\ rep.status \in {400, 401} => ~ applied[p]
  /\ call[p].op = "refresh" /\ rep.access # None => Issues(p, rep.access, rep.refresh)

\* A token that Keycloak accepts now was valid when it was sent.
Sent(p) ==
  /\ call[p] \in Arguments /\ call[p].token \in Token /\ tokens[call[p].token] # None
  /\ accepts(p) => valid[p]
  /\ reply[p] = None => ~ applied[p]
  /\ reply[p] # None => Truthful(p, reply[p])

Returned(p) ==
  LET res == result[p] IN
  /\ res # None /\ call[p] \in Arguments
  /\ res.ok /\ call[p].op = "introspect" => valid[p]
  /\ res.ok /\ call[p].op = "userinfo" /\ res.sub => valid[p]
  /\ call[p].op \in {"refresh", "revoke"} /\ res.status \in {400, 401} => ~ applied[p]
  /\ call[p].op = "refresh" /\ res.ok => Issues(p, res.access, res.refresh)

CallInv(p) ==
  /\ reply[p] # None => pc[p] = "sent"
  /\ pc[p] = "idle" => ~ applied[p]
  /\ pc[p] = "sent" => Sent(p)
  /\ pc[p] = "returned" => Returned(p)

CallsInv == \A p \in Call : CallInv(p)

\* An access token in a reply or a result is there only.
Holds(p, a) ==
  \/ reply[p] # None /\ reply[p].access = a
  \/ pc[p] = "returned" /\ result[p].access = a

AccessInv ==
  \A p \in Call, a \in Token : Holds(p, a) =>
    tokens[a] # None /\ \A q \in Call \ {p} : ~ Holds(q, a)

IInv == TypeOK /\ CallsInv /\ AccessInv

-----------------------------------------------------------------------------
\* What the parts of the operations return.

FailsWith(res, status) ==
  /\ res \in OAuthResult /\ Consistent(res)
  /\ res.ok = FALSE /\ res.status = status /\ res.access = None /\ res.sub = FALSE

LEMMA FailedResult ==
  ASSUME NEW status \in {200, 302, 400, 401, 500, 502, 503},
         NEW error \in {"missing_token", "rejected", "inactive_token",
                        "token_response_missing_access_token", "unknown_realm", "exception"}
  PROVE  FailsWith(failed(status, error), status)
<1> DEFINE res == failed(status, error)
<1>1. /\ res.ok = FALSE /\ res.status = status /\ res.error = error
      /\ res.access = None /\ res.refresh = None /\ res.sub = FALSE
  BY DEF failed
<1>2. error # ""
  <2>1. /\ "missing_token" # "" /\ "rejected" # "" /\ "inactive_token" # ""
        /\ "token_response_missing_access_token" # "" /\ "unknown_realm" # ""
        /\ "exception" # ""
    OBVIOUS
  <2> QED BY <2>1, ZenonT(90)
<1>3. res \in OAuthResult
  BY ZenonT(90) DEF failed, OAuthResult
<1> HIDE DEF res
<1>4. Consistent(res)
  BY <1>1, <1>2, ZenonT(90) DEF Consistent
<1> QED BY <1>1, <1>3, <1>4 DEF res, FailsWith

SucceedsWith(res, a, r, sub) ==
  /\ res \in OAuthResult /\ Consistent(res)
  /\ res.ok = TRUE /\ res.status = 200
  /\ res.access = a /\ res.refresh = r /\ res.sub = sub

LEMMA SucceededResult ==
  ASSUME NEW a \in Token \cup {None}, NEW r \in Token \cup {None}, NEW sub \in BOOLEAN
  PROVE  SucceedsWith(succeeded(200, a, r, sub), a, r, sub)
<1> DEFINE res == succeeded(200, a, r, sub)
<1>1. PICK e : /\ e = ""
              /\ res = [ok |-> TRUE, status |-> 200, error |-> e,
                        access |-> a, refresh |-> r, sub |-> sub]
  BY Zenon DEF succeeded
<1>2. res \in OAuthResult
  BY ZenonT(90) DEF succeeded, OAuthResult
<1>3. /\ res = [ok |-> TRUE, status |-> 200, error |-> e,
                access |-> a, refresh |-> r, sub |-> sub]
      /\ e = ""
  BY <1>1, Zenon
<1> HIDE DEF res
<1>4. /\ res.ok = TRUE /\ res.status = 200 /\ res.error = e
      /\ res.access = a /\ res.refresh = r /\ res.sub = sub
  BY <1>3
<1>5. Consistent(res)
  BY <1>3, <1>4, Zenon DEF Consistent
<1> QED BY <1>2, <1>4, <1>5 DEF res, SucceedsWith

\* What a result says, the reply said.
Says(op, rep, res) ==
  /\ res \in OAuthResult /\ Consistent(res)
  /\ res.access \in {None, rep.access}
  /\ op # "refresh" => res.access = None
  /\ res.ok /\ op = "introspect" => rep.active
  /\ op = "userinfo" /\ res.sub => rep.sub
  /\ op \in {"refresh", "revoke"} /\ res.status \in {400, 401} => rep.status \in {400, 401}
  /\ op = "refresh" /\ res.ok =>
       rep.access # None /\ res.access = rep.access /\ res.refresh = rep.refresh

LEMMA Parsed ==
  ASSUME NEW op \in Op, NEW rep \in Reply
  PROVE  Says(op, rep, result_of(op, rep))
<1> DEFINE status == http_status(rep)
<1>1. /\ rep.status \in {0, 200, 302, 400, 401, 503}
      /\ rep.access \in Token \cup {None} /\ rep.refresh \in Token \cup {None}
      /\ rep.active \in BOOLEAN /\ rep.sub \in BOOLEAN
  BY DEF Reply
<1>2. /\ status \in {200, 302, 400, 401, 502, 503}
      /\ status \in {400, 401} => rep.status \in {400, 401}
      /\ successful(status) => status = 200
  BY <1>1 DEF http_status, successful
<1> HIDE DEF status
<1>3. Says(op, rep, failed(status, "rejected"))
  <2>1. status \in {200, 302, 400, 401, 500, 502, 503}
    BY <1>2
  <2> DEFINE res == failed(status, "rejected")
  <2>2. FailsWith(res, status)
    BY <2>1, FailedResult
  <2> HIDE DEF res
  <2>3. Says(op, rep, res)
    BY <1>2, <2>2 DEF Says, FailsWith
  <2> QED BY <2>3 DEF res
<1>4. CASE op = "refresh"
  <2>1. result_of(op, rep) = parse_token_response(rep)
    BY <1>4 DEF result_of
  <2>2. CASE ~ successful(status)
    <3>1. parse_token_response(rep) = failed(status, "rejected")
      BY <2>2 DEF parse_token_response, status
    <3> QED BY <1>3, <2>1, <3>1
  <2>3. CASE successful(status) /\ rep.access = None
    <3> DEFINE res == failed(status, "token_response_missing_access_token")
    <3>1. parse_token_response(rep) = res
      BY <2>3 DEF parse_token_response, status
    <3>2. status \in {200, 302, 400, 401, 500, 502, 503}
      BY <1>2
    <3>3. FailsWith(res, status)
      BY <3>2, FailedResult
    <3> HIDE DEF res
    <3>4. Says(op, rep, res)
      BY <1>2, <3>3 DEF Says, FailsWith
    <3> QED BY <2>1, <3>1, <3>4
  <2>4. CASE successful(status) /\ rep.access # None
    <3> DEFINE res == succeeded(200, rep.access, rep.refresh, FALSE)
    <3>1. parse_token_response(rep) = res
      BY <1>2, <2>4 DEF parse_token_response, status
    <3>2. SucceedsWith(res, rep.access, rep.refresh, FALSE)
      BY <1>1, SucceededResult, ZenonT(90)
    <3> HIDE DEF res
    <3>3. Says(op, rep, res)
      BY <1>4, <2>4, <3>2 DEF Says, SucceedsWith
    <3> QED BY <2>1, <3>1, <3>3
  <2> QED BY <2>2, <2>3, <2>4
<1>5. ASSUME op # "refresh", NEW sub \in BOOLEAN,
             op = "introspect" => rep.active,
             op = "userinfo" /\ sub => rep.sub
      PROVE  Says(op, rep, succeeded(200, None, None, sub))
  <2> DEFINE res == succeeded(200, None, None, sub)
  <2>1. SucceedsWith(res, None, None, sub)
    BY SucceededResult
  <2> HIDE DEF res
  <2>2. Says(op, rep, res)
    BY <1>5, <2>1 DEF Says, SucceedsWith
  <2> QED BY <2>2 DEF res
<1>6. CASE op = "revoke"
  <2>1. result_of(op, rep) = revocation_result(rep)
    BY <1>6 DEF result_of
  <2>2. CASE ~ successful(status)
    <3>1. revocation_result(rep) = failed(status, "rejected")
      BY <2>2 DEF revocation_result, status
    <3> QED BY <1>3, <2>1, <3>1
  <2>3. CASE successful(status)
    <3>1. revocation_result(rep) = succeeded(200, None, None, FALSE)
      BY <1>2, <2>3 DEF revocation_result, status
    <3>2. op # "refresh" /\ op # "introspect"
      BY <1>6
    <3>3. Says(op, rep, succeeded(200, None, None, FALSE))
      BY <1>5, <3>2
    <3> QED BY <2>1, <3>1, <3>3
  <2> QED BY <2>2, <2>3
<1>7. CASE op = "introspect"
  <2>1. result_of(op, rep) = introspection_result(rep)
    BY <1>7 DEF result_of
  <2>2. CASE ~ successful(status)
    <3>1. introspection_result(rep) = failed(status, "rejected")
      BY <2>2 DEF introspection_result, status
    <3> QED BY <1>3, <2>1, <3>1
  <2>3. CASE successful(status) /\ ~ rep.active
    <3> DEFINE res == failed(401, "inactive_token")
    <3>1. introspection_result(rep) = res
      BY <2>3 DEF introspection_result, status
    <3>2. FailsWith(res, 401)
      BY FailedResult
    <3> HIDE DEF res
    <3>3. Says(op, rep, res)
      BY <1>7, <3>2 DEF Says, FailsWith
    <3> QED BY <2>1, <3>1, <3>3
  <2>4. CASE successful(status) /\ rep.active
    <3>1. introspection_result(rep) = succeeded(200, None, None, rep.sub)
      BY <1>2, <2>4 DEF introspection_result, status
    <3>2. op # "refresh" /\ op # "userinfo"
      BY <1>7
    <3>3. Says(op, rep, succeeded(200, None, None, rep.sub))
      BY <1>1, <1>5, <2>4, <3>2
    <3> QED BY <2>1, <3>1, <3>3
  <2> QED BY <2>2, <2>3, <2>4
<1>8. CASE op = "userinfo"
  <2>1. result_of(op, rep) = userinfo_result(rep)
    BY <1>8 DEF result_of
  <2>2. CASE ~ successful(status)
    <3>1. userinfo_result(rep) = failed(status, "rejected")
      BY <2>2 DEF userinfo_result, status
    <3> QED BY <1>3, <2>1, <3>1
  <2>3. CASE successful(status)
    <3>1. userinfo_result(rep) = succeeded(200, None, None, rep.sub)
      BY <1>2, <2>3 DEF userinfo_result, status
    <3>2. op # "refresh" /\ op # "introspect"
      BY <1>8
    <3>3. Says(op, rep, succeeded(200, None, None, rep.sub))
      BY <1>1, <1>5, <3>2
    <3> QED BY <2>1, <3>1, <3>3
  <2> QED BY <2>2, <2>3
<1> QED BY <1>4, <1>6, <1>7, <1>8 DEF Op

-----------------------------------------------------------------------------
\* The steps.

\* Keycloak's tokens keep their realm and session, and none comes back to life.
Grows ==
  /\ tokens' \in [Token -> TokenAtKeycloak \cup {None}]
  /\ \A t \in Token : tokens[t] # None =>
       /\ tokens'[t] # None
       /\ tokens'[t].realm = tokens[t].realm /\ tokens'[t].session = tokens[t].session
       /\ tokens[t].spent => tokens'[t].spent
  /\ ended \subseteq ended' /\ ended' \subseteq Session

Same(q) == /\ pc'[q] = pc[q] /\ call'[q] = call[q] /\ reply'[q] = reply[q]
           /\ result'[q] = result[q] /\ valid'[q] = valid[q] /\ applied'[q] = applied[q]

LEMMA Unchanged ==
  ASSUME UNCHANGED <<tokens, ended>>, IInv
  PROVE  Grows
BY DEF Grows, IInv, TypeOK

\* What Keycloak accepts after a step it accepted before.
LEMMA AcceptedBefore ==
  ASSUME Grows, NEW p \in Call, call'[p] = call[p], call[p].token \in Token,
         tokens[call[p].token] # None, accepts(p)'
  PROVE  accepts(p)
BY DEF Grows, accepts, live

LEMMA IssuedStays ==
  ASSUME Grows, NEW p \in Call, NEW a, NEW r, Issues(p, a, r),
         call'[p] = call[p], applied'[p] = applied[p]
  PROVE  Issues(p, a, r)'
BY DEF Grows, Issues

LEMMA TruthStays ==
  ASSUME Grows, NEW p \in Call, NEW rep, Truthful(p, rep),
         call'[p] = call[p], applied'[p] = applied[p], valid'[p] = valid[p]
  PROVE  Truthful(p, rep)'
<1>1. Issues(p, rep.access, rep.refresh) => Issues(p, rep.access, rep.refresh)'
  BY IssuedStays
<1> QED BY <1>1 DEF Truthful

\* Nothing that is known of an operation is lost by the step of another.
LEMMA OtherCall ==
  ASSUME IInv, Grows, NEW q \in Call, Same(q)
  PROVE  CallInv(q)'
<1>1. CallInv(q)
  BY DEF IInv, CallsInv
<1>2. CASE pc[q] = "sent"
  <2>1. Sent(q)
    BY <1>1, <1>2 DEF CallInv
  <2>2. accepts(q)' => accepts(q)
    BY <2>1, AcceptedBefore DEF Sent, Same
  <2>3. /\ call'[q] \in Arguments /\ call'[q].token \in Token
        /\ tokens'[call'[q].token] # None
    BY <2>1 DEF Sent, Same, Grows
  <2>4. ASSUME reply[q] # None PROVE Truthful(q, reply[q])'
    <3>1. PICK rep : rep = reply[q]
      OBVIOUS
    <3>2. Truthful(q, rep)
      BY <2>1, <2>4, <3>1 DEF Sent
    <3>3. Truthful(q, rep)'
      BY <3>2, TruthStays DEF Same
    <3>4. reply'[q] = rep
      BY <3>1 DEF Same
    <3> QED BY <3>3, <3>4 DEF Truthful, Issues
  <2>5. Sent(q)'
    BY <2>1, <2>2, <2>3, <2>4 DEF Sent, Same
  <2> QED BY <1>1, <1>2, <2>5 DEF CallInv, Same
<1>3. CASE pc[q] = "returned"
  <2>1. Returned(q)
    BY <1>1, <1>3 DEF CallInv
  <2>2. PICK res : res = result[q] /\ res = result'[q]
    BY DEF Same
  <2>3. Issues(q, res.access, res.refresh) => Issues(q, res.access, res.refresh)'
    BY IssuedStays DEF Same
  <2>4. Issues(q, result[q].access, result[q].refresh)
          => Issues(q, result[q].access, result[q].refresh)'
    BY <2>2, <2>3 DEF Issues
  <2>5. Returned(q)'
    BY <2>1, <2>4 DEF Returned, Same
  <2> QED BY <1>1, <1>3, <2>5 DEF CallInv, Same
<1>4. CASE pc[q] \notin {"sent", "returned"}
  BY <1>1, <1>4 DEF CallInv, Same
<1> QED BY <1>2, <1>3, <1>4

\* A step of p, which may only get an access token no other operation has.
LEMMA CallStep ==
  ASSUME IInv, TypeOK', Grows, NEW p \in Call, CallInv(p)',
         \A q \in Call \ {p} : Same(q),
         \A a \in Token : Holds(p, a)' =>
           tokens'[a] # None /\ \A q \in Call \ {p} : ~ Holds(q, a)
  PROVE  IInv'
<1>1. CallsInv'
  BY OtherCall DEF CallsInv
<1>2. \A q \in Call \ {p}, a \in Token : Holds(q, a)' <=> Holds(q, a)
  BY DEF Holds, Same
<1>3. AccessInv'
  BY <1>2 DEF IInv, AccessInv, Grows
<1> QED BY <1>1, <1>3 DEF IInv

LEMMA ReturnStep ==
  ASSUME IInv, NEW p \in Call, NEW res \in OAuthResult, Consistent(res), return(p, res),
         NEW c \in Arguments, call' = [call EXCEPT ![p] = c],
         UNCHANGED <<tokens, ended, valid, applied>>,
         res.access # None => reply[p] # None /\ res.access = reply[p].access,
         Returned(p)'
  PROVE  IInv'
<1>1. Grows
  BY Unchanged
<1>2. TypeOK'
  BY DEF IInv, TypeOK, return
<1>3. /\ pc'[p] = "returned" /\ reply'[p] = None /\ result'[p] = res
      /\ \A q \in Call \ {p} : Same(q)
  BY DEF IInv, TypeOK, return, Same
<1>4. CallInv(p)'
  BY <1>3 DEF CallInv
<1>5. ASSUME NEW a \in Token, Holds(p, a)'
      PROVE  tokens'[a] # None /\ \A q \in Call \ {p} : ~ Holds(q, a)
  <2>1. res.access = a /\ a # None
    BY <1>3, <1>5, ServiceAssumption DEF Holds, ServiceAssumption
  <2>2. Holds(p, a)
    BY <2>1 DEF Holds
  <2> QED BY <2>2 DEF IInv, AccessInv
<1> QED BY <1>1, <1>2, <1>3, <1>4, <1>5, CallStep

LEMMA ReplyStep ==
  ASSUME IInv, Grows, NEW p \in Call, NEW rep \in Reply, NEW did \in BOOLEAN,
         pc[p] = "sent", reply' = [reply EXCEPT ![p] = rep],
         applied' = [applied EXCEPT ![p] = did],
         UNCHANGED <<pc, call, result, valid>>,
         Truthful(p, rep)',
         rep.access # None => tokens[rep.access] = None /\ tokens'[rep.access] # None
  PROVE  IInv'
<1>1. TypeOK'
  BY DEF IInv, TypeOK, Grows
<1>2. /\ reply'[p] = rep /\ rep # None
      /\ \A q \in Call \ {p} : Same(q)
  BY RecordAssumption DEF IInv, TypeOK, Same, RecordAssumption
<1>3. Sent(p)
  BY DEF IInv, CallsInv, CallInv
<1>4. accepts(p)' => accepts(p)
  BY <1>3, AcceptedBefore DEF Sent
<1>5. Truthful(p, reply[p])'
  BY <1>2 DEF Truthful, Issues
<1>6. Sent(p)'
  BY <1>2, <1>3, <1>4, <1>5 DEF Sent, Grows
<1>7. CallInv(p)'
  BY <1>6 DEF CallInv
<1>8. ASSUME NEW a \in Token, Holds(p, a)'
      PROVE  tokens'[a] # None /\ \A q \in Call \ {p} : ~ Holds(q, a)
  <2>1. rep.access = a /\ a # None
    BY <1>2, <1>8, ServiceAssumption DEF Holds, ServiceAssumption
  <2> QED BY <2>1 DEF IInv, AccessInv
<1> QED BY <1>1, <1>2, <1>7, <1>8, CallStep

LEMMA SendKeeps ==
  ASSUME IInv, NEW p \in Call, NEW op \in Op, NEW r \in Realm, NEW t \in Issued,
         Send(p, op, r, t)
  PROVE  IInv'
<1>1. PICK c : c = [op |-> op, realm |-> r, token |-> t]
  OBVIOUS
<1>2. /\ c \in Arguments /\ c.op = op /\ c.realm = r /\ c.token = t
      /\ t \in Token /\ tokens[t] # None
  BY <1>1 DEF Arguments, Issued
<1>3. Grows
  BY Unchanged DEF Send
<1>4. PICK v \in BOOLEAN : v = (live(t) /\ tokens[t].realm = r)
  BY DEF live
<1>5. /\ call' = [call EXCEPT ![p] = c] /\ valid' = [valid EXCEPT ![p] = v]
      /\ pc' = [pc EXCEPT ![p] = "sent"] /\ pc[p] = "idle"
      /\ UNCHANGED <<tokens, ended, reply, result, applied>>
  BY <1>1, <1>4 DEF Send, starts
<1>6. TypeOK'
  BY <1>2, <1>5 DEF IInv, TypeOK
<1>7. /\ pc'[p] = "sent" /\ call'[p] = c /\ valid'[p] = v
      /\ \A q \in Call \ {p} : Same(q)
  BY <1>5 DEF IInv, TypeOK, Same
<1>8. reply[p] = None /\ ~ applied[p]
  BY <1>5 DEF IInv, CallsInv, CallInv
<1>9. accepts(p)' => valid'[p]
  <2>1. accepts(p)' => live(t) /\ tokens[t].realm = r
    BY <1>2, <1>5, <1>7 DEF accepts, live
  <2> QED BY <1>4, <1>7, <2>1, Zenon
<1>10. Sent(p)'
  BY <1>2, <1>5, <1>7, <1>8, <1>9 DEF Sent
<1>11. CallInv(p)'
  BY <1>7, <1>10 DEF CallInv
<1>12. \A a \in Token : ~ Holds(p, a)'
  BY <1>5, <1>7, <1>8 DEF Holds
<1> QED BY <1>3, <1>6, <1>7, <1>11, <1>12, CallStep

LEMMA UnknownRealmKeeps ==
  ASSUME IInv, NEW p \in Call, NEW op \in {"refresh", "revoke"}, NEW t \in Issued,
         UnknownRealm(p, op, t)
  PROVE  IInv'
<1>1. PICK c : c = [op |-> op, realm |-> OtherRealm, token |-> t]
  OBVIOUS
<1>2. c \in Arguments
  BY <1>1 DEF Arguments, Op, Issued
<1>3. PICK res : res = failed(500, "unknown_realm")
  OBVIOUS
<1>4. FailsWith(res, 500)
  BY <1>3, FailedResult
<1>5. /\ call' = [call EXCEPT ![p] = c] /\ return(p, res)
      /\ UNCHANGED <<tokens, ended, valid, applied>>
  BY <1>1, <1>3 DEF UnknownRealm, starts
<1>6. result'[p] = res /\ call'[p] = c /\ res # None
  BY <1>4, <1>5, RecordAssumption DEF IInv, TypeOK, return, FailsWith, RecordAssumption
<1>7. Returned(p)'
  BY <1>2, <1>4, <1>6 DEF Returned, FailsWith
<1> QED BY <1>2, <1>4, <1>5, <1>7, ReturnStep, ZenonT(90) DEF FailsWith

LEMMA MissingKeeps ==
  ASSUME IInv, NEW p \in Call, NEW op \in Op, NEW r \in Realm, Missing(p, op, r)
  PROVE  IInv'
<1>1. PICK c : c = [op |-> op, realm |-> r, token |-> None]
  OBVIOUS
<1>2. c \in Arguments
  BY <1>1 DEF Arguments
<1>3. PICK res : res = failed(400, "missing_token")
  OBVIOUS
<1>4. FailsWith(res, 400)
  BY <1>3, FailedResult
<1>5. /\ call' = [call EXCEPT ![p] = c] /\ return(p, res) /\ pc[p] = "idle"
      /\ UNCHANGED <<tokens, ended, valid, applied>>
  BY <1>1, <1>3 DEF Missing, starts
<1>6. result'[p] = res /\ call'[p] = c /\ res # None
  BY <1>4, <1>5, RecordAssumption DEF IInv, TypeOK, return, FailsWith, RecordAssumption
<1>7. ~ applied'[p]
  BY <1>5 DEF IInv, CallsInv, CallInv
<1>8. Returned(p)'
  BY <1>2, <1>4, <1>6, <1>7 DEF Returned, FailsWith
<1> QED BY <1>2, <1>4, <1>5, <1>8, ReturnStep DEF FailsWith

LEMMA ParseKeeps ==
  ASSUME IInv, NEW p \in Call, Parse(p)
  PROVE  IInv'
<1>1. PICK c : c = call[p]
  OBVIOUS
<1>2. PICK rep : rep = reply[p]
  OBVIOUS
<1>3. /\ c \in Arguments /\ c.op \in Op /\ rep \in Reply /\ Truthful(p, rep)
      /\ call' = [call EXCEPT ![p] = c] /\ call'[p] = c
  BY <1>1, <1>2 DEF Parse, IInv, TypeOK, CallsInv, CallInv, Sent, Arguments
<1>4. PICK res : res = result_of(c.op, rep)
  OBVIOUS
<1>5. Says(c.op, rep, res)
  BY <1>3, <1>4, Parsed
<1>6. /\ return(p, res) /\ reply[p] # None
      /\ UNCHANGED <<tokens, ended, call, valid, applied>>
  BY <1>1, <1>2, <1>4 DEF Parse
<1>7. result'[p] = res /\ res # None /\ res \in OAuthResult /\ Consistent(res)
  BY <1>5, <1>6, RecordAssumption DEF IInv, TypeOK, return, Says, RecordAssumption
<1>8. Grows
  BY <1>6, Unchanged
<1>9. Issues(p, rep.access, rep.refresh) => Issues(p, rep.access, rep.refresh)'
  BY <1>6, <1>8, IssuedStays
<1>10. Returned(p)'
  BY <1>1, <1>3, <1>5, <1>6, <1>7, <1>9 DEF Returned, Truthful, Says
<1>11. res.access # None => res.access = reply[p].access
  BY <1>2, <1>5 DEF Says
<1> QED BY <1>3, <1>6, <1>7, <1>10, <1>11, ReturnStep

LEMMA ThrowsKeeps ==
  ASSUME IInv, NEW p \in Call, Throws(p)
  PROVE  IInv'
<1>1. PICK c : c = call[p]
  OBVIOUS
<1>2. PICK res : res = failed(500, "exception")
  OBVIOUS
<1>3. FailsWith(res, 500)
  BY <1>2, FailedResult
<1>4. /\ c \in Arguments /\ call' = [call EXCEPT ![p] = c] /\ call'[p] = c
      /\ return(p, res) /\ UNCHANGED <<tokens, ended, valid, applied>>
  BY <1>1, <1>2 DEF Throws, IInv, TypeOK, CallsInv, CallInv, Sent
<1>5. result'[p] = res /\ res # None
  BY <1>3, <1>4, RecordAssumption DEF IInv, TypeOK, return, FailsWith, RecordAssumption
<1>6. Returned(p)'
  BY <1>3, <1>4, <1>5 DEF Returned, FailsWith
<1> QED BY <1>3, <1>4, <1>6, ReturnStep, ZenonT(90) DEF FailsWith

LEMMA FinishKeeps ==
  ASSUME IInv, NEW p \in Call, Finish(p)
  PROVE  IInv'
<1>1. Grows
  BY Unchanged DEF Finish
<1>2. TypeOK'
  BY DEF Finish, IInv, TypeOK
<1>3. /\ pc'[p] = "idle" /\ ~ applied'[p] /\ reply'[p] = None
      /\ \A q \in Call \ {p} : Same(q)
  BY DEF Finish, IInv, TypeOK, CallsInv, CallInv, Same
<1>4. CallInv(p)'
  BY <1>3 DEF CallInv
<1>5. \A a \in Token : ~ Holds(p, a)'
  BY <1>3 DEF Holds
<1> QED BY <1>1, <1>2, <1>3, <1>4, <1>5, CallStep

LEMMA RefreshedKeeps ==
  ASSUME IInv, NEW p \in Call, NEW a \in Token, NEW r \in Token, Refreshed(p, a, r)
  PROVE  IInv'
<1>1. PICK t : t = call[p].token
  OBVIOUS
<1>2. PICK rep : rep = [status |-> 200, access |-> a, refresh |-> r,
                        active |-> FALSE, sub |-> FALSE]
  OBVIOUS
<1>3. /\ rep \in Reply /\ rep.status = 200 /\ rep.access = a /\ rep.refresh = r
  BY <1>2 DEF Reply
<1>4. /\ pc[p] = "sent" /\ call[p].op = "refresh" /\ tokens[a] = None
      /\ reply' = [reply EXCEPT ![p] = rep] /\ applied' = [applied EXCEPT ![p] = TRUE]
      /\ UNCHANGED <<ended, pc, call, result, valid>>
  BY <1>2 DEF Refreshed, reaches, replies
<1>5. /\ t \in Token /\ tokens[t] # None /\ tokens[t] \in TokenAtKeycloak /\ a # t
  BY <1>1, <1>4 DEF IInv, TypeOK, CallsInv, CallInv, Sent
<1>6. PICK x, y, z : /\ x = [tokens[t] EXCEPT !.kind = "access"]
                     /\ y = [tokens[t] EXCEPT !.kind = "refresh"]
                     /\ z = [tokens[t] EXCEPT !.spent = TRUE]
  OBVIOUS
<1>7. /\ x \in TokenAtKeycloak /\ y \in TokenAtKeycloak /\ z \in TokenAtKeycloak
      /\ x.session = tokens[t].session /\ y.session = tokens[t].session
      /\ z.session = tokens[t].session /\ z.realm = tokens[t].realm /\ z.spent = TRUE
  BY <1>5, <1>6 DEF TokenAtKeycloak
<1>8. \/ r = t /\ tokens' = [tokens EXCEPT ![a] = x]
      \/ /\ r # a /\ tokens[r] = None
         /\ tokens' = [tokens EXCEPT ![a] = x, ![r] = y, ![t].spent = TRUE]
  BY <1>1, <1>6 DEF Refreshed
<1>9. \/ r = t /\ tokens' = [tokens EXCEPT ![a] = x]
      \/ /\ r \notin {a, t} /\ tokens[r] = None
         /\ tokens' = [tokens EXCEPT ![a] = x, ![r] = y, ![t] = z]
  BY <1>5, <1>6, <1>8 DEF IInv, TypeOK
<1>10. /\ \A u \in Token \ {a, r, t} : tokens'[u] = tokens[u]
       /\ tokens'[a] = x
       /\ r = t => tokens'[t] = tokens[t]
       /\ r # t => tokens[r] = None /\ tokens'[r] = y /\ tokens'[t] = z
       /\ tokens' \in [Token -> TokenAtKeycloak \cup {None}]
  BY <1>5, <1>7, <1>9 DEF IInv, TypeOK
<1>11. None \notin TokenAtKeycloak
  BY RecordAssumption DEF RecordAssumption
<1>12. Grows
  BY <1>4, <1>5, <1>7, <1>10, <1>11 DEF Grows, IInv, TypeOK
<1>13. Issues(p, a, r)'
  BY <1>1, <1>4, <1>5, <1>7, <1>10, <1>11 DEF Issues, IInv, TypeOK
<1>14. Truthful(p, rep)'
  BY <1>3, <1>4, <1>13 DEF Truthful
<1>15. tokens'[a] # None
  BY <1>7, <1>10, <1>11
<1> QED BY <1>3, <1>4, <1>12, <1>14, <1>15, ReplyStep

LEMMA RevokedKeeps ==
  ASSUME IInv, NEW p \in Call, Revoked(p)
  PROVE  IInv'
<1>1. PICK rep : rep = [status |-> 200, access |-> None, refresh |-> None,
                        active |-> FALSE, sub |-> FALSE]
  OBVIOUS
<1>2. /\ rep \in Reply /\ rep.status = 200 /\ rep.access = None /\ rep.active = FALSE
      /\ rep.sub = FALSE
  BY <1>1 DEF Reply
<1>3. /\ pc[p] = "sent" /\ call[p].op = "revoke"
      /\ ended' = ended \cup {tokens[call[p].token].session}
      /\ reply' = [reply EXCEPT ![p] = rep] /\ applied' = [applied EXCEPT ![p] = TRUE]
      /\ UNCHANGED <<tokens, pc, call, result, valid>>
  BY <1>1 DEF Revoked, reaches, replies
<1>4. tokens[call[p].token] \in TokenAtKeycloak
  BY <1>3 DEF IInv, TypeOK, CallsInv, CallInv, Sent
<1>5. Grows
  BY <1>3, <1>4 DEF Grows, IInv, TypeOK, TokenAtKeycloak
<1>6. Truthful(p, rep)'
  BY <1>2, <1>3 DEF Truthful
<1> QED BY <1>2, <1>3, <1>5, <1>6, ReplyStep

\* A reply that issues nothing, when nothing changes at Keycloak.
LEMMA PlainReply ==
  ASSUME IInv, NEW p \in Call, pc[p] = "sent", NEW rep \in Reply, rep.access = None,
         reply' = [reply EXCEPT ![p] = rep],
         UNCHANGED <<tokens, ended, pc, call, result, valid, applied>>,
         Truthful(p, rep)
  PROVE  IInv'
<1>1. PICK did \in BOOLEAN : did = applied[p] /\ applied' = [applied EXCEPT ![p] = did]
  BY DEF IInv, TypeOK
<1>2. Grows
  BY Unchanged
<1>3. Truthful(p, rep)'
  BY <1>2, TruthStays
<1> QED BY <1>1, <1>2, <1>3, ReplyStep

LEMMA DescribedKeeps ==
  ASSUME IInv, NEW p \in Call, Described(p)
  PROVE  IInv'
<1>1. Sent(p) /\ pc[p] = "sent"
  BY DEF Described, reaches, IInv, CallsInv, CallInv
<1>2. UNCHANGED <<tokens, ended, pc, call, result, valid, applied>>
  BY DEF Described
<1>3. CASE reaches(p, "introspect") /\ replies(p, 200, None, None, accepts(p), accepts(p))
  <2>1. PICK v \in BOOLEAN : v = accepts(p)
    BY DEF accepts
  <2>2. PICK rep : rep = [status |-> 200, access |-> None, refresh |-> None,
                          active |-> v, sub |-> v]
    OBVIOUS
  <2>3. rep \in Reply /\ rep.access = None /\ rep.active = v
    BY <2>2 DEF Reply
  <2>4. reply' = [reply EXCEPT ![p] = rep]
    BY <1>3, <2>1, <2>2, Zenon DEF replies
  <2>5. v => valid[p]
    BY <1>1, <2>1, Zenon DEF Sent
  <2>6. Truthful(p, rep)
    BY <1>3, <2>3, <2>5 DEF Truthful, reaches
  <2> QED BY <1>1, <1>2, <2>3, <2>4, <2>6, PlainReply
<1>4. CASE reaches(p, "userinfo") /\ accepts(p) /\ replies(p, 200, None, None, FALSE, TRUE)
  <2>1. PICK rep : rep = [status |-> 200, access |-> None, refresh |-> None,
                          active |-> FALSE, sub |-> TRUE]
    OBVIOUS
  <2>2. rep \in Reply /\ rep.access = None
    BY <2>1 DEF Reply
  <2>3. reply' = [reply EXCEPT ![p] = rep]
    BY <1>4, <2>1 DEF replies
  <2>4. Truthful(p, rep)
    BY <1>1, <1>4 DEF Truthful, Sent, reaches
  <2> QED BY <1>1, <1>2, <2>2, <2>3, <2>4, PlainReply
<1>5. CASE reaches(p, "userinfo") /\ replies(p, 401, None, None, FALSE, FALSE)
  <2>1. PICK rep : rep = [status |-> 401, access |-> None, refresh |-> None,
                          active |-> FALSE, sub |-> FALSE]
    OBVIOUS
  <2>2. rep \in Reply /\ rep.access = None /\ rep.sub = FALSE
    BY <2>1 DEF Reply
  <2>3. reply' = [reply EXCEPT ![p] = rep]
    BY <1>5, <2>1 DEF replies
  <2>4. Truthful(p, rep)
    BY <1>5, <2>2 DEF Truthful, reaches
  <2> QED BY <1>1, <1>2, <2>2, <2>3, <2>4, PlainReply
<1> QED BY <1>3, <1>4, <1>5 DEF Described

LEMMA RejectedKeeps ==
  ASSUME IInv, NEW p \in Call, Rejected(p)
  PROVE  IInv'
<1>1. PICK rep : rep = [status |-> 400, access |-> None, refresh |-> None,
                        active |-> FALSE, sub |-> FALSE]
  OBVIOUS
<1>2. rep \in Reply /\ rep.access = None
  BY <1>1 DEF Reply
<1>3. /\ Sent(p) /\ pc[p] = "sent" /\ reply[p] = None
      /\ reply' = [reply EXCEPT ![p] = rep]
      /\ call[p].op \in {"refresh", "revoke"}
      /\ UNCHANGED <<tokens, ended, pc, call, result, valid, applied>>
  BY <1>1 DEF Rejected, reaches, replies, IInv, CallsInv, CallInv
<1>4. Truthful(p, rep)
  BY <1>2, <1>3 DEF Sent, Truthful
<1> QED BY <1>2, <1>3, <1>4, PlainReply

LEMMA HttpFailsKeeps ==
  ASSUME IInv, NEW p \in Call, HttpFails(p)
  PROVE  IInv'
<1>1. PICK rep \in Reply : /\ rep.access = None /\ rep.active = FALSE /\ rep.sub = FALSE
                           /\ rep.status \notin {400, 401}
                           /\ reply' = [reply EXCEPT ![p] = rep]
  <2>1. PICK status \in {0, 302, 503} \cup (IF call[p].op = "revoke" THEN {} ELSE {200}) :
          replies(p, status, None, None, FALSE, FALSE)
    BY DEF HttpFails
  <2> DEFINE r == [status |-> status, access |-> None, refresh |-> None,
                   active |-> FALSE, sub |-> FALSE]
  <2>2. /\ r \in Reply /\ r.access = None /\ r.active = FALSE /\ r.sub = FALSE
        /\ r.status \notin {400, 401}
    BY DEF Reply
  <2>3. reply' = [reply EXCEPT ![p] = r]
    BY <2>1 DEF replies
  <2> HIDE DEF r
  <2> QED BY <2>2, <2>3, ZenonT(90)
<1>2. pc[p] = "sent" /\ UNCHANGED <<tokens, ended, pc, call, result, valid, applied>>
  BY DEF HttpFails
<1>3. Truthful(p, rep)
  BY <1>1 DEF Truthful
<1> QED BY <1>1, <1>2, <1>3, PlainReply, ZenonT(90)

LEMMA SessionEndsKeeps ==
  ASSUME IInv, NEW s \in Session, SessionEnds(s)
  PROVE  IInv'
<1>1. Grows
  BY DEF SessionEnds, Grows, IInv, TypeOK
<1>2. TypeOK'
  BY DEF SessionEnds, IInv, TypeOK
<1>3. \A q \in Call : Same(q)
  BY DEF SessionEnds, Same
<1>4. CallsInv'
  BY <1>1, <1>3, OtherCall DEF CallsInv
<1>5. AccessInv'
  BY DEF SessionEnds, IInv, AccessInv, Holds
<1> QED BY <1>2, <1>4, <1>5 DEF IInv

LEMMA StutterKeeps ==
  ASSUME IInv, UNCHANGED vars
  PROVE  IInv'
<1>1. TypeOK'
  BY DEF IInv, TypeOK, vars
<1>2. CallsInv'
  BY Unchanged, OtherCall DEF CallsInv, Same, vars
<1>3. AccessInv'
  BY DEF IInv, AccessInv, Holds, vars
<1> QED BY <1>1, <1>2, <1>3 DEF IInv

-----------------------------------------------------------------------------
\* The invariant holds, and the properties follow from it.

LEMMA InitHolds == Init => IInv
<1> SUFFICES ASSUME Init PROVE IInv
  OBVIOUS
<1>1. TypeOK
  BY DEF Init, TypeOK
<1>2. CallsInv
  BY DEF Init, CallsInv, CallInv
<1>3. AccessInv
  BY DEF Init, AccessInv, Holds
<1> QED BY <1>1, <1>2, <1>3 DEF IInv

LEMMA NextKeeps == IInv /\ [Next]_vars => IInv'
<1> SUFFICES ASSUME IInv, [Next]_vars PROVE IInv'
  OBVIOUS
<1>1. CASE UNCHANGED vars
  BY <1>1, StutterKeeps
<1>2. ASSUME NEW p \in Call, Start(p) PROVE IInv'
  BY <1>2, UnknownRealmKeeps, MissingKeeps, SendKeeps DEF Start
<1>3. ASSUME NEW p \in Call, Keycloak(p) PROVE IInv'
  BY <1>3, RefreshedKeeps, RevokedKeeps, DescribedKeeps, RejectedKeeps DEF Keycloak
<1>4. ASSUME NEW p \in Call, Parse(p) \/ Throws(p) \/ Finish(p) \/ HttpFails(p) PROVE IInv'
  BY <1>4, ParseKeeps, ThrowsKeeps, FinishKeeps, HttpFailsKeeps
<1>5. ASSUME NEW s \in Session, SessionEnds(s) PROVE IInv'
  BY <1>5, SessionEndsKeeps
<1> QED BY <1>1, <1>2, <1>3, <1>4, <1>5 DEF Next

\* What is known of the operations and of their tokens holds throughout.
THEOREM Invariance == Spec => []IInv
BY InitHolds, NextKeeps, PTL DEF Spec

\* Operations, replies and results are always of their types, and a result is
\* ok just when it has no error.
THEOREM TypeCorrect == Spec => []TypeOK
<1>1. IInv => TypeOK
  BY DEF IInv
<1> QED BY <1>1, Invariance, PTL

\* For any number of operations and tokens: a token that introspection calls
\* active, or userinfo has a subject for, was valid in its realm at some time of
\* the operation.
THEOREM ActiveTokensValid == Spec => []ActiveWhenSeen
<1>1. IInv => ActiveWhenSeen
  BY DEF IInv, CallsInv, CallInv, Returned, ActiveWhenSeen, returned
<1> QED BY <1>1, Invariance, PTL

\* For any number of operations: a refresh or a revocation that failed with a
\* 4xx did nothing at Keycloak, whatever was lost on the way.
THEOREM RefusalsHarmless == Spec => []RefusedDidNothing
<1>1. IInv => RefusedDidNothing
  <2> SUFFICES ASSUME IInv, NEW p \in Call, returned(p, "refresh") \/ returned(p, "revoke"),
                      result[p].status \in 400..499
               PROVE  ~ applied[p]
    BY DEF RefusedDidNothing
  <2>1. Returned(p) /\ call[p].op \in {"refresh", "revoke"}
    BY DEF IInv, CallsInv, CallInv, returned
  <2>2. PICK E : OAuthResult = [ok: BOOLEAN, status: {200, 302, 400, 401, 500, 502, 503},
                               error: E, access: Token \cup {None},
                               refresh: Token \cup {None}, sub: BOOLEAN]
    BY ZenonT(90) DEF OAuthResult
  <2>3. result[p] \in OAuthResult
    BY <2>1 DEF IInv, TypeOK, Returned
  <2>4. result[p].status \in {400, 401}
    BY <2>2, <2>3
  <2> QED BY <2>1, <2>4 DEF Returned
<1> QED BY <1>1, Invariance, PTL

\* For any number of operations in flight together: the tokens of a successful
\* refresh are of the session of the token that was sent, and were issued for
\* that operation alone.
THEOREM RefreshesOwnTokens == Spec => []RefreshedTokens
<1>1. IInv => RefreshedTokens
  <2> SUFFICES ASSUME IInv, NEW p \in Call, returned(p, "refresh"), result[p].ok
               PROVE  /\ applied[p]
                      /\ result[p].access # None /\ result[p].refresh # None
                      /\ \A t \in {result[p].access, result[p].refresh} :
                           tokens[t].session = tokens[call[p].token].session
                      /\ \A q \in Call \ {p} :
                           returned(q, "refresh") => result[q].access # result[p].access
    BY DEF RefreshedTokens
  <2>1. Issues(p, result[p].access, result[p].refresh)
    BY DEF IInv, CallsInv, CallInv, Returned, returned
  <2>2. result[p].access \in Token /\ Holds(p, result[p].access)
    BY <2>1 DEF Issues, Holds, returned
  <2>3. ASSUME NEW q \in Call \ {p}, returned(q, "refresh")
        PROVE  result[q].access # result[p].access
    BY <2>2, <2>3 DEF IInv, AccessInv, Holds, returned
  <2>4. None \notin Token
    BY ServiceAssumption DEF ServiceAssumption
  <2> QED BY <2>1, <2>3, <2>4 DEF Issues
<1> QED BY <1>1, Invariance, PTL
=============================================================================
