----------------------------- MODULE SessionProofs -----------------------------
(***************************************************************************)
(* What Session says of a browser's cookies, for any number of tabs,       *)
(* realms and logins.  The argument is about what responses carry on their *)
(* way: nothing, or both cookies of one realm, cleared or of one login of  *)
(* that realm.                                                             *)
(***************************************************************************)
EXTENDS Session, TLAPS

access(r) == token_cookie_config_for_realm(r).access_token_name
refresh(r) == token_cookie_config_for_realm(r).refresh_token_name

\* The login t was granted at the realm r.
GrantedAt(t, r) == t \in Login /\ grants[t] \in Grant /\ grants[t].realm = r

\* The browser's cookies of a realm are of one login of that realm.
JarInv ==
  \A r \in Realm :
    /\ \A n \in {access(r), refresh(r)} : jar[n] \in Login => GrantedAt(jar[n], r)
    /\ jar[access(r)] \in Login /\ jar[refresh(r)] \in Login => jar[access(r)] = jar[refresh(r)]

\* What a response may carry.
Carries(cookies) ==
  \/ cookies = {}
  \/ \E r \in Realm : cookies = clear_token_cookies(r)
  \/ \E r \in Realm, t \in Login, tokens \in Tokens :
       cookies = add_token_cookies(r, t, tokens) /\ GrantedAt(t, r)

RequestInv(p) ==
  /\ pc[p] = "revoking" =>
       req[p] \in Request /\ req[p].realm \in Realm /\ GrantedAt(req[p].login, req[p].realm)
  /\ pc[p] = "clearing" => req[p].realm \in Realm
  /\ pc[p] = "answered" => Carries(response[p].set_cookies)

RequestsInv == \A p \in Req : RequestInv(p)

IInv == TypeOK /\ JarInv /\ RequestsInv

-----------------------------------------------------------------------------
\* The names of a realm's cookies.
LEMMA Names ==
  ASSUME NEW r \in Realm
  PROVE  /\ access(r) \in TokenName /\ refresh(r) \in TokenName
         /\ access(r) \in Name /\ refresh(r) \in Name
         /\ access(r) # refresh(r)
         /\ \A q \in Realm \ {r} : /\ access(q) \notin {access(r), refresh(r)}
                                   /\ refresh(q) \notin {access(r), refresh(r)}
<1>1. /\ access(r) = [base |-> "access_token", realm |-> r]
      /\ refresh(r) = [base |-> "refresh_token", realm |-> r]
      /\ \A q \in Realm : /\ access(q) = [base |-> "access_token", realm |-> q]
                          /\ refresh(q) = [base |-> "refresh_token", realm |-> q]
  BY DEF access, refresh, token_cookie_config_for_realm
<1> QED BY <1>1 DEF TokenName, Name

LEMMA Lifetimes ==
  ASSUME NEW seconds \in {0, 300}
  PROVE  token_cookie_options(seconds) \in {0, 300, None}
BY DEF token_cookie_options

LEMMA AddedCookies ==
  ASSUME NEW r \in Realm, NEW t \in Login, NEW tokens \in Tokens
  PROVE  /\ add_token_cookies(r, t, tokens) \subseteq SetCookie
         /\ \A c \in add_token_cookies(r, t, tokens) :
              c.name \in {access(r), refresh(r)} /\ c.value \in {t, Empty}
         /\ \A n \in {access(r), refresh(r)} :
              \E c \in add_token_cookies(r, t, tokens) : c.name = n
<1> DEFINE a == [name |-> access(r), value |-> t,
                 max_age |-> token_cookie_options(tokens.expires_in)]
           b == [name |-> refresh(r), value |-> IF tokens.refresh THEN t ELSE Empty,
                 max_age |-> token_cookie_options(tokens.refresh_expires_in)]
<1>1. add_token_cookies(r, t, tokens) = {a, b}
  BY DEF add_token_cookies, access, refresh
<1>2. a.name = access(r) /\ b.name = refresh(r) /\ a.value \in {t, Empty} /\ b.value \in {t, Empty}
  OBVIOUS
<1>3. a \in SetCookie /\ b \in SetCookie
  BY Names, Lifetimes DEF SetCookie, Tokens
<1> HIDE DEF a, b
<1> QED BY <1>1, <1>2, <1>3

LEMMA ClearedCookies ==
  ASSUME NEW r \in Realm
  PROVE  /\ clear_token_cookies(r) \subseteq SetCookie
         /\ \A c \in clear_token_cookies(r) :
              c.name \in {access(r), refresh(r)} /\ c.value = Empty
         /\ \A n \in {access(r), refresh(r)} : \E c \in clear_token_cookies(r) : c.name = n
<1>1. clear_token_cookies(r) = {[name |-> n, value |-> Empty, max_age |-> 0] :
                                  n \in {access(r), refresh(r)}}
  BY DEF clear_token_cookies, access, refresh
<1>2. \A n \in {access(r), refresh(r)} :
        [name |-> n, value |-> Empty, max_age |-> 0] \in SetCookie
  BY Names DEF SetCookie
<1> QED BY <1>1, <1>2

-----------------------------------------------------------------------------
\* A cookie that is not in a response stays what it is, one that is there gets
\* the value of one of that name, or goes.
LEMMA ReceivedCookie ==
  ASSUME NEW cookies, NEW n \in Name
  PROVE  /\ (\A c \in cookies : c.name # n) => received(cookies)[n] = jar[n]
         /\ (\E c \in cookies : c.name = n) =>
              \E c \in cookies : c.name = n /\ received(cookies)[n] \in {None, c.value}
<1> DEFINE d == CHOOSE c \in cookies : c.name = n
<1>1. received(cookies)[n] = IF \E c \in cookies : c.name = n
                               THEN IF d.max_age = 0 THEN None ELSE d.value
                               ELSE jar[n]
  BY DEF received
<1>2. (\E c \in cookies : c.name = n) => d \in cookies /\ d.name = n
  OBVIOUS
<1> HIDE DEF d
<1> QED BY <1>1, <1>2

\* What the browser has of a realm r after a response that set r's cookies to
\* v or emptied them.
LEMMA ReceivedBoth ==
  ASSUME NEW cookies, NEW v, NEW r \in Realm,
         \A c \in cookies : c.name \in {access(r), refresh(r)} /\ c.value \in {v, Empty},
         \A n \in {access(r), refresh(r)} : \E c \in cookies : c.name = n
  PROVE  /\ \A n \in {access(r), refresh(r)} : received(cookies)[n] \in {v, Empty, None}
         /\ \A q \in Realm \ {r} : \A n \in {access(q), refresh(q)} :
              received(cookies)[n] = jar[n]
<1>1. ASSUME NEW n \in {access(r), refresh(r)} PROVE received(cookies)[n] \in {v, Empty, None}
  <2>1. n \in Name /\ \E c \in cookies : c.name = n
    BY Names
  <2>2. PICK c \in cookies : c.name = n /\ received(cookies)[n] \in {None, c.value}
    BY <2>1, ReceivedCookie
  <2> QED BY <2>2
<1>2. ASSUME NEW q \in Realm \ {r}, NEW n \in {access(q), refresh(q)}
      PROVE  received(cookies)[n] = jar[n]
  <2>1. n \in Name /\ \A c \in cookies : c.name # n
    BY Names
  <2> QED BY <2>1, ReceivedCookie
<1> QED BY <1>1, <1>2

LEMMA ReceivedJar ==
  ASSUME IInv, NEW cookies, Carries(cookies), cookies \subseteq SetCookie,
         jar' = received(cookies), UNCHANGED grants
  PROVE  jar' \in [Name -> Login \cup {Empty, None}] /\ JarInv'
<1>1. jar' \in [Name -> Login \cup {Empty, None}]
  <2>1. jar' = [n \in Name |-> received(cookies)[n]]
    BY DEF received
  <2>2. ASSUME NEW n \in Name PROVE received(cookies)[n] \in Login \cup {Empty, None}
    <3>1. jar[n] \in Login \cup {Empty, None}
      BY DEF IInv, TypeOK
    <3>2. \A c \in cookies : c.value \in Login \cup {Empty}
      BY DEF SetCookie
    <3> QED BY <3>1, <3>2, ReceivedCookie
  <2> QED BY <2>1, <2>2
<1>2. CASE cookies = {}
  <2>1. \A n \in Name : jar'[n] = jar[n]
    BY <1>2, ReceivedCookie
  <2> QED BY <1>1, <2>1, Names DEF IInv, JarInv, GrantedAt
<1>3. ASSUME NEW r \in Realm, NEW v \in Login \cup {Empty},
             v \in Login => GrantedAt(v, r),
             \A c \in cookies : c.name \in {access(r), refresh(r)} /\ c.value \in {v, Empty},
             \A n \in {access(r), refresh(r)} : \E c \in cookies : c.name = n
      PROVE  JarInv'
  <2>1. \A n \in {access(r), refresh(r)} : jar'[n] \in {v, Empty, None}
    BY <1>3, ReceivedBoth
  <2>2. \A q \in Realm \ {r} : \A n \in {access(q), refresh(q)} : jar'[n] = jar[n]
    BY <1>3, ReceivedBoth
  <2>3. Empty \notin Login /\ None \notin Login
    BY SessionAssumption DEF SessionAssumption
  <2>4. \A n \in {access(r), refresh(r)} : jar'[n] \in Login => jar'[n] = v
    BY <2>1, <2>3
  <2>5. v \in Login => GrantedAt(v, r)'
    BY <1>3 DEF GrantedAt
  <2>6. ASSUME NEW q \in Realm
        PROVE  /\ \A n \in {access(q), refresh(q)} : jar'[n] \in Login => GrantedAt(jar[n], q)'
               /\ jar'[access(q)] \in Login /\ jar'[refresh(q)] \in Login
                    => jar'[access(q)] = jar'[refresh(q)]
    <3>1. CASE q = r
      BY <2>4, <2>5, <3>1 DEF GrantedAt
    <3>2. CASE q # r
      BY <2>2, <3>2 DEF IInv, JarInv, GrantedAt
    <3> QED BY <3>1, <3>2
  <2> QED BY <2>6 DEF JarInv, access, refresh
<1>4. ASSUME NEW r \in Realm, cookies = clear_token_cookies(r) PROVE JarInv'
  <2>1. Empty \notin Login
    BY SessionAssumption DEF SessionAssumption
  <2> QED BY <1>3, <1>4, <2>1, ClearedCookies
<1>5. ASSUME NEW r \in Realm, NEW t \in Login, NEW tokens \in Tokens,
             cookies = add_token_cookies(r, t, tokens), GrantedAt(t, r)
      PROVE  JarInv'
  BY <1>3, <1>5, AddedCookies
<1> QED BY <1>1, <1>2, <1>4, <1>5 DEF Carries

-----------------------------------------------------------------------------
\* The steps.

\* A step of p that leaves the browser's cookies alone and takes no grant back.
LEMMA HandlerStep ==
  ASSUME IInv, TypeOK', NEW p \in Req, RequestInv(p)', UNCHANGED jar,
         \A t \in Login : grants[t] # None =>
           grants'[t] \in Grant /\ grants'[t].realm = grants[t].realm,
         \A q \in Req \ {p} : pc'[q] = pc[q] /\ req'[q] = req[q] /\ response'[q] = response[q]
  PROVE  IInv'
<1>1. \A t, r : GrantedAt(t, r) => GrantedAt(t, r)'
  BY RecordAssumption DEF RecordAssumption, GrantedAt
<1>2. JarInv'
  BY <1>1 DEF IInv, JarInv, access, refresh, GrantedAt
<1>3. ASSUME NEW q \in Req \ {p} PROVE RequestInv(q)'
  <2>1. RequestInv(q)
    BY DEF IInv, RequestsInv
  <2>2. pc[q] = "answered" => Carries(response[q].set_cookies)'
    BY <1>1, <2>1 DEF RequestInv, Carries
  <2> QED BY <1>1, <2>1, <2>2 DEF RequestInv
<1> QED BY <1>2, <1>3 DEF IInv, RequestsInv

\* What respond and serve leave of the variables they assign.
LEMMA RespondStep ==
  ASSUME TypeOK, NEW p \in Req, NEW status \in {302, 400, 404, 500}, NEW cookies,
         cookies \subseteq SetCookie, respond(p, status, cookies)
  PROVE  /\ pc' \in [Req -> {"idle", "revoking", "clearing", "answered"}]
         /\ response' \in [Req -> Response \cup {None}]
         /\ pc'[p] = "answered" /\ response'[p].set_cookies = cookies
         /\ \A q \in Req \ {p} : pc'[q] = pc[q] /\ response'[q] = response[q]
<1> DEFINE res == [status |-> status, set_cookies |-> cookies]
<1>1. res \in Response /\ res.set_cookies = cookies
  BY DEF Response
<1>2. response' = [response EXCEPT ![p] = res] /\ pc' = [pc EXCEPT ![p] = "answered"]
  BY DEF respond
<1> HIDE DEF res
<1> QED BY <1>1, <1>2 DEF TypeOK

LEMMA ServeStep ==
  ASSUME TypeOK, NEW p \in Req, NEW op \in {"callback", "logout"},
         NEW r \in Realm \cup {None}, NEW t \in Login \cup {None}, serve(p, op, r, t)
  PROVE  /\ req' \in [Req -> Request \cup {None}]
         /\ req'[p] \in Request /\ req'[p].realm = r /\ req'[p].login = t
         /\ \A q \in Req \ {p} : req'[q] = req[q]
<1> DEFINE new == [op |-> op, realm |-> r, login |-> t]
<1>1. new \in Request /\ new.realm = r /\ new.login = t
  BY DEF Request
<1>2. req' = [req EXCEPT ![p] = new]
  BY DEF serve
<1> HIDE DEF new
<1> QED BY <1>1, <1>2 DEF TypeOK

\* Keycloak's grants keep their realms, whether they are revoked or not.
LEMMA RevokedStep ==
  ASSUME IInv, NEW p \in Req, pc[p] = "revoking", revoked(p) \/ UNCHANGED grants
  PROVE  /\ grants' \in [Login -> Grant \cup {None}]
         /\ \A t \in Login : grants[t] # None =>
              grants'[t] \in Grant /\ grants'[t].realm = grants[t].realm
         /\ req[p].realm \in Realm
<1> DEFINE t == req[p].login
           new == [grants[t] EXCEPT !.live = FALSE]
<1>1. GrantedAt(t, req[p].realm) /\ req[p].realm \in Realm
  BY DEF IInv, RequestsInv, RequestInv
<1>2. t \in Login /\ new \in Grant /\ new.realm = grants[t].realm
  BY <1>1 DEF GrantedAt, Grant
<1>3. grants' = grants \/ grants' = [grants EXCEPT ![t] = new]
  BY DEF revoked
<1>4. grants \in [Login -> Grant \cup {None}]
  BY DEF IInv, TypeOK
<1> HIDE DEF t, new
<1> QED BY <1>1, <1>2, <1>3, <1>4

\* What is the same before and after.
LEMMA GrantsStay ==
  ASSUME IInv, UNCHANGED grants
  PROVE  \A t \in Login : grants[t] # None =>
           grants'[t] \in Grant /\ grants'[t].realm = grants[t].realm
BY DEF IInv, TypeOK

LEMMA CallbackStep ==
  ASSUME IInv, NEW p \in Req, NEW r \in Realm, NEW t \in Login, NEW tokens \in Tokens,
         Callback(p, r, t, tokens)
  PROVE  IInv'
<1> DEFINE new == [realm |-> r, live |-> TRUE]
           cookies == add_token_cookies(r, t, tokens)
<1>h. /\ grants[t] = None /\ grants' = [grants EXCEPT ![t] = new]
      /\ serve(p, "callback", r, t) /\ respond(p, 302, cookies) /\ UNCHANGED jar
  BY DEF Callback
<1>t. TypeOK
  BY DEF IInv
<1>1. new \in Grant /\ new.realm = r /\ cookies \subseteq SetCookie
  BY AddedCookies DEF Grant
<1> HIDE DEF new
<1>2. /\ pc' \in [Req -> {"idle", "revoking", "clearing", "answered"}]
      /\ response' \in [Req -> Response \cup {None}]
      /\ pc'[p] = "answered" /\ response'[p].set_cookies = cookies
      /\ \A q \in Req \ {p} : pc'[q] = pc[q] /\ response'[q] = response[q]
  BY <1>1, <1>h, <1>t, RespondStep
<1>3. /\ req' \in [Req -> Request \cup {None}]
      /\ \A q \in Req \ {p} : req'[q] = req[q]
  BY <1>h, <1>t, ServeStep
<1>4. TypeOK'
  BY <1>h, <1>t, <1>1, <1>2, <1>3 DEF TypeOK
<1>5. GrantedAt(t, r)'
  BY <1>1, <1>h, <1>t DEF GrantedAt, TypeOK
<1>6. Carries(response[p].set_cookies)'
  BY <1>2, <1>5 DEF Carries
<1>7. RequestInv(p)'
  BY <1>2, <1>6 DEF RequestInv
<1>8. \A u \in Login : grants[u] # None =>
        grants'[u] \in Grant /\ grants'[u].realm = grants[u].realm
  BY <1>h, <1>t DEF TypeOK
<1> HIDE DEF cookies
<1>9. \A q \in Req \ {p} : pc'[q] = pc[q] /\ req'[q] = req[q] /\ response'[q] = response[q]
  BY <1>2, <1>3
<1> QED BY <1>4, <1>7, <1>8, <1>9, <1>h, HandlerStep

\* A logout is answered, with nothing or with a realm's cookies cleared.
LEMMA AnswerStep ==
  ASSUME IInv, NEW p \in Req, NEW status \in {302, 400, 404, 500}, NEW cookies,
         respond(p, status, cookies), cookies \subseteq SetCookie,
         cookies = {} \/ \E r \in Realm : cookies = clear_token_cookies(r),
         req' \in [Req -> Request \cup {None}], \A q \in Req \ {p} : req'[q] = req[q],
         UNCHANGED jar,
         grants' \in [Login -> Grant \cup {None}],
         \A t \in Login : grants[t] # None =>
           grants'[t] \in Grant /\ grants'[t].realm = grants[t].realm
  PROVE  IInv'
<1>t. TypeOK
  BY DEF IInv
<1>1. /\ pc' \in [Req -> {"idle", "revoking", "clearing", "answered"}]
      /\ response' \in [Req -> Response \cup {None}]
      /\ pc'[p] = "answered" /\ response'[p].set_cookies = cookies
      /\ \A q \in Req \ {p} : pc'[q] = pc[q] /\ response'[q] = response[q]
  BY <1>t, RespondStep
<1>2. TypeOK'
  BY <1>t, <1>1 DEF TypeOK
<1>3. Carries(response[p].set_cookies)'
  BY <1>1 DEF Carries
<1>4. RequestInv(p)'
  BY <1>1, <1>3 DEF RequestInv
<1>5. \A q \in Req \ {p} : pc'[q] = pc[q] /\ req'[q] = req[q] /\ response'[q] = response[q]
  BY <1>1
<1> QED BY <1>2, <1>4, <1>5, HandlerStep

LEMMA LogoutRefusedStep ==
  ASSUME IInv, NEW p \in Req, NEW status \in {400, 404}, LogoutRefused(p, status)
  PROVE  IInv'
<1>1. serve(p, "logout", None, None) /\ respond(p, status, {}) /\ UNCHANGED <<jar, grants>>
  BY DEF LogoutRefused
<1>2. req' \in [Req -> Request \cup {None}] /\ \A q \in Req \ {p} : req'[q] = req[q]
  BY <1>1, ServeStep DEF IInv
<1>3. grants' \in [Login -> Grant \cup {None}] /\ {} \subseteq SetCookie
  BY <1>1 DEF IInv, TypeOK
<1>4. \A t \in Login : grants[t] # None =>
        grants'[t] \in Grant /\ grants'[t].realm = grants[t].realm
  BY <1>1, GrantsStay
<1> QED BY <1>1, <1>2, <1>3, <1>4, AnswerStep

LEMMA LogoutAtOnceStep ==
  ASSUME IInv, NEW p \in Req, NEW r \in Realm, LogoutAtOnce(p, r)
  PROVE  IInv'
<1>1. /\ serve(p, "logout", r, None) /\ respond(p, 302, clear_token_cookies(r))
      /\ UNCHANGED <<jar, grants>>
  BY DEF LogoutAtOnce
<1>2. req' \in [Req -> Request \cup {None}] /\ \A q \in Req \ {p} : req'[q] = req[q]
  BY <1>1, ServeStep DEF IInv
<1>3. grants' \in [Login -> Grant \cup {None}] /\ clear_token_cookies(r) \subseteq SetCookie
  BY <1>1, ClearedCookies DEF IInv, TypeOK
<1>4. \A t \in Login : grants[t] # None =>
        grants'[t] \in Grant /\ grants'[t].realm = grants[t].realm
  BY <1>1, GrantsStay
<1> QED BY <1>1, <1>2, <1>3, <1>4, AnswerStep

LEMMA LogoutClearsStep ==
  ASSUME IInv, NEW p \in Req, LogoutClears(p)
  PROVE  IInv'
<1>1. /\ pc[p] = "clearing" /\ respond(p, 302, clear_token_cookies(req[p].realm))
      /\ UNCHANGED <<jar, grants, req>>
  BY DEF LogoutClears
<1>2. req[p].realm \in Realm
  BY <1>1 DEF IInv, RequestsInv, RequestInv
<1>3. /\ grants' \in [Login -> Grant \cup {None}] /\ req' \in [Req -> Request \cup {None}]
      /\ clear_token_cookies(req[p].realm) \subseteq SetCookie
  BY <1>1, <1>2, ClearedCookies DEF IInv, TypeOK
<1>4. \A t \in Login : grants[t] # None =>
        grants'[t] \in Grant /\ grants'[t].realm = grants[t].realm
  BY <1>1, GrantsStay
<1> QED BY <1>1, <1>2, <1>3, <1>4, AnswerStep

LEMMA RevocationThrowsStep ==
  ASSUME IInv, NEW p \in Req, RevocationThrows(p)
  PROVE  IInv'
<1>1. /\ pc[p] = "revoking"
      /\ revoked(p) \/ UNCHANGED grants
      /\ respond(p, 500, {}) /\ UNCHANGED <<jar, req>>
  BY DEF RevocationThrows
<1>2. /\ grants' \in [Login -> Grant \cup {None}]
      /\ \A t \in Login : grants[t] # None =>
           grants'[t] \in Grant /\ grants'[t].realm = grants[t].realm
  BY <1>1, RevokedStep
<1>3. req' \in [Req -> Request \cup {None}] /\ {} \subseteq SetCookie
  BY <1>1 DEF IInv, TypeOK
<1> QED BY <1>1, <1>2, <1>3, AnswerStep

LEMMA RevocationEndsStep ==
  ASSUME IInv, NEW p \in Req, RevocationEnds(p)
  PROVE  IInv'
<1>1. /\ pc[p] = "revoking"
      /\ revoked(p) \/ UNCHANGED grants
      /\ pc' = [pc EXCEPT ![p] = "clearing"] /\ UNCHANGED <<jar, req, response>>
  BY DEF RevocationEnds
<1>2. /\ grants' \in [Login -> Grant \cup {None}]
      /\ \A t \in Login : grants[t] # None =>
           grants'[t] \in Grant /\ grants'[t].realm = grants[t].realm
      /\ req[p].realm \in Realm
  BY <1>1, RevokedStep
<1>3. TypeOK'
  BY <1>1, <1>2 DEF IInv, TypeOK
<1>4. pc'[p] = "clearing" /\ \A q \in Req \ {p} : pc'[q] = pc[q]
  BY <1>1 DEF IInv, TypeOK
<1>5. RequestInv(p)'
  BY <1>1, <1>2, <1>4 DEF RequestInv
<1> QED BY <1>1, <1>2, <1>3, <1>4, <1>5, HandlerStep

\* The login whose revocation is awaited is one of the request's realm: its
\* refresh token came in that realm's cookie.
LEMMA LogoutRevokesStep ==
  ASSUME IInv, NEW p \in Req, NEW r \in Realm, LogoutRevokes(p, r)
  PROVE  IInv'
<1>1. /\ revocable(r) # None /\ serve(p, "logout", r, revocable(r))
      /\ pc' = [pc EXCEPT ![p] = "revoking"] /\ UNCHANGED <<jar, grants, response>>
  BY DEF LogoutRevokes
<1>2. revocable(r) = jar[refresh(r)] /\ revocable(r) \notin {Empty, None}
  BY <1>1 DEF revocable, get_cookie, refresh
<1>3. revocable(r) \in Login /\ GrantedAt(revocable(r), r)
  BY <1>2, Names DEF IInv, TypeOK, JarInv
<1>t. PICK t \in Login : GrantedAt(t, r) /\ serve(p, "logout", r, t)
  BY <1>1, <1>3
<1>4. /\ req' \in [Req -> Request \cup {None}]
      /\ req'[p] \in Request /\ req'[p].realm = r /\ req'[p].login = t
      /\ \A q \in Req \ {p} : req'[q] = req[q]
  BY <1>t, ServeStep DEF IInv
<1>5. pc'[p] = "revoking" /\ \A q \in Req \ {p} : pc'[q] = pc[q]
  BY <1>1 DEF IInv, TypeOK
<1>6. TypeOK'
  BY <1>1, <1>4 DEF IInv, TypeOK
<1>7. GrantedAt(t, r)'
  BY <1>1, <1>t DEF GrantedAt
<1>8. RequestInv(p)'
  BY <1>4, <1>5, <1>7 DEF RequestInv, GrantedAt
<1>9. \A u \in Login : grants[u] # None =>
        grants'[u] \in Grant /\ grants'[u].realm = grants[u].realm
  BY <1>1, GrantsStay
<1> QED BY <1>1, <1>4, <1>5, <1>6, <1>8, <1>9, HandlerStep

LEMMA EndStep ==
  ASSUME IInv, NEW p \in Req, end(p), UNCHANGED grants,
         jar' \in [Name -> Login \cup {Empty, None}], JarInv'
  PROVE  IInv'
<1>1. /\ pc' = [pc EXCEPT ![p] = "idle"] /\ req' = [req EXCEPT ![p] = None]
      /\ response' = [response EXCEPT ![p] = None]
  BY DEF end
<1>2. TypeOK'
  BY <1>1 DEF IInv, TypeOK
<1>3. RequestInv(p)'
  BY <1>1 DEF IInv, TypeOK, RequestInv
<1>4. ASSUME NEW q \in Req \ {p} PROVE RequestInv(q)'
  <2>1. RequestInv(q) /\ pc'[q] = pc[q] /\ req'[q] = req[q] /\ response'[q] = response[q]
    BY <1>1 DEF IInv, RequestsInv, TypeOK
  <2> QED BY <2>1 DEF RequestInv, Carries, GrantedAt
<1> QED BY <1>2, <1>3, <1>4 DEF IInv, RequestsInv

LEMMA ReceiveStep ==
  ASSUME IInv, NEW p \in Req, Receive(p)
  PROVE  IInv'
<1>1. /\ pc[p] = "answered" /\ jar' = received(response[p].set_cookies)
      /\ end(p) /\ UNCHANGED grants
  BY DEF Receive
<1>2. Carries(response[p].set_cookies)
  BY <1>1 DEF IInv, RequestsInv, RequestInv
<1>3. response[p].set_cookies \subseteq SetCookie
  <2>1. ASSUME NEW r \in Realm, NEW t \in Login, NEW tokens \in Tokens
        PROVE  add_token_cookies(r, t, tokens) \subseteq SetCookie
    BY AddedCookies
  <2>2. ASSUME NEW r \in Realm PROVE clear_token_cookies(r) \subseteq SetCookie
    BY ClearedCookies
  <2> QED BY <1>2, <2>1, <2>2 DEF Carries
<1>4. PICK cookies : cookies = response[p].set_cookies
  OBVIOUS
<1>5. jar' \in [Name -> Login \cup {Empty, None}] /\ JarInv'
  BY <1>1, <1>2, <1>3, <1>4, ReceivedJar
<1> QED BY <1>1, <1>5, EndStep

LEMMA LoseStep ==
  ASSUME IInv, NEW p \in Req, Lose(p)
  PROVE  IInv'
<1>1. end(p) /\ UNCHANGED <<jar, grants>>
  BY DEF Lose
<1>2. jar' \in [Name -> Login \cup {Empty, None}] /\ JarInv'
  BY <1>1 DEF IInv, TypeOK, JarInv, GrantedAt, access, refresh
<1> QED BY <1>1, <1>2, EndStep

LEMMA CookieEndsStep ==
  ASSUME IInv, NEW n \in Name, CookieEnds(n)
  PROVE  IInv'
<1>1. jar' = [jar EXCEPT ![n] = None] /\ UNCHANGED <<grants, pc, req, response>>
  BY DEF CookieEnds
<1>2. TypeOK'
  BY <1>1 DEF IInv, TypeOK
<1>3. None \notin Login
  BY SessionAssumption DEF SessionAssumption
<1>4. \A m \in Name : jar'[m] \in Login => jar'[m] = jar[m]
  BY <1>1, <1>3 DEF IInv, TypeOK
<1>5. JarInv'
  <2> SUFFICES ASSUME NEW r \in Realm
               PROVE  /\ \A m \in {access(r), refresh(r)} :
                           jar'[m] \in Login => GrantedAt(jar[m], r)'
                      /\ jar'[access(r)] \in Login /\ jar'[refresh(r)] \in Login
                           => jar'[access(r)] = jar'[refresh(r)]
    BY DEF JarInv, access, refresh
  <2>1. access(r) \in Name /\ refresh(r) \in Name
    BY Names
  <2> QED BY <1>1, <1>4, <2>1 DEF IInv, JarInv, GrantedAt
<1>6. RequestsInv'
  BY <1>1 DEF IInv, RequestsInv, RequestInv, Carries, GrantedAt
<1> QED BY <1>2, <1>5, <1>6 DEF IInv

-----------------------------------------------------------------------------
LEMMA InitInv == Init => IInv
<1> SUFFICES ASSUME Init PROVE IInv
  OBVIOUS
<1>1. TypeOK
  BY DEF Init, TypeOK
<1>2. ASSUME NEW r \in Realm PROVE jar[access(r)] \notin Login /\ jar[refresh(r)] \notin Login
  BY Names, SessionAssumption DEF Init, SessionAssumption
<1>3. JarInv
  BY <1>2 DEF JarInv
<1>4. RequestsInv
  BY DEF Init, RequestsInv, RequestInv
<1> QED BY <1>1, <1>3, <1>4 DEF IInv

LEMMA NextKeeps == IInv /\ [Next]_vars => IInv'
<1> SUFFICES ASSUME IInv, [Next]_vars PROVE IInv'
  OBVIOUS
<1>1. ASSUME NEW p \in Req, NEW r \in Realm, NEW t \in Login, NEW tokens \in Tokens,
             Callback(p, r, t, tokens)
      PROVE  IInv'
  BY <1>1, CallbackStep
<1>2. ASSUME NEW p \in Req, Logout(p) PROVE IInv'
  BY <1>2, LogoutRefusedStep, LogoutRevokesStep, LogoutAtOnceStep DEF Logout
<1>3. ASSUME NEW p \in Req,
             RevocationEnds(p) \/ RevocationThrows(p) \/ LogoutClears(p)
               \/ Receive(p) \/ Lose(p)
      PROVE  IInv'
  BY <1>3, RevocationEndsStep, RevocationThrowsStep, LogoutClearsStep, ReceiveStep, LoseStep
<1>4. ASSUME NEW n \in Name, CookieEnds(n) PROVE IInv'
  BY <1>4, CookieEndsStep
<1>5. CASE UNCHANGED vars
  BY <1>5 DEF vars, IInv, TypeOK, JarInv, RequestsInv, RequestInv, Carries, GrantedAt,
              access, refresh
<1> QED BY <1>1, <1>2, <1>3, <1>4, <1>5 DEF Next

\* The inductive invariant holds of every behaviour of the browser's requests.
THEOREM Invariance == Spec => []IInv
BY InitInv, NextKeeps, PTL DEF Spec

\* Every variable keeps its type.
THEOREM TypeCorrect == Spec => []TypeOK
<1>1. IInv => TypeOK
  BY DEF IInv
<1> QED BY <1>1, Invariance, PTL

\* A realm's cookies hold that realm's logins, and its logouts revoke no others,
\* in whatever order responses reach the browser.
THEOREM Isolation == Spec => []RealmIsolation
<1>1. IInv => RealmIsolation
  <2> SUFFICES ASSUME IInv PROVE RealmIsolation
    OBVIOUS
  <2>1. ASSUME NEW r \in Realm, NEW n \in {access(r), refresh(r)}, jar[n] \in Login
        PROVE  grants[jar[n]].realm = r
    BY <2>1 DEF IInv, JarInv, GrantedAt
  <2>2. ASSUME NEW p \in Req, pc[p] = "revoking"
        PROVE  grants[req[p].login].realm = req[p].realm
    BY <2>2 DEF IInv, RequestsInv, RequestInv, GrantedAt
  <2> QED BY <2>1, <2>2 DEF RealmIsolation, access, refresh
<1> QED BY <1>1, Invariance, PTL

\* The two cookies of a realm are always of one login.
THEOREM OneLogin == Spec => []SameLogin
<1>1. IInv => SameLogin
  BY DEF IInv, JarInv, SameLogin, access, refresh
<1> QED BY <1>1, Invariance, PTL

-----------------------------------------------------------------------------
\* What a callback's response carries on its way: the cookies of the login and
\* the realm the request was answered for.
CallbackInv(p) ==
  /\ pc[p] \in {"revoking", "clearing"} => req[p].op = "logout"
  /\ pc[p] = "answered" /\ req[p].op = "callback" =>
       \E r \in Realm, t \in Login, tokens \in Tokens :
         /\ req[p].realm = r /\ req[p].login = t
         /\ response[p].set_cookies = add_token_cookies(r, t, tokens)

CallbacksInv == \A p \in Req : CallbackInv(p)

\* The access cookie that came with a login is kept, whatever its lifetime: a
\* lifetime of 0 is not passed on as Max-Age.
LEMMA AccessKept ==
  ASSUME NEW r \in Realm, NEW t \in Login, NEW tokens \in Tokens
  PROVE  received(add_token_cookies(r, t, tokens))[access(r)] = t
<1> DEFINE a == [name |-> access(r), value |-> t,
                 max_age |-> token_cookie_options(tokens.expires_in)]
           b == [name |-> refresh(r), value |-> IF tokens.refresh THEN t ELSE Empty,
                 max_age |-> token_cookie_options(tokens.refresh_expires_in)]
           cookies == add_token_cookies(r, t, tokens)
<1>1. cookies = {a, b}
  BY DEF add_token_cookies, access, refresh
<1>2. a.name = access(r) /\ b.name # access(r) /\ a.value = t
  BY Names
<1>3. a.max_age # 0
  <2>1. tokens.expires_in \in {0, 300}
    BY DEF Tokens
  <2> QED BY <2>1, SessionAssumption DEF SessionAssumption, token_cookie_options
<1> HIDE DEF a, b
<1>4. (CHOOSE c \in {a, b} : c.name = access(r)) = a
  BY <1>2
<1>5. access(r) \in Name /\ \E c \in {a, b} : c.name = access(r)
  BY <1>2, Names
<1>6. received({a, b})[access(r)] = a.value
  BY <1>3, <1>4, <1>5 DEF received
<1> QED BY <1>1, <1>2, <1>6

\* A step of the request p alone.
LEMMA CallbacksKept ==
  ASSUME CallbacksInv, NEW p \in Req, CallbackInv(p)',
         \A q \in Req \ {p} : pc'[q] = pc[q] /\ req'[q] = req[q] /\ response'[q] = response[q]
  PROVE  CallbacksInv'
BY DEF CallbacksInv, CallbackInv

\* A logout that is answered.
LEMMA LogoutAnswered ==
  ASSUME TypeOK, CallbacksInv, NEW p \in Req, NEW status, NEW cookies, respond(p, status, cookies),
         req'[p].op = "logout", \A q \in Req \ {p} : req'[q] = req[q]
  PROVE  CallbacksInv'
<1>1. /\ response' = [response EXCEPT ![p] = [status |-> status, set_cookies |-> cookies]]
      /\ pc' = [pc EXCEPT ![p] = "answered"]
  BY DEF respond
<1>2. pc'[p] = "answered"
  BY <1>1 DEF TypeOK
<1>3. CallbackInv(p)'
  BY <1>2 DEF CallbackInv
<1>4. \A q \in Req \ {p} : pc'[q] = pc[q] /\ response'[q] = response[q]
  BY <1>1 DEF TypeOK
<1> QED BY <1>3, <1>4, CallbacksKept

LEMMA ServedOp ==
  ASSUME TypeOK, NEW p \in Req, NEW op, NEW r, NEW t, serve(p, op, r, t)
  PROVE  /\ req'[p].op = op /\ req'[p].realm = r /\ req'[p].login = t
         /\ \A q \in Req \ {p} : req'[q] = req[q]
BY DEF TypeOK, serve

LEMMA CallbackAnswered ==
  ASSUME TypeOK, CallbacksInv, NEW p \in Req, NEW r \in Realm, NEW t \in Login,
         NEW tokens \in Tokens, Callback(p, r, t, tokens)
  PROVE  CallbacksInv'
<1> DEFINE res == [status |-> 302, set_cookies |-> add_token_cookies(r, t, tokens)]
<1>1. /\ response' = [response EXCEPT ![p] = res] /\ pc' = [pc EXCEPT ![p] = "answered"]
      /\ serve(p, "callback", r, t)
  BY DEF Callback, respond
<1>2. req'[p].realm = r /\ req'[p].login = t /\ \A q \in Req \ {p} : req'[q] = req[q]
  BY <1>1, ServedOp
<1>3. res.set_cookies = add_token_cookies(r, t, tokens)
  OBVIOUS
<1> HIDE DEF res
<1>4. pc'[p] = "answered" /\ response'[p].set_cookies = add_token_cookies(r, t, tokens)
  BY <1>1, <1>3 DEF TypeOK
<1>5. CallbackInv(p)'
  BY <1>2, <1>4 DEF CallbackInv
<1>6. \A q \in Req \ {p} : pc'[q] = pc[q] /\ response'[q] = response[q]
  BY <1>1 DEF TypeOK
<1> QED BY <1>2, <1>5, <1>6, CallbacksKept

LEMMA LogoutKeeps ==
  ASSUME TypeOK, CallbacksInv, NEW p \in Req, Logout(p)
  PROVE  CallbacksInv'
<1>1. ASSUME NEW status \in {400, 404}, LogoutRefused(p, status) PROVE CallbacksInv'
  <2>1. serve(p, "logout", None, None) /\ respond(p, status, {})
    BY <1>1 DEF LogoutRefused
  <2> QED BY <2>1, ServedOp, LogoutAnswered
<1>2. ASSUME NEW r \in Realm, LogoutAtOnce(p, r) PROVE CallbacksInv'
  <2>1. serve(p, "logout", r, None) /\ respond(p, 302, clear_token_cookies(r))
    BY <1>2 DEF LogoutAtOnce
  <2> QED BY <2>1, ServedOp, LogoutAnswered
<1>3. ASSUME NEW r \in Realm, LogoutRevokes(p, r) PROVE CallbacksInv'
  <2>1. /\ serve(p, "logout", r, revocable(r))
        /\ pc' = [pc EXCEPT ![p] = "revoking"] /\ UNCHANGED response
    BY <1>3 DEF LogoutRevokes
  <2>2. req'[p].op = "logout" /\ \A q \in Req \ {p} : req'[q] = req[q]
    BY <2>1, ServedOp
  <2>3. pc'[p] = "revoking" /\ \A q \in Req \ {p} : pc'[q] = pc[q]
    BY <2>1 DEF TypeOK
  <2>4. CallbackInv(p)'
    BY <2>2, <2>3 DEF CallbackInv
  <2> QED BY <2>1, <2>2, <2>3, <2>4, CallbacksKept
<1> QED BY <1>1, <1>2, <1>3 DEF Logout

LEMMA LogoutGoesOn ==
  ASSUME TypeOK, CallbacksInv, NEW p \in Req,
         RevocationEnds(p) \/ RevocationThrows(p) \/ LogoutClears(p)
  PROVE  CallbacksInv'
<1>1. pc[p] \in {"revoking", "clearing"} /\ UNCHANGED req
  BY DEF RevocationEnds, RevocationThrows, LogoutClears
<1>2. req'[p].op = "logout" /\ \A q \in Req \ {p} : req'[q] = req[q]
  BY <1>1 DEF CallbacksInv, CallbackInv
<1>3. CASE RevocationEnds(p)
  <2>1. pc' = [pc EXCEPT ![p] = "clearing"] /\ UNCHANGED response
    BY <1>3 DEF RevocationEnds
  <2>2. pc'[p] = "clearing" /\ \A q \in Req \ {p} : pc'[q] = pc[q]
    BY <2>1 DEF TypeOK
  <2>3. CallbackInv(p)'
    BY <1>2, <2>2 DEF CallbackInv
  <2> QED BY <1>2, <2>1, <2>2, <2>3, CallbacksKept
<1>4. CASE RevocationThrows(p)
  <2>1. respond(p, 500, {})
    BY <1>4 DEF RevocationThrows
  <2> QED BY <1>2, <2>1, LogoutAnswered
<1>5. CASE LogoutClears(p)
  <2>1. respond(p, 302, clear_token_cookies(req[p].realm))
    BY <1>5 DEF LogoutClears
  <2> QED BY <1>2, <2>1, LogoutAnswered
<1> QED BY <1>3, <1>4, <1>5

LEMMA EndKeeps ==
  ASSUME TypeOK, CallbacksInv, NEW p \in Req, Receive(p) \/ Lose(p)
  PROVE  CallbacksInv'
<1>1. /\ pc' = [pc EXCEPT ![p] = "idle"] /\ req' = [req EXCEPT ![p] = None]
      /\ response' = [response EXCEPT ![p] = None]
  BY DEF Receive, Lose, end
<1>2. pc'[p] = "idle"
  BY <1>1 DEF TypeOK
<1>3. CallbackInv(p)'
  BY <1>2 DEF CallbackInv
<1>4. \A q \in Req \ {p} : pc'[q] = pc[q] /\ req'[q] = req[q] /\ response'[q] = response[q]
  BY <1>1 DEF TypeOK
<1> QED BY <1>3, <1>4, CallbacksKept

LEMMA CallbacksStay == TypeOK /\ CallbacksInv /\ [Next]_vars => CallbacksInv'
<1> SUFFICES ASSUME TypeOK, CallbacksInv, [Next]_vars PROVE CallbacksInv'
  OBVIOUS
<1>1. ASSUME NEW p \in Req, NEW r \in Realm, NEW t \in Login, NEW tokens \in Tokens,
             Callback(p, r, t, tokens)
      PROVE  CallbacksInv'
  BY <1>1, CallbackAnswered
<1>2. ASSUME NEW p \in Req, Logout(p) PROVE CallbacksInv'
  BY <1>2, LogoutKeeps
<1>3. ASSUME NEW p \in Req, RevocationEnds(p) \/ RevocationThrows(p) \/ LogoutClears(p)
      PROVE  CallbacksInv'
  BY <1>3, LogoutGoesOn
<1>4. ASSUME NEW p \in Req, Receive(p) \/ Lose(p) PROVE CallbacksInv'
  BY <1>4, EndKeeps
<1>5. ASSUME UNCHANGED <<pc, req, response>> PROVE CallbacksInv'
  BY <1>5 DEF CallbacksInv, CallbackInv
<1>6. ASSUME NEW n \in Name, CookieEnds(n) PROVE CallbacksInv'
  BY <1>5, <1>6 DEF CookieEnds
<1>7. CASE UNCHANGED vars
  BY <1>5, <1>7 DEF vars
<1> QED BY <1>1, <1>2, <1>3, <1>4, <1>6, <1>7 DEF Next

\* A browser that gets the response of a completed callback holds the access
\* token of that login, in the cookie of that login's realm, whichever other
\* responses came before it and whatever lifetimes Keycloak stated.
THEOREM LoginsKept == Spec => LoginKept
<1> DEFINE Step == \A p \in Req :
             Receive(p) /\ req[p].op = "callback" =>
               LET cfg == token_cookie_config_for_realm(req[p].realm)
               IN  jar'[cfg.access_token_name] = req[p].login
<1>1. Init => CallbacksInv
  BY DEF Init, CallbacksInv, CallbackInv
<1>2. CallbacksInv => Step
  <2> SUFFICES ASSUME CallbacksInv, NEW p \in Req, Receive(p), req[p].op = "callback"
               PROVE  jar'[access(req[p].realm)] = req[p].login
    BY DEF access
  <2>1. pc[p] = "answered" /\ jar' = received(response[p].set_cookies)
    BY DEF Receive
  <2>2. PICK r \in Realm, t \in Login, tokens \in Tokens :
          /\ req[p].realm = r /\ req[p].login = t
          /\ response[p].set_cookies = add_token_cookies(r, t, tokens)
    BY <2>1 DEF CallbacksInv, CallbackInv
  <2>3. received(add_token_cookies(r, t, tokens))[access(r)] = t
    BY AccessKept
  <2> QED BY <2>1, <2>2, <2>3
<1> HIDE DEF Step
<1>3. Spec => [][Step]_vars
  BY <1>1, <1>2, CallbacksStay, TypeCorrect, PTL DEF Spec
<1> QED BY <1>3 DEF LoginKept, Step
=============================================================================
