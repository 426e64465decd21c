------------------------------- MODULE Session -------------------------------
(***************************************************************************)
(* The cookie session of one browser: AuthHandler::callback sets a realm's *)
(* two token cookies, AuthHandler::logout revokes the refresh token in the *)
(* request's cookies and expires both.  Requests of several tabs are in    *)
(* flight together and their responses arrive in any order, or never.      *)
(*                                                                         *)
(* A login stands for its access token and its refresh token.  Keycloak,   *)
(* the HTTP client and the browser's cookie jar are external.  How a       *)
(* callback gets its tokens is LoginFlow.                                  *)
(***************************************************************************)
EXTENDS Naturals

CONSTANTS
  Req,             \* requests of the browser in flight together
  Realm,           \* realms the service is configured with
  Login,           \* logins Keycloak can grant
  RevokeOnLogout,  \* revoke_refresh_token_on_logout
  Empty,           \* the value of a cookie that was set to ""
  None

ASSUME SessionAssumption ==
  /\ RevokeOnLogout \in BOOLEAN
  /\ Empty # None /\ None # 0
  /\ {Empty, None} \cap (Realm \cup Login) = {}

VARIABLES
  jar,      \* the browser's cookies
  grants,   \* Keycloak: the realm of each login, and whether it is live
  pc,       \* where the handler of each request is
  req,      \* the realm of the request and, of a logout, the login it revokes
  response  \* the response, until the browser has it

vars == <<jar, grants, pc, req, response>>

TokenName == [base: {"access_token", "refresh_token"}, realm: Realm]
Name == [base: {"access_token", "refresh_token"}, realm: Realm \cup {None}]
SetCookie == [name: TokenName, value: Login \cup {Empty}, max_age: {0, 300, None}]
Response == [status: {302, 400, 404, 500}, set_cookies: SUBSET SetCookie]
Grant == [realm: Realm, live: BOOLEAN]
Request == [op: {"callback", "logout"}, realm: Realm \cup {None}, login: Login \cup {None}]

ASSUME RecordAssumption == None \notin Grant

TypeOK ==
  /\ jar \in [Name -> Login \cup {Empty, None}]
  /\ grants \in [Login -> Grant \cup {None}]
  /\ pc \in [Req -> {"idle", "revoking", "clearing", "answered"}]
  /\ req \in [Req -> Request \cup {None}]
  /\ response \in [Req -> Response \cup {None}]

Init ==
  /\ jar = [n \in Name |-> None]
  /\ grants = [t \in Login |-> None]
  /\ pc = [p \in Req |-> "idle"]
  /\ req = [p \in Req |-> None]
  /\ response = [p \in Req |-> None]

-----------------------------------------------------------------------------
\* Seeded faults (see "mutants" in PROJECT.json).
token_cookie_config_shared(r) ==
  [access_token_name |-> [base |-> "access_token", realm |-> None],
   refresh_token_name |-> [base |-> "refresh_token", realm |-> None]]
token_cookie_options_raw(seconds) == seconds

-----------------------------------------------------------------------------
\* token_cookie_config_for_realm: the configured names get the realm's suffix.
token_cookie_config_for_realm(r) ==
  [access_token_name |-> [base |-> "access_token", realm |-> r],
   refresh_token_name |-> [base |-> "refresh_token", realm |-> r]]

\* token_cookie_options: a token without a lifetime becomes a session cookie.
token_cookie_options(seconds) == IF seconds > 0 THEN seconds ELSE None

\* Seeded fault: no cookie is sent for a missing refresh token.
add_token_cookies_if_any(r, t, tokens) ==
  LET cfg == token_cookie_config_for_realm(r) IN
  {[name |-> cfg.access_token_name, value |-> t,
    max_age |-> token_cookie_options(tokens.expires_in)]} \cup
  {[name |-> cfg.refresh_token_name, value |-> t,
    max_age |-> token_cookie_options(tokens.refresh_expires_in)]
     : x \in {y \in {1} : tokens.refresh}}

\* add_token_cookies: a refresh token the response did not have is set to "".
add_token_cookies(r, t, tokens) ==
  LET cfg == token_cookie_config_for_realm(r) IN
  {[name |-> cfg.access_token_name, value |-> t,
    max_age |-> token_cookie_options(tokens.expires_in)],
   [name |-> cfg.refresh_token_name, value |-> IF tokens.refresh THEN t ELSE Empty,
    max_age |-> token_cookie_options(tokens.refresh_expires_in)]}

\* clear_token_cookies, make_expired_cookie
clear_token_cookies(r) ==
  LET cfg == token_cookie_config_for_realm(r) IN
  {[name |-> n, value |-> Empty, max_age |-> 0] :
     n \in {cfg.access_token_name, cfg.refresh_token_name}}

\* get_cookie
get_cookie(cookies, name) == cookies[name]

\* The login whose refresh token a logout of r has to revoke.
revocable(r) ==
  LET cookie == get_cookie(jar, token_cookie_config_for_realm(r).refresh_token_name)
  IN  IF RevokeOnLogout /\ cookie \notin {Empty, None} THEN cookie ELSE None

respond(p, status, cookies) ==
  /\ response' = [response EXCEPT ![p] = [status |-> status, set_cookies |-> cookies]]
  /\ pc' = [pc EXCEPT ![p] = "answered"]

serve(p, op, r, t) ==
  req' = [req EXCEPT ![p] = [op |-> op, realm |-> r, login |-> t]]

-----------------------------------------------------------------------------
\* What a successful token response has: maybe a refresh token, and lifetimes
\* that are 0 where the response did not state them.
Tokens == [refresh: BOOLEAN, expires_in: {0, 300}, refresh_expires_in: {0, 300}]

\* AuthHandler::callback, completed: Keycloak granted the login t.
Callback(p, r, t, tokens) ==
  /\ pc[p] = "idle"
  /\ grants[t] = None
  /\ grants' = [grants EXCEPT ![t] = [realm |-> r, live |-> TRUE]]
  /\ serve(p, "callback", r, t)
  /\ respond(p, 302, add_token_cookies(r, t, tokens))
  /\ UNCHANGED jar

\* AuthHandler::logout without a realm, or for one that is not configured.
LogoutRefused(p, status) ==
  /\ pc[p] = "idle"
  /\ serve(p, "logout", None, None)
  /\ respond(p, status, {})
  /\ UNCHANGED <<jar, grants>>

\* The revocation is awaited when the request has a refresh token.
LogoutRevokes(p, r) ==
  /\ pc[p] = "idle"
  /\ revocable(r) # None
  /\ serve(p, "logout", r, revocable(r))
  /\ pc' = [pc EXCEPT ![p] = "revoking"]
  /\ UNCHANGED <<jar, grants, response>>

LogoutAtOnce(p, r) ==
  /\ pc[p] = "idle"
  /\ revocable(r) = None
  /\ serve(p, "logout", r, None)
  /\ respond(p, 302, clear_token_cookies(r))
  /\ UNCHANGED <<jar, grants>>

\* The revocation endpoint of the request's realm ends the login, if it is one
\* of that realm.
revoked(p) ==
  LET t == req[p].login IN
  IF grants[t].realm = req[p].realm
    THEN grants' = [grants EXCEPT ![t].live = FALSE]
    ELSE UNCHANGED grants

\* revoke_token returns: its result, good or bad, is dropped.
RevocationEnds(p) ==
  /\ pc[p] = "revoking"
  /\ revoked(p) \/ UNCHANGED grants
  /\ pc' = [pc EXCEPT ![p] = "clearing"]
  /\ UNCHANGED <<jar, req, response>>

LogoutClears(p) ==
  /\ pc[p] = "clearing"
  /\ respond(p, 302, clear_token_cookies(req[p].realm))
  /\ UNCHANGED <<jar, grants, req>>

\* The HTTP client throws: the handler ends where it awaited revoke_token.
RevocationThrows(p) ==
  /\ pc[p] = "revoking"
  /\ revoked(p) \/ UNCHANGED grants
  /\ respond(p, 500, {})
  /\ UNCHANGED <<jar, req>>

-----------------------------------------------------------------------------
\* The browser (external).

received(cookies) ==
  [n \in Name |->
     IF \E c \in cookies : c.name = n
       THEN LET c == CHOOSE c \in cookies : c.name = n
            IN  IF c.max_age = 0 THEN None ELSE c.value
       ELSE jar[n]]

end(p) == /\ pc' = [pc EXCEPT ![p] = "idle"]
          /\ req' = [req EXCEPT ![p] = None]
          /\ response' = [response EXCEPT ![p] = None]

\* A response arrives, or is lost.
Receive(p) ==
  /\ pc[p] = "answered"
  /\ jar' = received(response[p].set_cookies)
  /\ end(p)
  /\ UNCHANGED grants

Lose(p) ==
  /\ pc[p] = "answered"
  /\ end(p)
  /\ UNCHANGED <<jar, grants>>

\* A cookie reaches its Max-Age, or the end of the browser's session.
CookieEnds(n) ==
  /\ jar[n] # None
  /\ jar' = [jar EXCEPT ![n] = None]
  /\ UNCHANGED <<grants, pc, req, response>>

Logout(p) ==
  \/ \E status \in {400, 404} : LogoutRefused(p, status)
  \/ \E r \in Realm : LogoutRevokes(p, r) \/ LogoutAtOnce(p, r)

Next ==
  \/ \E p \in Req :
       \/ \E r \in Realm, t \in Login, tokens \in Tokens : Callback(p, r, t, tokens)
       \/ Logout(p)
       \/ RevocationEnds(p) \/ RevocationThrows(p) \/ LogoutClears(p)
       \/ Receive(p) \/ Lose(p)
  \/ \E n \in Name : CookieEnds(n)

Spec == Init /\ [][Next]_vars

-----------------------------------------------------------------------------
\* The cookies of a realm hold logins of that realm, and a logout revokes only
\* those, whatever the order in which responses for several realms arrive
\* (docs/architecture.md: "Cookie names are also realm-scoped").
RealmIsolation ==
  /\ \A r \in Realm :
       LET cfg == token_cookie_config_for_realm(r) IN
       \A n \in {cfg.access_token_name, cfg.refresh_token_name} :
         jar[n] \in Login => grants[jar[n]].realm = r
  /\ \A p \in Req : pc[p] = "revoking" => grants[req[p].login].realm = req[p].realm

\* The two cookies of a realm never mix two logins: a refresh token that the
\* browser holds beside an access token was issued with it.
SameLogin ==
  \A r \in Realm :
    LET cfg == token_cookie_config_for_realm(r) IN
    jar[cfg.access_token_name] \in Login /\ jar[cfg.refresh_token_name] \in Login
      => jar[cfg.access_token_name] = jar[cfg.refresh_token_name]

\* A browser that gets the response of a login holds that login, also when
\* Keycloak stated no lifetime for its tokens.
LoginKept ==
  [][\A p \in Req :
       Receive(p) /\ req[p].op = "callback" =>
         LET cfg == token_cookie_config_for_realm(req[p].realm)
         IN  jar'[cfg.access_token_name] = req[p].login]_vars

\* What docs/security.md says of a logout of a configured realm: it "expires
\* both token cookies", and "Revocation failures are intentionally not surfaced
\* to the browser logout flow".
LogoutExpiresCookies ==
  \A p \in Req :
    pc[p] = "answered" /\ req[p].op = "logout" /\ req[p].realm # None =>
      /\ response[p].status = 302
      /\ clear_token_cookies(req[p].realm) \subseteq response[p].set_cookies
=============================================================================
