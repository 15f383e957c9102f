--------------------------- MODULE RefreshClient ----------------------------
(***************************************************************************)
(* One browser that refreshes its session, composed with AuthSession: the  *)
(* calls of its tabs, which share one refresh per tab, and navigations,    *)
(* which the middleware sends through the session route of the web server. *)
(*   packages/api-client/src/client.ts                                     *)
(*   apps/web/src/middleware.ts                                            *)
(*   apps/web/src/app/api/auth/session/route.ts                            *)
(* with the operations that end the session under it:                      *)
(*   apps/api/src/auth/auth.controller.ts                                  *)
(*   apps/api/src/modules/identity/sessions/sessions.service.ts            *)
(*                                                                         *)
(* All of them send the refresh cookie the browser holds at that moment,   *)
(* and its answer replaces the cookie.  The access cookie may expire at    *)
(* any time: a call may be answered 401 at any time.  A request of the     *)
(* server is named after the call or navigation that made it.              *)
(***************************************************************************)
EXTENDS AuthSession

CONSTANTS
    Navigation, \* the requests that are navigations; the others are calls
    Tab,        \* what keeps a refreshInFlight of its own
    TabOf       \* the tab of each call; a navigation is alone in its own

ASSUME TabAssumption ==
    /\ TabOf \in [Request -> Tab]
    /\ None \notin Request
    /\ \A q \in Navigation \cap Request, r \in Request : TabOf[q] = TabOf[r] => q = r

VARIABLES
    call,       \* how far each call or navigation has come
    cookie,     \* the refresh token each of them has sent or been issued
    jar,        \* the refresh token in the browser, None once it is cleared
    inFlight,   \* refreshInFlight of each tab: whose refresh, or None
    leaving,    \* the browser's own logout is on its way
    disturbed   \* history: one of three things has happened:
                \* crossed: two tabs, or a tab and a logout, had requests with
                \*   the cookie in flight at once;
                \* lost: a token was used up or revoked by a request of the
                \*   browser, and the new cookie, or its removal, did not arrive;
                \* ended: a session was revoked in a way that leaves the cookie
                \*   where it is

clientVars == <<call, cookie, jar, inFlight, leaving, disturbed>>
allVars == <<vars, clientVars>>

InTab(q) == {r \in Request : TabOf[r] = TabOf[q]}

(* From the moment the cookie is sent until the answer is processed. *)
Refreshing == {q \in Request : call[q] \in {"refresh", "server", "issued", "refused"}}

(* The server has answered a; nobody waits for it any more if the          *)
(* connection was lost.                                                    *)
Answered(q, a) ==
    call' = [call EXCEPT ![q] = IF @ = "detached" THEN "idle" ELSE a]

-----------------------------------------------------------------------------
(* client.ts: request                                                      *)

SendCall(q) ==
    /\ q \notin Navigation
    /\ call[q] = "idle"
    /\ call' = [call EXCEPT ![q] = "sent"]
    /\ UNCHANGED <<vars, cookie, jar, inFlight, leaving, disturbed>>

(* The call succeeds, or fails with an answer other than 401, or it has    *)
(* been tried twice.                                                       *)
EndCall(q) ==
    /\ call[q] \in {"sent", "retried"}
    /\ call' = [call EXCEPT ![q] = "idle"]
    /\ UNCHANGED <<vars, cookie, jar, inFlight, leaving, disturbed>>

(* Without a cookie there is nothing to refresh.                           *)
StartRefresh(q) ==
    /\ jar # None
    /\ call' = [call EXCEPT ![q] = "refresh"]
    /\ cookie' = [cookie EXCEPT ![q] = jar]
    /\ inFlight' = [inFlight EXCEPT ![TabOf[q]] = q]
    /\ disturbed' = (disturbed \/ leaving \/ ~(Refreshing \subseteq InTab(q)))      \* crossed
    /\ UNCHANGED <<vars, jar, leaving>>

(* Variant with a defect: every call makes a refresh of its own.           *)
Unauthorized_Each(q) ==
    /\ call[q] = "sent"
    /\ StartRefresh(q)

(* 401: performCookieRefresh starts a refresh, or waits for the one in     *)
(* flight.                                                                 *)
Unauthorized(q) ==
    /\ call[q] = "sent"
    /\ IF inFlight[TabOf[q]] = None
       THEN StartRefresh(q)
       ELSE /\ call' = [call EXCEPT ![q] = "waiting"]
            /\ UNCHANGED <<vars, cookie, jar, inFlight, leaving, disturbed>>

(* middleware.ts, session/route.ts: a page is opened without access cookie.*)
Navigate(q) ==
    /\ q \in Navigation
    /\ call[q] = "idle"
    /\ StartRefresh(q)

-----------------------------------------------------------------------------
(* The refresh on the server: the statements of AuthSession.               *)

Receive(q) ==
    /\ call[q] = "refresh"
    /\ RefreshRead(q, cookie[q])
    /\ call' = [call EXCEPT ![q] = "server"]
    /\ UNCHANGED <<cookie, jar, inFlight, leaving, disturbed>>

Claim(q) ==
    /\ RefreshClaim(q)
    /\ UNCHANGED clientVars

Refuse(q) ==
    /\ HandleReuse(q)
    /\ Answered(q, "refused")
    /\ UNCHANGED <<cookie, jar, inFlight, leaving, disturbed>>

Issue(q, t) ==
    /\ InsertToken(q, t)
    /\ Answered(q, "issued")
    /\ cookie' = [cookie EXCEPT ![q] = t]
    /\ UNCHANGED <<jar, inFlight, leaving, disturbed>>

(* The server fails; its answer, if any, is not ok. *)
FailServer(q) ==
    /\ Abandon(q)
    /\ Answered(q, "refused")
    /\ disturbed' = (disturbed \/ req[q].at = "insert")      \* lost
    /\ UNCHANGED <<cookie, jar, inFlight, leaving>>

-----------------------------------------------------------------------------
(* The refresh of q ends: those who waited for it go on as q does.         *)
Settle(q, a) ==
    /\ inFlight' = [inFlight EXCEPT ![TabOf[q]] = None]
    /\ call' = [r \in Request |->
                  IF r = q \/ (r \in InTab(q) /\ call[r] = "waiting")
                  THEN IF r \in Navigation THEN "idle" ELSE a
                  ELSE call[r]]

(* Set-Cookie, and every call of the tab is made once more. *)
ReceiveTokens(q) ==
    /\ call[q] = "issued"
    /\ jar' = cookie[q]
    /\ Settle(q, "retried")
    /\ UNCHANGED <<vars, cookie, leaving, disturbed>>

(* The refresh was refused: the calls fail, and the cookie stays. *)
ReceiveRefusal(q) ==
    /\ call[q] = "refused"
    /\ Settle(q, "idle")
    /\ UNCHANGED <<vars, cookie, jar, leaving, disturbed>>

(* The network fails before the server is reached, while it works, or      *)
(* after it has answered: the calls fail.                                  *)
LoseRefresh(q) ==
    /\ call[q] \in {"refresh", "server", "issued"}
    /\ inFlight' = [inFlight EXCEPT ![TabOf[q]] = None]
    /\ call' = [r \in Request |->
                  CASE r = q                                     -> IF call[q] = "server" THEN "detached" ELSE "idle"
                    [] r \in InTab(q) /\ call[r] = "waiting" -> "idle"
                    [] OTHER                                     -> call[r]]
    /\ disturbed' = (disturbed \/ call[q] # "refresh")      \* lost
    /\ UNCHANGED <<vars, cookie, jar, leaving>>

-----------------------------------------------------------------------------
(* The session ends.                                                       *)

(* logout, logout-all and change-password of this browser revoke its token *)
(* or all tokens of the account; a token that was rotated since it was sent*)
(* is left alone ...                                                       *)
LogOut ==
    /\ jar # None /\ ~leaving
    /\ Logout(jar) \/ LogoutAll \/ UNCHANGED vars
    /\ leaving' = TRUE
    /\ disturbed' = (disturbed \/ Refreshing # {})      \* crossed
    /\ UNCHANGED <<call, cookie, jar, inFlight>>

(* ... and their answer clears the cookies, if it arrives and nothing has  *)
(* failed.                                                                 *)
ReceiveLogout ==
    /\ leaving
    /\ leaving' = FALSE
    /\ \/ jar' = None /\ UNCHANGED disturbed
       \/ disturbed' = (disturbed \/ token[jar] # "live") /\ UNCHANGED jar      \* lost
    /\ UNCHANGED <<vars, call, cookie, inFlight>>

(* A session of the list, or all of them, are revoked: by this browser,    *)
(* whose cookies stay (sessions.controller.ts), by another device or by the*)
(* administrator.                                                          *)
EndSessions ==
    /\ LogoutAll \/ \E t \in Token : Logout(t)
    /\ disturbed' = TRUE      \* ended
    /\ UNCHANGED <<call, cookie, jar, inFlight, leaving>>

-----------------------------------------------------------------------------
(* The browser is logged in with one token. *)
ClientInit ==
    /\ account = [active |-> TRUE, deleted |-> FALSE, failed |-> 0, locked |-> FALSE]
    /\ jar \in Token
    /\ token = [t \in Token |-> IF t = jar THEN "live" ELSE "none"]
    /\ parent = [t \in Token |-> None] /\ since = [t \in Token |-> 0]
    /\ req = [q \in Request |-> Idle]
    /\ epoch = 0 /\ overlapped = {} /\ replayed = {} /\ guesses = 0 /\ excused = FALSE
    /\ call = [q \in Request |-> "idle"]
    /\ cookie = [q \in Request |-> None]
    /\ inFlight = [b \in Tab |-> None]
    /\ leaving = FALSE /\ disturbed = FALSE

Browser(q) ==
    \/ SendCall(q) \/ EndCall(q) \/ Unauthorized(q) \/ Navigate(q)
    \/ ReceiveTokens(q) \/ ReceiveRefusal(q) \/ LoseRefresh(q)

Server(q) ==
    \/ Receive(q) \/ Claim(q) \/ Refuse(q) \/ FailServer(q)
    \/ \E t \in Token : Issue(q, t)

ClientNext == LogOut \/ ReceiveLogout \/ EndSessions \/ \E q \in Request : Browser(q) \/ Server(q)

ClientSpec == ClientInit /\ [][ClientNext]_allVars

-----------------------------------------------------------------------------
ClientTypeOK ==
    /\ TypeOK
    /\ call \in [Request -> {"idle", "sent", "waiting", "retried",
                             "refresh", "server", "detached", "issued", "refused"}]
    /\ cookie \in [Request -> Token \cup {None}]
    /\ jar \in Token \cup {None}
    /\ \A b \in Tab : inFlight[b] \in Refreshing \cup {None}
    /\ leaving \in BOOLEAN /\ disturbed \in BOOLEAN

(* The browser does not end its own sessions by refreshing: the server     *)
(* takes a refresh of it for theft only if two tabs, a tab and a navigation*)
(* or a tab and a logout had requests in flight at once, or an answer was  *)
(* lost, or a session was revoked while the browser kept its cookie; never *)
(* through the calls of one tab, however many are answered 401 while it    *)
(* refreshes (performCookieRefresh), nor after a logout of its own.        *)
OwnReplayExplained == replayed # {} => disturbed
=============================================================================
