------------------------------- MODULE Browser -------------------------------
(* The session of one browser tab: src/frontend/src/utils/AxiosInstance.ts, *)
(* context/AuthContext.tsx, and what the handlers of auth.controller.ts do  *)
(* with the refresh cookie.  Every refresh replaces the cookie's session,   *)
(* so that a cookie presented twice signs the tab out.  Sessions and access *)
(* tokens are numbered as they are handed out, 0 is none.  A step of the    *)
(* tab is one run of its event loop, promise continuations included.        *)
EXTENDS Naturals, FiniteSets

CONSTANTS
  Request,     \* calls that the pages make, each at most once
  Bootstrap,   \* the refresh that a page asks for when it is loaded
  Nobody,
  MaxSession   \* bound on the sessions handed out

VARIABLES
  issued, sessions, expired,     \* the server: given out, not revoked, tokens past their time
  cookie, token,                 \* the browser
  request, refresh,              \* calls and refreshes on their way
  refreshRequest, isRefreshing, failedQueue, cooldown,   \* of AxiosInstance.ts
  visit,                         \* the sign-in or sign-out under way
  ended, disturbed               \* not in the code: see SignInLasts

server == <<issued, sessions, expired>>
browser == <<cookie, token>>
tab == <<refreshRequest, isRefreshing, failedQueue, cooldown>>
history == <<ended, disturbed>>
vars == <<server, browser, request, refresh, tab, visit, history>>

Caller == Request \union {Bootstrap}
Session == 1..MaxSession
BrowserAssumption == MaxSession \in Nat \ {0} /\ Nobody \notin Caller /\ Bootstrap \notin Request
Unsent == [at |-> "unsent", token |-> 0, retried |-> FALSE, on |-> Nobody]
NoRefresh == [at |-> "none", cookie |-> 0, answer |-> "none", session |-> 0]
Asked(c) == [NoRefresh EXCEPT !.at = "asked", !.cookie = c]
NoVisit == [kind |-> "none", at |-> "none", session |-> 0]

TypeOK ==
  /\ issued \in 0..MaxSession /\ expired \in 0..issued
  /\ sessions \subseteq Session /\ ended \subseteq Session
  /\ cookie \in 0..issued /\ token \in 0..issued
  /\ request \in [Request -> [at : {"unsent", "sent", "refused", "waiting", "queued", "settled"},
                              token : 0..issued, retried : BOOLEAN, on : Caller \union {Nobody}]]
  /\ refresh \in [Caller -> [at : {"none", "asked", "answered"}, cookie : 0..issued, session : 0..issued,
                             answer : {"none", "session", "refused", "limited", "lost"}]]
  /\ refreshRequest \in Caller \union {Nobody}
  /\ isRefreshing \in BOOLEAN /\ cooldown \in BOOLEAN /\ disturbed \in BOOLEAN
  /\ failedQueue \subseteq Request
  /\ visit \in [kind : {"none", "login", "logout"}, at : {"none", "asked", "answered"}, session : 0..issued]

(* A page is loaded: with no cookie, with one whose session is still good,  *)
(* or with one whose session has been ended meanwhile.                      *)
Init ==
  /\ issued \in 0..1 /\ expired = issued /\ cookie = issued /\ token = 0
  /\ sessions \in SUBSET (1..issued) /\ ended = (1..issued) \ sessions
  /\ request = [r \in Request |-> Unsent]
  /\ refresh = [k \in Caller |-> IF k = Bootstrap THEN Asked(cookie) ELSE NoRefresh]
  /\ refreshRequest = Bootstrap
  /\ isRefreshing = FALSE /\ failedQueue = {} /\ cooldown = FALSE
  /\ visit = NoVisit /\ disturbed = FALSE

Sent(q, t) == [q EXCEPT !.at = "sent", !.token = t, !.on = Nobody]
Settled == [Unsent EXCEPT !.at = "settled"]

(* A page makes a call, with the token of the moment or without.            *)
Send(r) ==
  /\ request[r].at = "unsent"
  /\ request' = [request EXCEPT ![r] = Sent(@, token)]
  /\ UNCHANGED <<server, browser, refresh, tab, visit, history>>

(* The server checks the token of a call; when it accepts it, the answer    *)
(* changes nothing of the session.                                          *)
Check(r) ==
  /\ request[r].at = "sent"
  /\ request' = [request EXCEPT ![r] = IF @.token > expired THEN Settled ELSE [@ EXCEPT !.at = "refused", !.token = 0]]
  /\ UNCHANGED <<server, browser, refresh, tab, visit, history>>

(* Mutant: every caller starts a refresh.                                   *)
OwnRefresh(r) == r

(* Whose refresh a caller waits for: the one under way, else its own.       *)
SharedRefresh(r) == IF refreshRequest # Nobody THEN refreshRequest ELSE r

(* A 401 arrives: a call that was tried again gives up, one that finds a    *)
(* refresh under way queues behind it, the others await a refresh, unless   *)
(* the server has asked for a pause.                                        *)
Refused(r) ==
  /\ request[r].at = "refused"
  /\ \/ /\ request[r].retried
        /\ request' = [request EXCEPT ![r] = Settled]
        /\ UNCHANGED <<refresh, tab, disturbed>>
     \/ /\ ~request[r].retried /\ isRefreshing
        /\ request' = [request EXCEPT ![r].at = "queued"]
        /\ failedQueue' = failedQueue \union {r}
        /\ UNCHANGED <<refresh, refreshRequest, isRefreshing, cooldown, disturbed>>
     \/ /\ ~request[r].retried /\ ~isRefreshing /\ cooldown
        /\ request' = [request EXCEPT ![r] = Settled]
        /\ UNCHANGED <<refresh, tab, disturbed>>
     \/ /\ ~request[r].retried /\ ~isRefreshing /\ ~cooldown
        /\ LET k == SharedRefresh(r)
           IN  /\ request' = [request EXCEPT ![r].at = "waiting", ![r].retried = TRUE, ![r].on = k]
               /\ refresh' = IF k = r THEN [refresh EXCEPT ![r] = Asked(cookie)] ELSE refresh
               /\ refreshRequest' = k
               /\ disturbed' = (disturbed \/ (k = r /\ visit # NoVisit))
        /\ isRefreshing' = TRUE /\ UNCHANGED <<failedQueue, cooldown>>
  /\ UNCHANGED <<server, browser, visit, ended>>

(* handleRefresh.  A session that is not revoked is replaced; any error,    *)
(* also one after the replacement, answers 401 and clears the cookie; the   *)
(* limiter answers 429; and the call or its answer may be lost.             *)
Refresh(k) ==
  LET m == refresh[k]
      Answer(a, n) == refresh' = [refresh EXCEPT ![k].at = "answered", ![k].answer = a, ![k].session = n]
      Rotate == /\ m.cookie \in sessions /\ issued < MaxSession
                /\ issued' = issued + 1
                /\ sessions' = (sessions \ {m.cookie}) \union {issued + 1}
  IN  /\ m.at = "asked"
      /\ \/ Rotate /\ Answer("session", issued + 1) /\ UNCHANGED disturbed
         \/ Rotate /\ (\E a \in {"refused", "lost"} : Answer(a, 0)) /\ disturbed' = TRUE
         \/ m.cookie \notin sessions /\ Answer("refused", 0) /\ UNCHANGED <<issued, sessions, disturbed>>
         \/ Answer("limited", 0) /\ UNCHANGED <<issued, sessions, disturbed>>
         \/ (\E a \in {"refused", "lost"} : Answer(a, 0)) /\ disturbed' = TRUE /\ UNCHANGED <<issued, sessions>>
      /\ UNCHANGED <<expired, browser, request, tab, visit, ended>>

Waiting(k) == {r \in Request : request[r].at = "waiting" /\ request[r].on = k}

(* Mutant: a refresh that fails leaves the queue alone.                     *)
ReleasedOnSuccess(k) ==
  IF Waiting(k) # {} /\ refresh[k].answer = "session" THEN Waiting(k) \union failedQueue ELSE Waiting(k)

(* The calls that go on when the refresh that k started is answered: those  *)
(* that wait for it, and with them all that are queued.                     *)
Released(k) == IF Waiting(k) = {} THEN {} ELSE Waiting(k) \union failedQueue

(* The answer arrives: the token is taken and the calls sent again, or they *)
(* fail; only a 429 leaves the tab signed in.                               *)
RefreshArrives(k) ==
  LET m == refresh[k]
      calls == Released(k)
  IN  /\ m.at = "answered"
      /\ refresh' = [refresh EXCEPT ![k] = NoRefresh]
      /\ refreshRequest' = Nobody
      /\ failedQueue' = failedQueue \ calls
      /\ isRefreshing' = (isRefreshing /\ Waiting(k) = {})
      /\ cooldown' = CASE m.answer = "limited" -> TRUE [] m.answer = "session" -> FALSE [] OTHER -> cooldown
      /\ request' = [r \in Request |->
                       CASE r \notin calls -> request[r]
                         [] m.answer = "session" -> Sent(request[r], m.session)
                         [] OTHER -> Settled]
      /\ token' = CASE m.answer = "session" -> m.session [] m.answer = "limited" -> token [] OTHER -> 0
      /\ cookie' = CASE m.answer = "session" -> m.session [] m.answer = "refused" -> 0 [] OTHER -> cookie
      /\ UNCHANGED <<server, visit, history>>

CooldownEnds ==
  /\ cooldown /\ cooldown' = FALSE
  /\ UNCHANGED <<server, browser, request, refresh, refreshRequest, isRefreshing, failedQueue, visit, history>>

RefreshUnderWay == \E k \in Caller : refresh[k].at # "none"

(* The user signs in, or out.  What a refresh that is under way does then   *)
(* is another matter: its answer may undo either (see the README).          *)
Login ==
  /\ token = 0 /\ visit = NoVisit
  /\ visit' = [kind |-> "login", at |-> "asked", session |-> 0]
  /\ disturbed' = (disturbed \/ RefreshUnderWay)
  /\ UNCHANGED <<server, browser, request, refresh, tab, ended>>

Logout ==
  /\ token # 0 /\ visit = NoVisit
  /\ visit' = [kind |-> "logout", at |-> "asked", session |-> cookie]
  /\ disturbed' = (disturbed \/ RefreshUnderWay)
  /\ UNCHANGED <<server, browser, request, refresh, tab, ended>>

(* handleLogin makes a session, handleLogout revokes that of the cookie.    *)
Visit ==
  /\ visit.at = "asked"
  /\ \/ /\ visit.kind = "login" /\ issued < MaxSession
        /\ issued' = issued + 1 /\ sessions' = sessions \union {issued + 1}
        /\ visit' = [visit EXCEPT !.at = "answered", !.session = issued + 1]
        /\ UNCHANGED ended
     \/ /\ visit.kind = "logout"
        /\ sessions' = sessions \ {visit.session} /\ ended' = ended \union ({visit.session} \ {0})
        /\ visit' = [visit EXCEPT !.at = "answered"]
        /\ UNCHANGED issued
  /\ UNCHANGED <<expired, browser, request, refresh, tab, disturbed>>

VisitArrives ==
  /\ visit.at = "answered"
  /\ \/ visit.kind = "login" /\ cookie' = visit.session /\ token' = visit.session
     \/ visit.kind = "logout" /\ cookie' = 0 /\ token' = 0
  /\ visit' = NoVisit
  /\ UNCHANGED <<server, request, refresh, tab, history>>

(* A sign-in is refused, or its call or answer is lost; a sign-out that is  *)
(* lost clears the tab all the same.                                        *)
VisitFails ==
  /\ visit # NoVisit /\ visit' = NoVisit
  /\ token' = IF visit.kind = "logout" THEN 0 ELSE token
  /\ UNCHANGED <<server, cookie, request, refresh, tab, history>>

(* Access tokens outlive their quarter of an hour in the order of issue.    *)
TokensExpire ==
  /\ expired < issued /\ expired' = expired + 1
  /\ UNCHANGED <<issued, sessions, browser, request, refresh, tab, visit, history>>

(* The account is archived, or its password set, somewhere else.            *)
Revoke ==
  /\ sessions # {}
  /\ sessions' = {} /\ ended' = ended \union sessions /\ expired' = issued
  /\ UNCHANGED <<issued, browser, request, refresh, tab, visit, disturbed>>

CallStep(r) == Check(r) \/ Refused(r)
RefreshStep(k) == Refresh(k) \/ RefreshArrives(k)

Next ==
  \/ \E r \in Request : Send(r) \/ CallStep(r)
  \/ \E k \in Caller : RefreshStep(k)
  \/ CooldownEnds \/ Login \/ Logout \/ Visit \/ VisitArrives \/ VisitFails
  \/ TokensExpire \/ Revoke

(* A call is answered, or fails, in the end: the browser gives up on a      *)
(* connection that is lost, and that settles the promise.                   *)
Fairness ==
  /\ \A r \in Request : WF_vars(CallStep(r))
  /\ \A k \in Caller : WF_vars(RefreshStep(k))

Spec == Init /\ [][Next]_vars /\ Fairness

(* A tab that nobody signs out stays signed in while its session lasts:     *)
(* calls that are refused together, late, or while the page is loading      *)
(* never present one cookie twice.  (Disturbed are tabs that lost the       *)
(* answer to a refresh, or whose user signed in or out during one.)         *)
SignInLasts ==
  [][token # 0 /\ token' = 0 /\ ~disturbed /\ visit.kind # "logout" => cookie \in ended]_vars

(* Every call of a page is settled, whatever becomes of the refreshes.      *)
RequestsSettle == \A r \in Request : request[r].at = "sent" ~> request[r].at = "settled"
===============================================================================
