------------------------------- MODULE MCUpkeep -------------------------------
(* Undertakings that others wait for, in scenes that share no state: a     *)
(* restore with two servers and one change, or with one server and two     *)
(* changes at one time or one while time passes; a browser tab that renews *)
(* its session; the sockets of a tab, while no notice is written; and the  *)
(* details of a book, with a backfill and a refresh or with two backfills. *)
(* The components of other scenes rest.                                    *)
EXTENDS Restore

CONSTANTS
  p1, p2, c1, c2,                                     \* servers and changes
  Call, Bootstrap, MaxSession,                        \* a browser tab
  Notice, Socket, Ask, NoSocket, Limit, MaxChanges, MaxTokens, MaxMishaps,  \* sockets of a tab
  Book, Queued, Edit, MaxRuns                        \* details of a book

VARIABLES
  scene,
  issued, sessions, expired, cookie, token, call, refresh, refreshRequest, isRefreshing, failedQueue,
  cooldown, visit, ended, disturbed,
  current, version, pushing, session, closing, minted, outdated, socket, page, ask, needed, behind,
  mishaps,
  details, embedding, job, backfill, run, log

tab == <<issued, sessions, expired, cookie, token, call, refresh, refreshRequest, isRefreshing, failedQueue,
         cooldown, visit, ended, disturbed>>
inbox == <<current, version, pushing, session, closing, minted, outdated, socket, page, ask, needed, behind,
           mishaps>>
bookDetails == <<details, embedding, job, backfill, run, log>>
all == <<scene, vars, tab, inbox, bookDetails>>

B == INSTANCE Browser WITH Request <- Call, request <- call
I == INSTANCE Inbox WITH issued <- minted, expired <- outdated, tab <- page, faults <- mishaps,
                         MaxFaults <- MaxMishaps
E == INSTANCE Enrichment WITH active <- backfill

ASSUME UpkeepAssumption == B!BrowserAssumption /\ I!InboxAssumption /\ E!EnrichmentAssumption

Reading == scene = "sockets"
Restoring == scene \in {"two servers", "one server"}

Plays ==
  /\ scene = "two servers" => request[c2] = NoRequest /\ now = 0
  /\ scene = "one server" => server[p2] = "up" /\ restore[p2] = NoRestore /\ lock[1] # p2 /\ faults = 0
                              /\ (now > 0 \/ request[c1] = NoRequest => request[c2] = NoRequest)
  /\ scene = "sockets" => version = 0
  /\ scene = "details" /\ run[2] # E!NoRun => \A q \in Queued : job[q] = E!NoJob

UpkeepInit ==
  /\ scene \in {"two servers", "one server", "tab", "sockets", "details"}
  /\ Init /\ B!Init /\ I!Init /\ E!Init
  /\ scene # "tab" => issued = 0
  /\ ~Reading => ~session
  /\ Plays

UpkeepNext ==
  /\ UNCHANGED scene
  /\ \/ Restoring /\ Next /\ Plays' /\ UNCHANGED <<tab, inbox, bookDetails>>
     \/ scene = "tab" /\ B!Next /\ UNCHANGED <<vars, inbox, bookDetails>>
     \/ Reading /\ I!Next /\ Plays' /\ UNCHANGED <<vars, tab, bookDetails>>
     \/ scene = "details" /\ E!Next /\ Plays' /\ UNCHANGED <<vars, tab, inbox>>

UpkeepSpec ==
  /\ UpkeepInit /\ [][UpkeepNext]_all
  /\ \A p \in Server :
       /\ WF_vars(Restoring /\ RestoreStep(p))
       /\ WF_vars(Restoring /\ Start(p))
       /\ WF_vars(Restoring /\ (scene = "one server" => p = p1) /\ RecoveryStep(p))
  /\ \A r \in Call : WF_tab(scene = "tab" /\ B!CallStep(r))
  /\ \A k \in Call \union {Bootstrap} : WF_tab(scene = "tab" /\ B!RefreshStep(k))
  /\ WF_inbox(Reading /\ \E k \in Socket : I!Connect(k))
  /\ \A k \in Socket :
       /\ WF_inbox(Reading /\ I!ServerStep(k))
       /\ WF_inbox(Reading /\ I!SessionCheck(k))
       /\ WF_inbox(Reading /\ I!Receive(k))
  /\ \A a \in Ask : WF_inbox(Reading /\ I!AskStep(a))
  /\ E!Fairness

(* The variables of all keep to the values that the code writes.           *)
TypesOK == TypeOK /\ B!TypeOK /\ I!TypeOK /\ E!TypeOK

(* A tab that nobody signs out stays signed in while its session lasts.    *)
SignInLasts == B!SignInLasts

(* Details that staff wrote outlast every lookup that was under way.       *)
ManualDetailsStand == E!ManualDetailsStand

(* A backfill is said to be running exactly while one is.                  *)
ProgressIsTrue == E!ProgressIsTrue

(* What holds others up comes to an end: the maintenance of a restore, the *)
(* calls of a page that wait for a refresh, the connecting of a tab, a     *)
(* socket whose session has ended, and a backfill.                         *)
UndertakingsEnd == MaintenanceEnds /\ B!RequestsSettle /\ I!SocketsFollowSession /\ E!BackfillEnds
===============================================================================
