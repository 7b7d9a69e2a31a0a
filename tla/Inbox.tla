-------------------------------- MODULE Inbox --------------------------------
(***************************************************************************)
(* The notices of one account in a browser tab.  They are rows of the      *)
(* database; the tab has them from lists that it fetches, and from what    *)
(* the one process that holds its socket pushes.  Lists and pushes travel  *)
(* apart and overtake each other; sockets are lost, refused and closed,    *)
(* and a push is dropped when the count that goes with it cannot be read.  *)
(* The tab shows only so many.  Of a notice only when it was written is    *)
(* told apart (no two are written at the same time): neither whether it is *)
(* read nor the count beside the bell is modelled.                         *)
(***************************************************************************)
EXTENDS Naturals, Sequences

CONSTANTS
  Notice,
  Socket,      \* connections at a time, old ones that are closing included
  Ask,         \* refreshes at a time
  NoSocket,
  Limit,       \* notices that a list has at most: 20 in the code
  MaxChanges,  \* bound on the writes of notices
  MaxTokens,   \* bound on the access tokens of the tab
  MaxFaults    \* bound on lost sockets and pushes, failed calls and stops of the process

VARIABLES
  current,   \* rows of notifications that the account may see, [notice, asOf]
  version,   \* writes so far, which are what a row is dated by
  pushing,   \* pushes of the process that are yet to be made
  session,   \* whether the tokens of the tab are accepted
  closing,   \* closeUserConnections is yet to be called
  issued, expired,  \* access tokens, numbered in order
  socket,
  tab,
  ask,       \* refreshes under way
  needed, behind,  \* not in the code: see NoticesAreShown
  faults

InboxAssumption == NoSocket \notin Socket /\ Limit \in Nat \ {0}

rows == <<current, version>>
access == <<session, closing, issued, expired>>
shown == <<needed, behind>>
vars == <<rows, pushing, access, socket, tab, ask, shown, faults>>

NoConnection == [stage |-> "none", token |-> 0, mail |-> <<>>]
NoAsk == [at |-> "none", items |-> <<>>, asOf |-> 0]
Sent == [NoAsk EXCEPT !.at = "sent"]
Message(kind, n, v) == [kind |-> kind, notice |-> n, asOf |-> v]
Signal(kind) == Message(kind, {}, 0)

Greater(x, y) == IF x < y THEN y ELSE x
Smaller(x, y) == IF x < y THEN x ELSE y

(* ORDER BY created_at DESC LIMIT.                                         *)
Covers(list, row) ==
  \/ \E i \in DOMAIN list : list[i] = row
  \/ Len(list) = Limit /\ \A i \in DOMAIN list : row.asOf <= list[i].asOf
Newest(list, all) ==
  /\ \A i, j \in DOMAIN list : i < j => list[j].asOf < list[i].asOf
  /\ \A row \in all : Covers(list, row)

(* [row, ...deduped].slice(0, 20): ids differ within a list.               *)
Put(list, row) ==
  LET at == {i \in DOMAIN list : list[i].notice = row.notice}
      moved == IF at = {} THEN Len(list) + 1 ELSE CHOOSE i \in at : TRUE
  IN  [i \in 1..Smaller(Limit, Greater(moved, Len(list))) |->
         IF i = 1 THEN row ELSE IF i <= moved THEN list[i - 1] ELSE list[i]]

(* The page is loaded, perhaps with a session that ended while it was:     *)
(* it fetches the list, and is about to connect.                           *)
Init ==
  /\ current = {} /\ version = 0 /\ pushing = {}
  /\ session \in BOOLEAN /\ closing = FALSE /\ issued = 1 /\ expired = 0
  /\ socket = [k \in Socket |-> NoConnection]
  /\ tab = [token |-> 1, socket |-> NoSocket, list |-> <<>>]
  /\ ask = [a \in Ask |-> IF a = CHOOSE x \in Ask : TRUE THEN Sent ELSE NoAsk]
  /\ needed = 0 /\ behind = FALSE /\ faults = 0

(* ------------------------------------------------------------- the server *)

Registered == {k \in Socket : socket[k].stage \in {"counting", "ready"}}
Closed(c) == [c EXCEPT !.stage = "closed", !.mail = Append(@, Signal("close"))]
Stage(k, from, to) == socket[k].stage = from /\ socket' = [socket EXCEPT ![k].stage = to]
Close(K) == socket' = [k \in Socket |-> IF k \in K THEN Closed(socket[k]) ELSE socket[k]]

Others(n) == {row \in current : row.notice # n}

(* createNotification for an account, or for an audience that has it: the  *)
(* row, and then the push.  A notice that goes to one account may replace  *)
(* an earlier one, and is then dated anew.                                 *)
Write(n, kind) ==
  /\ version < MaxChanges /\ (kind = "created" \/ Others(n) = current)
  /\ version' = version + 1
  /\ current' = Others(n) \union {[notice |-> n, asOf |-> version']}
  /\ pushing' = pushing \union {Message(kind, {n}, version')}
  /\ UNCHANGED <<access, socket, tab, ask, shown, faults>>

(* action "expire".                                                        *)
Expire(n) ==
  /\ Others(n) # current /\ version < MaxChanges
  /\ current' = Others(n) /\ version' = version + 1
  /\ pushing' = pushing \union {Message("audience_changed", {}, version')}
  /\ UNCHANGED <<access, socket, tab, ask, shown, faults>>

(* expires_at is reached: nobody is told.                                  *)
Lapse(n) ==
  /\ Others(n) # current
  /\ current' = Others(n)
  /\ UNCHANGED <<version, pushing, access, socket, tab, ask, shown, faults>>

(* pushNotification and pushAudienceChanged.                               *)
Push(message) ==
  /\ pushing' = pushing \ {message}
  /\ socket' = [k \in Socket |-> IF k \in Registered THEN [socket[k] EXCEPT !.mail = Append(@, message)]
                                 ELSE socket[k]]
  /\ UNCHANGED <<rows, access, tab, ask, shown, faults>>

(* The unread count of the account cannot be read: the error is logged.    *)
DropPush(message) ==
  /\ message.kind = "created" /\ faults < MaxFaults /\ faults' = faults + 1
  /\ pushing' = pushing \ {message}
  /\ behind' = TRUE /\ needed' = Greater(needed, message.asOf)
  /\ UNCHANGED <<rows, access, socket, tab, ask>>

(* The socket is open to the browser before its token is looked at.        *)
Arrive(k) ==
  /\ socket[k].stage = "connecting"
  /\ LET opened == [socket[k] EXCEPT !.stage = "checking", !.mail = <<Signal("open")>>]
     IN  socket' = [socket EXCEPT ![k] = IF socket[k].token <= expired THEN Closed(opened) ELSE opened]
  /\ UNCHANGED <<rows, pushing, access, tab, ask, shown, faults>>

CheckSession(k) ==
  /\ IF session THEN Stage(k, "checking", "checked") ELSE socket[k].stage = "checking" /\ Close({k})
  /\ UNCHANGED <<rows, pushing, access, tab, ask, shown, faults>>

(* registerConnection, in front of the unread count.                       *)
Register(k) ==
  /\ Stage(k, "checked", "counting")
  /\ UNCHANGED <<rows, pushing, access, tab, ask, shown, faults>>

SendBootstrap(k) ==
  /\ socket[k].stage = "counting"
  /\ socket' = [socket EXCEPT ![k].stage = "ready", ![k].mail = Append(@, Signal("bootstrap"))]
  /\ UNCHANGED <<rows, pushing, access, tab, ask, shown, faults>>

(* sessionCheck, every fifteen seconds.                                    *)
SessionCheck(k) ==
  /\ k \in Registered
  /\ ~session \/ socket[k].token <= expired
  /\ Close({k})
  /\ UNCHANGED <<rows, pushing, access, tab, ask, shown, faults>>

(* A password is changed, or the account archived; most ends of a session  *)
(* also close the sockets that are registered by then.                     *)
EndSession ==
  /\ session /\ session' = FALSE /\ closing' \in BOOLEAN
  /\ UNCHANGED <<rows, pushing, issued, expired, socket, tab, ask, shown, faults>>

CloseUserConnections ==
  /\ closing /\ closing' = FALSE
  /\ Close(Registered)
  /\ UNCHANGED <<rows, pushing, session, issued, expired, tab, ask, shown, faults>>

TokenExpires ==
  /\ expired < issued /\ issued < MaxTokens
  /\ expired' = expired + 1
  /\ UNCHANGED <<rows, pushing, session, closing, issued, socket, tab, ask, shown, faults>>

(* Connections are lost with what is on its way; all of them, and the      *)
(* pushes that are yet to be made, when the process stops.                 *)
Lost(K) == socket' = [k \in Socket |-> IF k \in K THEN Closed([socket[k] EXCEPT !.mail = <<>>]) ELSE socket[k]]
Open == {k \in Socket : socket[k].stage \notin {"none", "closed"}}

LoseSocket(k) ==
  /\ faults < MaxFaults /\ faults' = faults + 1
  /\ k \in Open /\ Lost({k})
  /\ UNCHANGED <<rows, pushing, access, tab, ask, shown>>

Stop ==
  /\ faults < MaxFaults /\ faults' = faults + 1
  /\ Open # {} /\ Lost(Open)
  /\ pushing' = {} /\ closing' = FALSE
  /\ UNCHANGED <<rows, session, issued, expired, tab, ask, shown>>

(* ---------------------------------------------------------------- the tab *)

(* connect, at once or when the timer of the last close is up.             *)
Connect(k) ==
  /\ tab.socket = NoSocket /\ tab.token # 0 /\ socket[k] = NoConnection
  /\ socket' = [socket EXCEPT ![k].stage = "connecting", ![k].token = tab.token]
  /\ tab' = [tab EXCEPT !.socket = k]
  /\ UNCHANGED <<rows, pushing, access, ask, shown, faults>>

Refresh(a) == ask[a] = NoAsk /\ ask' = [ask EXCEPT ![a] = Sent]
Read(k) == [socket EXCEPT ![k].mail = Tail(@)]
Heard(k, kind) == tab.socket = k /\ socket[k].mail # <<>> /\ Head(socket[k].mail).kind = kind

(* Mutant: a bootstrap only sets the count.                                *)
OnSignalCounted(k, a, kind) ==
  /\ Heard(k, kind)
  /\ IF kind = "bootstrap" THEN UNCHANGED ask ELSE Refresh(a)
  /\ socket' = Read(k)
  /\ UNCHANGED <<rows, pushing, access, tab, shown, faults>>

(* Mutant: a socket that opens waits for its bootstrap.                    *)
OnSignalPatient(k, a, kind) ==
  /\ Heard(k, kind)
  /\ IF kind = "open" THEN UNCHANGED ask ELSE Refresh(a)
  /\ socket' = Read(k)
  /\ UNCHANGED <<rows, pushing, access, tab, shown, faults>>

(* onopen, and onmessage but for a notice: the list is fetched again.      *)
OnSignal(k, a, kind) ==
  /\ Heard(k, kind) /\ Refresh(a)
  /\ socket' = Read(k)
  /\ UNCHANGED <<rows, pushing, access, tab, shown, faults>>

OnCreated(k) ==
  /\ Heard(k, "created")
  /\ LET message == Head(socket[k].mail)
     IN  /\ \E n \in message.notice : tab' = [tab EXCEPT !.list = Put(@, [notice |-> n, asOf |-> message.asOf])]
         /\ needed' = Greater(needed, message.asOf)
         /\ behind' = (behind \/ message.asOf < needed)
  /\ socket' = Read(k)
  /\ UNCHANGED <<rows, pushing, access, ask, faults>>

OnClose(k) ==
  /\ Heard(k, "close")
  /\ socket' = [socket EXCEPT ![k] = NoConnection]
  /\ tab' = [tab EXCEPT !.socket = NoSocket]
  /\ UNCHANGED <<rows, pushing, access, ask, shown, faults>>

(* The window gets the focus, is shown, or is online again.  (The last     *)
(* refresh that Ask allows is left to messages.)                           *)
Focus(a) ==
  /\ tab.token # 0 /\ Refresh(a)
  /\ \E b \in Ask \ {a} : ask[b] = NoAsk
  /\ UNCHANGED <<rows, pushing, access, socket, tab, shown, faults>>

(* The call is answered with the newest notices as they are.               *)
FetchList(a) ==
  /\ ask[a].at = "sent" /\ session /\ tab.token > expired
  /\ \E m \in 0..Limit : \E list \in [1..m -> current] :
       /\ Newest(list, current)
       /\ ask' = [ask EXCEPT ![a] = [at |-> "answered", items |-> list, asOf |-> version]]
  /\ UNCHANGED <<rows, pushing, access, socket, tab, shown, faults>>

(* The call is refused for its token: the session is renewed.              *)
Renew(a) ==
  /\ ask[a].at = "sent" /\ session /\ tab.token <= expired /\ tab.token # 0
  /\ issued' = issued + 1
  /\ tab' = [tab EXCEPT !.token = issued']
  /\ UNCHANGED <<rows, pushing, session, closing, expired, socket, ask, shown, faults>>

(* There is nothing to renew: the tab signs out and closes its socket.     *)
SignedOut(a) ==
  /\ ask[a].at = "sent" /\ ~session
  /\ ask' = [ask EXCEPT ![a] = NoAsk]
  /\ tab' = [tab EXCEPT !.token = 0, !.socket = NoSocket, !.list = <<>>]
  /\ socket' = [k \in Socket |-> IF k = tab.socket THEN NoConnection ELSE socket[k]]
  /\ UNCHANGED <<rows, pushing, access, shown, faults>>

(* setNotifications, whenever the answer arrives.                          *)
ShowList(a) ==
  /\ ask[a].at = "answered"
  /\ tab' = [tab EXCEPT !.list = ask[a].items]
  /\ needed' = Greater(needed, ask[a].asOf) /\ behind' = (ask[a].asOf < needed)
  /\ ask' = [ask EXCEPT ![a] = NoAsk]
  /\ UNCHANGED <<rows, pushing, access, socket, faults>>

(* "Library updates could not be loaded": the list stays as it is.         *)
AskFails(a) ==
  /\ ask[a] # NoAsk /\ faults < MaxFaults /\ faults' = faults + 1
  /\ ask' = [ask EXCEPT ![a] = NoAsk]
  /\ needed' = version /\ behind' = TRUE
  /\ UNCHANGED <<rows, pushing, access, socket, tab>>

ServerStep(k) == Arrive(k) \/ CheckSession(k) \/ Register(k) \/ SendBootstrap(k)

Receive(k) ==
  \/ OnCreated(k) \/ OnClose(k)
  \/ \E a \in Ask, kind \in {"open", "bootstrap", "audience_changed"} : OnSignal(k, a, kind)

AskStep(a) == FetchList(a) \/ Renew(a) \/ SignedOut(a) \/ ShowList(a)

Next ==
  \/ \E n \in Notice : Expire(n) \/ Lapse(n) \/ \E kind \in {"created", "audience_changed"} : Write(n, kind)
  \/ \E message \in pushing : Push(message) \/ DropPush(message)
  \/ EndSession \/ CloseUserConnections \/ TokenExpires \/ Stop
  \/ \E k \in Socket : ServerStep(k) \/ SessionCheck(k) \/ LoseSocket(k) \/ Connect(k) \/ Receive(k)
  \/ \E a \in Ask : Focus(a) \/ AskStep(a) \/ AskFails(a)

(* The process and the browser go on, the timer of a socket fires, and a   *)
(* tab connects again; nothing is assumed of users and staff.              *)
Fairness ==
  /\ WF_vars(\E k \in Socket : Connect(k))
  /\ \A k \in Socket : WF_vars(ServerStep(k)) /\ WF_vars(SessionCheck(k)) /\ WF_vars(Receive(k))
  /\ \A a \in Ask : WF_vars(AskStep(a))

Spec == Init /\ [][Next]_vars /\ Fairness

(* ------------------------------------------------------------ properties *)

(* Connections, lists and calls keep to the values that the code writes,   *)
(* and only the connection of the tab is anything but closing.             *)
TypeOK ==
  /\ \A row \in current : row.notice \in Notice /\ row.asOf <= version
  /\ Len(tab.list) <= Limit /\ needed <= version /\ expired <= issued
  /\ tab.token <= issued /\ tab.socket \in Socket \union {NoSocket}
  /\ \A k \in Socket : socket[k].stage \notin {"none", "closed"} => tab.socket = k
  /\ \A a \in Ask : ask[a].at \in {"none", "sent", "answered"}

Connected == tab.socket # NoSocket /\ socket[tab.socket].stage = "ready"

(* Nothing is under way that could still bring a notice.                   *)
Quiet ==
  /\ Connected /\ socket[tab.socket].mail = <<>>
  /\ pushing = {} /\ \A a \in Ask : ask[a] = NoAsk

(* A tab that is connected, and waits for nothing, shows every notice of   *)
(* its account, or as many as it has room for and none of them older;      *)
(* whatever was written while it was away, connecting or fetching.  Unless *)
(* it is behind until the next list: its last call failed, a push was      *)
(* dropped, a late list replaced a newer one, or a late push took the      *)
(* place of a newer notice.                                                *)
NoticesAreShown == Quiet => behind \/ \A row \in current : Covers(tab.list, row)

(* The same as a property of steps.                                        *)
NoticesStand == [][NoticesAreShown']_vars

(* A tab whose session goes on is connected again and again, though its    *)
(* token expires and its socket is refused for that or lost; and when the  *)
(* session has ended no socket of it goes on, though it was opened while   *)
(* the session ended.                                                      *)
SocketsFollowSession == []<>(IF session THEN Connected ELSE Registered = {})
===============================================================================
