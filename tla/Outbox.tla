-------------------------------- MODULE Outbox --------------------------------
(***************************************************************************)
(* The delivery outbox and the notices it creates: transactions leave      *)
(* events in delivery_outbox, and the server processes drain it.           *)
(*                                                                         *)
(* A step of a process is one statement or one transaction.  A process may *)
(* stop between any two of them, and a statement may fail; both are counted *)
(* against MaxFaults.  A process may also be slow for as long as it takes  *)
(* its lock on a row to go stale.  Times are ticks that remain, or ticks   *)
(* that passed up to the point from which nothing changes any more.        *)
(***************************************************************************)
EXTENDS Integers, Sequences, FiniteSets

CONSTANTS
  Event,        \* identifiers of delivery_outbox rows
  Kinds,        \* [Event -> SUBSET EventKinds]: what it may be
  MessageOf,    \* [Event -> Event \cup {None}]: the email of a notice
  Worker,       \* server processes
  None,
  BatchLimit,   \* the LIMIT of claimBatch
  StaleAfter,   \* INTERVAL 5 MINUTE
  FirstDelay,   \* the 5 seconds of releaseForRetry
  Doublings,    \* its exponent 9
  MaxDelay,     \* its 3600 seconds
  Scheduled,    \* ticks by which a scheduled notice is put off
  MaxFaults,    \* bound on stops and failed statements
  Administered  \* the notices an administrator acts upon

EventKinds == {"manual", "notice", "reminder", "audit", "email"}

ASSUME EventAssumption ==
  /\ None \notin Event /\ Kinds \in [Event -> SUBSET EventKinds]
  /\ MessageOf \in [Event -> Event \union {None}]
  /\ \A e \in Event : MessageOf[e] # None => "email" \in Kinds[MessageOf[e]]
  /\ Administered \subseteq Event
ASSUME OutboxBounds ==
  /\ BatchLimit \in Nat \ {0} /\ StaleAfter \in Nat /\ FirstDelay \in Nat \ {0}
  /\ Doublings \in Nat /\ MaxDelay \in Nat \ {0} /\ Scheduled \in 0..MaxDelay /\ MaxFaults \in Nat

VARIABLES
  outbox,     \* the delivery_outbox table
  order,      \* its rows in the order of created_at, id
  cancelled,  \* the rows whose payload has cancelledAt
  keyed,      \* delivery keys and event keys of the rows created for events
  reminders,  \* delivery keys of the overdue notices of one loan, by row
  effects,    \* not in the code: how often each event was written; 2 is more than once
  worker,     \* what each process is doing
  faults      \* not in the code: faults so far

vars == <<outbox, order, cancelled, keyed, reminders, effects, worker, faults>>

(* ------------------------------------------------------------- the table *)

Unlocked == -1
Stale == StaleAfter + 1

Absent == [kind |-> "none", status |-> "absent", wait |-> 0, lock |-> Unlocked,
           attempts |-> 0, failed |-> FALSE]
Arriving(kind, delay) == [Absent EXCEPT !.kind = kind, !.status = "pending", !.wait = delay]

Kind(e) == outbox[e].kind
Pending(e) == outbox[e].status = "pending"
Notices == {e \in Event : Kind(e) \in {"manual", "notice", "reminder"}}

(* Mutant: a lock that a stopped process left never goes stale.            *)
ClaimableUnlocked(e) == Pending(e) /\ outbox[e].wait = 0 /\ outbox[e].lock = Unlocked

(* claimBatch takes a row that is due and that no process locked recently. *)
Claimable(e) ==
  /\ Pending(e) /\ outbox[e].wait = 0
  /\ outbox[e].lock \in {Unlocked, Stale}

Smaller(a, b) == IF a < b THEN a ELSE b

(* Mutant: the delay is not capped.                                        *)
BackoffUncapped(attempts) == FirstDelay * 2 ^ Smaller(attempts - 1, Doublings)

(* The delay of releaseForRetry.                                           *)
Backoff(attempts) == Smaller(MaxDelay, FirstDelay * 2 ^ Smaller(attempts - 1, Doublings))

(* Further attempts do not change the delay.                               *)
Attempted(attempts) == Smaller(attempts + 1, Doublings + 1)

(* A batch holds its rows with the attempts that claimBatch counted.       *)
Idle == [at |-> "idle", batch |-> <<>>, row |-> 0]

Init ==
  /\ outbox = [e \in Event |-> Absent]
  /\ order = <<>>
  /\ cancelled = {} /\ keyed = {} /\ reminders = <<>>
  /\ effects = [e \in Event |-> 0]
  /\ worker = [w \in Worker |-> Idle]
  /\ faults = 0

(* A transaction that leaves event e behind commits.  Only a composed      *)
(* notice can be scheduled for later.                                      *)
Enqueue(e) ==
  /\ outbox[e] = Absent
  /\ order' = Append(order, e)
  /\ \E kind \in Kinds[e] : \E delay \in IF kind = "manual" THEN {0, Scheduled} ELSE {0} :
       outbox' = [outbox EXCEPT ![e] = Arriving(kind, delay)]
  /\ UNCHANGED <<cancelled, keyed, reminders, effects, worker, faults>>

(* ----------------------------------------------------------- the workers *)

At(w, step) == worker[w].at = step
Row(w) == Head(worker[w].batch).event

(* dispatch starts with the statement its kind of event needs.             *)
FirstStep(e) == CASE Kind(e) = "manual" -> "publish"
                  [] Kind(e) \in {"notice", "reminder"} -> "look"
                  [] Kind(e) = "audit" -> "record"
                  [] Kind(e) = "email" -> "mark"

Goto(w, step) == worker' = [worker EXCEPT ![w].at = step]

Working(batch) ==
  IF batch = <<>> THEN Idle
  ELSE [at |-> FirstStep(Head(batch).event), batch |-> batch, row |-> 0]

NextRow(w) == worker' = [worker EXCEPT ![w] = Working(Tail(@.batch))]

Due == {e \in Event : Claimable(e)}
Before(a, b) == \E i, j \in DOMAIN order : i < j /\ order[i] = a /\ order[j] = b

(* The rows that ORDER BY created_at, id and LIMIT leave of those that are  *)
(* due: in their order, and another one comes only behind a full batch.    *)
Oldest(n, rows) ==
  /\ \A i, j \in 1..n : i < j => Before(rows[i], rows[j])
  /\ \A e \in Due \ {rows[i] : i \in 1..n} : n = BatchLimit /\ \A i \in 1..n : Before(rows[i], e)

(* claimBatch.  The draining flag of a process keeps it to one batch.      *)
Claim(w) ==
  /\ At(w, "idle")
  /\ \E n \in 1..BatchLimit : \E rows \in [1..n -> Due] :
       /\ Oldest(n, rows)
       /\ outbox' = [e \in Event |-> IF e \in {rows[i] : i \in 1..n}
                       THEN [outbox[e] EXCEPT !.lock = 0, !.attempts = Attempted(@)] ELSE outbox[e]]
       /\ worker' = [worker EXCEPT ![w] = Working(
            [i \in 1..n |-> [event |-> rows[i], attempts |-> Attempted(outbox[rows[i]].attempts)]])]
  /\ UNCHANGED <<order, cancelled, keyed, reminders, effects, faults>>

Write(e) == effects' = [effects EXCEPT ![e] = IF @ = 0 THEN 1 ELSE 2]

(* Mutant: the notice leaves its email out.                                *)
HandOverNothing(e) == UNCHANGED <<outbox, order>>

(* email.service.enqueue: the message and its event, once per dedupe_key.  *)
HandOver(e) ==
  LET m == MessageOf[e]
  IN  IF m = None \/ outbox[m] # Absent
      THEN UNCHANGED <<outbox, order>>
      ELSE /\ order' = Append(order, m)
           /\ outbox' = [outbox EXCEPT ![m] = Arriving("email", 0)]

(* publishInTransaction: the notice and its messages in one transaction,   *)
(* unless a notice has the delivery key.                                   *)
Publish(w) ==
  LET e == Row(w)
  IN  /\ At(w, "publish")
      /\ IF e \in keyed THEN UNCHANGED <<keyed, effects, outbox, order>>
         ELSE keyed' = keyed \union {e} /\ Write(e) /\ HandOver(e)
      /\ Goto(w, "mark")
      /\ UNCHANGED <<cancelled, reminders, faults>>

(* recordAuditEvent: INSERT IGNORE under the event key.                    *)
RecordAudit(w) ==
  LET e == Row(w)
  IN  /\ At(w, "record")
      /\ IF e \in keyed THEN UNCHANGED <<keyed, effects>>
         ELSE keyed' = keyed \union {e} /\ Write(e)
      /\ Goto(w, "mark")
      /\ UNCHANGED <<outbox, order, cancelled, reminders, faults>>

HasKey(e) == e \in keyed \/ \E i \in DOMAIN reminders : reminders[i] = e

(* createNotification looks for its delivery key, and a reminder that has  *)
(* none of its own for the latest reminder of the loan.                    *)
Look(w) ==
  LET e == Row(w)
  IN  /\ At(w, "look")
      /\ worker' = [worker EXCEPT ![w].at = IF HasKey(e) THEN "message" ELSE "write",
                                  ![w].row = IF Kind(e) = "reminder" THEN Len(reminders) ELSE 0]
      /\ UNCHANGED <<outbox, order, cancelled, keyed, reminders, effects, faults>>

(* Mutant: an insert that relies on what was looked up before it.          *)
InsertNoticeLookedUp(w) ==
  /\ At(w, "write") /\ worker[w].row = 0
  /\ IF Kind(Row(w)) = "notice"
     THEN keyed' = keyed \union {Row(w)} /\ UNCHANGED reminders
     ELSE reminders' = Append(reminders, Row(w)) /\ UNCHANGED keyed
  /\ Write(Row(w))
  /\ Goto(w, "message")
  /\ UNCHANGED <<outbox, order, cancelled, faults>>

(* createNotificationWithDeliveryKey (INSERT IGNORE).                      *)
InsertNotice(w) ==
  LET e == Row(w)
  IN  /\ At(w, "write") /\ worker[w].row = 0
      /\ \/ HasKey(e) /\ UNCHANGED <<keyed, reminders, effects>>
         \/ /\ ~HasKey(e) /\ Kind(e) = "notice"
            /\ keyed' = keyed \union {e}
            /\ Write(e)
            /\ UNCHANGED reminders
         \/ /\ ~HasKey(e) /\ Kind(e) = "reminder"
            /\ reminders' = Append(reminders, e)
            /\ Write(e)
            /\ UNCHANGED keyed
      /\ Goto(w, "message")
      /\ UNCHANGED <<outbox, order, cancelled, faults>>

(* updateNotification gives the row found the text and the key of this     *)
(* event; delivery keys are unique, so it fails when another row has it.   *)
RewriteReminder(w) ==
  LET e == Row(w)
      i == worker[w].row
  IN  /\ At(w, "write") /\ i # 0
      /\ IF \E j \in DOMAIN reminders \ {i} : reminders[j] = e
         THEN Goto(w, "release") /\ UNCHANGED <<reminders, effects>>
         ELSE /\ reminders' = [reminders EXCEPT ![i] = e]
              /\ Write(e)
              /\ Goto(w, "message")
      /\ UNCHANGED <<outbox, order, cancelled, keyed, faults>>

(* queueNotification queues the email of a notice, in a transaction of its *)
(* own, if the patron has a verified address at this moment.               *)
QueueMessage(w) ==
  /\ At(w, "message")
  /\ \/ Kind(Row(w)) = "notice" /\ HandOver(Row(w))
     \/ UNCHANGED <<outbox, order>>
  /\ Goto(w, "mark")
  /\ UNCHANGED <<cancelled, keyed, reminders, effects, faults>>

MarkDelivered(w) ==
  LET e == Row(w)
  IN  /\ At(w, "mark")
      /\ outbox' = IF Pending(e) THEN [outbox EXCEPT ![e].status = "delivered",
                                          ![e].lock = Unlocked, ![e].failed = FALSE]
                   ELSE outbox
      /\ NextRow(w)
      /\ UNCHANGED <<order, cancelled, keyed, reminders, effects, faults>>

(* releaseForRetry unlocks the row whoever holds its lock.                 *)
ReleaseForRetry(w) ==
  LET e == Row(w)
  IN  /\ At(w, "release")
      /\ outbox' = IF Pending(e) THEN [outbox EXCEPT ![e].wait = Backoff(Head(worker[w].batch).attempts),
                                          ![e].lock = Unlocked, ![e].failed = TRUE]
                   ELSE outbox
      /\ NextRow(w)
      /\ UNCHANGED <<order, cancelled, keyed, reminders, effects, faults>>

(* The statement a process is about to make fails: dispatch and            *)
(* markDelivered are followed by releaseForRetry, releaseForRetry by the   *)
(* next row.                                                               *)
Fail(w) ==
  /\ faults < MaxFaults
  /\ faults' = faults + 1
  /\ \/ At(w, "release") /\ NextRow(w)
     \/ worker[w].at \notin {"idle", "release"} /\ Goto(w, "release")
  /\ UNCHANGED <<outbox, order, cancelled, keyed, reminders, effects>>

(* The process stops and is started again; its locks stay in the table.    *)
Stop(w) ==
  /\ faults < MaxFaults
  /\ ~At(w, "idle")
  /\ faults' = faults + 1
  /\ worker' = [worker EXCEPT ![w] = Working(<<>>)]
  /\ UNCHANGED <<outbox, order, cancelled, keyed, reminders, effects>>

Work(w) ==
  \/ Claim(w) \/ Publish(w) \/ RecordAudit(w)
  \/ Look(w) \/ InsertNotice(w) \/ RewriteReminder(w) \/ QueueMessage(w)
  \/ MarkDelivered(w) \/ ReleaseForRetry(w)

(* ----------------------------------------------------- the administrator *)

(* expire of a notice that is still in the queue.                          *)
CancelNotice(e) ==
  /\ e \in Notices \intersect Administered
  /\ Pending(e) /\ outbox[e].lock = Unlocked
  /\ outbox' = [outbox EXCEPT ![e].status = "delivered"]
  /\ cancelled' = cancelled \union {e}
  /\ UNCHANGED <<order, keyed, reminders, effects, worker, faults>>

(* resend of a queued notice whose last delivery failed.                   *)
RetryNotice(e) ==
  /\ e \in Notices \intersect Administered
  /\ Pending(e) /\ outbox[e].lock = Unlocked /\ outbox[e].failed
  /\ outbox' = [outbox EXCEPT ![e].wait = 0, ![e].failed = FALSE]
  /\ UNCHANGED <<order, cancelled, keyed, reminders, effects, worker, faults>>

Sooner(wait) == IF wait = 0 THEN 0 ELSE wait - 1
Later(lock) == IF lock \in {Unlocked, Stale} THEN lock ELSE lock + 1

Tick ==
  /\ outbox' = [e \in Event |-> [outbox[e] EXCEPT !.wait = Sooner(@), !.lock = Later(@)]]
  /\ outbox' # outbox
  /\ UNCHANGED <<order, cancelled, keyed, reminders, effects, worker, faults>>

Next ==
  \/ \E e \in Event : Enqueue(e) \/ CancelNotice(e) \/ RetryNotice(e)
  \/ \E w \in Worker : Work(w) \/ Fail(w) \/ Stop(w)
  \/ Tick

Spec == Init /\ [][Next]_vars

(* The timer of a process starts it again and again, and time passes.      *)
FairSpec == Spec /\ WF_vars(Tick) /\ \A w \in Worker : WF_vars(Work(w))

(* ------------------------------------------------------------ properties *)

(* Every row stays a row that the statements of the module write.          *)
TypeOK ==
  /\ outbox \in [Event -> [kind : EventKinds \union {"none"},
                           status : {"absent", "pending", "delivered"},
                           wait : 0..MaxDelay, lock : Unlocked..Stale,
                           attempts : 0..(Doublings + 1), failed : BOOLEAN]]
  /\ cancelled \subseteq {e \in Notices : outbox[e].status = "delivered"}
  /\ keyed \subseteq Event /\ effects \in [Event -> 0..2] /\ faults \in 0..MaxFaults
  /\ \A w \in Worker : worker[w].row \in 0..Len(reminders)

(* What transactions rely on: an event takes effect once, before it counts *)
(* as delivered, whichever processes deliver it, fail on it or stop.       *)
ClassOf(kind) == CASE kind = "none" -> "none"
                   [] kind = "reminder" -> "rewriting"
                   [] kind = "email" -> "handoff"
                   [] OTHER -> "once"
Promise == INSTANCE EventDelivery WITH
  class <- [e \in Event |-> ClassOf(Kind(e))],
  settled <- {e \in Event : outbox[e].status = "delivered"},
  withdrawn <- cancelled
EventsTakeEffectOnce == Promise!Spec

(* An event in the outbox is delivered or cancelled in the end, however    *)
(* many processes stopped while they held its lock: a lock goes stale, a   *)
(* failed delivery comes due again.                                        *)
EventsSettle == \A e \in Event : Pending(e) ~> outbox[e].status = "delivered"

(* notifications/README.md: expiring a pending event cancels it, and the   *)
(* lock of a busy worker rejects a cancellation so that it cannot race the *)
(* delivery.  So a cancelled notice is never written.                      *)
CancelledNeverWritten == \A e \in cancelled : effects[e] = 0
=============================================================================
