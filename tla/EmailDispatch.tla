---------------------------- MODULE EmailDispatch ----------------------------
(***************************************************************************)
(* The email worker: every server process runs one, and a named lock of    *)
(* the database lets one of them send at a time.  The provider may accept  *)
(* a message without the process learning of it, a process may stop after  *)
(* any statement, and the connection that holds the lock may be lost while *)
(* its process goes on sending.                                            *)
(*                                                                         *)
(* How long a wait lasts is left open: a message that waits becomes due,   *)
(* and one that can expire expires, at some later time.                    *)
(***************************************************************************)
EXTENDS Integers, FiniteSets

CONSTANTS
  Delivery,     \* rows of email_deliveries
  Security,     \* those with priority = 1
  Manual,       \* those of a composed notice
  Worker,       \* server processes
  Nobody, Restore, \* no holder of the lock, and the restore as its holder
  NoDelivery,
  Limit, Reserve,  \* the requests of a period, and those kept for security
  MaxAttempts,  \* attempts after which a rate limit is no longer retried
  MaxFaults     \* bound on stops, failed statements and lost connections

DispatchAssumption ==
  /\ Security \subseteq Delivery /\ Manual \subseteq Delivery \ Security
  /\ Nobody \notin Worker \union {Restore} /\ Restore \notin Worker /\ NoDelivery \notin Delivery
  /\ Limit \in Nat \ {0} /\ Reserve \in 0..Limit /\ MaxAttempts \in Nat \ {0} /\ MaxFaults \in Nat

VARIABLES
  email,       \* the email_deliveries table
  used,        \* email_quota_usage of this period, split by who used it
  throttled,   \* next_send_at of email_dispatch_state has not come yet
  holder,      \* who holds the lock 'euc-library-email-dispatch'
  restoring,   \* mode of system_maintenance_state
  worker,      \* what each process is doing
  accepted,    \* at the provider: how often it accepted each message, up to 2
  faults       \* not in the code: faults so far

vars == <<email, used, throttled, holder, restoring, worker, accepted, faults>>
table == <<email, used, throttled>>

Statuses == {"absent", "queued", "processing", "accepted", "failed", "unknown", "cancelled"}

Row == [status : Statuses, handed : BOOLEAN, attempts : 0..MaxAttempts,
        wait : {"no", "delay", "quota"}, expired : BOOLEAN]

Absent == [status |-> "absent", handed |-> FALSE, attempts |-> 0, wait |-> "no", expired |-> FALSE]
Idle == [at |-> "idle", row |-> NoDelivery, attempts |-> 0, result |-> "none"]

Init ==
  /\ email = [d \in Delivery |-> Absent]
  /\ used = [routine |-> 0, security |-> 0]
  /\ throttled = FALSE /\ restoring = FALSE
  /\ holder = Nobody
  /\ worker = [w \in Worker |-> Idle]
  /\ accepted = [d \in Delivery |-> 0]
  /\ faults = 0

Status(d) == email[d].status
Used == used.routine + used.security

(* enqueue in the transaction of the caller; dedupe_key is unique.         *)
Queue(d) ==
  /\ email[d] = Absent
  /\ email' = [email EXCEPT ![d].status = "queued"]
  /\ UNCHANGED <<used, throttled, holder, restoring, worker, accepted, faults>>

(* The outbox delivered the event of the message.                          *)
HandOff(d) ==
  /\ email[d] # Absent /\ ~email[d].handed
  /\ email' = [email EXCEPT ![d].handed = TRUE]
  /\ UNCHANGED <<used, throttled, holder, restoring, worker, accepted, faults>>

(* ---------------------------------------------------------- dispatchOne *)

At(w, step) == worker[w].at = step
Goto(w, step) == worker' = [worker EXCEPT ![w].at = step]

GetLock(w) ==
  /\ At(w, "idle") /\ holder = Nobody
  /\ holder' = w
  /\ Goto(w, "check")
  /\ UNCHANGED <<table, restoring, accepted, faults>>

CheckMaintenance(w) ==
  /\ At(w, "check")
  /\ Goto(w, IF restoring THEN "unlock" ELSE "abandoned")
  /\ UNCHANGED <<table, holder, restoring, accepted, faults>>

(* Mutant: an abandoned message is sent again.                             *)
RequeueAbandoned(w) ==
  /\ At(w, "abandoned")
  /\ email' = [d \in Delivery |-> IF Status(d) = "processing"
                 THEN [email[d] EXCEPT !.status = "queued"] ELSE email[d]]
  /\ Goto(w, "expired")
  /\ UNCHANGED <<used, throttled, holder, restoring, accepted, faults>>

(* Mutant: an abandoned message is left alone.                             *)
SkipAbandoned(w) ==
  /\ At(w, "abandoned")
  /\ Goto(w, "expired")
  /\ UNCHANGED <<table, holder, restoring, accepted, faults>>

(* Whoever left a message in processing has stopped: it held the lock.     *)
MarkAbandoned(w) ==
  /\ At(w, "abandoned")
  /\ email' = [d \in Delivery |-> IF Status(d) = "processing"
                 THEN [email[d] EXCEPT !.status = "unknown"] ELSE email[d]]
  /\ Goto(w, "expired")
  /\ UNCHANGED <<used, throttled, holder, restoring, accepted, faults>>

CancelExpired(w) ==
  /\ At(w, "expired")
  /\ email' = [d \in Delivery |-> IF Status(d) \in {"queued", "failed"} /\ email[d].expired
                 THEN [email[d] EXCEPT !.status = "cancelled"] ELSE email[d]]
  /\ Goto(w, "claim")
  /\ UNCHANGED <<used, throttled, holder, restoring, accepted, faults>>

Sendable(d) == Status(d) = "queued" /\ email[d].handed /\ email[d].wait = "no" /\ ~email[d].expired

(* The ORDER BY of the claim puts security messages first.                 *)
FirstInLine(d) == Sendable(d) /\ (d \in Security \/ \A s \in Security : ~Sendable(s))

QuotaSpent(d) == Used >= (IF d \in Security THEN Limit ELSE Limit - Reserve)

Charge(d) ==
  used' = IF d \in Security THEN [used EXCEPT !.security = @ + 1] ELSE [used EXCEPT !.routine = @ + 1]

(* The transaction that claims a message has nothing to send.              *)
NothingToSend(w) ==
  /\ At(w, "claim")
  /\ throttled \/ ~\E d \in Delivery : Sendable(d)
  /\ Goto(w, "unlock")
  /\ UNCHANGED <<table, holder, restoring, accepted, faults>>

(* eligible refuses the message for good, or finds it pointless by now; or *)
(* the quota of its kind is spent.                                         *)
PutAside(w, d) ==
  /\ At(w, "claim") /\ ~throttled /\ FirstInLine(d)
  /\ \/ email' = [email EXCEPT ![d].status = "failed"]
     \/ email' = [email EXCEPT ![d].status = "cancelled"]
     \/ QuotaSpent(d) /\ email' = [email EXCEPT ![d].wait = "quota"]
  /\ Goto(w, "unlock")
  /\ UNCHANGED <<used, throttled, holder, restoring, accepted, faults>>

ClaimMessage(w, d) ==
  /\ At(w, "claim") /\ ~throttled /\ FirstInLine(d) /\ ~QuotaSpent(d)
  /\ Charge(d)
  /\ throttled' = TRUE
  /\ email' = [email EXCEPT ![d].status = "processing", ![d].attempts = @ + 1]
  /\ worker' = [worker EXCEPT ![w] = [at |-> "send", row |-> d,
                                      attempts |-> email'[d].attempts, result |-> "none"]]
  /\ UNCHANGED <<holder, restoring, accepted, faults>>

(* provider.send: 201; 429; any other refusal; or nothing that tells       *)
(* whether the provider accepted the message.                              *)
Send(w) ==
  LET d == worker[w].row
      Answer(result) == worker' = [worker EXCEPT ![w].at = "finish", ![w].result = result]
      Accept == accepted' = [accepted EXCEPT ![d] = IF @ = 0 THEN 1 ELSE 2]
  IN  /\ At(w, "send")
      /\ \/ Accept /\ Answer("accepted")
         \/ Accept /\ Answer("unknown")
         \/ \E refusal \in {"retry", "permanent", "unknown"} : Answer(refusal) /\ UNCHANGED accepted
      /\ UNCHANGED <<table, holder, restoring, faults>>

(* Mutant: an unknown outcome counts as a failure.                         *)
OutcomeFailed(result, attempts) ==
  CASE result = "accepted" -> "accepted"
    [] result = "retry" /\ attempts < MaxAttempts -> "queued"
    [] OTHER -> "failed"

(* What is written after the send: finish, or back to the queue while a    *)
(* rate limit has attempts left.  No status is tested.                     *)
Outcome(result, attempts) ==
  CASE result = "accepted" -> "accepted"
    [] result = "retry" /\ attempts < MaxAttempts -> "queued"
    [] result \in {"retry", "permanent"} /\ ~(result = "retry" /\ attempts < MaxAttempts) -> "failed"
    [] result \in {"unknown", "interrupted"} -> "unknown"

Finish(w) ==
  LET d == worker[w].row
      status == Outcome(worker[w].result, worker[w].attempts)
  IN  /\ At(w, "finish")
      /\ email' = [email EXCEPT ![d].status = status,
                                ![d].wait = IF status = "queued" THEN "delay" ELSE @]
      /\ Goto(w, "unlock")
      /\ UNCHANGED <<used, throttled, holder, restoring, accepted, faults>>

ReleaseLock(w) ==
  /\ At(w, "unlock")
  /\ holder' = IF holder = w THEN Nobody ELSE holder
  /\ worker' = [worker EXCEPT ![w] = Idle]
  /\ UNCHANGED <<table, restoring, accepted, faults>>

Work(w) ==
  \/ GetLock(w) \/ CheckMaintenance(w) \/ MarkAbandoned(w) \/ CancelExpired(w)
  \/ NothingToSend(w) \/ \E d \in Delivery : PutAside(w, d) \/ ClaimMessage(w, d)
  \/ Send(w) \/ Finish(w) \/ ReleaseLock(w)

(* ----------------------------------------------------------------- faults *)

Fault == faults < MaxFaults /\ faults' = faults + 1

(* A statement fails.  After a send, acceptance that could not be written  *)
(* is written as unknown, and after that the process tries only once more. *)
Fail(w) ==
  /\ Fault
  /\ \/ worker[w].at \in {"check", "abandoned", "expired", "claim"} /\ Goto(w, "unlock")
     \/ /\ At(w, "finish") /\ worker[w].result = "accepted"
        /\ worker' = [worker EXCEPT ![w].result = "unknown"]
     \/ /\ At(w, "finish") /\ worker[w].result \notin {"accepted", "interrupted"}
        /\ worker' = [worker EXCEPT ![w].result = "interrupted"]
     \/ At(w, "finish") /\ worker[w].result = "interrupted" /\ Goto(w, "unlock")
  /\ UNCHANGED <<table, holder, restoring, accepted>>

(* The process stops; its connection, and so its lock, is gone.            *)
Stop(w) ==
  /\ Fault
  /\ ~At(w, "idle")
  /\ holder' = IF holder = w THEN Nobody ELSE holder
  /\ worker' = [worker EXCEPT ![w] = Idle]
  /\ UNCHANGED <<table, restoring, accepted>>

(* The database drops the connection while the process waits for the       *)
(* provider; the lock is gone, the send is not.                            *)
LoseConnection(w) ==
  /\ Fault
  /\ At(w, "send") /\ holder = w
  /\ holder' = Nobody
  /\ UNCHANGED <<table, restoring, worker, accepted>>

(* --------------------------------------------------------- administration *)

(* retryDelivery of a routine message that failed and is still eligible.   *)
RetryDelivery(d) ==
  /\ Status(d) = "failed" /\ d \notin Security /\ ~email[d].expired
  /\ email' = [email EXCEPT ![d].status = "queued", ![d].attempts = 0, ![d].wait = "no"]
  /\ UNCHANGED <<used, throttled, holder, restoring, worker, accepted, faults>>

(* cancelUnsent, when the notice of the message is made to expire; it      *)
(* waits for the lock.                                                     *)
CancelUnsent(d) ==
  /\ holder = Nobody
  /\ d \in Manual /\ Status(d) \in {"queued", "failed"}
  /\ email' = [email EXCEPT ![d].status = "cancelled"]
  /\ UNCHANGED <<used, throttled, holder, restoring, worker, accepted, faults>>

(* A restore puts the system in maintenance, takes the lock, cancels what  *)
(* has not been sent, and releases both.                                   *)
BeginRestore ==
  /\ ~restoring
  /\ restoring' = TRUE
  /\ UNCHANGED <<table, holder, worker, accepted, faults>>

LockForRestore ==
  /\ restoring /\ holder = Nobody
  /\ holder' = Restore
  /\ UNCHANGED <<table, restoring, worker, accepted, faults>>

CancelForRestore ==
  /\ holder = Restore /\ restoring
  /\ email' = [d \in Delivery |-> IF Status(d) \in {"queued", "processing", "failed"}
                 THEN [email[d] EXCEPT !.status = "cancelled", !.handed = TRUE] ELSE email[d]]
  /\ holder' = Nobody
  /\ restoring' = FALSE
  /\ UNCHANGED <<used, throttled, worker, accepted, faults>>

(* ------------------------------------------------------------------- time *)

SlotComes ==
  /\ throttled /\ throttled' = FALSE
  /\ UNCHANGED <<email, used, holder, restoring, worker, accepted, faults>>

ComesDue(d) ==
  /\ email[d].wait = "delay"
  /\ email' = [email EXCEPT ![d].wait = "no"]
  /\ UNCHANGED <<used, throttled, holder, restoring, worker, accepted, faults>>

Expires(d) ==
  /\ email[d] # Absent /\ ~email[d].expired
  /\ email' = [email EXCEPT ![d].expired = TRUE]
  /\ UNCHANGED <<used, throttled, holder, restoring, worker, accepted, faults>>

NewPeriod ==
  /\ Used > 0
  /\ used' = [routine |-> 0, security |-> 0]
  /\ email' = [d \in Delivery |-> IF email[d].wait = "quota" THEN [email[d] EXCEPT !.wait = "no"] ELSE email[d]]
  /\ UNCHANGED <<throttled, holder, restoring, worker, accepted, faults>>

Next ==
  \/ \E d \in Delivery : Queue(d) \/ HandOff(d) \/ RetryDelivery(d) \/ CancelUnsent(d) \/ ComesDue(d) \/ Expires(d)
  \/ \E w \in Worker : Work(w) \/ Fail(w) \/ Stop(w) \/ LoseConnection(w)
  \/ BeginRestore \/ LockForRestore \/ CancelForRestore
  \/ SlotComes \/ NewPeriod

Spec == Init /\ [][Next]_vars

(* The timers of the processes, a restore that comes to an end, and time.  *)
(* The lock is tried again every 1.2 seconds, so a process that finds it   *)
(* free again and again takes it.                                          *)
Fairness ==
  /\ \A w \in Worker : WF_vars(Work(w))
  /\ SF_vars(LockForRestore) /\ WF_vars(CancelForRestore)
  /\ \A d \in Delivery : WF_vars(Expires(d))

FairSpec == Spec /\ Fairness

(* ------------------------------------------------------------ properties *)

(* The tables keep to the values their statements write: routine messages  *)
(* never use the requests kept for security messages, and together they    *)
(* keep to the limit of the period.                                        *)
TypeOK ==
  /\ email \in [Delivery -> Row]
  /\ used \in [routine : 0..(Limit - Reserve), security : 0..Limit] /\ Used <= Limit
  /\ holder \in Worker \union {Nobody, Restore}
  /\ accepted \in [Delivery -> 0..2]

(* The provider accepts no message twice, whatever it answers, wherever    *)
(* the processes stop, and however often a delivery is tried again; and    *)
(* the status an administrator acts upon tells the truth: a message that   *)
(* can still be sent or retried has not been accepted, and one that counts *)
(* as accepted has been.                                                   *)
StatusTellsTheTruth ==
  \A d \in Delivery :
    /\ accepted[d] <= 1
    /\ Status(d) \in {"queued", "failed"} => accepted[d] = 0
    /\ Status(d) = "accepted" => accepted[d] = 1

(* Every message in the queue comes to an end: sent, refused, cancelled,   *)
(* or of unknown fate, never queued or in processing for good.             *)
MessagesSettle ==
  \A d \in Delivery : Status(d) \in {"queued", "processing"} ~>
                      Status(d) \in {"accepted", "failed", "unknown", "cancelled"}
=============================================================================
