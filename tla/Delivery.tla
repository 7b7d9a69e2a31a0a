------------------------------- MODULE Delivery -------------------------------
(***************************************************************************)
(* The outbox and the email worker together: a transaction that leaves an  *)
(* event "email" in the outbox has queued the message in the same          *)
(* transaction, the worker sends no message whose event is not delivered,  *)
(* and both run in each server process, which stops as a whole.            *)
(*                                                                         *)
(* A message goes by the identifier of its event.  A restore replaces the  *)
(* outbox as well, and is left to Restore.                                 *)
(***************************************************************************)
EXTENDS Outbox

CONSTANTS Security, Manual, Restore, Limit, Reserve, MaxAttempts, MaxFailures

VARIABLES
  email, used, throttled, holder, restoring, accepted,
  sender,     \* what the email worker of each process is doing
  failures    \* not in the code: faults of the email workers so far

E == INSTANCE EmailDispatch
       WITH Delivery <- Event, NoDelivery <- None, Nobody <- None,
            worker <- sender, faults <- failures, MaxFaults <- MaxFailures

mail == <<email, used, throttled, holder, restoring, accepted, sender, failures>>

DeliveryInit == Init /\ E!Init

(* What a step of the outbox does to the messages.                         *)
Follow ==
  /\ email' = [e \in Event |->
       CASE outbox[e] = Absent /\ outbox'[e].kind = "email" -> [E!Absent EXCEPT !.status = "queued"]
         [] Kind(e) = "email" /\ outbox'[e].status = "delivered" -> [email[e] EXCEPT !.handed = TRUE]
         [] OTHER -> email[e]]
  /\ UNCHANGED <<used, throttled, holder, restoring, accepted, sender, failures>>

OutboxStep ==
  \/ \E e \in Event : Enqueue(e) \/ CancelNotice(e) \/ RetryNotice(e)
  \/ \E w \in Worker : Work(w) \/ Fail(w)
  \/ Tick

MailStep ==
  \/ \E w \in Worker : E!Work(w) \/ E!Fail(w) \/ E!LoseConnection(w)
  \/ \E d \in Event : E!RetryDelivery(d) \/ E!CancelUnsent(d) \/ E!ComesDue(d) \/ E!Expires(d)
  \/ E!SlotComes \/ E!NewPeriod

StopProcess(w) ==
  \/ Stop(w) /\ E!Stop(w)
  \/ Stop(w) /\ sender[w] = E!Idle /\ UNCHANGED mail
  \/ worker[w] = Idle /\ E!Stop(w) /\ UNCHANGED vars

DeliveryNext ==
  \/ OutboxStep /\ Follow
  \/ MailStep /\ UNCHANGED vars
  \/ \E w \in Worker : StopProcess(w)

DeliverySpec == DeliveryInit /\ [][DeliveryNext]_<<vars, mail>>

(* ------------------------------------------------------------ properties *)

(* No message is accepted twice, whatever the outbox queues and hands over *)
(* and wherever the two workers of a process stop, and its status tells    *)
(* whether it was accepted.                                                *)
StatusTellsTheTruth == E!StatusTellsTheTruth

(* A composed notice that was accepted ends with its message sent, refused,*)
(* cancelled or of unknown fate, or was cancelled itself: across the two   *)
(* queues, their retries and the processes that stop, none is forgotten.   *)
NoticeIsMailed(e) ==
  Kind(e) = "manual" /\ Pending(e) ~>
    \/ e \in cancelled
    \/ E!Status(MessageOf[e]) \in {"accepted", "failed", "unknown", "cancelled"}
===============================================================================
