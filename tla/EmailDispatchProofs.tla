------------------------- MODULE EmailDispatchProofs -------------------------
(* Theorems about EmailDispatch for every value of its constants: however  *)
(* many workers send, stop, lose their lock to each other or learn nothing *)
(* of what the provider did, and whatever is retried or cancelled.         *)
EXTENDS EmailDispatch, TLAPS

(* -------------------------------------------------- the inductive invariant *)

Steps == {"idle", "check", "abandoned", "expired", "claim", "send", "finish", "unlock"}
Results == {"accepted", "unknown", "retry", "permanent", "interrupted"}
Task == [at : Steps, row : Delivery \union {NoDelivery}, attempts : 0..MaxAttempts, result : Results \union {"none"}]

(* A message in the queue has an attempt left; one that never was in it    *)
(* was not sent.                                                           *)
RowsFit ==
  \A d \in Delivery : /\ Status(d) = "queued" => email[d].attempts < MaxAttempts
                      /\ Status(d) = "absent" => accepted[d] = 0

(* What a worker knows of the message it has in hand.  The lock may be     *)
(* another's by now and the message called unknown or cancelled, but it is *)
(* not back in the queue, and nobody else has it.                          *)
InHand(w) == worker[w].at \in {"send", "finish"}
Knows(w) ==
  LET d == worker[w].row
  IN  InHand(w) =>
        /\ d \in Delivery /\ Status(d) \in {"processing", "unknown", "cancelled"}
        /\ email[d].attempts = worker[w].attempts
        /\ At(w, "send") => accepted[d] = 0
        /\ At(w, "finish") => /\ worker[w].result \in Results
                              /\ worker[w].result = "accepted" => accepted[d] = 1
                              /\ worker[w].result \in {"retry", "permanent"} => accepted[d] = 0
HandsApart == \A v, w \in Worker : InHand(v) /\ InHand(w) /\ worker[v].row = worker[w].row => v = w

Told == RowsFit /\ (\A w \in Worker : Knows(w)) /\ HandsApart /\ StatusTellsTheTruth

DispatchInv == TypeOK /\ worker \in [Worker -> Task] /\ Told

(* ------------------------------------------------------- what steps may do *)

(* Rows move on without a send: into the queue, out of it for good, or out *)
(* of the processing that somebody left.                                   *)
Moves(d) ==
  /\ \/ email'[d].attempts = email[d].attempts /\ email'[d].status = email[d].status
     \/ /\ email'[d].attempts = email[d].attempts
        /\ \/ email[d].status \in {"queued", "failed"} /\ email'[d].status \in {"failed", "cancelled"}
           \/ email[d].status = "processing" /\ email'[d].status \in {"unknown", "cancelled"}
     \/ email[d].status \in {"absent", "failed"} /\ email'[d].status = "queued" /\ email'[d].attempts = 0

WithoutSend ==
  /\ email' \in [Delivery -> Row] /\ \A d \in Delivery : Moves(d)
  /\ accepted' = accepted
  /\ worker' \in [Worker -> Task] /\ \A w \in Worker : InHand(w)' => worker'[w] = worker[w]

LEMMA WithoutSendKeeps ==
  ASSUME DispatchAssumption, DispatchInv, WithoutSend PROVE Told'
<1> USE DEF DispatchInv, Told, TypeOK, WithoutSend, Moves, InHand, At, Status
<1>1. RowsFit'
  BY DEF RowsFit, Row, StatusTellsTheTruth, DispatchAssumption
<1>2. ASSUME NEW w \in Worker PROVE Knows(w)'
  <2>1. CASE ~InHand(w)'
    BY <2>1 DEF Knows
  <2>2. CASE InHand(w)'
    <3>1. worker'[w] = worker[w] /\ InHand(w) /\ Knows(w)
      BY <2>2
    <3>2. PICK d \in Delivery : d = worker[w].row
      BY <3>1 DEF Knows
    <3>3. Moves(d)
      OBVIOUS
    <3> QED
      BY <3>1, <3>2, <3>3 DEF Knows
  <2> QED
    BY <2>1, <2>2
<1>3. HandsApart'
  BY DEF HandsApart
<1>4. StatusTellsTheTruth'
  BY DEF StatusTellsTheTruth, RowsFit
<1> QED
  BY <1>1, <1>2, <1>3, <1>4

(* ------------------------------------------------------------- the steps *)

(* A step that leaves what workers do as it is, and rows but for moves.    *)
LEMMA RowStepKeeps ==
  ASSUME DispatchAssumption, DispatchInv, worker' = worker, accepted' = accepted,
         email' \in [Delivery -> Row], \A d \in Delivery : Moves(d)
  PROVE  worker' \in [Worker -> Task] /\ Told'
<1>1. WithoutSend
  BY DEF DispatchInv, WithoutSend, InHand, At
<1> QED
  BY <1>1, WithoutSendKeeps DEF WithoutSend

LEMMA RowTypes ==
  ASSUME DispatchAssumption, NEW r \in Row
  PROVE  /\ \A s \in Statuses : /\ [r EXCEPT !.status = s] \in Row
                                /\ [r EXCEPT !.status = s].status = s
                                /\ [r EXCEPT !.status = s].attempts = r.attempts
         /\ \A x \in {"no", "delay", "quota"} : /\ [r EXCEPT !.wait = x] \in Row
                                               /\ [r EXCEPT !.wait = x].status = r.status
                                               /\ [r EXCEPT !.wait = x].attempts = r.attempts
  BY DEF Row, Statuses

LEMMA RowFlags ==
  ASSUME DispatchAssumption, NEW r \in Row
  PROVE  /\ [r EXCEPT !.handed = TRUE] \in Row
         /\ [r EXCEPT !.handed = TRUE].status = r.status
         /\ [r EXCEPT !.handed = TRUE].attempts = r.attempts
         /\ [r EXCEPT !.expired = TRUE] \in Row
         /\ [r EXCEPT !.expired = TRUE].status = r.status
         /\ [r EXCEPT !.expired = TRUE].attempts = r.attempts
  BY DEF Row, Statuses

LEMMA Requeued ==
  ASSUME DispatchAssumption, NEW r \in Row
  PROVE  LET q == [r EXCEPT !.status = "queued", !.attempts = 0, !.wait = "no"]
         IN  q \in Row /\ q.status = "queued" /\ q.attempts = 0
<1> DEFINE q == [r EXCEPT !.status = "queued", !.attempts = 0, !.wait = "no"]
<1>1. 0 \in 0..MaxAttempts
  BY DEF DispatchAssumption
<1>2. q.status = "queued" /\ q.attempts = 0 /\ q.wait = "no" /\ q.handed = r.handed /\ q.expired = r.expired
  BY DEF Row
<1>3. q \in Row
  BY <1>1 DEF Row, Statuses
<1> QED
  BY <1>2, <1>3

LEMMA Dropped ==
  ASSUME DispatchAssumption, NEW r \in Row
  PROVE  LET q == [r EXCEPT !.status = "cancelled", !.handed = TRUE]
         IN  q \in Row /\ q.status = "cancelled" /\ q.attempts = r.attempts
  BY DEF Row, Statuses

LEMMA OneRow ==
  ASSUME email \in [Delivery -> Row], NEW d \in Delivery, NEW r \in Row,
         email' = [email EXCEPT ![d] = r], Moves(d)
  PROVE  email' \in [Delivery -> Row] /\ \A x \in Delivery : Moves(x)
  BY DEF Moves

LEMMA RowStepsKeep ==
  ASSUME DispatchAssumption, DispatchInv, NEW d \in Delivery,
         Queue(d) \/ HandOff(d) \/ RetryDelivery(d) \/ CancelUnsent(d) \/ ComesDue(d) \/ Expires(d)
  PROVE  DispatchInv'
<1> USE DEF DispatchInv, TypeOK, Status
<1>1. PICK r \in Row : email' = [email EXCEPT ![d] = r] /\ Moves(d)
  <2> USE DEF Moves
  <2> DEFINE With(s) == [email[d] EXCEPT !.status = s]
  <2>0. email[d] \in Row
    OBVIOUS
  <2>1. CASE Queue(d)
    <3>1. With("queued") \in Row /\ With("queued").status = "queued" /\ With("queued").attempts = email[d].attempts
      BY <2>0, RowTypes DEF Statuses
    <3>2. email[d].status = "absent" /\ email[d].attempts = 0
      BY <2>1 DEF Queue, Absent
    <3>3. email' = [email EXCEPT ![d] = With("queued")]
      BY <2>1 DEF Queue
    <3> HIDE DEF With
    <3> QED
      BY <3>1, <3>2, <3>3
  <2>2. CASE HandOff(d)
    BY <2>0, <2>2, RowFlags DEF HandOff
  <2>3. CASE RetryDelivery(d)
    BY <2>0, <2>3, Requeued DEF RetryDelivery
  <2>4. CASE CancelUnsent(d)
    BY <2>0, <2>4, RowTypes DEF CancelUnsent, Statuses
  <2>5. CASE ComesDue(d)
    BY <2>0, <2>5, RowTypes DEF ComesDue, Statuses
  <2>6. CASE Expires(d)
    BY <2>0, <2>6, RowFlags DEF Expires, Statuses
  <2> QED
    BY <2>1, <2>2, <2>3, <2>4, <2>5, <2>6
<1>2. UNCHANGED <<used, throttled, holder, worker, accepted>>
  BY DEF Queue, HandOff, RetryDelivery, CancelUnsent, ComesDue, Expires
<1>3. email' \in [Delivery -> Row] /\ \A x \in Delivery : Moves(x)
  BY <1>1, OneRow
<1>4. worker' \in [Worker -> Task] /\ Told'
  BY <1>2, <1>3, RowStepKeeps
<1> QED
  BY <1>2, <1>3, <1>4 DEF Used

LEMMA TimeKeeps ==
  ASSUME DispatchAssumption, DispatchInv, SlotComes \/ NewPeriod PROVE DispatchInv'
<1> USE DEF DispatchInv, TypeOK, Status
<1>1. email' \in [Delivery -> Row] /\ \A x \in Delivery : Moves(x)
  <2>1. \A x \in Delivery : LET r == [email[x] EXCEPT !.wait = "no"]
                           IN  r \in Row /\ r.status = email[x].status /\ r.attempts = email[x].attempts
    BY RowTypes
  <2>2. CASE NewPeriod
    BY <2>1, <2>2 DEF NewPeriod, Moves
  <2> QED
    BY <2>2 DEF SlotComes, Moves
<1>2. UNCHANGED <<holder, worker, accepted>>
  BY DEF SlotComes, NewPeriod
<1>3. worker' \in [Worker -> Task] /\ Told'
  BY <1>1, <1>2, RowStepKeeps
<1>4. used' \in [routine : 0..(Limit - Reserve), security : 0..Limit] /\ Used' <= Limit
  BY DEF SlotComes, NewPeriod, Used, DispatchAssumption
<1> QED
  BY <1>1, <1>2, <1>3, <1>4

LEMMA RestoreKeeps ==
  ASSUME DispatchAssumption, DispatchInv, BeginRestore \/ LockForRestore \/ CancelForRestore PROVE DispatchInv'
<1> USE DEF DispatchInv, TypeOK, Status
<1>1. email' \in [Delivery -> Row] /\ \A x \in Delivery : Moves(x)
  <2>1. CASE CancelForRestore
    BY <2>1, Dropped DEF CancelForRestore, Moves
  <2> QED
    BY <2>1 DEF BeginRestore, LockForRestore, Moves, table
<1>2. UNCHANGED <<used, worker, accepted>> /\ holder' \in {holder, Restore, Nobody}
  BY DEF BeginRestore, LockForRestore, CancelForRestore, table
<1>3. worker' \in [Worker -> Task] /\ Told'
  BY <1>1, <1>2, RowStepKeeps
<1> QED
  BY <1>1, <1>2, <1>3 DEF Used

(* A step of one worker that takes it on, or to its end, without a send.   *)
LEMMA WorkerMoves ==
  ASSUME DispatchAssumption, DispatchInv, NEW w \in Worker,
         worker' \in {worker} \union {[worker EXCEPT ![w].at = at] : at \in Steps \ {"send", "finish"}}
                               \union {[worker EXCEPT ![w] = Idle]},
         accepted' = accepted, email' \in [Delivery -> Row], \A d \in Delivery : Moves(d)
  PROVE  worker' \in [Worker -> Task] /\ Told'
<1> USE DEF DispatchInv
<1>1. \A t \in Task : \A at \in Steps : [t EXCEPT !.at = at] \in Task
  BY DEF Task
<1>2. Idle \in Task /\ Idle.at = "idle"
  BY DEF Idle, Task, Steps, DispatchAssumption
<1>3. worker' \in [Worker -> Task]
  BY <1>1, <1>2
<1>4. ASSUME NEW v \in Worker, InHand(v)' PROVE worker'[v] = worker[v]
  <2>1. CASE v = w
    <3>1. \A at \in Steps : [worker[w] EXCEPT !.at = at].at = at
      BY DEF Task
    <3> QED
      BY <2>1, <3>1, <1>2, <1>4 DEF InHand, At
  <2> QED
    BY <2>1
<1>5. WithoutSend
  BY <1>3, <1>4 DEF WithoutSend
<1> QED
  BY <1>5, <1>3, WithoutSendKeeps

LEMMA WaysKeep ==
  ASSUME DispatchAssumption, DispatchInv, NEW w \in Worker,
         \/ GetLock(w) \/ CheckMaintenance(w) \/ MarkAbandoned(w) \/ CancelExpired(w)
         \/ NothingToSend(w) \/ (\E d \in Delivery : PutAside(w, d)) \/ ReleaseLock(w)
         \/ Stop(w) \/ LoseConnection(w)
  PROVE  DispatchInv'
<1> USE DEF DispatchInv, TypeOK, Status
<1>1. email' \in [Delivery -> Row] /\ \A x \in Delivery : Moves(x)
  <2> USE RowTypes DEF Moves, Statuses
  <2>1. CASE MarkAbandoned(w)
    BY <2>1 DEF MarkAbandoned
  <2>2. CASE CancelExpired(w)
    BY <2>2 DEF CancelExpired
  <2>3. ASSUME NEW d \in Delivery, PutAside(w, d)
        PROVE  email' \in [Delivery -> Row] /\ \A x \in Delivery : Moves(x)
    <3>1. email[d] \in Row /\ email[d].status = "queued"
      BY <2>3 DEF PutAside, FirstInLine, Sendable
    <3>2. PICK r \in Row : email' = [email EXCEPT ![d] = r] /\ Moves(d)
      <4>1. CASE email' = [email EXCEPT ![d].status = "failed"]
        BY <3>1, <4>1
      <4>2. CASE email' = [email EXCEPT ![d].status = "cancelled"]
        BY <3>1, <4>2
      <4>3. CASE email' = [email EXCEPT ![d].wait = "quota"]
        BY <3>1, <4>3
      <4> QED
        BY <2>3, <4>1, <4>2, <4>3 DEF PutAside
    <3> QED
      BY <3>2, OneRow
  <2> QED
    BY <2>1, <2>2, <2>3 DEF GetLock, CheckMaintenance, NothingToSend, ReleaseLock, Stop, LoseConnection, table
<1>2. /\ UNCHANGED <<used, accepted>> /\ holder' \in {holder, Nobody, w}
      /\ worker' \in {worker} \union {[worker EXCEPT ![w].at = at] : at \in Steps \ {"send", "finish"}}
                              \union {[worker EXCEPT ![w] = Idle]}
  BY DEF GetLock, CheckMaintenance, MarkAbandoned, CancelExpired, NothingToSend, PutAside, ReleaseLock,
         Stop, LoseConnection, table, Goto, Steps
<1>3. worker' \in [Worker -> Task] /\ Told'
  BY <1>1, <1>2, WorkerMoves
<1> QED
  BY <1>1, <1>2, <1>3 DEF Used

(* A claim takes a message from the queue, which nobody has in hand.       *)
LEMMA ClaimKeeps ==
  ASSUME DispatchAssumption, DispatchInv, NEW w \in Worker, NEW d \in Delivery, ClaimMessage(w, d)
  PROVE  DispatchInv'
<1> USE DEF DispatchInv, TypeOK
<1> DEFINE n == email[d].attempts + 1
           row == [email[d] EXCEPT !.status = "processing", !.attempts = n]
           task == [at |-> "send", row |-> d, attempts |-> n, result |-> "none"]
<1>1. email[d] \in Row /\ Status(d) = "queued" /\ email[d].attempts < MaxAttempts /\ accepted[d] = 0
  BY DEF ClaimMessage, FirstInLine, Sendable, Told, RowsFit, StatusTellsTheTruth
<1>2. n \in 0..MaxAttempts
  BY <1>1 DEF Row, DispatchAssumption
<1>3. row.status = "processing" /\ row.attempts = n /\ row \in Row
  <2> HIDE DEF n
  <2>1. row.status = "processing" /\ row.attempts = n /\ row.wait = email[d].wait
        /\ row.handed = email[d].handed /\ row.expired = email[d].expired
    BY <1>1 DEF Row
  <2>2. row \in Row
    BY <1>1, <1>2 DEF Row, Statuses
  <2> QED
    BY <2>1, <2>2
<1>4. email' = [email EXCEPT ![d] = row]
  BY DEF ClaimMessage
<1>5. email'[d].attempts = n
  BY <1>3, <1>4
<1>6. worker' = [worker EXCEPT ![w] = task]
  BY <1>5 DEF ClaimMessage
<1>7. task \in Task /\ task.at = "send" /\ task.row = d /\ task.attempts = n
  <2> HIDE DEF n
  <2> QED
    BY <1>2 DEF Task, Steps
<1>8. UNCHANGED <<holder, restoring, accepted, faults>> /\ At(w, "claim")
  BY DEF ClaimMessage
<1>9. used' \in [routine : 0..(Limit - Reserve), security : 0..Limit] /\ Used' <= Limit
  BY DEF ClaimMessage, QuotaSpent, Charge, Used, DispatchAssumption
<1> HIDE DEF n, row, task
<1>10. email' \in [Delivery -> Row] /\ worker' \in [Worker -> Task]
  BY <1>3, <1>4, <1>6, <1>7
<1>11. /\ \A x \in Delivery \ {d} : email'[x] = email[x]
       /\ \A v \in Worker \ {w} : worker'[v] = worker[v]
       /\ email'[d].status = "processing" /\ worker'[w] = task
  BY <1>3, <1>4, <1>6
<1>12. \A v \in Worker : InHand(v) => worker[v].row # d /\ v # w
  BY <1>1, <1>8 DEF Told, Knows, InHand, At
<1>13. RowsFit'
  BY <1>8, <1>11 DEF Told, RowsFit, Status
<1>14. \A v \in Worker : Knows(v)'
  BY <1>1, <1>5, <1>7, <1>8, <1>11, <1>12 DEF Told, Knows, InHand, Status, At
<1>15. HandsApart'
  BY <1>7, <1>11, <1>12 DEF Told, HandsApart, InHand
<1>16. StatusTellsTheTruth'
  BY <1>8, <1>11, <1>1 DEF Told, StatusTellsTheTruth, Status
<1> QED
  BY <1>8, <1>9, <1>10, <1>13, <1>14, <1>15, <1>16 DEF Told

(* The provider hears of a message that it has not accepted, for it was    *)
(* not in the queue meanwhile.                                             *)
LEMMA SendKeeps ==
  ASSUME DispatchAssumption, DispatchInv, NEW w \in Worker, Send(w) PROVE DispatchInv'
<1> USE DEF DispatchInv, TypeOK
<1>1. PICK d \in Delivery : /\ d = worker[w].row /\ Status(d) \in {"processing", "unknown", "cancelled"}
                            /\ email[d].attempts = worker[w].attempts /\ accepted[d] = 0
  BY DEF Send, Told, Knows, InHand, At
<1>2. PICK result \in {"accepted", "unknown", "retry", "permanent"} :
        /\ worker' = [worker EXCEPT ![w].at = "finish", ![w].result = result]
        /\ accepted' \in {accepted, [accepted EXCEPT ![d] = 1]}
        /\ result = "accepted" => accepted' = [accepted EXCEPT ![d] = 1]
        /\ result \in {"retry", "permanent"} => accepted' = accepted
  BY <1>1 DEF Send
<1>3. UNCHANGED <<email, used, throttled, holder>> /\ At(w, "send")
  BY DEF Send, table
<1> DEFINE task == [worker[w] EXCEPT !.at = "finish", !.result = result]
<1>4. worker' = [worker EXCEPT ![w] = task]
  BY <1>2
<1>5. task \in Task /\ task.at = "finish" /\ task.result = result /\ task.row = d
      /\ task.attempts = worker[w].attempts
  BY <1>1 DEF Task, Steps, Results
<1> HIDE DEF task
<1>6. worker' \in [Worker -> Task] /\ accepted' \in [Delivery -> 0..2]
  <2>1. accepted' \in [Delivery -> 0..2]
    BY <1>2
  <2> QED
    BY <2>1, <1>4, <1>5
<1>7. /\ \A v \in Worker \ {w} : worker'[v] = worker[v]
      /\ \A x \in Delivery \ {d} : accepted'[x] = accepted[x]
      /\ worker'[w] = task /\ accepted'[d] \in {0, 1}
      /\ result = "accepted" => accepted'[d] = 1
      /\ result \in {"retry", "permanent"} => accepted'[d] = 0
  BY <1>1, <1>2, <1>4
<1>8. \A v \in Worker \ {w} : InHand(v) => worker[v].row # d
  BY <1>1, <1>3 DEF Told, HandsApart, InHand, At
<1>9. RowsFit'
  BY <1>1, <1>3, <1>7 DEF Told, RowsFit, Status
<1>10. \A v \in Worker : Knows(v)'
  BY <1>1, <1>3, <1>5, <1>7, <1>8 DEF Told, Knows, InHand, Status, At, Results
<1>11. HandsApart'
  BY <1>5, <1>7, <1>8 DEF Told, HandsApart, InHand
<1>12. StatusTellsTheTruth'
  BY <1>1, <1>3, <1>7 DEF Told, StatusTellsTheTruth, Status
<1> QED
  BY <1>3, <1>6, <1>9, <1>10, <1>11, <1>12 DEF Told, Used

LEMMA OutcomeTells ==
  ASSUME NEW result \in Results, NEW attempts \in Nat
  PROVE  LET o == Outcome(result, attempts)
         IN  /\ o \in {"accepted", "queued", "failed", "unknown"}
             /\ o = "accepted" => result = "accepted"
             /\ o = "queued" => result = "retry" /\ attempts < MaxAttempts
             /\ o = "failed" => result \in {"retry", "permanent"}
  BY DEF Outcome, Results

(* What is written after a send is true, whatever the status was by then.  *)
LEMMA FinishKeeps ==
  ASSUME DispatchAssumption, DispatchInv, NEW w \in Worker, Finish(w) PROVE DispatchInv'
<1> USE DEF DispatchInv, TypeOK
<1>1. PICK d \in Delivery : d = worker[w].row
  BY DEF Finish, Told, Knows, InHand, At
<1>2. PICK result \in Results : result = worker[w].result
  BY DEF Finish, Told, Knows, InHand, At
<1>3. PICK attempts \in 0..MaxAttempts : attempts = worker[w].attempts /\ attempts = email[d].attempts
  BY <1>1 DEF Finish, Told, Knows, InHand, At, Task
<1>4. /\ accepted[d] \in {0, 1}
      /\ result = "accepted" => accepted[d] = 1
      /\ result \in {"retry", "permanent"} => accepted[d] = 0
      /\ At(w, "finish")
  BY <1>1, <1>2 DEF Finish, Told, Knows, InHand, At, StatusTellsTheTruth
<1>5. PICK status : status = Outcome(result, attempts)
  OBVIOUS
<1>6. /\ status \in {"accepted", "queued", "failed", "unknown"}
      /\ status = "accepted" => accepted[d] = 1
      /\ status \in {"queued", "failed"} => accepted[d] = 0
      /\ status = "queued" => attempts < MaxAttempts
  BY <1>3, <1>4, <1>5, OutcomeTells DEF DispatchAssumption
<1> DEFINE wait == IF status = "queued" THEN "delay" ELSE email[d].wait
           row == [email[d] EXCEPT !.status = status, !.wait = wait]
<1>7. email' = [email EXCEPT ![d] = row]
  BY <1>1, <1>2, <1>3, <1>5 DEF Finish
<1>8. row \in Row /\ row.status = status /\ row.attempts = attempts
  <2>1. email[d] \in Row /\ wait \in {"no", "delay", "quota"} /\ status \in Statuses
    BY <1>6 DEF Row, Statuses
  <2> HIDE DEF wait
  <2> QED
    BY <2>1, <1>3 DEF Row
<1>9. PICK task \in Task : worker' = [worker EXCEPT ![w] = task] /\ task.at = "unlock"
  <2>1. [worker[w] EXCEPT !.at = "unlock"] \in Task /\ [worker[w] EXCEPT !.at = "unlock"].at = "unlock"
    BY DEF Task, Steps
  <2> QED
    BY <2>1 DEF Finish, Goto
<1>10. UNCHANGED <<used, holder, accepted>>
  BY DEF Finish
<1> HIDE DEF row
<1>11. email' \in [Delivery -> Row] /\ worker' \in [Worker -> Task]
  BY <1>7, <1>8, <1>9
<1>12. /\ \A x \in Delivery \ {d} : email'[x] = email[x]
       /\ \A v \in Worker \ {w} : worker'[v] = worker[v]
       /\ email'[d].status = status /\ email'[d].attempts = attempts /\ worker'[w].at = "unlock"
  BY <1>7, <1>8, <1>9
<1>13. \A v \in Worker \ {w} : InHand(v) => worker[v].row # d
  BY <1>1, <1>4 DEF Told, HandsApart, InHand, At
<1>14. RowsFit'
  BY <1>6, <1>10, <1>12 DEF Told, RowsFit, Status
<1>15. \A v \in Worker : Knows(v)'
  BY <1>10, <1>12, <1>13 DEF Told, Knows, InHand, Status, At
<1>16. HandsApart'
  BY <1>12 DEF Told, HandsApart, InHand
<1>17. StatusTellsTheTruth'
  BY <1>4, <1>6, <1>10, <1>12 DEF Told, StatusTellsTheTruth, Status
<1> QED
  BY <1>10, <1>11, <1>14, <1>15, <1>16, <1>17 DEF Told, Used

(* A failure after a send makes its result no better known than it was.    *)
LEMMA FailKeeps ==
  ASSUME DispatchAssumption, DispatchInv, NEW w \in Worker, Fail(w) PROVE DispatchInv'
<1> USE DEF DispatchInv, TypeOK
<1>1. UNCHANGED <<email, used, throttled, holder, accepted>>
  BY DEF Fail, table
<1>2. email' \in [Delivery -> Row] /\ \A d \in Delivery : Moves(d)
  BY <1>1 DEF Moves
<1>3. CASE worker' = [worker EXCEPT ![w].at = "unlock"]
  <2>1. worker' \in [Worker -> Task] /\ Told'
    BY <1>1, <1>2, <1>3, WorkerMoves DEF Steps
  <2> QED
    BY <1>1, <2>1 DEF Used
<1>4. ASSUME NEW result \in {"unknown", "interrupted"},
             At(w, "finish"), worker' = [worker EXCEPT ![w].result = result]
      PROVE  DispatchInv'
  <2>1. PICK task \in Task : /\ worker' = [worker EXCEPT ![w] = task]
                             /\ task.at = "finish" /\ task.row = worker[w].row
                             /\ task.attempts = worker[w].attempts /\ task.result = result
    <3>1. /\ [worker[w] EXCEPT !.result = result] \in Task
          /\ [worker[w] EXCEPT !.result = result].at = worker[w].at
          /\ [worker[w] EXCEPT !.result = result].row = worker[w].row
          /\ [worker[w] EXCEPT !.result = result].attempts = worker[w].attempts
          /\ [worker[w] EXCEPT !.result = result].result = result
      BY DEF Task, Results
    <3> QED
      BY <3>1, <1>4 DEF At
  <2>2. worker' \in [Worker -> Task]
    BY <2>1
  <2>3. \A v \in Worker : /\ worker'[v].at = worker[v].at /\ worker'[v].row = worker[v].row
                          /\ worker'[v].attempts = worker[v].attempts
                          /\ worker'[v].result = worker[v].result \/ (v = w /\ worker'[v].result = result)
    BY <2>1, <1>4 DEF At
  <2>4. \A v \in Worker : Knows(v)'
    BY <1>1, <1>4, <2>3 DEF Told, Knows, InHand, Status, At, Results
  <2>5. RowsFit' /\ HandsApart' /\ StatusTellsTheTruth'
    BY <1>1, <2>3 DEF Told, RowsFit, HandsApart, InHand, StatusTellsTheTruth, Status
  <2> QED
    BY <1>1, <2>2, <2>4, <2>5 DEF Told, Used
<1> QED
  BY <1>3, <1>4 DEF Fail, Goto

(* ------------------------------------------------------------- theorems *)

LEMMA InitKeeps == ASSUME DispatchAssumption, Init PROVE DispatchInv
<1> USE DEF Init, DispatchAssumption
<1>1. Absent \in Row /\ Absent.status = "absent" /\ Absent.attempts = 0
  <2>1. 0 \in 0..MaxAttempts
    OBVIOUS
  <2> QED
    BY <2>1 DEF Absent, Row, Statuses
<1>2. Idle \in Task /\ Idle.at = "idle"
  BY DEF Idle, Task, Steps
<1>3. TypeOK /\ worker \in [Worker -> Task]
  BY <1>1, <1>2 DEF TypeOK, Used
<1>4. \A d \in Delivery : Status(d) = "absent" /\ accepted[d] = 0
  BY <1>1 DEF Status
<1>5. \A w \in Worker : ~InHand(w)
  BY <1>2 DEF InHand
<1>6. Told
  BY <1>4, <1>5 DEF Told, RowsFit, Knows, HandsApart, StatusTellsTheTruth
<1> QED
  BY <1>3, <1>6 DEF DispatchInv

LEMMA NextKeeps == ASSUME DispatchAssumption, DispatchInv, [Next]_vars PROVE DispatchInv'
<1>1. ASSUME NEW w \in Worker, Work(w) \/ Fail(w) \/ Stop(w) \/ LoseConnection(w) PROVE DispatchInv'
  <2>1. ASSUME NEW d \in Delivery, ClaimMessage(w, d) PROVE DispatchInv'
    BY <2>1, ClaimKeeps
  <2>2. CASE Send(w)
    BY <2>2, SendKeeps
  <2>3. CASE Finish(w)
    BY <2>3, FinishKeeps
  <2>4. CASE Fail(w)
    BY <2>4, FailKeeps
  <2> QED
    BY <1>1, <2>1, <2>2, <2>3, <2>4, WaysKeep DEF Work
<1>2. CASE vars' = vars
  BY <1>2 DEF vars, DispatchInv, TypeOK, Told, RowsFit, Knows, InHand, HandsApart, StatusTellsTheTruth, Status, Used, At
<1> QED
  BY <1>1, <1>2, RowStepsKeep, RestoreKeeps, TimeKeeps DEF Next

(* The tables, the workers and the quota, with what every worker knows of  *)
(* the message that it has in hand, under every overlap.                   *)
THEOREM DispatchInvariant == DispatchAssumption => (Spec => []DispatchInv)
<1>1. DispatchAssumption /\ Init => DispatchInv
  BY InitKeeps
<1>2. DispatchAssumption /\ DispatchInv /\ [Next]_vars => DispatchInv'
  BY NextKeeps
<1>3. DispatchAssumption => DispatchAssumption'
  BY DEF DispatchAssumption
<1> QED
  BY <1>1, <1>2, <1>3, PTL DEF Spec

(* The tables keep to what statements write; routine messages leave the    *)
(* reserve to security messages, and both keep to the limit of a period.   *)
THEOREM DispatchTyped == DispatchAssumption => (Spec => []TypeOK)
<1>1. DispatchInv => TypeOK
  BY DEF DispatchInv
<1> QED
  BY <1>1, DispatchInvariant, PTL

(* No message is accepted twice by the provider, and what can be sent or   *)
(* retried was not accepted, although workers lose the lock while they     *)
(* send and write what they learn over whatever was written since.         *)
THEOREM StatusIsTrue == DispatchAssumption => (Spec => []StatusTellsTheTruth)
<1>1. DispatchInv => StatusTellsTheTruth
  BY DEF DispatchInv, Told
<1> QED
  BY <1>1, DispatchInvariant, PTL
===============================================================================
