---------------------------- MODULE DeliveryProofs ----------------------------
(* The outbox keeps what EventDelivery promises, for every value of the    *)
(* constants: any number of events and processes that stop at any step.    *)
(* The outbox and the email worker keep together what each of them         *)
(* promises by itself; and so they do in the scenes of MCDelivery.         *)
EXTENDS MCDelivery, FiniteSetTheorems, TLAPS

(* --------------------------------------------------- the rows and the work *)

Statuses == {"absent", "pending", "delivered"}
Stages == {"idle", "publish", "record", "look", "write", "message", "mark", "release"}
Entry == [event : Event, attempts : Int]
Task == [at : Stages, batch : Seq(Entry), row : Nat]
NoticeKinds == {"manual", "notice", "reminder"}

Rows == [kind : EventKinds \union {"none"}, status : Statuses, wait : Int, lock : Int,
         attempts : Int, failed : BOOLEAN]

(* A row of the table has a kind from the moment it is there.              *)
IsRow(r) == r \in Rows /\ (r.kind = "none" <=> r.status = "absent")

RowsAreRows == outbox \in [Event -> Rows] /\ \A e \in Event : IsRow(outbox[e])

WorkIsWork ==
  /\ worker \in [Worker -> Task]
  /\ reminders \in Seq(Event) /\ keyed \subseteq Event
  /\ effects \in [Event -> 0..2]
  /\ \A w \in Worker : \A i \in 1..Len(worker[w].batch) : Kind(worker[w].batch[i].event) # "none"

(* What a process knows of its row at each step.                           *)
Knows(w) ==
  LET e == Row(w)
  IN  /\ worker[w].at # "idle" => worker[w].batch # <<>>
      /\ At(w, "publish") => Kind(e) = "manual"
      /\ At(w, "record") => Kind(e) = "audit"
      /\ worker[w].at \in {"look", "write", "message"} => Kind(e) \in {"notice", "reminder"}
      /\ At(w, "write") /\ worker[w].row # 0 => Kind(e) = "reminder"
      /\ At(w, "message") => effects[e] > 0
      /\ At(w, "mark") => Kind(e) = "email" \/ effects[e] > 0

(* A key stands for an effect, and the other way round for the events that *)
(* take effect once.                                                       *)
KeysTell ==
  /\ \A e \in keyed : effects[e] > 0
  /\ \A i \in DOMAIN reminders : effects[reminders[i]] > 0
  /\ \A e \in Event : effects[e] > 0 => Kind(e) # "none"
  /\ \A e \in Event : Kind(e) \in {"manual", "notice", "audit"} /\ effects[e] > 0 => e \in keyed

OutboxInv == RowsAreRows /\ WorkIsWork /\ (\A w \in Worker : Knows(w)) /\ KeysTell
(* ------------------------------------------------------------ what steps do *)

KindsLast == \A e \in Event : Kind(e) # "none" => Kind(e)' = Kind(e)
SameKinds == \A e \in Event : Kind(e)' = Kind(e)
Delivered == {e \in Event : outbox[e].status = "delivered"}
MessageComes ==
  \E m \in Event : /\ Kind(m) = "none" /\ Kind(m)' = "email"
                   /\ \A x \in Event \ {m} : Kind(x)' = Kind(x)

LEMMA AbsentIsRow == IsRow(Absent) /\ Absent.kind = "none" /\ Absent.status = "absent"
BY DEF IsRow, Absent, Statuses, Unlocked, Rows

LEMMA ArrivingIsRow ==
  ASSUME NEW kind \in EventKinds, NEW delay \in Int
  PROVE  /\ IsRow(Arriving(kind, delay))
         /\ Arriving(kind, delay).kind = kind /\ Arriving(kind, delay).status = "pending"
<1>1. Absent \in Rows
  BY AbsentIsRow DEF IsRow
<1> QED
  BY <1>1 DEF IsRow, Arriving, Statuses, EventKinds, Rows

(* A notice's email is queued at most once, and nothing else is touched.   *)
LEMMA HandsOver ==
  ASSUME RowsAreRows, NEW e \in Event, HandOver(e)
  PROVE  RowsAreRows' /\ Delivered' = Delivered /\ (SameKinds \/ MessageComes)
<1>1. CASE UNCHANGED outbox
  BY <1>1 DEF RowsAreRows, SameKinds, Delivered, Kind
<1>2. CASE ~UNCHANGED outbox
  <2> DEFINE m == MessageOf[e]
  <2>1. /\ m # None /\ outbox[m] = Absent
        /\ outbox' = [outbox EXCEPT ![m] = Arriving("email", 0)]
    BY <1>2 DEF HandOver
  <2>2. m \in Event
    BY <2>1, EventAssumption
  <2>3. "email" \in EventKinds
    BY DEF EventKinds
  <2>4. /\ outbox'[m] = Arriving("email", 0) /\ \A x \in Event \ {m} : outbox'[x] = outbox[x]
        /\ outbox' \in [Event -> Rows]
    BY <2>1, <2>2, <2>3, ArrivingIsRow DEF RowsAreRows, IsRow
  <2>5. RowsAreRows'
    BY <2>2, <2>3, <2>4, ArrivingIsRow DEF RowsAreRows
  <2>6. Kind(m) = "none" /\ Kind(m)' = "email" /\ outbox[m].status = "absent" /\ outbox'[m].status = "pending"
    BY <2>1, <2>3, <2>4, ArrivingIsRow, AbsentIsRow DEF Kind
  <2>7. MessageComes
    BY <2>2, <2>4, <2>6 DEF MessageComes, Kind
  <2>8. Delivered' = Delivered
    BY <2>2, <2>4, <2>6 DEF Delivered
  <2> QED
    BY <2>5, <2>7, <2>8
<1> QED
  BY <1>1, <1>2

(* What a process does to the row in its hands, or to those it claims.     *)
LEMMA RowsChange ==
  ASSUME RowsAreRows, NEW S \in SUBSET Event, outbox' \in [Event -> Rows],
         \A x \in Event : IF x \in S THEN IsRow(outbox'[x]) /\ outbox'[x].kind = outbox[x].kind
                          ELSE outbox'[x] = outbox[x]
  PROVE  RowsAreRows' /\ SameKinds
BY DEF RowsAreRows, SameKinds, Kind

(* ------------------------------------------------------------- the promise *)

LEMMA ClassesOfKinds ==
  ASSUME NEW k
  PROVE  /\ k = "none" => ClassOf(k) = "none"
         /\ k = "reminder" => ClassOf(k) = "rewriting"
         /\ k = "email" => ClassOf(k) = "handoff"
         /\ k \in {"manual", "notice", "audit"} => ClassOf(k) = "once"
BY DEF ClassOf

(* The class of each event, as the promise sees it.                        *)
Bar == [e \in Event |-> ClassOf(Kind(e))]

LEMMA SameClasses ==
  ASSUME SameKinds
  PROVE  Bar' = Bar
BY DEF SameKinds, Bar

LEMMA AcceptedHaveKinds ==
  ASSUME NEW e \in Event, Kind(e) \in EventKinds \union {"none"}
  PROVE  e \in Promise!Accepted <=> Kind(e) # "none"
BY ClassesOfKinds DEF Promise!Accepted, EventKinds

LEMMA Stutters ==
  ASSUME SameKinds, Delivered' = Delivered, UNCHANGED <<effects, cancelled>>
  PROVE  UNCHANGED Promise!vars
BY SameClasses DEF Delivered, Promise!vars, Bar

LEMMA Applies ==
  ASSUME NEW e \in Event, Write(e), UNCHANGED cancelled, Delivered' = Delivered,
         SameKinds \/ MessageComes,
         \/ Kind(e) = "reminder"
         \/ Kind(e) \in {"manual", "notice", "audit"} /\ effects[e] = 0
  PROVE  Promise!Next
<1>0. Bar[e] = "rewriting" \/ (Bar[e] = "once" /\ effects[e] = 0)
  BY ClassesOfKinds DEF Bar
<1>1. ASSUME NEW messages \in SUBSET {x \in Event : Kind(x) = "none"},
             \A x \in Event : Kind(x)' = IF x \in messages THEN "email" ELSE Kind(x)
      PROVE  Promise!Apply(e)
  <2>1. messages \in SUBSET (Event \ Promise!Accepted)
    BY ClassesOfKinds DEF Promise!Accepted
  <2>2. Bar' = [x \in Event |-> IF x \in messages THEN "handoff" ELSE Bar[x]]
    BY <1>1, ClassesOfKinds DEF Bar
  <2>3. \E ms \in SUBSET (Event \ Promise!Accepted) :
          Bar' = [x \in Event |-> IF x \in ms THEN "handoff" ELSE Bar[x]]
    BY <2>1, <2>2
  <2>4. effects' = [effects EXCEPT ![e] = IF @ = 0 THEN 1 ELSE 2]
    BY DEF Write
  <2> QED
    BY <1>0, <2>3, <2>4 DEF Promise!Apply, Delivered, Bar
<1>2. CASE SameKinds
  <2>1. \A x \in Event : Kind(x)' = IF x \in {} THEN "email" ELSE Kind(x)
    BY <1>2 DEF SameKinds
  <2>2. {} \in SUBSET {x \in Event : Kind(x) = "none"}
    OBVIOUS
  <2>3. Promise!Apply(e)
    BY <1>1, <2>1, <2>2
  <2> QED
    BY <2>3 DEF Promise!Next
<1>3. CASE MessageComes
  <2>1. PICK m \in Event : /\ Kind(m) = "none" /\ Kind(m)' = "email"
                           /\ \A x \in Event \ {m} : Kind(x)' = Kind(x)
    BY <1>3 DEF MessageComes
  <2>2. \A x \in Event : Kind(x)' = IF x \in {m} THEN "email" ELSE Kind(x)
    BY <2>1
  <2>3. Promise!Apply(e)
    BY <1>1, <2>1, <2>2
  <2> QED
    BY <2>3 DEF Promise!Next
<1> QED
  BY <1>2, <1>3

LEMMA Accepts ==
  ASSUME NEW e \in Event, Kind(e) = "none", Kind(e)' \in EventKinds,
         \A x \in Event \ {e} : Kind(x)' = Kind(x),
         Delivered' = Delivered, UNCHANGED <<effects, cancelled>>
  PROVE  Promise!Next
<1>1. e \notin Promise!Accepted
  BY ClassesOfKinds DEF Promise!Accepted
<1>2. Bar'[e] \in Promise!Classes
  BY ClassesOfKinds DEF Promise!Classes, EventKinds, Bar
<1>3. Bar' = [Bar EXCEPT ![e] = Bar'[e]]
  BY DEF Bar
<1>4. Promise!Accept(e)
  BY <1>1, <1>2, <1>3 DEF Promise!Accept, Delivered, Bar
<1> QED
  BY <1>4 DEF Promise!Next

LEMMA Settles ==
  ASSUME NEW e \in Event, SameKinds, e \notin Delivered, Delivered' = Delivered \union {e},
         UNCHANGED effects, Kind(e) \in EventKinds,
         \/ UNCHANGED cancelled /\ (Kind(e) = "email" \/ effects[e] > 0)
         \/ cancelled' = cancelled \union {e}
  PROVE  Promise!Next
<1>1. e \in Promise!Accepted
  BY AcceptedHaveKinds DEF EventKinds
<1>2. Kind(e) = "email" => Bar[e] = "handoff"
  BY ClassesOfKinds DEF Bar
<1>3. Bar' = Bar
  BY SameClasses
<1>4. Promise!Settle(e) \/ Promise!Withdraw(e)
  BY <1>1, <1>2, <1>3 DEF Promise!Settle, Promise!Withdraw, Delivered, Bar
<1> QED
  BY <1>4 DEF Promise!Next

(* ------------------------------------------------------------ the processes *)

Grow == \A e \in Event : effects[e] > 0 => effects'[e] > 0

LEMMA RowInHand ==
  ASSUME OutboxInv, NEW w \in Worker, worker[w].at # "idle"
  PROVE  /\ Row(w) \in Event /\ Kind(Row(w)) \in EventKinds
         /\ worker[w].batch # <<>> /\ worker[w].batch \in Seq(Entry)
<1>1. worker[w].batch # <<>> /\ worker[w].batch \in Seq(Entry)
  BY DEF OutboxInv, Knows, WorkIsWork, Task
<1>2. Len(worker[w].batch) > 0 /\ Head(worker[w].batch) = worker[w].batch[1] /\ worker[w].batch[1] \in Entry
  BY <1>1
<1>3. Row(w) \in Event /\ Kind(Row(w)) # "none"
  BY <1>1, <1>2 DEF Row, Entry, OutboxInv, WorkIsWork
<1> QED
  BY <1>1, <1>3 DEF OutboxInv, RowsAreRows, Kind, Rows

LEMMA NothingMoves ==
  ASSUME OutboxInv, RowsAreRows', KindsLast, UNCHANGED <<worker, reminders, keyed, effects>>
  PROVE  OutboxInv'
<1>1. WorkIsWork'
  <2>1. ASSUME NEW w \in Worker, NEW i \in 1..Len(worker[w].batch)
        PROVE  Kind(worker[w].batch[i].event)' # "none"
    <3>1. worker[w].batch \in Seq(Entry) /\ Kind(worker[w].batch[i].event) # "none"
      BY <2>1 DEF OutboxInv, WorkIsWork, Task
    <3>2. worker[w].batch[i] \in Entry
      BY <2>1, <3>1
    <3>3. worker[w].batch[i].event \in Event
      BY <3>2 DEF Entry
    <3> QED
      BY <3>1, <3>3 DEF KindsLast, Kind
  <2> QED
    BY <2>1 DEF OutboxInv, WorkIsWork
<1>2. ASSUME NEW w \in Worker
      PROVE  Knows(w)'
  <2>1. CASE worker[w].at = "idle"
    BY <2>1 DEF Knows, At
  <2>2. CASE worker[w].at # "idle"
    <3>1. Row(w) \in Event /\ Kind(Row(w)) # "none"
      BY <2>2, RowInHand DEF EventKinds
    <3>2. Row(w)' = Row(w)
      BY DEF Row
    <3>3. Kind(Row(w))' = Kind(Row(w))
      BY <3>1, <3>2 DEF KindsLast, Kind
    <3> QED
      BY <3>2, <3>3 DEF Knows, At, OutboxInv
  <2> QED
    BY <2>1, <2>2
<1>3. KeysTell'
  BY DEF OutboxInv, KeysTell, KindsLast, Kind
<1> QED
  BY <1>1, <1>2, <1>3 DEF OutboxInv

(* One process goes on to another step, and the rest of them know what     *)
(* they knew.                                                              *)
LEMMA OneMoves ==
  ASSUME OutboxInv, RowsAreRows', KindsLast, Grow, NEW w \in Worker, NEW task \in Task,
         worker' = [worker EXCEPT ![w] = task],
         \A i \in 1..Len(task.batch) : Kind(task.batch[i].event) # "none",
         reminders' \in Seq(Event), keyed' \subseteq Event, effects' \in [Event -> 0..2],
         Knows(w)', KeysTell'
  PROVE  OutboxInv'
<1>1. worker' \in [Worker -> Task] /\ worker'[w] = task /\ \A x \in Worker \ {w} : worker'[x] = worker[x]
  BY DEF OutboxInv, WorkIsWork
<1>2. ASSUME NEW x \in Worker, NEW i \in 1..Len(worker'[x].batch)
      PROVE  Kind(worker[x].batch[i].event)' # "none"
  <2>1. Kind(worker'[x].batch[i].event) # "none"
    BY <1>1, <1>2 DEF OutboxInv, WorkIsWork
  <2>2. worker'[x].batch \in Seq(Entry)
    BY <1>1 DEF Task
  <2>3. worker'[x].batch[i] \in Entry
    BY <1>2, <2>2
  <2>4. worker'[x].batch[i].event \in Event
    BY <2>3 DEF Entry
  <2> QED
    BY <2>1, <2>4 DEF KindsLast, Kind
<1>3. ASSUME NEW x \in Worker \ {w}
      PROVE  Knows(x)'
  <2>1. CASE worker[x].at = "idle"
    BY <1>1, <2>1 DEF Knows, At
  <2>2. CASE worker[x].at # "idle"
    <3>1. Row(x) \in Event /\ Kind(Row(x)) # "none"
      BY <2>2, RowInHand DEF EventKinds
    <3>2. Row(x)' = Row(x)
      BY <1>1 DEF Row
    <3>3. Kind(Row(x))' = Kind(Row(x))
      BY <3>1, <3>2 DEF KindsLast, Kind
    <3> QED
      BY <1>1, <3>1, <3>2, <3>3 DEF Knows, At, OutboxInv, Grow
  <2> QED
    BY <2>1, <2>2
<1>4. WorkIsWork'
  BY <1>1, <1>2 DEF WorkIsWork
<1>5. \A x \in Worker : Knows(x)'
  BY <1>3
<1> QED
  BY <1>4, <1>5 DEF OutboxInv

(* A process goes to the next statement for the row in its hands.          *)
LEMMA GoesOn ==
  ASSUME OutboxInv, RowsAreRows', KindsLast, Grow, NEW w \in Worker, worker[w].at # "idle",
         NEW step \in {"message", "mark", "release"}, Goto(w, step),
         reminders' \in Seq(Event), keyed' \subseteq Event, effects' \in [Event -> 0..2], KeysTell',
         step = "message" => Kind(Row(w)) \in {"notice", "reminder"} /\ effects'[Row(w)] > 0,
         step = "mark" => Kind(Row(w)) = "email" \/ effects'[Row(w)] > 0
  PROVE  OutboxInv'
<1> DEFINE task == [worker[w] EXCEPT !.at = step]
<1>1. worker \in [Worker -> Task] /\ worker' = [worker EXCEPT ![w] = task]
  BY DEF Goto, OutboxInv, WorkIsWork
<1>2. task \in Task /\ task.batch = worker[w].batch /\ task.at = step
  BY <1>1 DEF Task, Stages
<1>3. \A i \in 1..Len(task.batch) : Kind(task.batch[i].event) # "none"
  BY <1>2 DEF OutboxInv, WorkIsWork
<1>4. Row(w) \in Event /\ Kind(Row(w)) # "none" /\ worker[w].batch # <<>>
  BY RowInHand DEF EventKinds
<1>5. worker'[w] = task /\ Row(w)' = Row(w)
  BY <1>1, <1>2 DEF Row
<1>6. Kind(Row(w))' = Kind(Row(w))
  BY <1>4, <1>5 DEF KindsLast, Kind
<1>7. Knows(w)'
  BY <1>2, <1>4, <1>5, <1>6 DEF Knows, At
<1> HIDE DEF task
<1> QED
  BY <1>1, <1>2, <1>3, <1>7, OneMoves

LEMMA FirstSteps ==
  ASSUME NEW e
  PROVE  /\ Kind(e) = "manual" => FirstStep(e) = "publish"
         /\ Kind(e) \in {"notice", "reminder"} => FirstStep(e) = "look"
         /\ Kind(e) = "audit" => FirstStep(e) = "record"
         /\ Kind(e) = "email" => FirstStep(e) = "mark"
BY DEF FirstStep

(* A process starts on a batch.                                            *)
LEMMA StartsOn ==
  ASSUME OutboxInv, RowsAreRows', SameKinds, NEW w \in Worker, NEW batch \in Seq(Entry),
         \A i \in 1..Len(batch) : Kind(batch[i].event) # "none",
         worker' = [worker EXCEPT ![w] = Working(batch)], UNCHANGED <<reminders, keyed, effects>>
  PROVE  OutboxInv'
<1>1. worker \in [Worker -> Task] /\ worker'[w] = Working(batch)
  BY DEF OutboxInv, WorkIsWork
<1>2. KeysTell' /\ KindsLast /\ Grow
  BY DEF OutboxInv, KeysTell, SameKinds, Kind, KindsLast, Grow
<1>3. reminders' \in Seq(Event) /\ keyed' \subseteq Event /\ effects' \in [Event -> 0..2]
  BY DEF OutboxInv, WorkIsWork
<1>4. CASE batch = <<>>
  <2>1. Working(batch) = Idle
    BY <1>4 DEF Working
  <2>2. Idle \in Task /\ Idle.batch = <<>> /\ Idle.at = "idle"
    BY DEF Idle, Task, Stages
  <2>3. \A i \in 1..Len(Idle.batch) : Kind(Idle.batch[i].event) # "none"
    BY <2>2
  <2>4. Knows(w)'
    BY <1>1, <2>1, <2>2 DEF Knows, At
  <2> QED
    BY <1>2, <1>3, <2>1, <2>2, <2>3, <2>4, OneMoves
<1>5. CASE batch # <<>>
  <2> DEFINE e == Head(batch).event
             task == [at |-> FirstStep(e), batch |-> batch, row |-> 0]
  <2>1. Head(batch) = batch[1] /\ Len(batch) > 0 /\ batch[1] \in Entry
    BY <1>5
  <2>2. e \in Event /\ Kind(e) # "none"
    BY <2>1 DEF Entry
  <2>3. Kind(e) \in EventKinds /\ Kind(e)' = Kind(e)
    BY <2>2 DEF OutboxInv, RowsAreRows, Rows, Kind, SameKinds
  <2>4. FirstStep(e) \in {"publish", "look", "record", "mark"}
    BY <2>3, FirstSteps DEF EventKinds
  <2>5. Working(batch) = task
    BY <1>5 DEF Working
  <2>6. task \in Task
    BY <2>4 DEF Task, Stages
  <2>7. worker'[w] = task /\ Row(w)' = e
    BY <1>1, <2>5 DEF Row
  <2>8. Kind(Row(w))' = Kind(e)
    BY <2>3, <2>7 DEF Kind
  <2>9. /\ FirstStep(e) = "publish" => Kind(e) = "manual"
        /\ FirstStep(e) = "record" => Kind(e) = "audit"
        /\ FirstStep(e) = "look" => Kind(e) \in {"notice", "reminder"}
        /\ FirstStep(e) = "mark" => Kind(e) = "email"
    BY <2>3, FirstSteps DEF EventKinds
  <2>10. Knows(w)'
    BY <1>5, <2>4, <2>7, <2>8, <2>9 DEF Knows, At
  <2> HIDE DEF task
  <2>11. task.batch = batch
    BY DEF task
  <2> QED
    BY <1>2, <1>3, <2>5, <2>6, <2>10, <2>11, OneMoves
<1> QED
  BY <1>4, <1>5

LEMMA TakesNext ==
  ASSUME OutboxInv, RowsAreRows', SameKinds, NEW w \in Worker, worker[w].at # "idle", NextRow(w),
         UNCHANGED <<reminders, keyed, effects>>
  PROVE  OutboxInv'
<1>1. worker[w].batch \in Seq(Entry) /\ worker[w].batch # <<>>
  BY RowInHand
<1>2. Tail(worker[w].batch) \in Seq(Entry)
  BY <1>1
<1>3. \A i \in 1..Len(Tail(worker[w].batch)) : Kind(Tail(worker[w].batch)[i].event) # "none"
  BY <1>1 DEF OutboxInv, WorkIsWork
<1>4. worker' = [worker EXCEPT ![w] = Working(Tail(worker[w].batch))]
  BY DEF NextRow
<1> QED
  BY <1>2, <1>3, <1>4, StartsOn

(* ----------------------------------------------------- the steps, one by one *)

Keeps == OutboxInv' /\ [Promise!Next]_(Promise!vars)

LEMMA EnqueueKeeps ==
  ASSUME OutboxInv, NEW e \in Event, Enqueue(e)
  PROVE  Keeps
<1>1. PICK kind \in Kinds[e], delay \in {0, Scheduled} : outbox' = [outbox EXCEPT ![e] = Arriving(kind, delay)]
  BY DEF Enqueue
<1>2. kind \in EventKinds /\ delay \in Int
  BY <1>1, EventAssumption, OutboxBounds
<1>3. /\ IsRow(Arriving(kind, delay)) /\ Arriving(kind, delay) \in Rows
      /\ Arriving(kind, delay).kind = kind /\ Arriving(kind, delay).status = "pending"
  BY <1>2, ArrivingIsRow DEF IsRow
<1>4. outbox[e].kind = "none" /\ outbox[e].status = "absent"
  BY AbsentIsRow DEF Enqueue
<1>5. outbox' \in [Event -> Rows] /\ outbox'[e] = Arriving(kind, delay) /\ \A x \in Event \ {e} : outbox'[x] = outbox[x]
  BY <1>1, <1>3 DEF OutboxInv, RowsAreRows
<1>6. RowsAreRows'
  BY <1>3, <1>5 DEF OutboxInv, RowsAreRows
<1>7. Kind(e) = "none" /\ Kind(e)' = kind /\ \A x \in Event \ {e} : Kind(x)' = Kind(x)
  BY <1>3, <1>4, <1>5 DEF Kind
<1>8. KindsLast
  BY <1>7 DEF KindsLast
<1>9. Delivered' = Delivered
  BY <1>3, <1>4, <1>5 DEF Delivered
<1>10. OutboxInv'
  BY <1>6, <1>8, NothingMoves DEF Enqueue
<1>11. Promise!Next
  BY <1>2, <1>7, <1>9, Accepts DEF Enqueue
<1> QED
  BY <1>10, <1>11 DEF Keeps

(* A statement that changes rows without changing what they are.           *)
LEMMA StatementKeeps ==
  ASSUME OutboxInv, NEW S \in SUBSET Event, outbox' \in [Event -> Rows],
         \A x \in Event : IF x \in S THEN /\ IsRow(outbox'[x]) /\ outbox'[x].kind = outbox[x].kind
                                          /\ outbox'[x].status = outbox[x].status
                          ELSE outbox'[x] = outbox[x],
         UNCHANGED <<effects, cancelled>>
  PROVE  RowsAreRows' /\ SameKinds /\ KindsLast /\ UNCHANGED Promise!vars
<1>1. RowsAreRows' /\ SameKinds
  BY RowsChange DEF OutboxInv
<1>2. Delivered' = Delivered
  BY DEF Delivered
<1> QED
  BY <1>1, <1>2, Stutters DEF SameKinds, KindsLast

LEMMA RetryKeeps ==
  ASSUME OutboxInv, NEW e \in Event, RetryNotice(e)
  PROVE  Keeps
<1>1. outbox \in [Event -> Rows] /\ IsRow(outbox[e])
  BY DEF OutboxInv, RowsAreRows
<1>2. outbox' \in [Event -> Rows]
  BY <1>1 DEF RetryNotice, Rows
<1>3. \A x \in Event : IF x \in {e} THEN /\ IsRow(outbox'[x]) /\ outbox'[x].kind = outbox[x].kind
                                         /\ outbox'[x].status = outbox[x].status
                       ELSE outbox'[x] = outbox[x]
  BY <1>1, <1>2 DEF RetryNotice, IsRow, Rows
<1>4. RowsAreRows' /\ KindsLast /\ UNCHANGED Promise!vars
  BY <1>2, <1>3, StatementKeeps DEF RetryNotice
<1> QED
  BY <1>4, NothingMoves DEF Keeps, RetryNotice

LEMMA TickKeeps ==
  ASSUME OutboxInv, Tick
  PROVE  Keeps
<1>1. outbox \in [Event -> Rows]
  BY DEF OutboxInv, RowsAreRows
<1>2. ASSUME NEW e \in Event
      PROVE  /\ outbox'[e] \in Rows /\ IsRow(outbox'[e])
             /\ outbox'[e].kind = outbox[e].kind /\ outbox'[e].status = outbox[e].status
  <2>1. outbox[e] \in Rows /\ IsRow(outbox[e])
    BY DEF OutboxInv, RowsAreRows
  <2>2. Sooner(outbox[e].wait) \in Int /\ Later(outbox[e].lock) \in Int
    BY <2>1 DEF Sooner, Later, Rows
  <2>3. outbox'[e] = [outbox[e] EXCEPT !.wait = Sooner(outbox[e].wait), !.lock = Later(outbox[e].lock)]
    BY DEF Tick
  <2> QED
    BY <2>1, <2>2, <2>3 DEF IsRow, Rows
<1>3. outbox' \in [Event -> Rows]
  BY <1>2 DEF Tick
<1>4. RowsAreRows' /\ KindsLast /\ UNCHANGED Promise!vars
  BY <1>2, <1>3, StatementKeeps DEF Tick
<1> QED
  BY <1>4, NothingMoves DEF Keeps, Tick

LEMMA CancelKeeps ==
  ASSUME OutboxInv, NEW e \in Event, CancelNotice(e)
  PROVE  Keeps
<1>1. outbox \in [Event -> Rows] /\ IsRow(outbox[e]) /\ outbox[e].status = "pending"
  BY DEF OutboxInv, RowsAreRows, CancelNotice, Pending
<1>2. outbox' \in [Event -> Rows]
  BY <1>1 DEF CancelNotice, Rows, Statuses
<1>3. /\ outbox'[e].status = "delivered" /\ IsRow(outbox'[e]) /\ outbox'[e].kind = outbox[e].kind
      /\ \A x \in Event \ {e} : outbox'[x] = outbox[x]
  BY <1>1, <1>2 DEF CancelNotice, IsRow, Rows
<1>4. RowsAreRows' /\ SameKinds
  BY <1>2, <1>3, RowsChange, {e} \in SUBSET Event DEF OutboxInv
<1>5. e \notin Delivered /\ Delivered' = Delivered \union {e}
  BY <1>1, <1>3 DEF Delivered
<1>6. KindsLast
  BY <1>4 DEF SameKinds, KindsLast
<1>7. Kind(e) \in EventKinds
  BY <1>1 DEF Kind, IsRow, Rows
<1>8. Promise!Next
  BY <1>4, <1>5, <1>7, Settles DEF CancelNotice
<1> QED
  BY <1>4, <1>6, <1>8, NothingMoves DEF Keeps, CancelNotice

LEMMA TableStays ==
  ASSUME OutboxInv, UNCHANGED outbox
  PROVE  RowsAreRows' /\ SameKinds /\ KindsLast /\ Delivered' = Delivered
BY DEF OutboxInv, RowsAreRows, SameKinds, KindsLast, Delivered, Kind

LEMMA StopKeeps ==
  ASSUME OutboxInv, NEW w \in Worker, Stop(w)
  PROVE  Keeps
<1>1. RowsAreRows' /\ SameKinds /\ UNCHANGED Promise!vars
  BY TableStays, Stutters DEF Stop
<1>2. <<>> \in Seq(Entry) /\ \A i \in 1..Len(<<>>) : Kind((<<>>)[i].event) # "none"
  OBVIOUS
<1>3. worker' = [worker EXCEPT ![w] = Working(<<>>)] /\ UNCHANGED <<reminders, keyed, effects>>
  BY DEF Stop
<1>4. OutboxInv'
  BY <1>1, <1>2, <1>3, StartsOn
<1> QED
  BY <1>1, <1>4 DEF Keeps

LEMMA FailKeeps ==
  ASSUME OutboxInv, NEW w \in Worker, Fail(w)
  PROVE  Keeps
<1>1. RowsAreRows' /\ SameKinds /\ KindsLast /\ UNCHANGED Promise!vars
  BY TableStays, Stutters DEF Fail
<1>2. /\ reminders' \in Seq(Event) /\ keyed' \subseteq Event /\ effects' \in [Event -> 0..2]
      /\ KeysTell' /\ Grow
  BY <1>1 DEF OutboxInv, WorkIsWork, KeysTell, SameKinds, Kind, Grow, Fail
<1>3. CASE At(w, "release") /\ NextRow(w)
  BY <1>1, <1>3, TakesNext DEF Keeps, Fail, At
<1>4. CASE worker[w].at \notin {"idle", "release"} /\ Goto(w, "release")
  <2>1. OutboxInv'
    BY <1>1, <1>2, <1>4, GoesOn
  <2> QED
    BY <1>1, <2>1 DEF Keeps
<1> QED
  BY <1>3, <1>4 DEF Fail

LEMMA ReleasedIsRow ==
  ASSUME NEW row, IsRow(row), NEW delay \in Int
  PROVE  LET released == [row EXCEPT !.wait = delay, !.lock = Unlocked, !.failed = TRUE]
         IN  IsRow(released) /\ released.kind = row.kind /\ released.status = row.status
<1> DEFINE released == [row EXCEPT !.wait = delay, !.lock = Unlocked, !.failed = TRUE]
<1>1. row \in Rows /\ Unlocked \in Int
  BY DEF IsRow, Unlocked
<1>2. released \in Rows
  BY <1>1 DEF Rows
<1>3. released.kind = row.kind /\ released.status = row.status
  BY <1>1 DEF Rows
<1> QED
  BY <1>2, <1>3 DEF IsRow

LEMMA ClaimedIsRow ==
  ASSUME NEW row, IsRow(row)
  PROVE  LET claimed == [row EXCEPT !.lock = 0, !.attempts = Attempted(row.attempts)]
         IN  IsRow(claimed) /\ claimed.kind = row.kind /\ claimed.status = row.status
<1> DEFINE claimed == [row EXCEPT !.lock = 0, !.attempts = Attempted(row.attempts)]
<1>1. row \in Rows
  BY DEF IsRow
<1>2. Attempted(row.attempts) \in Int
  BY <1>1, OutboxBounds DEF Attempted, Smaller, Rows
<1> HIDE DEF Attempted
<1>3. claimed \in Rows
  <2>1. 0 \in Int
    OBVIOUS
  <2> QED
    BY <1>1, <1>2, <2>1 DEF Rows
<1>4. claimed.kind = row.kind /\ claimed.status = row.status
  BY <1>1 DEF Rows
<1> QED
  BY <1>3, <1>4 DEF IsRow

LEMMA ReleaseKeeps ==
  ASSUME OutboxInv, NEW w \in Worker, ReleaseForRetry(w)
  PROVE  Keeps
<1> DEFINE e == Row(w)
<1>1. e \in Event /\ outbox \in [Event -> Rows] /\ IsRow(outbox[e]) /\ worker[w].at # "idle"
  BY RowInHand DEF ReleaseForRetry, At, OutboxInv, RowsAreRows
<1>2. worker[w].batch \in Seq(Entry) /\ worker[w].batch # <<>>
  BY <1>1, RowInHand
<1>3. Head(worker[w].batch) \in Entry
  BY <1>2
<1>4. Backoff(Head(worker[w].batch).attempts) \in Int
  <2> DEFINE n == Head(worker[w].batch).attempts
  <2>1. n \in Int
    BY <1>3 DEF Entry
  <2>2. Smaller(n - 1, Doublings) \in Int
    BY <2>1, OutboxBounds DEF Smaller
  <2> QED
    BY <2>2, OutboxBounds DEF Backoff, Smaller
<1>5. /\ outbox' \in [Event -> Rows]
      /\ \A x \in Event : IF x \in {e} THEN /\ IsRow(outbox'[x]) /\ outbox'[x].kind = outbox[x].kind
                                            /\ outbox'[x].status = outbox[x].status
                          ELSE outbox'[x] = outbox[x]
  <2> DEFINE row == [outbox[e] EXCEPT !.wait = Backoff(Head(worker[w].batch).attempts),
                                      !.lock = Unlocked, !.failed = TRUE]
  <2>1. CASE Pending(e)
    <3>1. row \in Rows /\ IsRow(row) /\ row.kind = outbox[e].kind /\ row.status = outbox[e].status
      BY <1>1, <1>4, ReleasedIsRow DEF IsRow
    <3>2. outbox' = [outbox EXCEPT ![e] = row]
      BY <2>1 DEF ReleaseForRetry
    <3> HIDE DEF row, e
    <3> QED
      BY <1>1, <3>1, <3>2
  <2>2. CASE ~Pending(e)
    BY <1>1, <2>2 DEF ReleaseForRetry
  <2> QED
    BY <2>1, <2>2
<1>6. RowsAreRows' /\ SameKinds /\ UNCHANGED Promise!vars
  BY <1>1, <1>5, StatementKeeps, {e} \in SUBSET Event DEF ReleaseForRetry
<1>7. OutboxInv'
  BY <1>1, <1>6, TakesNext DEF ReleaseForRetry
<1> QED
  BY <1>6, <1>7 DEF Keeps

LEMMA DueIsPending == \A e \in Due : e \in Event /\ Pending(e)
BY DEF Due, Claimable

LEMMA ClaimKeeps ==
  ASSUME OutboxInv, NEW w \in Worker, Claim(w)
  PROVE  Keeps
<1>0. PICK n \in 1..BatchLimit : \E rows \in [1..n -> Due] :
         /\ outbox' = [e \in Event |-> IF e \in {rows[i] : i \in 1..n}
                         THEN [outbox[e] EXCEPT !.lock = 0, !.attempts = Attempted(@)] ELSE outbox[e]]
         /\ worker' = [worker EXCEPT ![w] = Working(
              [i \in 1..n |-> [event |-> rows[i], attempts |-> Attempted(outbox[rows[i]].attempts)]])]
  BY DEF Claim
<1>1. PICK rows \in [1..n -> Due] :
         /\ outbox' = [e \in Event |-> IF e \in {rows[i] : i \in 1..n}
                         THEN [outbox[e] EXCEPT !.lock = 0, !.attempts = Attempted(@)] ELSE outbox[e]]
         /\ worker' = [worker EXCEPT ![w] = Working(
              [i \in 1..n |-> [event |-> rows[i], attempts |-> Attempted(outbox[rows[i]].attempts)]])]
  BY <1>0
<1> DEFINE S == {rows[i] : i \in 1..n}
           batch == [i \in 1..n |-> [event |-> rows[i], attempts |-> Attempted(outbox[rows[i]].attempts)]]
<1>2. outbox \in [Event -> Rows] /\ \A e \in Event : IsRow(outbox[e])
  BY DEF OutboxInv, RowsAreRows
<1>3. \A e \in Event : Attempted(outbox[e].attempts) \in Int
  BY <1>2, OutboxBounds DEF Attempted, Smaller, Rows
<1>4. S \in SUBSET Event /\ n \in Nat /\ \A i \in 1..n : rows[i] \in Event /\ Pending(rows[i])
  <2>1. \A i \in 1..n : rows[i] \in Due
    BY <1>1
  <2>2. \A i \in 1..n : rows[i] \in Event /\ Pending(rows[i])
    BY <2>1, DueIsPending
  <2>3. n \in Nat
    BY OutboxBounds
  <2> QED
    BY <2>2, <2>3
<1>5. ASSUME NEW e \in Event
      PROVE  /\ outbox'[e] \in Rows
             /\ IF e \in S THEN /\ IsRow(outbox'[e]) /\ outbox'[e].kind = outbox[e].kind
                                /\ outbox'[e].status = outbox[e].status
                ELSE outbox'[e] = outbox[e]
  <2> DEFINE row == [outbox[e] EXCEPT !.lock = 0, !.attempts = Attempted(outbox[e].attempts)]
  <2>1. row \in Rows /\ IsRow(row) /\ row.kind = outbox[e].kind /\ row.status = outbox[e].status
    BY <1>2, ClaimedIsRow DEF IsRow
  <2>2. outbox'[e] = IF e \in S THEN row ELSE outbox[e]
    BY <1>1
  <2> HIDE DEF row, S
  <2>3. CASE e \in S
    BY <2>1, <2>2, <2>3
  <2>4. CASE e \notin S
    BY <1>2, <2>2, <2>4
  <2> QED
    BY <2>3, <2>4
<1>6. outbox' \in [Event -> Rows]
  BY <1>1, <1>5
<1>7. RowsAreRows' /\ SameKinds /\ UNCHANGED Promise!vars
  <2> HIDE DEF S
  <2> QED
    BY <1>4, <1>5, <1>6, StatementKeeps DEF Claim
<1>8. batch \in Seq(Entry) /\ Len(batch) = n
  BY <1>3, <1>4 DEF Entry
<1>9. \A i \in 1..Len(batch) : Kind(batch[i].event) # "none"
  BY <1>2, <1>4, <1>8 DEF IsRow, Pending, Kind
<1>10. worker' = [worker EXCEPT ![w] = Working(batch)]
  BY <1>1
<1>11. OutboxInv'
  <2> HIDE DEF batch
  <2> QED
    BY <1>7, <1>8, <1>9, <1>10, StartsOn DEF Claim
<1> QED
  BY <1>7, <1>11 DEF Keeps

LEMMA LookKeeps ==
  ASSUME OutboxInv, NEW w \in Worker, Look(w)
  PROVE  Keeps
<1> DEFINE e == Row(w)
           step == IF HasKey(e) THEN "message" ELSE "write"
           row == IF Kind(e) = "reminder" THEN Len(reminders) ELSE 0
           task == [worker[w] EXCEPT !.at = step, !.row = row]
<1>1. RowsAreRows' /\ SameKinds /\ KindsLast /\ UNCHANGED Promise!vars
  BY TableStays, Stutters DEF Look
<1>2. /\ e \in Event /\ Kind(e) \in {"notice", "reminder"} /\ worker[w].batch # <<>>
      /\ HasKey(e) => effects[e] > 0
  BY RowInHand DEF OutboxInv, Knows, Look, At, KeysTell, HasKey
<1>3. row \in Nat /\ worker[w] \in Task
  BY DEF OutboxInv, WorkIsWork
<1>4. task \in Task /\ task.batch = worker[w].batch /\ task.at = step /\ task.row = row
  BY <1>3 DEF Task, Stages
<1>5. worker' = [worker EXCEPT ![w] = task]
  BY DEF Look
<1>6. worker'[w] = task
  BY <1>5 DEF OutboxInv, WorkIsWork
<1>7. Row(w)' = e /\ Kind(Row(w))' = Kind(e)
  <2>1. Row(w)' = e
    BY <1>4, <1>6 DEF Row
  <2> QED
    BY <2>1 DEF Kind, Look
<1>8. Knows(w)'
  <2>1. /\ worker'[w].at = step /\ worker'[w].row = row /\ worker'[w].batch # <<>>
        /\ effects' = effects
        /\ row # 0 => Kind(e) = "reminder"
    BY <1>2, <1>4, <1>6 DEF Look
  <2> HIDE DEF row, task, e
  <2> QED
    BY <1>2, <1>7, <2>1 DEF Knows, At
<1>9. \A i \in 1..Len(task.batch) : Kind(task.batch[i].event) # "none"
  BY <1>4 DEF OutboxInv, WorkIsWork
<1>10. /\ reminders' \in Seq(Event) /\ keyed' \subseteq Event /\ effects' \in [Event -> 0..2]
       /\ KeysTell' /\ Grow
  BY <1>1 DEF OutboxInv, WorkIsWork, KeysTell, SameKinds, Kind, Grow, Look
<1> HIDE DEF task
<1>11. OutboxInv'
  BY <1>1, <1>4, <1>5, <1>8, <1>9, <1>10, OneMoves
<1> QED
  BY <1>1, <1>11 DEF Keeps

LEMMA MarkKeeps ==
  ASSUME OutboxInv, NEW w \in Worker, MarkDelivered(w)
  PROVE  Keeps
<1> DEFINE e == Row(w)
<1>1. /\ e \in Event /\ outbox \in [Event -> Rows] /\ IsRow(outbox[e]) /\ worker[w].at # "idle"
      /\ Kind(e) \in EventKinds /\ (Kind(e) = "email" \/ effects[e] > 0)
  BY RowInHand DEF MarkDelivered, At, OutboxInv, RowsAreRows, Knows
<1>2. CASE Pending(e)
  <2> DEFINE row == [outbox[e] EXCEPT !.status = "delivered", !.lock = Unlocked, !.failed = FALSE]
  <2>1. outbox[e] \in Rows /\ "delivered" \in Statuses /\ Unlocked \in Int
    BY <1>1 DEF Statuses, Unlocked
  <2>2. row \in Rows /\ row.kind = outbox[e].kind /\ row.status = "delivered"
    BY <2>1 DEF Rows
  <2>3. IsRow(row)
    BY <1>1, <1>2, <2>2 DEF IsRow, Pending
  <2>4. outbox' = [outbox EXCEPT ![e] = row]
    BY <1>2 DEF MarkDelivered
  <2> HIDE DEF row, e
  <2>5. outbox' \in [Event -> Rows] /\ outbox'[e] = row /\ \A x \in Event \ {e} : outbox'[x] = outbox[x]
    BY <1>1, <2>2, <2>4
  <2>6. RowsAreRows' /\ SameKinds
    BY <1>1, <2>2, <2>3, <2>5, RowsChange, {e} \in SUBSET Event DEF OutboxInv
  <2>7. e \notin Delivered /\ Delivered' = Delivered \union {e}
    BY <1>1, <1>2, <2>2, <2>5 DEF Delivered, Pending
  <2>8. Promise!Next
    BY <1>1, <2>6, <2>7, Settles DEF MarkDelivered
  <2>9. OutboxInv'
    BY <1>1, <2>6, TakesNext DEF MarkDelivered
  <2> QED
    BY <2>8, <2>9 DEF Keeps
<1>3. CASE ~Pending(e)
  <2>1. UNCHANGED outbox
    BY <1>3 DEF MarkDelivered
  <2>2. RowsAreRows' /\ SameKinds /\ UNCHANGED Promise!vars
    BY <2>1, TableStays, Stutters DEF MarkDelivered
  <2>3. OutboxInv'
    BY <1>1, <2>2, TakesNext DEF MarkDelivered
  <2> QED
    BY <2>2, <2>3 DEF Keeps
<1> QED
  BY <1>2, <1>3

(* An effect is written together with the key that stands for it.          *)
LEMMA KeysFollow ==
  ASSUME OutboxInv, KindsLast, NEW e \in Event, Kind(e) # "none", Write(e),
         reminders' \in Seq(Event),
         \A i \in DOMAIN reminders' : reminders'[i] = e \/ \E j \in DOMAIN reminders : reminders'[i] = reminders[j],
         \/ keyed' = keyed \union {e}
         \/ keyed' = keyed /\ Kind(e) = "reminder"
  PROVE  /\ KeysTell' /\ Grow /\ effects'[e] > 0
         /\ reminders' \in Seq(Event) /\ keyed' \subseteq Event /\ effects' \in [Event -> 0..2]
<1>1. effects \in [Event -> 0..2] /\ keyed \subseteq Event
  BY DEF OutboxInv, WorkIsWork
<1>2. effects' \in [Event -> 0..2] /\ effects'[e] > 0 /\ \A x \in Event \ {e} : effects'[x] = effects[x]
  BY <1>1 DEF Write
<1>3. Grow
  BY <1>2 DEF Grow
<1>4. reminders \in Seq(Event)
  BY DEF OutboxInv, WorkIsWork
<1>5. \A i \in DOMAIN reminders' : effects'[reminders'[i]] > 0
  BY <1>2, <1>3, <1>4 DEF OutboxInv, KeysTell, Grow
<1>6. \A x \in keyed' : effects'[x] > 0
  BY <1>1, <1>2, <1>3 DEF OutboxInv, KeysTell, Grow
<1>7. \A x \in Event : effects'[x] > 0 => Kind(x) # "none" /\ Kind(x)' = Kind(x)
  BY <1>2 DEF OutboxInv, KeysTell, KindsLast
<1>8. \A x \in Event : Kind(x) \in {"manual", "notice", "audit"} /\ effects'[x] > 0 => x \in keyed'
  BY <1>2 DEF OutboxInv, KeysTell
<1>9. KeysTell'
  BY <1>5, <1>6, <1>7, <1>8 DEF KeysTell, Kind
<1> QED
  BY <1>1, <1>2, <1>3, <1>9

LEMMA KeysStay ==
  ASSUME OutboxInv, KindsLast, UNCHANGED <<reminders, keyed, effects>>
  PROVE  /\ KeysTell' /\ Grow
         /\ reminders' \in Seq(Event) /\ keyed' \subseteq Event /\ effects' \in [Event -> 0..2]
BY DEF OutboxInv, WorkIsWork, KeysTell, KindsLast, Kind, Grow

LEMMA HandOverKeeps ==
  ASSUME OutboxInv, NEW e \in Event, HandOver(e)
  PROVE  RowsAreRows' /\ KindsLast /\ Delivered' = Delivered /\ (SameKinds \/ MessageComes)
<1>1. RowsAreRows' /\ Delivered' = Delivered /\ (SameKinds \/ MessageComes)
  BY HandsOver DEF OutboxInv
<1> QED
  BY <1>1 DEF SameKinds, MessageComes, KindsLast

LEMMA PublishKeeps ==
  ASSUME OutboxInv, NEW w \in Worker, Publish(w)
  PROVE  Keeps
<1> DEFINE e == Row(w)
<1>1. /\ e \in Event /\ Kind(e) = "manual" /\ worker[w].at # "idle" /\ Goto(w, "mark")
      /\ e \in keyed => effects[e] > 0
  BY RowInHand DEF Publish, At, OutboxInv, Knows, KeysTell
<1> HIDE DEF e
<1>2. CASE e \in keyed
  <2>1. UNCHANGED <<outbox, keyed, effects, reminders, cancelled>>
    BY <1>2 DEF Publish, e
  <2>2. RowsAreRows' /\ SameKinds /\ KindsLast /\ UNCHANGED Promise!vars
    BY <2>1, TableStays, Stutters
  <2>3. OutboxInv'
    BY <1>1, <1>2, <2>1, <2>2, KeysStay, GoesOn DEF e
  <2> QED
    BY <2>2, <2>3 DEF Keeps
<1>3. CASE e \notin keyed
  <2>1. /\ keyed' = keyed \union {e} /\ Write(e) /\ HandOver(e)
        /\ reminders' = reminders /\ cancelled' = cancelled
    BY <1>3 DEF Publish, e
  <2>2. RowsAreRows' /\ KindsLast /\ Delivered' = Delivered /\ (SameKinds \/ MessageComes)
    BY <1>1, <2>1, HandOverKeeps
  <2>3. effects[e] = 0
    BY <1>1, <1>3 DEF OutboxInv, KeysTell, WorkIsWork
  <2>4. Promise!Next
    BY <1>1, <2>1, <2>2, <2>3, Applies
  <2>5. /\ KeysTell' /\ Grow /\ effects'[e] > 0
        /\ reminders' \in Seq(Event) /\ keyed' \subseteq Event /\ effects' \in [Event -> 0..2]
    BY <1>1, <2>1, <2>2, KeysFollow DEF OutboxInv, WorkIsWork
  <2>6. OutboxInv'
    BY <1>1, <2>2, <2>5, GoesOn DEF e
  <2> QED
    BY <2>4, <2>6 DEF Keeps
<1> QED
  BY <1>2, <1>3

LEMMA RecordKeeps ==
  ASSUME OutboxInv, NEW w \in Worker, RecordAudit(w)
  PROVE  Keeps
<1> DEFINE e == Row(w)
<1>1. /\ e \in Event /\ Kind(e) = "audit" /\ worker[w].at # "idle" /\ Goto(w, "mark")
      /\ e \in keyed => effects[e] > 0
  BY RowInHand DEF RecordAudit, At, OutboxInv, Knows, KeysTell
<1> HIDE DEF e
<1>2. RowsAreRows' /\ SameKinds /\ KindsLast /\ Delivered' = Delivered
  BY TableStays DEF RecordAudit
<1>3. CASE e \in keyed
  <2>1. UNCHANGED <<keyed, effects, reminders, cancelled>>
    BY <1>3 DEF RecordAudit, e
  <2>2. OutboxInv'
    BY <1>1, <1>2, <1>3, <2>1, KeysStay, GoesOn DEF e
  <2> QED
    BY <1>2, <2>1, <2>2, Stutters DEF Keeps
<1>4. CASE e \notin keyed
  <2>1. keyed' = keyed \union {e} /\ Write(e) /\ reminders' = reminders /\ cancelled' = cancelled
    BY <1>4 DEF RecordAudit, e
  <2>2. effects[e] = 0
    BY <1>1, <1>4 DEF OutboxInv, KeysTell, WorkIsWork
  <2>3. Promise!Next
    BY <1>1, <1>2, <2>1, <2>2, Applies
  <2>4. /\ KeysTell' /\ Grow /\ effects'[e] > 0
        /\ reminders' \in Seq(Event) /\ keyed' \subseteq Event /\ effects' \in [Event -> 0..2]
    BY <1>1, <1>2, <2>1, KeysFollow DEF OutboxInv, WorkIsWork
  <2>5. OutboxInv'
    BY <1>1, <1>2, <2>4, GoesOn DEF e
  <2> QED
    BY <2>3, <2>5 DEF Keeps
<1> QED
  BY <1>3, <1>4

LEMMA InsertKeeps ==
  ASSUME OutboxInv, NEW w \in Worker, InsertNotice(w)
  PROVE  Keeps
<1> DEFINE e == Row(w)
<1>1. /\ e \in Event /\ Kind(e) \in {"notice", "reminder"} /\ worker[w].at # "idle" /\ Goto(w, "message")
      /\ HasKey(e) => effects[e] > 0
  BY RowInHand DEF InsertNotice, At, OutboxInv, Knows, KeysTell, HasKey
<1>2. RowsAreRows' /\ SameKinds /\ KindsLast /\ Delivered' = Delivered /\ cancelled' = cancelled
  BY TableStays DEF InsertNotice
<1>3. reminders \in Seq(Event)
  BY DEF OutboxInv, WorkIsWork
<1> HIDE DEF e
<1>4. CASE HasKey(e) /\ UNCHANGED <<keyed, reminders, effects>>
  <2>1. OutboxInv'
    BY <1>1, <1>2, <1>4, KeysStay, GoesOn DEF e
  <2> QED
    BY <1>2, <1>4, <2>1, Stutters DEF Keeps
<1>5. ASSUME ~HasKey(e), Write(e),
             \/ Kind(e) = "notice" /\ keyed' = keyed \union {e} /\ reminders' = reminders
             \/ Kind(e) = "reminder" /\ keyed' = keyed /\ reminders' = Append(reminders, e)
      PROVE  Keeps
  <2>1. Kind(e) = "reminder" \/ (Kind(e) = "notice" /\ effects[e] = 0)
    BY <1>1, <1>5 DEF OutboxInv, KeysTell, WorkIsWork, HasKey
  <2>2. Promise!Next
    BY <1>1, <1>2, <1>5, <2>1, Applies
  <2>3. /\ reminders' \in Seq(Event)
        /\ \A i \in DOMAIN reminders' : reminders'[i] = e \/ \E j \in DOMAIN reminders : reminders'[i] = reminders[j]
    BY <1>1, <1>3, <1>5
  <2>4. /\ KeysTell' /\ Grow /\ effects'[e] > 0
        /\ reminders' \in Seq(Event) /\ keyed' \subseteq Event /\ effects' \in [Event -> 0..2]
    BY <1>1, <1>2, <1>5, <2>3, KeysFollow
  <2>5. OutboxInv'
    BY <1>1, <1>2, <2>4, GoesOn DEF e
  <2> QED
    BY <2>2, <2>5 DEF Keeps
<1> QED
  BY <1>4, <1>5 DEF InsertNotice, e

LEMMA RewriteKeeps ==
  ASSUME OutboxInv, NEW w \in Worker, RewriteReminder(w)
  PROVE  Keeps
<1> DEFINE e == Row(w)
           i == worker[w].row
<1>1. e \in Event /\ Kind(e) = "reminder" /\ worker[w].at # "idle"
  BY RowInHand DEF RewriteReminder, At, OutboxInv, Knows
<1>2. RowsAreRows' /\ SameKinds /\ KindsLast /\ Delivered' = Delivered /\ cancelled' = cancelled /\ keyed' = keyed
  BY TableStays DEF RewriteReminder
<1>3. reminders \in Seq(Event) /\ i \in Nat
  BY DEF OutboxInv, WorkIsWork, Task
<1> HIDE DEF e, i
<1>4. CASE Goto(w, "release") /\ UNCHANGED <<reminders, effects>>
  <2>1. OutboxInv'
    BY <1>1, <1>2, <1>4, KeysStay, GoesOn DEF e
  <2> QED
    BY <1>2, <1>4, <2>1, Stutters DEF Keeps
<1>5. CASE reminders' = [reminders EXCEPT ![i] = e] /\ Write(e) /\ Goto(w, "message")
  <2>1. Promise!Next
    BY <1>1, <1>2, <1>5, Applies
  <2>2. /\ reminders' \in Seq(Event)
        /\ \A j \in DOMAIN reminders' : reminders'[j] = e \/ \E k \in DOMAIN reminders : reminders'[j] = reminders[k]
    <3>1. /\ DOMAIN reminders = 1..Len(reminders) /\ Len(reminders) \in Nat
          /\ \A j \in DOMAIN reminders : reminders[j] \in Event
      BY <1>3
    <3>2. /\ DOMAIN reminders' = 1..Len(reminders)
          /\ \A j \in DOMAIN reminders' : reminders'[j] = IF j = i THEN e ELSE reminders[j]
      BY <1>3, <1>5, <3>1
    <3>3. reminders' \in Seq(Event)
      <4>1. reminders' \in [1..Len(reminders) -> Event]
        BY <1>1, <1>5, <3>1
      <4> QED
        BY <3>1, <4>1
    <3> QED
      BY <3>1, <3>2, <3>3
  <2>3. /\ KeysTell' /\ Grow /\ effects'[e] > 0
        /\ reminders' \in Seq(Event) /\ keyed' \subseteq Event /\ effects' \in [Event -> 0..2]
    BY <1>1, <1>2, <1>5, <2>2, KeysFollow
  <2>4. OutboxInv'
    BY <1>1, <1>2, <1>5, <2>3, GoesOn DEF e
  <2> QED
    BY <2>1, <2>4 DEF Keeps
<1> QED
  BY <1>4, <1>5 DEF RewriteReminder, e, i

LEMMA QueueKeeps ==
  ASSUME OutboxInv, NEW w \in Worker, QueueMessage(w)
  PROVE  Keeps
<1> DEFINE e == Row(w)
<1>1. /\ e \in Event /\ Kind(e) # "none" /\ worker[w].at # "idle" /\ Goto(w, "mark")
      /\ effects[e] > 0 /\ UNCHANGED <<cancelled, keyed, reminders, effects>>
  BY RowInHand DEF QueueMessage, At, OutboxInv, Knows, EventKinds
<1>2. RowsAreRows' /\ KindsLast /\ Delivered' = Delivered /\ (SameKinds \/ MessageComes)
  BY <1>1, HandOverKeeps, TableStays DEF QueueMessage
<1> HIDE DEF e
<1>3. OutboxInv'
  BY <1>1, <1>2, KeysStay, GoesOn DEF e
<1>4. CASE SameKinds
  BY <1>1, <1>2, <1>3, <1>4, Stutters DEF Keeps
<1>5. CASE MessageComes
  <2>1. PICK m \in Event : Kind(m) = "none" /\ Kind(m)' = "email" /\ \A x \in Event \ {m} : Kind(x)' = Kind(x)
    BY <1>5 DEF MessageComes
  <2>2. Promise!Next
    BY <1>1, <1>2, <2>1, Accepts DEF EventKinds
  <2> QED
    BY <1>3, <2>2 DEF Keeps
<1> QED
  BY <1>2, <1>4, <1>5

(* ---------------------------------------------------------- the theorems *)

LEMMA NextKeeps ==
  ASSUME OutboxInv, [Next]_vars
  PROVE  Keeps
<1>1. CASE UNCHANGED vars
  BY <1>1, TableStays, Stutters, NothingMoves DEF Keeps, vars
<1>2. ASSUME NEW e \in Event, Enqueue(e) \/ CancelNotice(e) \/ RetryNotice(e)
      PROVE  Keeps
  BY <1>2, EnqueueKeeps, CancelKeeps, RetryKeeps
<1>3. ASSUME NEW w \in Worker, Work(w)
      PROVE  Keeps
  BY <1>3, ClaimKeeps, PublishKeeps, RecordKeeps, LookKeeps, InsertKeeps, RewriteKeeps, QueueKeeps,
     MarkKeeps, ReleaseKeeps DEF Work
<1>4. ASSUME NEW w \in Worker, Fail(w) \/ Stop(w)
      PROVE  Keeps
  BY <1>4, FailKeeps, StopKeeps
<1>5. CASE Tick
  BY <1>5, TickKeeps
<1> QED
  BY <1>1, <1>2, <1>3, <1>4, <1>5 DEF Next

LEMMA InitKeeps ==
  ASSUME Init
  PROVE  OutboxInv /\ Promise!Init
<1>1. RowsAreRows /\ \A e \in Event : Kind(e) = "none" /\ outbox[e].status = "absent"
  BY AbsentIsRow DEF Init, RowsAreRows, Kind, IsRow
<1>2. Idle \in Task /\ Idle.at = "idle" /\ Idle.batch = <<>>
  BY DEF Idle, Task, Stages
<1>3. worker \in [Worker -> Task] /\ \A w \in Worker : worker[w] = Idle
  BY <1>2 DEF Init
<1>4. WorkIsWork
  BY <1>2, <1>3 DEF WorkIsWork, Init
<1>5. \A w \in Worker : Knows(w)
  BY <1>2, <1>3 DEF Knows, At
<1>6. KeysTell
  BY DEF KeysTell, Init
<1>7. Bar = [e \in Event |-> "none"]
  BY <1>1, ClassesOfKinds DEF Bar
<1>8. Promise!Init
  BY <1>1, <1>7 DEF Promise!Init, Init, Bar
<1> QED
  BY <1>1, <1>4, <1>5, <1>6, <1>8 DEF OutboxInv

(* Rows and work keep their shape, and a process knows of the row in its   *)
(* hands what its next statement relies on.                                *)
THEOREM OutboxInvariant == Spec => []OutboxInv
<1>1. Init => OutboxInv
  BY InitKeeps
<1>2. OutboxInv /\ [Next]_vars => OutboxInv'
  BY NextKeeps DEF Keeps
<1> QED
  BY <1>1, <1>2, PTL DEF Spec

(* Every event takes effect once and before it counts as delivered, for    *)
(* any number of events, processes, failures and stops: the outbox keeps   *)
(* what EventDelivery promises.                                            *)
THEOREM OutboxKeepsPromise == Spec => EventsTakeEffectOnce
<1>1. Init => Promise!Init
  BY InitKeeps
<1>2. OutboxInv /\ [Next]_vars => [Promise!Next]_(Promise!vars)
  BY NextKeeps DEF Keeps
<1> QED
  BY <1>1, <1>2, OutboxInvariant, PTL DEF Spec, EventsTakeEffectOnce, Promise!Spec

(* ------------------------------------------------------- how far values go *)

InRange(r) == r.wait \in 0..MaxDelay /\ r.lock \in Unlocked..Stale /\ r.attempts \in 0..(Doublings + 1)
Fits(task) == \A i \in 1..Len(task.batch) : task.batch[i].attempts \in 1..(Doublings + 1)

RowsFit == \A e \in Event : InRange(outbox[e])
WorkFits == \A w \in Worker : worker[w].row \in 0..Len(reminders) /\ Fits(worker[w])
Withdrawn == cancelled \subseteq {e \in Notices : outbox[e].status = "delivered"}
Bounded == RowsFit /\ WorkFits /\ Withdrawn /\ faults \in 0..MaxFaults

(* A row stays within the bounds, and one that was delivered is done with. *)
RowsStay ==
  \A e \in Event : /\ InRange(outbox'[e])
                   /\ outbox[e].status = "delivered" => outbox'[e].status = "delivered" /\ Kind(e)' = Kind(e)

LEMMA PowersAreNats == \A n \in Nat : 2 ^ n \in Nat
<1> SUFFICES ASSUME NEW n \in Nat PROVE 2 ^ n \in Nat
  OBVIOUS
<1>1. IsFiniteSet(1..n) /\ Cardinality(1..n) = n
  BY FS_Interval
<1>2. IsFiniteSet(SUBSET (1..n)) /\ Cardinality(SUBSET (1..n)) = 2 ^ n
  BY <1>1, FS_SUBSET
<1> QED
  BY <1>2, FS_CardinalityType

LEMMA BackoffFits == \A n \in 1..(Doublings + 1) : Backoff(n) \in 0..MaxDelay
<1> SUFFICES ASSUME NEW n \in 1..(Doublings + 1) PROVE Backoff(n) \in 0..MaxDelay
  OBVIOUS
<1> DEFINE power == 2 ^ Smaller(n - 1, Doublings)
<1>1. Smaller(n - 1, Doublings) \in Nat
  BY OutboxBounds DEF Smaller
<1>2. power \in Nat
  BY <1>1, PowersAreNats
<1> HIDE DEF power
<1>3. FirstDelay * power \in Nat
  BY <1>2, OutboxBounds
<1>4. Smaller(MaxDelay, FirstDelay * power) \in 0..MaxDelay
  BY <1>3, OutboxBounds DEF Smaller
<1> QED
  BY <1>4 DEF Backoff, power

LEMMA AttemptedFits == \A n \in 0..(Doublings + 1) : Attempted(n) \in 1..(Doublings + 1)
BY OutboxBounds DEF Attempted, Smaller

LEMMA ArrivingFits ==
  ASSUME NEW kind, NEW delay \in {0, Scheduled}
  PROVE  InRange(Arriving(kind, delay)) /\ Absent.status # "delivered"
BY OutboxBounds DEF InRange, Arriving, Absent, Unlocked, Stale

LEMMA Untouched == ASSUME RowsFit, UNCHANGED outbox PROVE RowsStay
BY DEF RowsFit, RowsStay, Kind

LEMMA HandedFits == ASSUME RowsAreRows, RowsFit, NEW e \in Event, HandOver(e) PROVE RowsStay
<1>1. CASE UNCHANGED outbox
  BY <1>1, Untouched
<1>2. CASE ~UNCHANGED outbox
  BY <1>2, ArrivingFits DEF HandOver, RowsAreRows, RowsFit, RowsStay, Kind
<1> QED
  BY <1>1, <1>2

(* The statements of a process on the table.                               *)
LEMMA WorkRowsStay ==
  ASSUME OutboxInv, Bounded, NEW w \in Worker, Work(w)
  PROVE  RowsStay
<1>0. RowsAreRows /\ RowsFit /\ outbox \in [Event -> Rows]
  BY DEF OutboxInv, Bounded, RowsAreRows
<1>1. CASE Claim(w)
  <2>0. PICK n \in 1..BatchLimit : \E rows \in [1..n -> Due] :
          outbox' = [e \in Event |-> IF e \in {rows[i] : i \in 1..n}
                      THEN [outbox[e] EXCEPT !.lock = 0, !.attempts = Attempted(@)] ELSE outbox[e]]
    BY <1>1 DEF Claim
  <2>1. PICK rows \in [1..n -> Due] :
          outbox' = [e \in Event |-> IF e \in {rows[i] : i \in 1..n}
                      THEN [outbox[e] EXCEPT !.lock = 0, !.attempts = Attempted(@)] ELSE outbox[e]]
    BY <2>0
  <2>2. 0 \in Unlocked..Stale
    BY OutboxBounds DEF Unlocked, Stale
  <2> DEFINE S == {rows[i] : i \in 1..n}
  <2>3. ASSUME NEW e \in Event
        PROVE  /\ InRange(outbox'[e]) /\ Kind(e)' = Kind(e)
               /\ outbox'[e].status = outbox[e].status
    <3>1. outbox[e] \in Rows /\ InRange(outbox[e])
      BY <1>0 DEF RowsFit
    <3>2. Attempted(outbox[e].attempts) \in 0..(Doublings + 1)
      BY <3>1, AttemptedFits DEF InRange
    <3>3. outbox'[e] = IF e \in S THEN [outbox[e] EXCEPT !.lock = 0, !.attempts = Attempted(outbox[e].attempts)]
                       ELSE outbox[e]
      BY <2>1
    <3> HIDE DEF S
    <3> QED
      BY <2>2, <3>1, <3>2, <3>3 DEF InRange, Rows, Kind
  <2> QED
    BY <2>3 DEF RowsStay
<1>2. CASE Publish(w)
  <2>1. Row(w) \in Event
    BY <1>2, RowInHand DEF Publish, At
  <2> QED
    BY <1>0, <1>2, <2>1, HandedFits, Untouched DEF Publish
<1>3. CASE QueueMessage(w)
  <2>1. Row(w) \in Event
    BY <1>3, RowInHand DEF QueueMessage, At
  <2> QED
    BY <1>0, <1>3, <2>1, HandedFits, Untouched DEF QueueMessage
<1>4. CASE MarkDelivered(w)
  <2>1. Unlocked \in Unlocked..Stale
    BY OutboxBounds DEF Unlocked, Stale
  <2> QED
    BY <1>0, <1>4, <2>1 DEF MarkDelivered, RowsStay, RowsFit, InRange, Rows, Kind
<1>5. CASE ReleaseForRetry(w)
  <2>1. Unlocked \in Unlocked..Stale
    BY OutboxBounds DEF Unlocked, Stale
  <2>2. worker[w].batch # <<>> /\ worker[w].batch \in Seq(Entry)
    BY <1>5, RowInHand DEF ReleaseForRetry, At
  <2>3. Head(worker[w].batch) = worker[w].batch[1] /\ 1 \in 1..Len(worker[w].batch)
    BY <2>2
  <2>4. Backoff(Head(worker[w].batch).attempts) \in 0..MaxDelay
    BY <2>3, BackoffFits DEF Bounded, WorkFits, Fits
  <2> QED
    BY <1>0, <1>5, <2>1, <2>4 DEF ReleaseForRetry, RowsStay, RowsFit, InRange, Rows, Kind, Pending
<1>6. CASE RecordAudit(w) \/ Look(w) \/ InsertNotice(w) \/ RewriteReminder(w)
  BY <1>0, <1>6, Untouched DEF RecordAudit, Look, InsertNotice, RewriteReminder
<1> QED
  BY <1>1, <1>2, <1>3, <1>4, <1>5, <1>6 DEF Work

LEMMA RowsStayInRange == ASSUME OutboxInv, Bounded, [Next]_vars PROVE RowsStay
<1>0. RowsAreRows /\ RowsFit /\ outbox \in [Event -> Rows]
  BY DEF OutboxInv, Bounded, RowsAreRows
<1>1. ASSUME NEW e \in Event, Enqueue(e) PROVE RowsStay
  <2>1. PICK kind \in Kinds[e], delay \in {0, Scheduled} :
          outbox' = [outbox EXCEPT ![e] = Arriving(kind, delay)]
    BY <1>1 DEF Enqueue
  <2>2. outbox[e].status # "delivered"
    BY <1>1, ArrivingFits DEF Enqueue
  <2> QED
    BY <1>0, <2>1, <2>2, ArrivingFits DEF RowsStay, RowsFit, Kind
<1>2. ASSUME NEW e \in Event, CancelNotice(e) PROVE RowsStay
  BY <1>0, <1>2 DEF CancelNotice, RowsStay, RowsFit, InRange, Rows, Kind
<1>3. ASSUME NEW e \in Event, RetryNotice(e) PROVE RowsStay
  BY <1>0, <1>3, OutboxBounds DEF RetryNotice, RowsStay, RowsFit, InRange, Rows, Kind
<1>4. ASSUME NEW w \in Worker, Fail(w) \/ Stop(w) PROVE RowsStay
  BY <1>0, <1>4, Untouched DEF Fail, Stop
<1>5. CASE Tick
  <2>1. ASSUME NEW e \in Event
        PROVE  /\ InRange(outbox'[e]) /\ Kind(e)' = Kind(e)
               /\ outbox'[e].status = outbox[e].status
    <3>1. outbox[e] \in Rows /\ InRange(outbox[e])
      BY <1>0 DEF RowsFit
    <3>2. Sooner(outbox[e].wait) \in 0..MaxDelay
      BY <3>1, OutboxBounds DEF InRange, Sooner
    <3>3. Later(outbox[e].lock) \in Unlocked..Stale
      BY <3>1, OutboxBounds DEF InRange, Later, Unlocked, Stale
    <3>4. outbox'[e] = [outbox[e] EXCEPT !.wait = Sooner(outbox[e].wait), !.lock = Later(outbox[e].lock)]
      BY <1>5 DEF Tick
    <3> QED
      BY <3>1, <3>2, <3>3, <3>4 DEF InRange, Rows, Kind
  <2> QED
    BY <2>1 DEF RowsStay
<1>6. CASE UNCHANGED vars
  BY <1>0, <1>6, Untouched DEF vars
<1> QED
  BY <1>1, <1>2, <1>3, <1>4, <1>5, <1>6, WorkRowsStay DEF Next

(* Another statement for the same row, or another row of the batch.        *)
LEMMA OneFits ==
  ASSUME WorkFits, Len(reminders) \in Nat, Len(reminders') \in Nat, Len(reminders) <= Len(reminders'),
         NEW w \in Worker, \A x \in Worker \ {w} : worker'[x] = worker[x],
         Fits(worker'[w]), worker'[w].row \in 0..Len(reminders')
  PROVE  WorkFits'
<1> SUFFICES ASSUME NEW x \in Worker PROVE worker'[x].row \in 0..Len(reminders') /\ Fits(worker'[x])
  BY DEF WorkFits, Fits
<1>1. CASE x = w
  BY <1>1
<1>2. CASE x # w
  <2>1. worker[x].row \in 0..Len(reminders) /\ Fits(worker[x]) /\ worker'[x] = worker[x]
    BY <1>2 DEF WorkFits
  <2> QED
    BY <2>1
<1> QED
  BY <1>1, <1>2

LEMMA TailFits ==
  ASSUME OutboxInv, Bounded, NEW w \in Worker, worker[w].at # "idle"
  PROVE  Fits(Working(Tail(worker[w].batch))) /\ Working(Tail(worker[w].batch)).row = 0
<1>1. worker[w].batch \in Seq(Entry) /\ worker[w].batch # <<>> /\ Fits(worker[w])
  BY RowInHand DEF Bounded, WorkFits
<1>2. CASE Tail(worker[w].batch) = <<>>
  BY <1>2 DEF Working, Idle, Fits
<1>3. CASE Tail(worker[w].batch) # <<>>
  <2>1. ASSUME NEW i \in 1..Len(Tail(worker[w].batch)) PROVE Tail(worker[w].batch)[i].attempts \in 1..(Doublings + 1)
    <3>1. i + 1 \in 1..Len(worker[w].batch) /\ Tail(worker[w].batch)[i] = worker[w].batch[i + 1]
      BY <1>1, <2>1
    <3> QED
      BY <1>1, <3>1 DEF Fits
  <2>2. Working(Tail(worker[w].batch)).batch = Tail(worker[w].batch) /\ Working(Tail(worker[w].batch)).row = 0
    BY <1>3 DEF Working
  <2> QED
    BY <2>1, <2>2 DEF Fits
<1> QED
  BY <1>2, <1>3

(* The statements of a process on what it holds.                           *)
LEMMA WorkStaysFit ==
  ASSUME OutboxInv, Bounded, NEW w \in Worker, Work(w)
  PROVE  WorkFits'
<1>0. /\ worker \in [Worker -> Task] /\ worker[w] \in Task /\ reminders \in Seq(Event)
      /\ WorkFits /\ worker[w].row \in 0..Len(reminders) /\ Fits(worker[w])
      /\ Len(reminders) \in Nat /\ 0 \in 0..Len(reminders)
  BY DEF OutboxInv, WorkIsWork, Bounded, WorkFits
<1>1. CASE Claim(w)
  <2>0. PICK n \in 1..BatchLimit : \E rows \in [1..n -> Due] :
          worker' = [worker EXCEPT ![w] = Working(
            [i \in 1..n |-> [event |-> rows[i], attempts |-> Attempted(outbox[rows[i]].attempts)]])]
    BY <1>1 DEF Claim
  <2>1. PICK rows \in [1..n -> Due] :
          worker' = [worker EXCEPT ![w] = Working(
            [i \in 1..n |-> [event |-> rows[i], attempts |-> Attempted(outbox[rows[i]].attempts)]])]
    BY <2>0
  <2> DEFINE batch == [i \in 1..n |-> [event |-> rows[i], attempts |-> Attempted(outbox[rows[i]].attempts)]]
  <2>2. n \in Nat /\ \A i \in 1..n : rows[i] \in Event
    BY <2>1, DueIsPending, OutboxBounds
  <2>3. \A i \in 1..n : Attempted(outbox[rows[i]].attempts) \in 1..(Doublings + 1)
    BY <2>2, AttemptedFits DEF Bounded, RowsFit, InRange
  <2>4. Len(batch) = n
    BY <2>2
  <2>5. Fits([at |-> FirstStep(Head(batch).event), batch |-> batch, row |-> 0])
    BY <2>3, <2>4 DEF Fits
  <2> HIDE DEF batch
  <2>6. Fits(Working(batch)) /\ Working(batch).row = 0
    BY <2>5 DEF Working, Idle, Fits
  <2>7. worker' = [worker EXCEPT ![w] = Working(batch)] /\ reminders' = reminders
    BY <1>1, <2>1 DEF batch, Claim
  <2> QED
    BY <1>0, <2>6, <2>7, OneFits
<1>2. ASSUME NEW step \in Stages, Goto(w, step), Len(reminders') \in Nat, Len(reminders) <= Len(reminders')
      PROVE  WorkFits'
  <2> DEFINE task == [worker[w] EXCEPT !.at = step]
  <2>1. task.batch = worker[w].batch /\ task.row = worker[w].row
    BY <1>0 DEF Task
  <2>2. Fits(task) /\ task.row \in 0..Len(reminders')
    BY <1>0, <1>2, <2>1 DEF Fits
  <2>3. worker' = [worker EXCEPT ![w] = task]
    BY <1>2 DEF Goto
  <2> HIDE DEF task
  <2> QED
    BY <1>0, <1>2, <2>2, <2>3, OneFits
<1>3. CASE MarkDelivered(w) \/ ReleaseForRetry(w)
  <2>1. worker[w].at # "idle" /\ NextRow(w) /\ reminders' = reminders
    BY <1>3 DEF MarkDelivered, ReleaseForRetry, At
  <2>2. Fits(Working(Tail(worker[w].batch))) /\ Working(Tail(worker[w].batch)).row = 0
    BY <2>1, TailFits
  <2>3. worker' = [worker EXCEPT ![w] = Working(Tail(worker[w].batch))]
    BY <2>1 DEF NextRow
  <2> QED
    BY <1>0, <2>1, <2>2, <2>3, OneFits
<1>4. CASE Look(w)
  <2> DEFINE task == [worker[w] EXCEPT !.at = IF HasKey(Row(w)) THEN "message" ELSE "write",
                                       !.row = IF Kind(Row(w)) = "reminder" THEN Len(reminders) ELSE 0]
  <2>1. task.batch = worker[w].batch /\ task.row \in 0..Len(reminders)
    BY <1>0 DEF Task
  <2>2. Fits(task)
    BY <1>0, <2>1 DEF Fits
  <2>3. worker' = [worker EXCEPT ![w] = task] /\ reminders' = reminders
    BY <1>4 DEF Look
  <2> HIDE DEF task
  <2> QED
    BY <1>0, <2>1, <2>2, <2>3, OneFits
<1>5. CASE Publish(w) \/ RecordAudit(w) \/ QueueMessage(w)
  BY <1>0, <1>2, <1>5 DEF Publish, RecordAudit, QueueMessage, Stages
<1>6. CASE InsertNotice(w)
  <2>1. Len(reminders') \in Nat /\ Len(reminders) <= Len(reminders')
    <3>1. Row(w) \in Event
      BY <1>6, RowInHand DEF InsertNotice, At
    <3> QED
      BY <1>0, <1>6, <3>1 DEF InsertNotice
  <2> QED
    BY <1>2, <1>6, <2>1 DEF InsertNotice, Stages
<1>7. CASE RewriteReminder(w)
  <2>1. Len(reminders') = Len(reminders)
    BY <1>0, <1>7 DEF RewriteReminder
  <2> QED
    BY <1>0, <1>2, <1>7, <2>1 DEF RewriteReminder, Stages
<1> QED
  BY <1>1, <1>3, <1>4, <1>5, <1>6, <1>7 DEF Work

LEMMA WorkStaysBounded == ASSUME OutboxInv, Bounded, [Next]_vars PROVE WorkFits'
<1>0. /\ worker \in [Worker -> Task] /\ WorkFits
      /\ Len(reminders) \in Nat /\ 0 \in 0..Len(reminders)
  BY DEF OutboxInv, WorkIsWork, Bounded
<1>1. ASSUME NEW w \in Worker, Stop(w) PROVE WorkFits'
  <2>1. worker' = [worker EXCEPT ![w] = Idle] /\ reminders' = reminders
    BY <1>1 DEF Stop, Working
  <2>2. Fits(Idle) /\ Idle.row = 0
    BY DEF Fits, Idle
  <2> QED
    BY <1>0, <2>1, <2>2, OneFits
<1>2. ASSUME NEW w \in Worker, Fail(w) PROVE WorkFits'
  <2>1. reminders' = reminders /\ worker[w] \in Task /\ worker[w].row \in 0..Len(reminders) /\ Fits(worker[w])
    BY <1>0, <1>2 DEF Fail, WorkFits
  <2>2. CASE At(w, "release") /\ NextRow(w)
    <3>1. Fits(Working(Tail(worker[w].batch))) /\ Working(Tail(worker[w].batch)).row = 0
      BY <2>2, TailFits DEF At
    <3>2. worker' = [worker EXCEPT ![w] = Working(Tail(worker[w].batch))]
      BY <2>2 DEF NextRow
    <3> QED
      BY <1>0, <2>1, <3>1, <3>2, OneFits
  <2>3. CASE Goto(w, "release")
    <3> DEFINE task == [worker[w] EXCEPT !.at = "release"]
    <3>1. task.batch = worker[w].batch /\ task.row = worker[w].row
      BY <2>1 DEF Task
    <3>2. Fits(task)
      BY <2>1, <3>1 DEF Fits
    <3>3. worker' = [worker EXCEPT ![w] = task]
      BY <2>3 DEF Goto
    <3> HIDE DEF task
    <3> QED
      BY <1>0, <2>1, <3>1, <3>2, <3>3, OneFits
  <2> QED
    BY <1>2, <2>2, <2>3 DEF Fail
<1>3. ASSUME UNCHANGED <<worker, reminders>> PROVE WorkFits'
  BY <1>0, <1>3 DEF WorkFits, Fits
<1>4. ASSUME NEW e \in Event, Enqueue(e) \/ CancelNotice(e) \/ RetryNotice(e) PROVE WorkFits'
  BY <1>3, <1>4 DEF Enqueue, CancelNotice, RetryNotice
<1> QED
  BY <1>1, <1>2, <1>3, <1>4, WorkStaysFit DEF Next, Tick, vars

LEMMA BoundedKeeps == ASSUME OutboxInv, Bounded, [Next]_vars PROVE Bounded'
<1>1. RowsStay /\ WorkFits'
  BY RowsStayInRange, WorkStaysBounded
<1>2. RowsFit'
  BY <1>1 DEF RowsStay, RowsFit
<1>3. ASSUME UNCHANGED cancelled PROVE Withdrawn'
  BY <1>1, <1>3 DEF Bounded, Withdrawn, RowsStay, Notices
<1>4. ASSUME NEW e \in Event, CancelNotice(e) PROVE Withdrawn'
  <2>1. outbox \in [Event -> Rows] /\ e \in Notices
    BY <1>4 DEF OutboxInv, RowsAreRows, CancelNotice
  <2>2. Kind(e)' = Kind(e) /\ outbox'[e].status = "delivered"
    BY <1>4, <2>1 DEF CancelNotice, Kind, Rows
  <2> QED
    BY <1>1, <1>4, <2>1, <2>2 DEF CancelNotice, Bounded, Withdrawn, RowsStay, Notices
<1>5. ASSUME NEW w \in Worker, Work(w) PROVE UNCHANGED <<cancelled, faults>>
  BY <1>5 DEF Work, Claim, Publish, RecordAudit, Look, InsertNotice, RewriteReminder, QueueMessage,
              MarkDelivered, ReleaseForRetry
<1>6. Withdrawn'
  <2>1. ASSUME NEW e \in Event, Enqueue(e) \/ RetryNotice(e) PROVE UNCHANGED cancelled
    BY <2>1 DEF Enqueue, RetryNotice
  <2>2. ASSUME NEW w \in Worker, Fail(w) \/ Stop(w) PROVE UNCHANGED cancelled
    BY <2>2 DEF Fail, Stop
  <2>3. CASE Tick \/ UNCHANGED vars
    BY <1>3, <2>3 DEF Tick, vars
  <2> QED
    BY <1>3, <1>4, <1>5, <2>1, <2>2, <2>3 DEF Next
<1>7. faults' \in 0..MaxFaults
  <2>1. ASSUME NEW e \in Event, Enqueue(e) \/ CancelNotice(e) \/ RetryNotice(e) PROVE UNCHANGED faults
    BY <2>1 DEF Enqueue, CancelNotice, RetryNotice
  <2>2. ASSUME NEW w \in Worker, Fail(w) \/ Stop(w) PROVE faults' \in 0..MaxFaults
    BY <2>2, OutboxBounds DEF Bounded, Fail, Stop
  <2>3. CASE Tick \/ UNCHANGED vars
    BY <2>3 DEF Tick, vars, Bounded
  <2> QED
    BY <1>5, <2>1, <2>2, <2>3 DEF Next, Bounded
<1> QED
  BY <1>1, <1>2, <1>6, <1>7 DEF Bounded

LEMMA BoundedAtFirst == ASSUME Init PROVE Bounded
<1>1. RowsFit
  BY OutboxBounds DEF Init, RowsFit, InRange, Absent, Unlocked, Stale
<1>2. WorkFits /\ Withdrawn /\ faults \in 0..MaxFaults
  BY OutboxBounds DEF Init, WorkFits, Fits, Idle, Withdrawn
<1> QED
  BY <1>1, <1>2 DEF Bounded

LEMMA BoundedTypes == ASSUME OutboxInv, Bounded PROVE TypeOK
<1>1. /\ outbox \in [Event -> Rows] /\ keyed \subseteq Event /\ effects \in [Event -> 0..2]
      /\ \A e \in Event : InRange(outbox[e])
  BY DEF OutboxInv, RowsAreRows, WorkIsWork, Bounded, RowsFit
<1> QED
  BY <1>1 DEF TypeOK, Rows, Statuses, InRange, Bounded, WorkFits, Withdrawn

(* However often a row is claimed, released and stolen, its delay is at    *)
(* most the hour of releaseForRetry, a stopped process leaves a lock that  *)
(* goes stale, and a cancelled notice stays marked as delivered.           *)
THEOREM OutboxTyped == Spec => []TypeOK
<1>1. Init => OutboxInv /\ Bounded
  BY InitKeeps, BoundedAtFirst
<1>2. OutboxInv /\ Bounded /\ [Next]_vars => OutboxInv' /\ Bounded'
  BY NextKeeps, BoundedKeeps DEF Keeps
<1>3. OutboxInv /\ Bounded => TypeOK
  BY BoundedTypes
<1> QED
  BY <1>1, <1>2, <1>3, PTL DEF Spec

(* ------------------------------------------ the outbox and the email worker *)

P == INSTANCE EmailDispatchProofs
       WITH Delivery <- Event, NoDelivery <- None, Nobody <- None,
            worker <- sender, faults <- failures, MaxFaults <- MaxFailures

(* Both instances are the same module.                                     *)
LEMMA SameModule ==
  /\ E!DispatchAssumption <=> P!DispatchAssumption
  /\ E!Init <=> P!Init
  /\ E!StatusTellsTheTruth <=> P!StatusTellsTheTruth
  /\ E!Absent = P!Absent
  /\ \A w \in Worker : (E!Work(w) <=> P!Work(w)) /\ (E!Fail(w) <=> P!Fail(w)) /\ (E!Stop(w) <=> P!Stop(w))
                       /\ (E!LoseConnection(w) <=> P!LoseConnection(w))
  /\ \A d \in Event : /\ E!RetryDelivery(d) <=> P!RetryDelivery(d)
                      /\ E!CancelUnsent(d) <=> P!CancelUnsent(d)
                      /\ E!ComesDue(d) <=> P!ComesDue(d)
                      /\ E!Expires(d) <=> P!Expires(d)
  /\ (E!SlotComes <=> P!SlotComes) /\ (E!NewPeriod <=> P!NewPeriod)
<1> USE DEF E!DispatchAssumption, P!DispatchAssumption, E!Init, P!Init, E!Status, P!Status, E!Used, P!Used,
            E!Queue, P!Queue, E!HandOff, P!HandOff, E!At, P!At, E!Goto, P!Goto, E!GetLock, P!GetLock,
            E!CheckMaintenance, P!CheckMaintenance, E!MarkAbandoned, P!MarkAbandoned, E!CancelExpired,
            P!CancelExpired, E!Sendable, P!Sendable, E!FirstInLine, P!FirstInLine, E!QuotaSpent,
            P!QuotaSpent, E!Charge, P!Charge, E!NothingToSend, P!NothingToSend, E!PutAside, P!PutAside,
            E!ClaimMessage, P!ClaimMessage, E!Send, P!Send, E!Outcome, P!Outcome, E!Finish, P!Finish,
            E!ReleaseLock, P!ReleaseLock, E!Work, P!Work, E!Fault, P!Fault, E!Fail, P!Fail, E!Stop, P!Stop,
            E!LoseConnection, P!LoseConnection, E!RetryDelivery, P!RetryDelivery, E!CancelUnsent,
            P!CancelUnsent, E!ComesDue, P!ComesDue, E!Expires, P!Expires, E!SlotComes, P!SlotComes,
            E!NewPeriod, P!NewPeriod, E!vars, P!vars, E!table, P!table, E!Absent, P!Absent, E!Idle, P!Idle,
            E!StatusTellsTheTruth, P!StatusTellsTheTruth
<1>1. E!DispatchAssumption <=> P!DispatchAssumption
  OBVIOUS
<1>2. E!Init <=> P!Init
  OBVIOUS
<1>3. (E!StatusTellsTheTruth <=> P!StatusTellsTheTruth) /\ E!Absent = P!Absent
  OBVIOUS
<1>4. ASSUME NEW w \in Worker
      PROVE  (E!Work(w) <=> P!Work(w)) /\ (E!Fail(w) <=> P!Fail(w)) /\ (E!Stop(w) <=> P!Stop(w))
             /\ (E!LoseConnection(w) <=> P!LoseConnection(w))
  <2>1. E!Work(w) <=> P!Work(w)
    OBVIOUS
  <2>2. (E!Fail(w) <=> P!Fail(w)) /\ (E!Stop(w) <=> P!Stop(w)) /\ (E!LoseConnection(w) <=> P!LoseConnection(w))
    OBVIOUS
  <2> QED
    BY ONLY <2>1, <2>2
<1>5. ASSUME NEW d \in Event
      PROVE  /\ E!RetryDelivery(d) <=> P!RetryDelivery(d)
             /\ E!CancelUnsent(d) <=> P!CancelUnsent(d)
             /\ E!ComesDue(d) <=> P!ComesDue(d)
             /\ E!Expires(d) <=> P!Expires(d)
  OBVIOUS
<1>6. (E!SlotComes <=> P!SlotComes) /\ (E!NewPeriod <=> P!NewPeriod)
  OBVIOUS
<1> QED
  BY <1>1, <1>2, <1>3, <1>4, <1>5, <1>6

(* --------------------------------------------- what the outbox does to mail *)

(* A row of the outbox and the message of the same name: the message is    *)
(* there when its event is, and handed over when that was delivered.       *)
Follows(e) ==
  /\ Kind(e) # "email" => email[e] = P!Absent
  /\ Kind(e) = "email" => email[e].status # "absent"
  /\ Kind(e) = "email" /\ outbox[e].status = "delivered" => email[e].handed
JointInv == OutboxInv /\ P!DispatchInv /\ \A e \in Event : Follows(e)

(* At most one row comes or settles in a step.                             *)
StatusLasts(x) == Kind(x)' = Kind(x) /\ outbox'[x].status = outbox[x].status
Comes(m) ==
  /\ outbox[m] = Absent /\ outbox'[m].kind # "none" /\ outbox'[m].status = "pending"
  /\ \A x \in Event \ {m} : StatusLasts(x)
Ends(e) ==
  /\ outbox[e].status = "pending" /\ Kind(e)' = Kind(e) /\ outbox'[e].status = "delivered"
  /\ \A x \in Event \ {e} : StatusLasts(x)
Changes == (\A x \in Event : StatusLasts(x)) \/ \E e \in Event : Comes(e) \/ Ends(e)

LEMMA RowsSame == ASSUME UNCHANGED outbox PROVE Changes
  BY DEF Changes, StatusLasts, Kind

LEMMA ComesIn ==
  ASSUME RowsAreRows, NEW m \in Event, NEW kind \in EventKinds, NEW delay \in Int,
         outbox[m] = Absent, outbox' = [outbox EXCEPT ![m] = Arriving(kind, delay)]
  PROVE  Changes
<1>1. Arriving(kind, delay).kind = kind /\ Arriving(kind, delay).status = "pending"
  BY ArrivingIsRow
<1>2. outbox'[m] = Arriving(kind, delay) /\ \A x \in Event \ {m} : outbox'[x] = outbox[x]
  BY DEF RowsAreRows
<1>3. Comes(m)
  BY <1>1, <1>2 DEF Comes, StatusLasts, Kind, EventKinds
<1> QED
  BY <1>3 DEF Changes

LEMMA HandedOver == ASSUME RowsAreRows, NEW e \in Event, HandOver(e) PROVE Changes
<1>1. CASE UNCHANGED outbox
  BY <1>1, RowsSame
<1>2. CASE ~UNCHANGED outbox
  <2>1. /\ MessageOf[e] # None /\ outbox[MessageOf[e]] = Absent
        /\ outbox' = [outbox EXCEPT ![MessageOf[e]] = Arriving("email", 0)]
    BY <1>2 DEF HandOver
  <2>2. MessageOf[e] \in Event /\ "email" \in EventKinds /\ 0 \in Int
    BY <2>1, EventAssumption DEF EventKinds
  <2> QED
    BY <2>1, <2>2, ComesIn
<1> QED
  BY <1>1, <1>2

(* Rows written by UPDATE keep their kind, and their status but for one.   *)
LEMMA RowWritten ==
  ASSUME RowsAreRows, NEW e \in Event, NEW r, outbox' = [outbox EXCEPT ![e] = r], r.kind = Kind(e),
         r.status = outbox[e].status \/ (outbox[e].status = "pending" /\ r.status = "delivered")
  PROVE  Changes
<1>1. outbox'[e] = r /\ \A x \in Event \ {e} : outbox'[x] = outbox[x]
  BY DEF RowsAreRows
<1> QED
  BY <1>1 DEF Changes, StatusLasts, Ends, Kind

LEMMA OutboxChanges == ASSUME OutboxInv, OutboxStep PROVE Changes
<1>0. RowsAreRows
  BY DEF OutboxInv
<1>1. ASSUME NEW e \in Event, Enqueue(e) PROVE Changes
  <2>1. PICK kind \in Kinds[e], delay \in {0, Scheduled} : outbox' = [outbox EXCEPT ![e] = Arriving(kind, delay)]
    BY <1>1 DEF Enqueue
  <2>2. kind \in EventKinds /\ delay \in Int /\ outbox[e] = Absent
    BY <1>1, <2>1, EventAssumption, OutboxBounds DEF Enqueue
  <2> QED
    BY <1>0, <2>1, <2>2, ComesIn
<1>2. ASSUME NEW e \in Event, CancelNotice(e) PROVE Changes
  <2> DEFINE r == [outbox[e] EXCEPT !.status = "delivered"]
  <2>1. r.kind = Kind(e) /\ r.status = "delivered" /\ outbox[e].status = "pending"
    BY <1>0, <1>2 DEF CancelNotice, Pending, Kind, RowsAreRows, Rows
  <2>2. outbox' = [outbox EXCEPT ![e] = r]
    BY <1>2 DEF CancelNotice
  <2> HIDE DEF r
  <2> QED
    BY <1>0, <2>1, <2>2, RowWritten
<1>3. ASSUME NEW e \in Event, RetryNotice(e) PROVE Changes
  <2> DEFINE r == [outbox[e] EXCEPT !.wait = 0, !.failed = FALSE]
  <2>1. r.kind = Kind(e) /\ r.status = outbox[e].status
    BY <1>0 DEF Kind, RowsAreRows, Rows
  <2>2. outbox' = [outbox EXCEPT ![e] = r]
    BY <1>3 DEF RetryNotice
  <2> HIDE DEF r
  <2> QED
    BY <1>0, <2>1, <2>2, RowWritten
<1>4. CASE Tick
  <2>1. \A x \in Event : /\ [outbox[x] EXCEPT !.wait = Sooner(@), !.lock = Later(@)].kind = outbox[x].kind
                         /\ [outbox[x] EXCEPT !.wait = Sooner(@), !.lock = Later(@)].status = outbox[x].status
    BY <1>0 DEF RowsAreRows, Rows
  <2> QED
    BY <1>4, <2>1 DEF Tick, Changes, StatusLasts, Kind
<1>5. ASSUME NEW w \in Worker, Fail(w) \/ RecordAudit(w) \/ Look(w) \/ InsertNotice(w) \/ RewriteReminder(w)
      PROVE  Changes
  BY <1>5, RowsSame DEF Fail, RecordAudit, Look, InsertNotice, RewriteReminder
<1>6. ASSUME NEW w \in Worker, Claim(w) PROVE Changes
  <2>1. PICK S : outbox' = [e \in Event |-> IF e \in S
                  THEN [outbox[e] EXCEPT !.lock = 0, !.attempts = Attempted(@)] ELSE outbox[e]]
    BY <1>6 DEF Claim
  <2>2. \A x \in Event : /\ [outbox[x] EXCEPT !.lock = 0, !.attempts = Attempted(@)].kind = outbox[x].kind
                         /\ [outbox[x] EXCEPT !.lock = 0, !.attempts = Attempted(@)].status = outbox[x].status
    BY <1>0 DEF RowsAreRows, Rows
  <2> QED
    BY <2>1, <2>2 DEF Changes, StatusLasts, Kind
<1>7. ASSUME NEW w \in Worker, Publish(w) \/ QueueMessage(w) PROVE Changes
  <2>1. Row(w) \in Event
    BY <1>7, RowInHand DEF Publish, QueueMessage, At
  <2> QED
    BY <1>0, <1>7, <2>1, HandedOver, RowsSame DEF Publish, QueueMessage
<1>8. ASSUME NEW w \in Worker, MarkDelivered(w) PROVE Changes
  <2>1. PICK e \in Event : e = Row(w)
    BY <1>8, RowInHand DEF MarkDelivered, At
  <2> DEFINE r == [outbox[e] EXCEPT !.status = "delivered", !.lock = Unlocked, !.failed = FALSE]
  <2>2. r.kind = Kind(e) /\ r.status = "delivered"
    BY <1>0 DEF Kind, RowsAreRows, Rows
  <2>3. outbox' = IF Pending(e) THEN [outbox EXCEPT ![e] = r] ELSE outbox
    BY <1>8, <2>1 DEF MarkDelivered
  <2> HIDE DEF r
  <2> QED
    BY <1>0, <2>2, <2>3, RowWritten, RowsSame DEF Pending
<1>9. ASSUME NEW w \in Worker, ReleaseForRetry(w) PROVE Changes
  <2>1. PICK e \in Event : e = Row(w)
    BY <1>9, RowInHand DEF ReleaseForRetry, At
  <2> DEFINE r == [outbox[e] EXCEPT !.wait = Backoff(Head(worker[w].batch).attempts), !.lock = Unlocked, !.failed = TRUE]
  <2>2. r.kind = Kind(e) /\ r.status = outbox[e].status
    BY <1>0 DEF Kind, RowsAreRows, Rows
  <2>3. outbox' = IF Pending(e) THEN [outbox EXCEPT ![e] = r] ELSE outbox
    BY <1>9, <2>1 DEF ReleaseForRetry
  <2> HIDE DEF r
  <2> QED
    BY <1>0, <2>2, <2>3, RowWritten, RowsSame
<1> QED
  BY <1>1, <1>2, <1>3, <1>4, <1>5, <1>6, <1>7, <1>8, <1>9 DEF OutboxStep, Work

LEMMA HandedStays == ASSUME NEW r \in P!Row, r.handed PROVE [r EXCEPT !.handed = TRUE] = r
  BY DEF P!Row

LEMMA QueuedRow == /\ [P!Absent EXCEPT !.status = "queued"].status = "queued"
                   /\ P!Absent.status = "absent"
  BY DEF P!Absent

(* ------------------------------------------- how the messages follow it *)

(* A message whose event comes is queued, one whose event was delivered is *)
(* handed over, and any other is left alone.                               *)
LEMMA Followed ==
  ASSUME Follow, NEW x \in Event
  PROVE  LET come == outbox[x] = Absent /\ outbox'[x].kind = "email"
             end == Kind(x) = "email" /\ outbox'[x].status = "delivered"
         IN  /\ come => email'[x] = [E!Absent EXCEPT !.status = "queued"]
             /\ ~come /\ end => email'[x] = [email[x] EXCEPT !.handed = TRUE]
             /\ ~come /\ ~end => email'[x] = email[x]
<1> DEFINE come == outbox[x] = Absent /\ outbox'[x].kind = "email"
           end == Kind(x) = "email" /\ outbox'[x].status = "delivered"
<1>1. email'[x] = CASE come -> [E!Absent EXCEPT !.status = "queued"]
                    [] end -> [email[x] EXCEPT !.handed = TRUE]
                    [] OTHER -> email[x]
  BY DEF Follow
<1>2. Absent.kind = "none"
  BY AbsentIsRow
<1>3. ~(come /\ end)
  BY <1>2 DEF Kind
<1> HIDE DEF come, end
<1>4. /\ come => email'[x] = [E!Absent EXCEPT !.status = "queued"]
      /\ ~come /\ end => email'[x] = [email[x] EXCEPT !.handed = TRUE]
      /\ ~come /\ ~end => email'[x] = email[x]
  BY <1>1, <1>3
<1> QED
  BY <1>4 DEF come, end

Others == /\ used' = used /\ throttled' = throttled /\ holder' = holder /\ restoring' = restoring
          /\ accepted' = accepted /\ sender' = sender /\ failures' = failures

(* A message whose row of the outbox keeps its kind and status stays.      *)
LEMMA StaysBehind ==
  ASSUME JointInv, Follow, NEW x \in Event, StatusLasts(x) PROVE email'[x] = email[x]
<1>1. ~(outbox[x] = Absent /\ outbox'[x].kind = "email")
  BY AbsentIsRow DEF StatusLasts, Kind
<1>2. CASE ~(Kind(x) = "email" /\ outbox'[x].status = "delivered")
  BY <1>1, <1>2, Followed
<1>3. CASE Kind(x) = "email" /\ outbox'[x].status = "delivered"
  <2>1. email'[x] = [email[x] EXCEPT !.handed = TRUE]
    BY <1>1, <1>3, Followed
  <2>2. email[x] \in P!Row /\ email[x].handed
    BY <1>3 DEF JointInv, Follows, StatusLasts, P!DispatchInv, P!TypeOK
  <2> QED
    BY <2>1, <2>2, HandedStays
<1> QED
  BY <1>2, <1>3

LEMMA OutboxStepFollowed ==
  ASSUME JointInv, OutboxStep, Follow
  PROVE  [P!Next]_(P!vars) /\ \A x \in Event : Follows(x)'
<1>1. Others /\ email' \in [Event -> {email'[x] : x \in Event}] /\ email \in [Event -> P!Row]
  BY DEF Follow, Others, JointInv, P!DispatchInv, P!TypeOK
<1>2. Changes
  BY OutboxChanges DEF JointInv
<1>3. \A x \in Event : StatusLasts(x) => email'[x] = email[x] /\ Follows(x)'
  BY StaysBehind DEF JointInv, Follows, StatusLasts
<1>4. CASE \A x \in Event : StatusLasts(x)
  <2>1. email' = email
    BY <1>1, <1>3, <1>4
  <2> QED
    BY <1>1, <1>3, <1>4, <2>1 DEF P!vars, Others
<1>5. ASSUME NEW m \in Event, Comes(m) PROVE [P!Next]_(P!vars) /\ Follows(m)'
  <2>1. outbox[m] = Absent /\ Kind(m) = "none" /\ outbox'[m].status = "pending"
    BY <1>5, AbsentIsRow DEF Comes, Kind
  <2>2. email[m] = P!Absent
    BY <2>1 DEF JointInv, Follows
  <2>3. \A x \in Event \ {m} : email'[x] = email[x]
    BY <1>3, <1>5 DEF Comes
  <2>4. CASE outbox'[m].kind = "email"
    <3>1. email'[m] = [P!Absent EXCEPT !.status = "queued"]
      BY <2>1, <2>4, Followed, SameModule
    <3>2. email' = [email EXCEPT ![m].status = "queued"]
      BY <1>1, <2>2, <2>3, <3>1
    <3>3. P!Queue(m)
      BY <1>1, <2>2, <3>2 DEF P!Queue, Others
    <3>4. Follows(m)'
      BY <2>1, <2>4, <3>1, QueuedRow DEF Follows, Kind
    <3> QED
      BY <3>3, <3>4 DEF P!Next
  <2>5. CASE outbox'[m].kind # "email"
    <3>1. email'[m] = email[m]
      BY <2>1, <2>5, Followed
    <3>2. email' = email
      BY <1>1, <2>3, <3>1
    <3> QED
      BY <1>1, <2>2, <2>5, <3>1, <3>2 DEF P!vars, Others, Follows, Kind
  <2> QED
    BY <2>4, <2>5
<1>6. ASSUME NEW e \in Event, Ends(e) PROVE [P!Next]_(P!vars) /\ Follows(e)'
  <2>1. outbox[e] # Absent /\ Kind(e)' = Kind(e) /\ outbox'[e].status = "delivered"
    BY <1>6, AbsentIsRow DEF Ends
  <2>2. \A x \in Event \ {e} : email'[x] = email[x]
    BY <1>3, <1>6 DEF Ends
  <2>3. CASE Kind(e) # "email"
    <3>1. email'[e] = email[e]
      BY <2>1, <2>3, Followed
    <3>2. email' = email
      BY <1>1, <2>2, <3>1
    <3> QED
      BY <1>1, <2>1, <2>3, <3>1, <3>2 DEF P!vars, Others, Follows, JointInv
  <2>4. CASE Kind(e) = "email"
    <3>1. email'[e] = [email[e] EXCEPT !.handed = TRUE]
      BY <2>1, <2>4, Followed
    <3>2. email[e] \in P!Row /\ email[e].status # "absent"
      BY <1>1, <2>4 DEF JointInv, Follows
    <3>3. email'[e].handed /\ email'[e].status = email[e].status
      BY <3>1, <3>2 DEF P!Row
    <3>4. email[e] # P!Absent
      BY <3>2, QueuedRow
    <3>5. email' = [email EXCEPT ![e].handed = TRUE]
      BY <1>1, <2>2, <3>1
    <3>6. CASE email[e].handed
      <4>0. email'[e] = email[e]
        BY <3>1, <3>2, <3>6, HandedStays
      <4>1. email' = email
        BY <1>1, <2>2, <4>0
      <4> QED
        BY <1>1, <2>1, <2>4, <3>2, <3>3, <4>1 DEF P!vars, Others, Follows
    <3>7. CASE ~email[e].handed
      <4>1. P!HandOff(e)
        BY <1>1, <3>4, <3>5, <3>7 DEF P!HandOff, Others
      <4> QED
        BY <2>1, <2>4, <3>2, <3>3, <4>1 DEF P!Next, Follows
    <3> QED
      BY <3>6, <3>7
  <2> QED
    BY <2>3, <2>4
<1> QED
  BY <1>2, <1>3, <1>4, <1>5, <1>6 DEF Changes, Comes, Ends

(* ------------------------------------------------ what the email worker does *)

(* A message that is there stays there, and handed over.                   *)
Stays(x) ==
  /\ email[x] = P!Absent => email'[x] = P!Absent
  /\ email[x].status # "absent" => email'[x].status # "absent"
  /\ email[x].handed => email'[x].handed
MessagesStay == \A x \in Event : Stays(x)

LEMMA UntouchedStay == ASSUME email' = email PROVE MessagesStay
  BY DEF MessagesStay, Stays

LEMMA RewrittenStay ==
  ASSUME email \in [Event -> P!Row], NEW d \in Event, NEW r, email' = [email EXCEPT ![d] = r],
         email[d].status # "absent", r.status # "absent", r.handed = email[d].handed
  PROVE  MessagesStay
<1>1. email'[d] = r /\ \A x \in Event \ {d} : email'[x] = email[x]
  OBVIOUS
<1>2. email[d] # P!Absent
  BY QueuedRow
<1> QED
  BY <1>1, <1>2 DEF MessagesStay, Stays

(* What the statements write of a row.                                     *)
LEMMA Rewritten ==
  ASSUME NEW r \in P!Row
  PROVE  /\ \A s : [r EXCEPT !.status = s].status = s /\ [r EXCEPT !.status = s].handed = r.handed
         /\ \A x : [r EXCEPT !.wait = x].status = r.status /\ [r EXCEPT !.wait = x].handed = r.handed
         /\ \A s, x : /\ [r EXCEPT !.status = s, !.wait = x].status = s
                      /\ [r EXCEPT !.status = s, !.wait = x].handed = r.handed
         /\ \A s, n : /\ [r EXCEPT !.status = s, !.attempts = n].status = s
                      /\ [r EXCEPT !.status = s, !.attempts = n].handed = r.handed
         /\ [r EXCEPT !.expired = TRUE].status = r.status /\ [r EXCEPT !.expired = TRUE].handed = r.handed
         /\ \A s, n, x : /\ [r EXCEPT !.status = s, !.attempts = n, !.wait = x].status = s
                         /\ [r EXCEPT !.status = s, !.attempts = n, !.wait = x].handed = r.handed
  BY DEF P!Row

LEMMA AbsentLies == P!Absent.wait = "no" /\ P!Absent.status = "absent"
  BY DEF P!Absent

LEMMA AdministrationStays ==
  ASSUME JointInv, NEW d \in Event,
         P!RetryDelivery(d) \/ P!CancelUnsent(d) \/ P!ComesDue(d) \/ P!Expires(d)
  PROVE  MessagesStay
<1>0. email \in [Event -> P!Row] /\ email[d] \in P!Row
  BY DEF JointInv, P!DispatchInv, P!TypeOK
<1>1. CASE P!RetryDelivery(d)
  <2> DEFINE r == [email[d] EXCEPT !.status = "queued", !.attempts = 0, !.wait = "no"]
  <2>1. r.status = "queued" /\ r.handed = email[d].handed
    BY <1>0, Rewritten
  <2>2. email' = [email EXCEPT ![d] = r] /\ email[d].status = "failed"
    BY <1>1 DEF P!RetryDelivery, P!Status
  <2> HIDE DEF r
  <2> QED
    BY <1>0, <2>1, <2>2, RewrittenStay
<1>2. CASE P!CancelUnsent(d)
  <2> DEFINE r == [email[d] EXCEPT !.status = "cancelled"]
  <2>1. r.status = "cancelled" /\ r.handed = email[d].handed
    BY <1>0, Rewritten
  <2>2. email' = [email EXCEPT ![d] = r] /\ email[d].status \in {"queued", "failed"}
    BY <1>2 DEF P!CancelUnsent, P!Status
  <2> HIDE DEF r
  <2> QED
    BY <1>0, <2>1, <2>2, RewrittenStay
<1>3. ASSUME P!ComesDue(d) \/ P!Expires(d) PROVE MessagesStay
  <2>1. PICK r : /\ email' = [email EXCEPT ![d] = r]
                 /\ r.status = email[d].status /\ r.handed = email[d].handed
                 /\ email[d] # P!Absent
    <3> DEFINE due == [email[d] EXCEPT !.wait = "no"]
               expired == [email[d] EXCEPT !.expired = TRUE]
    <3>1. /\ due.status = email[d].status /\ due.handed = email[d].handed
          /\ expired.status = email[d].status /\ expired.handed = email[d].handed
      BY <1>0, Rewritten
    <3>2. email' = [email EXCEPT ![d] = due] \/ email' = [email EXCEPT ![d] = expired]
      BY <1>3 DEF P!ComesDue, P!Expires
    <3>3. email[d] # P!Absent
      BY <1>3, AbsentLies DEF P!ComesDue, P!Expires
    <3> HIDE DEF due, expired
    <3> QED
      BY <3>1, <3>2, <3>3
  <2>2. email[d].status # "absent"
    BY <2>1 DEF JointInv, Follows
  <2> QED
    BY <1>0, <2>1, <2>2, RewrittenStay
<1> QED
  BY <1>1, <1>2, <1>3

(* A step that writes many rows changes a status but never to or from that *)
(* of a message that is not there.                                         *)
LEMMA AllRewrittenStay ==
  ASSUME JointInv,
         \A x \in Event : \/ email'[x] = email[x]
                          \/ /\ email[x] # P!Absent
                             /\ email'[x].status # "absent" /\ email'[x].handed = email[x].handed
  PROVE  MessagesStay
  BY DEF MessagesStay, Stays

LEMMA TimeStays == ASSUME JointInv, P!SlotComes \/ P!NewPeriod PROVE MessagesStay
<1>0. email \in [Event -> P!Row]
  BY DEF JointInv, P!DispatchInv, P!TypeOK
<1>1. CASE P!SlotComes
  BY <1>1, UntouchedStay DEF P!SlotComes
<1>2. CASE P!NewPeriod
  <2>1. ASSUME NEW x \in Event, email[x].wait = "quota"
        PROVE  email[x] # P!Absent /\ email'[x].status # "absent" /\ email'[x].handed = email[x].handed
    <3>1. email[x] # P!Absent /\ email[x] \in P!Row
      BY <1>0, <2>1, AbsentLies
    <3>2. email[x].status # "absent"
      BY <3>1 DEF JointInv, Follows
    <3>3. email'[x] = [email[x] EXCEPT !.wait = "no"]
      BY <1>2, <2>1 DEF P!NewPeriod
    <3> QED
      BY <3>1, <3>2, <3>3, Rewritten
  <2>2. \A x \in Event : email[x].wait # "quota" => email'[x] = email[x]
    BY <1>2 DEF P!NewPeriod
  <2> QED
    BY <2>1, <2>2, AllRewrittenStay
<1> QED
  BY <1>1, <1>2

LEMMA WorkStays ==
  ASSUME JointInv, NEW w \in Worker, P!Work(w) \/ P!Fail(w) \/ P!Stop(w) \/ P!LoseConnection(w)
  PROVE  MessagesStay
<1>0. email \in [Event -> P!Row] /\ \A x \in Event : email[x] \in P!Row
  BY DEF JointInv, P!DispatchInv, P!TypeOK
<1>1. ASSUME P!GetLock(w) \/ P!CheckMaintenance(w) \/ P!NothingToSend(w) \/ P!Send(w) \/ P!ReleaseLock(w)
             \/ P!Fail(w) \/ P!Stop(w) \/ P!LoseConnection(w)
      PROVE  MessagesStay
  <2>1. email' = email
    BY <1>1 DEF P!GetLock, P!CheckMaintenance, P!NothingToSend, P!Send, P!ReleaseLock, P!Fail, P!Stop,
                P!LoseConnection, P!table
  <2> QED
    BY <2>1, UntouchedStay
<1>2. ASSUME P!MarkAbandoned(w) \/ P!CancelExpired(w) PROVE MessagesStay
  <2>1. ASSUME NEW x \in Event
        PROVE  \/ email'[x] = email[x]
               \/ /\ email[x] # P!Absent
                  /\ email'[x].status # "absent" /\ email'[x].handed = email[x].handed
    <3>1. \/ email'[x] = email[x]
          \/ /\ email[x].status \in {"processing", "queued", "failed"}
             /\ \E s \in {"unknown", "cancelled"} : email'[x] = [email[x] EXCEPT !.status = s]
      BY <1>2 DEF P!MarkAbandoned, P!CancelExpired, P!Status
    <3>2. ASSUME NEW s \in {"unknown", "cancelled"}, email'[x] = [email[x] EXCEPT !.status = s]
          PROVE  email'[x].status # "absent" /\ email'[x].handed = email[x].handed
      <4> DEFINE r == [email[x] EXCEPT !.status = s]
      <4>1. r.status = s /\ r.handed = email[x].handed
        BY <1>0, Rewritten
      <4> HIDE DEF r
      <4>2. email'[x] = r
        BY <3>2 DEF r
      <4> QED
        BY <4>1, <4>2
    <3> QED
      BY <3>1, <3>2, AbsentLies
  <2> QED
    BY <2>1, AllRewrittenStay
<1>3. ASSUME NEW d \in Event, P!PutAside(w, d) \/ P!ClaimMessage(w, d) PROVE MessagesStay
  <2>1. email[d].status = "queued"
    BY <1>3 DEF P!PutAside, P!ClaimMessage, P!FirstInLine, P!Sendable, P!Status
  <2>2. PICK r : email' = [email EXCEPT ![d] = r] /\ r.status # "absent" /\ r.handed = email[d].handed
    <3> DEFINE aside(s) == [email[d] EXCEPT !.status = s]
               spent == [email[d] EXCEPT !.wait = "quota"]
               claimed == [email[d] EXCEPT !.status = "processing", !.attempts = @ + 1]
    <3>1. /\ aside("failed").status = "failed" /\ aside("failed").handed = email[d].handed
          /\ aside("cancelled").status = "cancelled" /\ aside("cancelled").handed = email[d].handed
      BY <1>0, Rewritten
    <3>2. spent.status = "queued" /\ spent.handed = email[d].handed
      BY <1>0, <2>1, Rewritten
    <3>3. claimed.status = "processing" /\ claimed.handed = email[d].handed
      BY <1>0, Rewritten
    <3>4. \/ email' = [email EXCEPT ![d] = aside("failed")]
          \/ email' = [email EXCEPT ![d] = aside("cancelled")]
          \/ email' = [email EXCEPT ![d] = spent]
          \/ email' = [email EXCEPT ![d] = claimed]
      BY <1>0, <1>3 DEF P!PutAside, P!ClaimMessage
    <3> HIDE DEF aside, spent, claimed
    <3> QED
      BY <3>1, <3>2, <3>3, <3>4
  <2> QED
    BY <1>0, <2>1, <2>2, RewrittenStay
<1>4. CASE P!Finish(w)
  <2>1. PICK d \in Event : d = sender[w].row /\ email[d].status \in {"processing", "unknown", "cancelled"}
    BY <1>4 DEF JointInv, P!DispatchInv, P!Told, P!Knows, P!InHand, P!Finish, P!At, P!Status
  <2>2. PICK s, x : email' = [email EXCEPT ![d].status = s, ![d].wait = x]
                    /\ s = P!Outcome(sender[w].result, sender[w].attempts)
    BY <1>4, <2>1 DEF P!Finish
  <2> DEFINE r == [email[d] EXCEPT !.status = s, !.wait = x]
  <2>3. r.status = s /\ r.handed = email[d].handed
    BY <1>0, Rewritten
  <2>4. email' = [email EXCEPT ![d] = r]
    BY <1>0, <2>2
  <2>5. s # "absent"
    BY <1>4, <2>2 DEF P!Outcome, P!Finish, JointInv, P!DispatchInv, P!Told, P!Knows, P!InHand, P!At, P!Results
  <2> HIDE DEF r
  <2> QED
    BY <1>0, <2>1, <2>3, <2>4, <2>5, RewrittenStay
<1> QED
  BY <1>1, <1>2, <1>3, <1>4 DEF P!Work

LEMMA StillFollows == ASSUME JointInv, MessagesStay, outbox' = outbox PROVE \A e \in Event : Follows(e)'
  BY QueuedRow DEF JointInv, MessagesStay, Stays, Follows, Kind

(* -------------------------------------------------------- the steps of both *)

StepKeeps == [Next]_vars /\ [P!Next]_(P!vars) /\ \A e \in Event : Follows(e)'

LEMMA MailStepKeeps == ASSUME JointInv, MailStep, UNCHANGED vars PROVE StepKeeps
<1>1. /\ \/ \E w \in Worker : P!Work(w) \/ P!Fail(w) \/ P!LoseConnection(w)
         \/ \E d \in Event : P!RetryDelivery(d) \/ P!CancelUnsent(d) \/ P!ComesDue(d) \/ P!Expires(d)
         \/ P!SlotComes \/ P!NewPeriod
      /\ outbox' = outbox
  BY SameModule DEF MailStep, vars
<1>2. MessagesStay
  BY <1>1, AdministrationStays, TimeStays, WorkStays
<1>3. P!Next
  BY <1>1 DEF P!Next
<1> QED
  BY <1>1, <1>2, <1>3, StillFollows DEF StepKeeps

LEMMA StopKeepsBoth == ASSUME JointInv, NEW w \in Worker, StopProcess(w) PROVE StepKeeps
<1>1. outbox' = outbox /\ [Next]_vars
  BY DEF StopProcess, Stop, Next, vars
<1>2. P!Stop(w) \/ UNCHANGED mail
  BY SameModule DEF StopProcess
<1>3. CASE P!Stop(w)
  BY <1>1, <1>3, WorkStays, StillFollows DEF StepKeeps, P!Next
<1>4. CASE UNCHANGED mail
  BY <1>1, <1>4, UntouchedStay, StillFollows DEF StepKeeps, P!vars, mail
<1> QED
  BY <1>2, <1>3, <1>4

LEMMA DeliveryStepKeeps == ASSUME JointInv, [DeliveryNext]_<<vars, mail>> PROVE StepKeeps
<1>1. CASE OutboxStep /\ Follow
  BY <1>1, OutboxStepFollowed DEF StepKeeps, OutboxStep, Next
<1>2. CASE UNCHANGED <<vars, mail>>
  <2>1. outbox' = outbox /\ email' = email
    BY <1>2 DEF vars, mail
  <2> QED
    BY <1>2, <2>1, UntouchedStay, StillFollows DEF StepKeeps, P!vars, mail
<1> QED
  BY <1>1, <1>2, MailStepKeeps, StopKeepsBoth DEF DeliveryNext

LEMMA JointKeeps ==
  ASSUME P!DispatchAssumption, JointInv, [DeliveryNext]_<<vars, mail>> PROVE JointInv' /\ [Next]_vars
<1>1. StepKeeps
  BY DeliveryStepKeeps
<1>2. OutboxInv'
  BY <1>1, NextKeeps DEF StepKeeps, JointInv, Keeps
<1>3. P!DispatchInv'
  BY <1>1, P!NextKeeps DEF StepKeeps, JointInv
<1> QED
  BY <1>1, <1>2, <1>3 DEF StepKeeps, JointInv

LEMMA JointInit == ASSUME P!DispatchAssumption, DeliveryInit PROVE JointInv
<1>1. OutboxInv
  BY InitKeeps DEF DeliveryInit
<1>2. P!Init /\ P!DispatchInv
  BY SameModule, P!InitKeeps DEF DeliveryInit
<1>3. \A e \in Event : Kind(e) = "none" /\ email[e] = P!Absent
  BY <1>2, AbsentIsRow DEF DeliveryInit, Init, Kind, P!Init
<1> QED
  BY <1>1, <1>2, <1>3 DEF JointInv, Follows

(* ------------------------------------------------------------- theorems *)

(* The message of an event is there when the event is and is handed over   *)
(* when that was delivered, whatever the workers of the two queues do and  *)
(* wherever their processes stop.                                          *)
THEOREM DeliveryInvariant == E!DispatchAssumption => (DeliverySpec => []JointInv)
<1>1. E!DispatchAssumption => P!DispatchAssumption /\ E!DispatchAssumption'
  BY SameModule DEF E!DispatchAssumption
<1>2. P!DispatchAssumption /\ DeliveryInit => JointInv
  BY JointInit
<1>3. P!DispatchAssumption /\ JointInv /\ [DeliveryNext]_<<vars, mail>> => JointInv'
  BY JointKeeps
<1>4. P!DispatchAssumption => P!DispatchAssumption'
  BY DEF P!DispatchAssumption
<1> QED
  BY <1>1, <1>2, <1>3, <1>4, PTL DEF DeliverySpec

(* Of the messages that the outbox hands over none is accepted twice, and  *)
(* one that can still be sent or retried was not accepted.                 *)
THEOREM DeliveredStatusIsTrue == E!DispatchAssumption => (DeliverySpec => []StatusTellsTheTruth)
<1>1. JointInv => StatusTellsTheTruth
  BY SameModule DEF JointInv, P!DispatchInv, P!Told, StatusTellsTheTruth
<1> QED
  BY <1>1, DeliveryInvariant, PTL

(* The email worker beside it takes nothing from what the outbox promises: *)
(* every event takes effect once, and before it counts as delivered.       *)
THEOREM DeliveryKeepsPromise == E!DispatchAssumption => (DeliverySpec => EventsTakeEffectOnce)
<1>1. E!DispatchAssumption => P!DispatchAssumption
  BY SameModule
<1>2. P!DispatchAssumption => P!DispatchAssumption'
  BY DEF P!DispatchAssumption
<1>3. DeliveryInit => Init
  BY DEF DeliveryInit
<1>4. P!DispatchAssumption /\ JointInv /\ [DeliveryNext]_<<vars, mail>> => [Next]_vars
  BY JointKeeps
<1>5. E!DispatchAssumption => (DeliverySpec => Spec)
  BY <1>1, <1>2, <1>3, <1>4, DeliveryInvariant, PTL DEF DeliverySpec, Spec
<1> QED
  BY <1>5, OutboxKeepsPromise

(* -------------------------------------------------------------- the scenes *)

LEMMA SameTypes == E!TypeOK <=> P!TypeOK
  BY DEF E!TypeOK, P!TypeOK, E!Row, P!Row, E!Statuses, P!Statuses, E!Used, P!Used

LEMMA SameSteps == E!Next <=> P!Next
<1>1. \A d \in Event : (E!Queue(d) <=> P!Queue(d)) /\ (E!HandOff(d) <=> P!HandOff(d))
  BY DEF E!Queue, P!Queue, E!HandOff, P!HandOff, E!Absent, P!Absent, E!table, P!table
<1>2. /\ E!BeginRestore <=> P!BeginRestore
      /\ E!LockForRestore <=> P!LockForRestore
      /\ E!CancelForRestore <=> P!CancelForRestore
  BY DEF E!BeginRestore, P!BeginRestore, E!LockForRestore, P!LockForRestore, E!CancelForRestore, P!CancelForRestore,
         E!Status, P!Status, E!table, P!table
<1> QED
  BY <1>1, <1>2, SameModule DEF E!Next, P!Next

(* Where only messages are played, they come without events.               *)
SceneInv ==
  /\ OutboxInv /\ Bounded /\ P!DispatchInv
  /\ scene \in Joint => JointInv

LEMMA SceneStarts == ASSUME SceneInit PROVE SceneInv
  BY MailAssumption, SameModule, JointInit, BoundedAtFirst DEF SceneInit, SceneInv, JointInv, DeliveryInit

LEMMA ScenesKeepBounds == ASSUME SceneInv, [Next]_vars PROVE Bounded'
  BY BoundedKeeps DEF SceneInv

LEMMA SceneKeeps == SceneInv /\ [SceneNext]_all => SceneInv'
<1> SUFFICES ASSUME SceneInv, [SceneNext]_all PROVE SceneInv'
  OBVIOUS
<1>0. P!DispatchAssumption
  BY MailAssumption, SameModule
<1>1. ASSUME scene \in Joint, [DeliveryNext]_<<vars, mail>>, scene' = scene PROVE SceneInv'
  <2>1. JointInv' /\ [Next]_vars
    BY <1>0, <1>1, JointKeeps DEF SceneInv
  <2>2. Bounded'
    BY <2>1, ScenesKeepBounds
  <2> QED
    BY <2>1, <2>2 DEF SceneInv, JointInv
<1>2. ASSUME scene = "outbox", Next, Follow, scene' = scene PROVE SceneInv'
  <2>1. JointInv /\ scene \in Joint
    BY <1>2 DEF SceneInv, Joint
  <2>2. CASE OutboxStep
    BY <1>1, <1>2, <2>1, <2>2 DEF DeliveryNext
  <2>3. ASSUME NEW w \in Worker, Stop(w) PROVE SceneInv'
    <3>1. outbox' = outbox
      BY <2>3 DEF Stop
    <3>2. \A x \in Event : StatusLasts(x)
      BY <3>1 DEF StatusLasts, Kind
    <3>3. \A x \in Event : email'[x] = email[x]
      BY <1>2, <2>1, <3>2, StaysBehind
    <3>4. email' = email /\ Others
      BY <1>2, <2>1, <3>3 DEF Follow, Others, JointInv, P!DispatchInv, P!TypeOK
    <3>5. OutboxInv' /\ P!DispatchInv'
      BY <1>0, <1>2, <2>1, <3>4, NextKeeps, P!NextKeeps DEF JointInv, Keeps, Others, P!vars
    <3>6. \A x \in Event : Follows(x)'
      BY <2>1, <3>1, <3>4 DEF JointInv, Follows, Kind
    <3>7. Bounded'
      BY <1>2, ScenesKeepBounds
    <3> QED
      BY <3>5, <3>6, <3>7 DEF SceneInv, JointInv
  <2> QED
    BY <1>2, <2>2, <2>3 DEF Next, OutboxStep
<1>3. ASSUME scene \notin Joint, E!Next, UNCHANGED vars, scene' = scene PROVE SceneInv'
  <2>1. OutboxInv' /\ Bounded'
    BY <1>3, NextKeeps, ScenesKeepBounds DEF SceneInv, Keeps
  <2>2. P!DispatchInv'
    BY <1>0, <1>3, SameSteps, P!NextKeeps DEF SceneInv
  <2> QED
    BY <1>3, <2>1, <2>2 DEF SceneInv, Joint
<1>4. ASSUME UNCHANGED all PROVE SceneInv'
  <2>1. UNCHANGED vars /\ UNCHANGED mail /\ scene' = scene
    BY <1>4 DEF all
  <2>2. OutboxInv' /\ Bounded' /\ P!DispatchInv'
    BY <1>0, <2>1, NextKeeps, P!NextKeeps, ScenesKeepBounds DEF SceneInv, Keeps, P!vars, mail
  <2> QED
    BY <1>1, <2>1, <2>2 DEF SceneInv, Joint
<1> QED
  BY <1>1, <1>2, <1>3, <1>4 DEF SceneNext, Joint

(* The tables of both queues keep to the values that statements write, in  *)
(* every scene: among them the quota, of which routine messages never use  *)
(* what is kept for security messages.                                     *)
THEOREM ScenesTyped == SceneSpec => []TypesOK
<1>1. SceneInv => TypesOK
  BY SameTypes, BoundedTypes DEF SceneInv, P!DispatchInv, TypesOK
<1> QED
  BY <1>1, SceneStarts, SceneKeeps, PTL DEF SceneSpec
===============================================================================
