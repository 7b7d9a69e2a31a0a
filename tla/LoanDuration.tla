------------------------------ MODULE LoanDuration ------------------------------
(***************************************************************************)
(* When a loan is due.  A loan of days is due on the last of that many     *)
(* days on which the library is open; a day is closed when an active       *)
(* holiday is on it.  A loan of hours is due after that time, whatever is  *)
(* closed; it is left out, as is the time of the day, which stays.         *)
(*                                                                         *)
(* A checkout or renewal takes its snapshot when it locks the patron, may  *)
(* wait for the book, and then reads the holidays of its snapshot and the  *)
(* clock.                                                                  *)
(***************************************************************************)
EXTENDS Naturals, FiniteSets

CONSTANTS
  Holiday,     \* rows of library_holidays
  Loan,
  Conn,        \* connections of the pool
  MaxDays,     \* bound: the longest loan
  LastDay      \* bound: days with holidays, and of the clock

VARIABLES
  holidays,   \* library_holidays: holiday_date (0 before it exists), is_active
  today,
  due,        \* borrowings.due_date, with what it was computed from
  req         \* snapshots of checkouts and renewals in progress

vars == <<holidays, today, due, req>>

CalendarAssumption == IsFiniteSet(Holiday) /\ MaxDays \in Nat /\ LastDay \in Nat \ {0}

NoHoliday == [day |-> 0, active |-> FALSE]
NotLent == [from |-> 0, days |-> 0, closed |-> {}, due |-> 0]
Idle == [open |-> FALSE, closed |-> {}]

Init ==
  /\ holidays = [h \in Holiday |-> NoHoliday]
  /\ today = 1
  /\ due = [l \in Loan |-> NotLent]
  /\ req = [n \in Conn |-> Idle]

(* getHolidayDateSet.                                                      *)
ClosedDays == {holidays[h].day : h \in {h \in Holiday : holidays[h].active}}

(* Mutant: the day of the loan counts, and may be a holiday.               *)
DueFromToday(from, days, closed) ==
  LET run[at \in Nat \X (0..MaxDays)] ==
        IF at[2] = 0 THEN at[1] ELSE run[<<at[1] + 1, IF at[1] \in closed THEN at[2] ELSE at[2] - 1>>]
  IN  run[<<from, days>>]

(* calculateLoanDueDate: from day to day, at the day reached with the open *)
(* days that are left.                                                     *)
LoanDueDate(from, days, closed) ==
  LET run[at \in Nat \X (0..MaxDays)] ==
        IF at[2] = 0 THEN at[1] ELSE run[<<at[1] + 1, IF at[1] + 1 \in closed THEN at[2] ELSE at[2] - 1>>]
  IN  run[<<from, days>>]

Open(n) ==
  /\ ~req[n].open
  /\ req' = [req EXCEPT ![n] = [open |-> TRUE, closed |-> ClosedDays]]
  /\ UNCHANGED <<holidays, today, due>>

(* A checkout, or the renewal of the loan; a policy has whole days.        *)
Lend(n, l, days) ==
  /\ req[n].open
  /\ due' = [due EXCEPT ![l] = [from |-> today, days |-> days, closed |-> req[n].closed,
                                due |-> LoanDueDate(today, days, req[n].closed)]]
  /\ req' = [req EXCEPT ![n] = Idle]
  /\ UNCHANGED <<holidays, today>>

Abort(n) ==
  /\ req[n].open
  /\ req' = [req EXCEPT ![n] = Idle]
  /\ UNCHANGED <<holidays, today, due>>

(* Dates are unique, those of archived holidays too (fresh-start.sql:994). *)
DateIsFree(h, day) == \A other \in Holiday \ {h} : holidays[other].day # day

SaveHoliday(h, holiday) ==
  /\ holidays' = [holidays EXCEPT ![h] = holiday]
  /\ UNCHANGED <<today, due, req>>

CreateHoliday(h, day) ==
  /\ holidays[h] = NoHoliday /\ DateIsFree(h, day)
  /\ SaveHoliday(h, [day |-> day, active |-> TRUE])

UpdateHoliday(h, day) ==
  /\ holidays[h].active /\ DateIsFree(h, day)
  /\ SaveHoliday(h, [day |-> day, active |-> TRUE])

(* A holiday is archived, never deleted.                                   *)
DeleteHoliday(h) == holidays[h].active /\ SaveHoliday(h, [holidays[h] EXCEPT !.active = FALSE])

RestoreHoliday(h) ==
  /\ holidays[h] # NoHoliday /\ ~holidays[h].active
  /\ SaveHoliday(h, [holidays[h] EXCEPT !.active = TRUE])

Tick ==
  /\ today < LastDay
  /\ today' = today + 1
  /\ UNCHANGED <<holidays, due, req>>

Next ==
  \/ Tick
  \/ \E n \in Conn : Open(n) \/ Abort(n) \/ \E l \in Loan, days \in 1..MaxDays : Lend(n, l, days)
  \/ \E h \in Holiday :
       \/ DeleteHoliday(h) \/ RestoreHoliday(h)
       \/ \E day \in 1..LastDay : CreateHoliday(h, day) \/ UpdateHoliday(h, day)

Spec == Init /\ [][Next]_vars

(* ------------------------------------------------------------ properties *)

TypeOK ==
  /\ holidays \in [Holiday -> [day : 0..LastDay, active : BOOLEAN]]
  /\ today \in 1..LastDay
  /\ due \in [Loan -> [from : 0..LastDay, days : 0..MaxDays, closed : SUBSET (1..LastDay),
                       due : 0..(LastDay + MaxDays + Cardinality(Holiday))]]
  /\ req \in [Conn -> [open : BOOLEAN, closed : SUBSET (1..LastDay)]]

(* A loan runs over as many open days as its policy gives, and ends on one *)
(* of them: of the holidays that its request could see.                    *)
DaysAreOpen ==
  \A l \in Loan : due[l] # NotLent =>
    /\ due[l].due \notin due[l].closed
    /\ Cardinality((due[l].from + 1)..due[l].due \ due[l].closed) = due[l].days

(* Due dates are right when they are computed, and later changes of the    *)
(* holidays leave them alone.                                              *)
DueDatesStand == [][DaysAreOpen' /\ (holidays' # holidays => due' = due)]_vars
===============================================================================
