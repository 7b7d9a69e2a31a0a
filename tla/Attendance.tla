------------------------------ MODULE Attendance ------------------------------
(***************************************************************************)
(* The gate of the library: scans that record the arrival or the departure *)
(* of a visitor, and the closing of every visit at the end of the day.     *)
(* Scans of one visitor exclude each other by a named lock, which a        *)
(* request keeps over several statements; the clock of the database goes   *)
(* on meanwhile, and may pass midnight.                                    *)
(***************************************************************************)
EXTENDS Naturals, Sequences, FiniteSets

CONSTANTS
  Visitor,    \* users
  Request,    \* requests, each a scan or the closing of all visits
  Idle,       \* no request
  LastDay,    \* bound of the calendar
  MaxLogs     \* bound on attendance_logs

VARIABLES
  logs,       \* attendance_logs for entry and exit, in the order of id; not in the
              \* code: the visit whose closing was confirmed, and whether it was dated
              \* after the day for which it was allowed
  holder,     \* who holds the lock att_scan_<user> of each visitor
  request,    \* what each request is doing
  today       \* CURDATE()

vars == <<logs, holder, request, today>>

AttendanceAssumption == Idle \notin Request /\ LastDay \in Nat \ {0} /\ MaxLogs \in Nat

Types == {"check_in", "check_out"}
NoLog == 0
AnyLog == MaxLogs + 1
None == [at |-> "idle", visits |-> {}, visitor |-> Idle, type |-> "check_in",
         expected |-> AnyLog, day |-> 0]

Init ==
  /\ logs = <<>>
  /\ holder = [v \in Visitor |-> Idle]
  /\ request = [r \in Request |-> None]
  /\ today = 1

LogsOf(v, day) == {i \in DOMAIN logs : logs[i].visitor = v /\ logs[i].day = day}
Latest(some) == IF some = {} THEN NoLog ELSE CHOOSE i \in some : \A j \in some : j <= i

(* getLatestEntryExitLog: of this day only.                                *)
LatestLog(v) == Latest(LogsOf(v, today))

(* recordScan, before it has the lock.                                     *)
Scan(v, type) == [None EXCEPT !.at = "locking", !.visitor = v, !.type = type]

BeginScan(r, v, type) ==
  /\ request[r] = None
  /\ request' = [request EXCEPT ![r] = Scan(v, type)]
  /\ UNCHANGED <<logs, holder, today>>

(* getInsideToday, up to the log the administrator saw last: visits of     *)
(* today with no log after the arrival.                                    *)
Inside(cutoff) == {i \in 1..cutoff : /\ logs[i].type = "check_in" /\ logs[i].day = today
                                     /\ \A j \in i+1..Len(logs) : logs[j].visitor # logs[i].visitor}

(* timeOutAll reads whom to check out, then scans them one by one.         *)
BeginTimeOut(r) ==
  /\ request[r] = None
  /\ \E cutoff \in 0..Len(logs) :
       request' = [request EXCEPT ![r] = [None EXCEPT !.at = "closing", !.visits = Inside(cutoff)]]
  /\ UNCHANGED <<logs, holder, today>>

NextVisit(r) ==
  /\ request[r].at = "closing"
  /\ \E i \in request[r].visits :
       request' = [request EXCEPT ![r] = [Scan(logs[i].visitor, "check_out")
                     EXCEPT !.visits = request[r].visits \ {i}, !.expected = i]]
  /\ UNCHANGED <<logs, holder, today>>

(* The request goes on to its next visit, or is answered.                  *)
Done(r) ==
  request' = [request EXCEPT ![r] =
    IF request[r].visits = {} THEN None ELSE [None EXCEPT !.at = "closing", !.visits = request[r].visits]]

(* Mutant: nobody else is waited for.                                      *)
LockUnasked(r) ==
  LET v == request[r].visitor
  IN  /\ request[r].at = "locking"
      /\ holder' = [holder EXCEPT ![v] = r]
      /\ request' = [request EXCEPT ![r].at = "reading"]
      /\ UNCHANGED <<logs, today>>

(* GET_LOCK                                                                *)
Lock(r) ==
  LET v == request[r].visitor
  IN  /\ request[r].at = "locking" /\ holder[v] = Idle
      /\ holder' = [holder EXCEPT ![v] = r]
      /\ request' = [request EXCEPT ![r].at = "reading"]
      /\ UNCHANGED <<logs, today>>

(* It times out, or the user is no longer active.                          *)
LockFails(r) ==
  /\ request[r].at = "locking"
  /\ Done(r)
  /\ UNCHANGED <<logs, holder, today>>

(* Mutant: what was confirmed is not compared.                             *)
AllowedAnyVisit(scan, last) ==
  IF last = NoLog THEN scan.type = "check_in" ELSE logs[last].type # scan.type

(* A visit that changed since it was confirmed, a departure without an     *)
(* arrival and a second scan of the same type are refused.                 *)
Allowed(scan, last) ==
  /\ scan.expected \in {AnyLog, last}
  /\ IF last = NoLog THEN scan.type = "check_in" ELSE logs[last].type # scan.type

ReadLatest(r) ==
  /\ request[r].at = "reading"
  /\ request' = [request EXCEPT ![r].day = today,
                   ![r].at = IF Allowed(request[r], LatestLog(request[r].visitor))
                             THEN "writing" ELSE "leaving"]
  /\ UNCHANGED <<logs, holder, today>>

(* insertScan, dated by the database.                                      *)
InsertScan(r) ==
  /\ request[r].at = "writing" /\ Len(logs) < MaxLogs
  /\ logs' = Append(logs, [visitor |-> request[r].visitor, type |-> request[r].type,
                           day |-> today, late |-> request[r].day # today,
                           confirmed |-> request[r].expected])
  /\ request' = [request EXCEPT ![r].at = "leaving"]
  /\ UNCHANGED <<holder, today>>

InsertFails(r) ==
  /\ request[r].at = "writing"
  /\ request' = [request EXCEPT ![r].at = "leaving"]
  /\ UNCHANGED <<logs, holder, today>>

(* RELEASE_LOCK                                                            *)
Release(r) ==
  /\ request[r].at = "leaving"
  /\ holder' = [holder EXCEPT ![request[r].visitor] = IF @ = r THEN Idle ELSE @]
  /\ Done(r)
  /\ UNCHANGED <<logs, today>>

Midnight ==
  /\ today < LastDay
  /\ today' = today + 1
  /\ UNCHANGED <<logs, holder, request>>

Next ==
  \/ \E r \in Request : \/ \E v \in Visitor, type \in Types : BeginScan(r, v, type)
                        \/ BeginTimeOut(r) \/ NextVisit(r)
                        \/ Lock(r) \/ LockFails(r) \/ ReadLatest(r)
                        \/ InsertScan(r) \/ InsertFails(r) \/ Release(r)
  \/ Midnight

Spec == Init /\ [][Next]_vars

(* ------------------------------------------------------------ properties *)

Requests == [at : {"idle", "closing", "locking", "reading", "writing", "leaving"},
             visits : SUBSET (1..MaxLogs), visitor : Visitor \union {Idle}, type : Types,
             expected : 1..AnyLog, day : 0..LastDay]

(* Every request is at one of its stages, and the locks are held by        *)
(* requests that are past the lock.                                        *)
TypeOK ==
  /\ Len(logs) <= MaxLogs /\ today \in 1..LastDay
  /\ request \in [Request -> Requests]
  /\ \A v \in Visitor : holder[v] # Idle =>
       /\ request[holder[v]].visitor = v
       /\ request[holder[v]].at \in {"reading", "writing", "leaving"}

(* The visits of a day, arrival then departure, do not overlap and are     *)
(* complete but for the last, however many desks scan one visitor at once; *)
(* and the closing of all visits ends only the very visit that was open    *)
(* when it was confirmed.  (A scan that midnight overtakes between its     *)
(* check and its record is dated in a day it was not allowed for.)         *)
VisitsAlternate ==
  \A v \in Visitor, day \in 1..today :
    LET scans == LogsOf(v, day)
        before(i) == Latest({j \in scans : j < i})
    IN  (\A i \in scans : ~logs[i].late) =>
          \A i \in scans :
            /\ logs[i].type = "check_in" <=> before(i) = NoLog \/ logs[before(i)].type = "check_out"
            /\ logs[i].confirmed \in {AnyLog, before(i)}

(* The same as a property of steps: whatever a scan or the closing of the  *)
(* day records leaves the visits of every day alternating.                 *)
VisitsStand == [][VisitsAlternate']_vars
===============================================================================
