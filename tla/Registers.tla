------------------------------- MODULE Registers -------------------------------
(***************************************************************************)
(* The registers of the library's settings that other records refer to:    *)
(* programs and departments, and academic terms; with the accounts and the *)
(* holdings that refer to them.                                            *)
(*                                                                         *)
(* A foreign key that loses its row is set to NULL, so the database keeps  *)
(* nobody from deleting what is in use: the count under the lock does.     *)
(* Saving an account locks the rows it chose, or, for the current term,    *)
(* only reads it, and may then wait for other rows; it is in two steps.    *)
(* All else takes its locks before it reads, and is one step.              *)
(*                                                                         *)
(* Accounts are of the roles that need a program and a term (staff), or a  *)
(* department (employee).  They are archived elsewhere, and count here all *)
(* the same.  Names are left out; so is the register of holidays.          *)
(***************************************************************************)
EXTENDS Naturals, FiniteSets

CONSTANTS
  Program, Department,
  Term, Person,
  Holding,     \* the holdings of copies
  Conn,        \* connections of the pool
  LastDay,     \* bound: days a term may start or end on
  Nothing      \* no program, department or term

VARIABLES
  listed,     \* academic_programs and departments: is_active
  terms,      \* academic_terms: dates and is_current
  people,     \* users: program_id or department_id, academic_term_id
  holdings,   \* copy_holdings.program_id
  req         \* accounts that are being saved

vars == <<listed, terms, people, holdings, req>>

RegistersAssumption == Nothing \notin Program \union Department /\ LastDay \in Nat

Entry == Program \union Department
NoTerm == [from |-> 0, to |-> 0, current |-> FALSE]
Stranger == [entry |-> Nothing, term |-> Nothing]
Idle == [person |-> Nothing, entry |-> Nothing, term |-> Nothing, locked |-> {}]

Init ==
  /\ listed = [e \in Entry |-> "none"]
  /\ terms = [t \in Term |-> NoTerm]
  /\ people = [u \in Person |-> Stranger]
  /\ holdings = [h \in Holding |-> Nothing]
  /\ req = [n \in Conn |-> Idle]

Terms == {t \in Term : terms[t] # NoTerm}
Current == {t \in Terms : terms[t].current}
Active == {e \in Entry : listed[e] = "active"}
Locked(row) == \E n \in Conn : row \in req[n].locked

(* ------------------------------------------------- accounts and holdings *)

(* Mutant: a program or department is looked up without a lock.            *)
RowsLookedUp(e, t) == {t}

(* ensureProgramExists, ensureDepartmentExists and findAcademicTerm lock.  *)
RowsChosen(e, t) == {e, t}

(* An account that is being saved belongs to one request.                  *)
OpenSave(n, u, e, t, rows) ==
  /\ req[n] = Idle /\ \A other \in Conn : req[other].person # u
  /\ e \in Active
  /\ e \in Program <=> t # Nothing
  /\ \A row \in rows : ~Locked(row)
  /\ req' = [req EXCEPT ![n] = [person |-> u, entry |-> e, term |-> t, locked |-> rows \ {Nothing}]]
  /\ UNCHANGED <<listed, terms, people, holdings>>

(* createUser: without a choice it takes the current term, which is read   *)
(* without a lock.                                                         *)
CreateUser(n, u, e, t) ==
  /\ people[u] = Stranger
  /\ \/ t \in Terms \union {Nothing} /\ OpenSave(n, u, e, t, RowsChosen(e, t))
     \/ t \in Current /\ OpenSave(n, u, e, t, RowsChosen(e, Nothing))

(* updateUser: without a choice the term stays as it is, for the account   *)
(* refers to it.                                                           *)
UpdateUser(n, u, e, t) ==
  /\ people[u] # Stranger
  /\ \/ t \in Terms \union {Nothing} /\ OpenSave(n, u, e, t, RowsChosen(e, t))
     \/ t = people[u].term /\ OpenSave(n, u, e, t, RowsChosen(e, Nothing))

(* The foreign keys ask for rows that exist.                               *)
CommitSave(n) ==
  /\ req[n] # Idle
  /\ listed[req[n].entry] # "none"
  /\ req[n].term \in Terms \union {Nothing}
  /\ people' = [people EXCEPT ![req[n].person] = [entry |-> req[n].entry, term |-> req[n].term]]
  /\ req' = [req EXCEPT ![n] = Idle]
  /\ UNCHANGED <<listed, terms, holdings>>

(* An account that is refused, or loses its connection, is rolled back.    *)
AbortSave(n) ==
  /\ req[n] # Idle
  /\ req' = [req EXCEPT ![n] = Idle]
  /\ UNCHANGED <<listed, terms, people, holdings>>

(* updateHolding: a program is active, or was the copy's before.           *)
UpdateHolding(h, p) ==
  /\ ~Locked(p)
  /\ p \in Active \union {Nothing}
  /\ holdings' = [holdings EXCEPT ![h] = p]
  /\ UNCHANGED <<listed, terms, people, req>>

(* --------------------------------------------- programs and departments *)

Create(e) ==
  /\ listed[e] = "none"
  /\ listed' = [listed EXCEPT ![e] = "active"]
  /\ UNCHANGED <<terms, people, holdings, req>>

(* Mutant: the holdings of a program do not count.                         *)
ReferredByPeople(e) == \E u \in Person : people[u].entry = e

Referred(e) == (\E u \in Person : people[u].entry = e) \/ \E h \in Holding : holdings[h] = e

(* Deleting sets to NULL whatever refers to the row.                       *)
Remove(e) ==
  /\ listed' = [listed EXCEPT ![e] = "none"]
  /\ people' = [u \in Person |-> IF people[u].entry = e THEN [people[u] EXCEPT !.entry = Nothing] ELSE people[u]]
  /\ holdings' = [h \in Holding |-> IF holdings[h] = e THEN Nothing ELSE holdings[h]]

Modes == {"auto", "archive", "delete"}

(* deleteAcademicProgram, deleteDepartment: what is in use is archived; so *)
(* is an entry in mode "archive".  An archived one that is not in use may  *)
(* be deleted.                                                             *)
Delete(e, mode) ==
  /\ listed[e] # "none" /\ ~Locked(e)
  /\ mode = "delete" => ~Referred(e)
  /\ IF Referred(e) \/ mode = "archive"
     THEN listed' = [listed EXCEPT ![e] = "archived"] /\ UNCHANGED <<people, holdings>>
     ELSE Remove(e)
  /\ UNCHANGED <<terms, req>>

Restore(e) ==
  /\ listed[e] = "archived" /\ ~Locked(e)
  /\ listed' = [listed EXCEPT ![e] = "active"]
  /\ UNCHANGED <<terms, people, holdings, req>>

CreateAcademicProgram(p) == Create(p)
CreateDepartment(d) == Create(d)
DeleteAcademicProgram(p, mode) == Delete(p, mode)
DeleteDepartment(d, mode) == Delete(d, mode)
RestoreAcademicProgram(p) == Restore(p)
RestoreDepartment(d) == Restore(d)

(* ----------------------------------------------------------------- terms *)

(* Mutant: a term may begin on the day on which another one ends.          *)
OverlapsInside(from, to, t) == from < terms[t].to /\ to > terms[t].from

Overlaps(from, to, t) == from <= terms[t].to /\ to >= terms[t].from

(* validateTerm, validateTermPeers; every row of the table is locked.      *)
TermFits(t, from, to) ==
  /\ \A other \in Term : ~Locked(other)
  /\ from < to
  /\ \A other \in Terms \ {t} : ~Overlaps(from, to, other)

(* All other terms give up being current.                                  *)
SaveTerm(t, from, to, current) ==
  /\ terms' = [other \in Term |->
                 IF other = t THEN [from |-> from, to |-> to, current |-> current]
                 ELSE IF current THEN [terms[other] EXCEPT !.current = FALSE] ELSE terms[other]]
  /\ UNCHANGED <<listed, people, holdings, req>>

CreateTerm(t, from, to, current) ==
  /\ t \notin Terms /\ TermFits(t, from, to)
  /\ SaveTerm(t, from, to, current \/ Terms = {})

UpdateTerm(t, from, to, current) ==
  /\ t \in Terms /\ TermFits(t, from, to)
  /\ terms[t].current => current
  /\ SaveTerm(t, from, to, current)

(* The update of all terms that are current waits for every row.           *)
SetCurrentTerm(t) ==
  /\ t \in Terms /\ \A other \in Term : ~Locked(other)
  /\ SaveTerm(t, terms[t].from, terms[t].to, TRUE)

(* Mutant: a term that is not current may go, whoever is in it.            *)
TermMayGoInUse(t) == ~terms[t].current

TermMayGo(t) == ~terms[t].current /\ \A u \in Person : people[u].term # t

DeleteTerm(t) ==
  /\ t \in Terms /\ ~Locked(t) /\ TermMayGo(t)
  /\ terms' = [terms EXCEPT ![t] = NoTerm]
  /\ people' = [u \in Person |-> IF people[u].term = t THEN [people[u] EXCEPT !.term = Nothing] ELSE people[u]]
  /\ UNCHANGED <<listed, holdings, req>>

(* ------------------------------------------------------------ the system *)

Next ==
  \/ \E n \in Conn :
       \/ CommitSave(n) \/ AbortSave(n)
       \/ \E u \in Person, e \in Entry, t \in Term \union {Nothing} :
            CreateUser(n, u, e, t) \/ UpdateUser(n, u, e, t)
  \/ \E h \in Holding, p \in Program \union {Nothing} : UpdateHolding(h, p)
  \/ \E p \in Program :
       \/ CreateAcademicProgram(p) \/ RestoreAcademicProgram(p)
       \/ \E mode \in Modes : DeleteAcademicProgram(p, mode)
  \/ \E d \in Department :
       \/ CreateDepartment(d) \/ RestoreDepartment(d)
       \/ \E mode \in Modes : DeleteDepartment(d, mode)
  \/ \E t \in Term :
       \/ SetCurrentTerm(t) \/ DeleteTerm(t)
       \/ \E from, to \in 1..LastDay, current \in BOOLEAN :
            CreateTerm(t, from, to, current) \/ UpdateTerm(t, from, to, current)

Spec == Init /\ [][Next]_vars

(* ------------------------------------------------------------ properties *)

TypeOK ==
  /\ listed \in [Entry -> {"none", "active", "archived"}]
  /\ terms \in [Term -> [from : 0..LastDay, to : 0..LastDay, current : BOOLEAN]]
  /\ people \in [Person -> [entry : Entry \union {Nothing}, term : Term \union {Nothing}]]
  /\ holdings \in [Holding -> Program \union {Nothing}]
  /\ req \in [Conn -> [person : Person \union {Nothing}, entry : Entry \union {Nothing},
                       term : Term \union {Nothing}, locked : SUBSET (Entry \union Term)]]

(* No day is in two terms, and when there are terms one is the current one.*)
TermsInOrder ==
  /\ \A t, other \in Terms : t # other => terms[t].to < terms[other].from \/ terms[other].to < terms[t].from
  /\ Terms # {} => Cardinality(Current) = 1

(* An account or a holding changes what it refers to when it is saved, and *)
(* at no other time: a deletion takes nothing away from it.  What it is    *)
(* given then is active at that moment, whatever happened since it was     *)
(* chosen.                                                                 *)
ReferencesKept ==
  /\ \A u \in Person : people'[u] # people[u] =>
       \E n \in Conn : req[n].person = u /\ req[n].entry \in Active /\ req'[n] = Idle
  /\ \A h \in Holding : holdings'[h] # holdings[h] => listed' = listed

(* The registers stay in order and keep what refers to them.               *)
RegistersStand == [][TermsInOrder' /\ ReferencesKept]_vars
===============================================================================
