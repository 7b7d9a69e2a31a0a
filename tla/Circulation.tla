---------------------------- MODULE Circulation ----------------------------
(***************************************************************************)
(* Loans, reservations and physical copies of the library, at the grain of *)
(* database transactions on InnoDB under REPEATABLE READ.                  *)
(*                                                                         *)
(* A transaction that blocks on a row lock after its first consistent read *)
(* is two steps.  The step that opens it establishes the snapshot (and, at *)
(* a checkout or a placement, locks the patron row); the step that commits *)
(* it locks the catalogue row, and then every FOR UPDATE read sees the     *)
(* latest committed rows while every plain read, and every subquery nested *)
(* in a FOR UPDATE read, still sees the snapshot.  A transaction that locks *)
(* its catalogue row before its first consistent read is one step.         *)
(***************************************************************************)
EXTENDS Naturals, FiniteSets

CONSTANTS
  User,            \* patrons
  Book,            \* catalogue records (rows of books)
  Copy,            \* lendable physical copies (rows of book_copies)
  BookOf,          \* [Copy -> Book]
  Loan,            \* row identifiers of borrowings: bounds the loans ever made
  Resv,            \* row identifiers of reservations: bounds those ever placed
  Conn,            \* connections of the pool, each serving one request
  Kinds,           \* the kinds of operation that are in use
  Nobody, NoCopy, NoBook,  \* NULL in a user, copy or book column
  MaxTime,         \* bound of the clock
  HoldWindow,      \* RESERVATION_WINDOW_HOURS, in ticks
  LoanPeriod,      \* loan_duration_minutes, in ticks
  MaxRenewals      \* MAX_RENEWALS

(* The requests of several transactions, and the operations of one; "undo" *)
(* is in use when JWT_SECRET is set.                                       *)
RequestKinds == {"overdue", "borrow", "reserve", "renew", "prepare", "retire", "reinstate"}
AllKinds == RequestKinds \union {"archive", "undo", "reduce"}

ASSUME CatalogAssumption == BookOf \in [Copy -> Book]
ASSUME KindsAssumption == Kinds \subseteq AllKinds
ASSUME NullAssumption == Nobody \notin User /\ NoCopy \notin Copy /\ NoBook \notin Book
ASSUME TablesAssumption == IsFiniteSet(Copy) /\ IsFiniteSet(Resv)
ASSUME BoundsAssumption ==
  /\ MaxTime \in Nat /\ HoldWindow \in Nat \ {0} /\ LoanPeriod \in Nat \ {0}
  /\ MaxRenewals \in Nat

VARIABLES
  loans,   \* the borrowings table
  resvs,   \* the reservations table
  active,  \* the copies with is_active = 1
  now,     \* NOW()
  req      \* what each connection is doing

vars == <<loans, resvs, active, now, req>>

(* ---------------------------------------------------------------- rows *)

NoLoan == [status |-> "none", user |-> Nobody, copy |-> NoCopy, due |-> 0,
           renewals |-> 0, returned |-> FALSE, archived |-> FALSE, tokens |-> {}]

NoResv == [status |-> "none", user |-> Nobody, book |-> NoBook, copy |-> NoCopy,
           exp |-> 0, archived |-> FALSE]

(* In a loan, returned says that returned_at is set.                       *)
(* A row of borrowings that counts in the active_copy_id and               *)
(* active_user_book_key columns.                                           *)
IsOut(row) == row.status \in {"borrowed", "overdue"} /\ ~row.archived

(* A row of reservations that counts in active_user_book_key.              *)
IsOpen(row) == row.status \in {"pending", "ready"} /\ ~row.archived

(* The predicate the capacity queries repeat.  At the deadline itself a    *)
(* reservation is no longer live and not yet expirable.                    *)
IsLive(row) == IsOpen(row) /\ row.exp > now

(* Copies on loan, and copies on the hold shelf.                           *)
OutCopies(table) == {table[l].copy : l \in {k \in Loan : IsOut(table[k])}}

HoldsOn(table, c) == {r \in Resv : IsLive(table[r]) /\ table[r].status = "ready" /\ table[r].copy = c}

PendingFor(table, b) == {r \in Resv : IsLive(table[r]) /\ table[r].status = "pending" /\ table[r].book = b}

(* availableToBorrow, over current rows or over the rows of a snapshot.    *)
Available(b, act, out, table) ==
  {c \in act : BookOf[c] = b /\ c \notin out /\ HoldsOn(table, c) = {}}

HasLoan(u, b) == \E l \in Loan : IsOut(loans[l]) /\ loans[l].user = u /\ BookOf[loans[l].copy] = b

(* Mutant: keys that leave out the loans marked overdue.                   *)
LoanKeysWhileBorrowed(table) ==
  \A k, l \in Loan : k # l /\ table[k].status = "borrowed" /\ table[l].status = "borrowed"
                      /\ ~table[k].archived /\ ~table[l].archived =>
    /\ table[k].copy # table[l].copy
    /\ table[k].user # table[l].user \/ BookOf[table[k].copy] # BookOf[table[l].copy]

(* uq_borrowings_active_copy and uq_borrowings_active_user_book.           *)
LoanKeysUnique(table) ==
  \A k, l \in Loan : k # l /\ IsOut(table[k]) /\ IsOut(table[l]) =>
    /\ table[k].copy # table[l].copy
    /\ table[k].user # table[l].user \/ BookOf[table[k].copy] # BookOf[table[l].copy]

(* uq_reservations_active_user_book and uq_reservations_ready_copy.        *)
ResvKeysUnique(table) ==
  \A q, r \in Resv : q # r /\ IsOpen(table[q]) /\ IsOpen(table[r]) =>
    /\ table[q].user # table[r].user \/ table[q].book # table[r].book
    /\ table[q].status = "ready" /\ table[r].status = "ready" => table[q].copy # table[r].copy

(* ---------------------------------------------------------- transactions *)

(* Later than any deadline: a loan findOverdueCandidates did not return.   *)
Never == MaxTime + LoanPeriod

NoSnap == [out |-> {}, active |-> {}, resvs |-> [r \in Resv |-> NoResv], due |-> [l \in Loan |-> Never]]

Idle == [stage |-> "idle", kind |-> "none", user |-> Nobody, began |-> 0, snap |-> NoSnap]

(* What the plain reads of a transaction can see of the tables.            *)
Snapshot == [NoSnap EXCEPT !.out = OutCopies(loans), !.active = active,
                           !.resvs = [r \in Resv |-> IF IsOpen(resvs[r]) THEN resvs[r] ELSE NoResv]]

(* findOverdueCandidates: the deadline of every loan not yet marked.       *)
OverdueCandidates ==
  [NoSnap EXCEPT !.due = [l \in Loan |-> IF loans[l].status = "borrowed" /\ ~loans[l].archived
                                         THEN loans[l].due ELSE Never]]

At(n, stage, kind) == req[n].stage = stage /\ req[n].kind = kind

(* The patron row is locked from the snapshot to the commit.               *)
Locked(u) == \E n \in Conn : req[n].stage = "open" /\ req[n].user = u

(* buildStatus blocks a patron with a loan that is marked overdue.         *)
Eligible(u) == \A l \in Loan : ~(loans[l].user = u /\ loans[l].status = "overdue" /\ ~loans[l].archived)

Finish(n) == req' = [req EXCEPT ![n] = Idle]

(* Rollback: a request refused for a reason not modelled, a duplicate key, *)
(* a deadlock victim, a lock wait that timed out, a server that stopped.   *)
Abort(n) ==
  /\ req[n].stage # "idle"
  /\ Finish(n)
  /\ UNCHANGED <<loans, resvs, active, now>>

(* ------------------------------------------- the sweeps before a request *)

(* syncOverdueBorrowings reads its candidates without a lock ...           *)
SyncOpen(n, kind, u) ==
  /\ req[n].stage = "idle"
  /\ req' = [req EXCEPT ![n] = [stage |-> "marking", kind |-> kind, user |-> u, snap |-> OverdueCandidates,
                                began |-> IF kind = "borrow" THEN now ELSE 0]]
  /\ UNCHANGED <<loans, resvs, active, now>>

(* Mutant: a loan is marked one tick late.                                 *)
MarkOverdueLate(table, due) ==
  [l \in Loan |-> IF due[l] + 1 < now THEN [table[l] EXCEPT !.status = "overdue"] ELSE table[l]]

(* ... and marks the elapsed ones by their id alone.                       *)
MarkOverdue(table, due) ==
  [l \in Loan |-> IF due[l] < now THEN [table[l] EXCEPT !.status = "overdue"] ELSE table[l]]

SyncCommit(n) ==
  /\ req[n].stage = "marking"
  /\ loans' = MarkOverdue(loans, req[n].snap.due)
  /\ LoanKeysUnique(loans')
  /\ IF req[n].kind = "overdue" THEN Finish(n)
     ELSE req' = [req EXCEPT ![n].stage = IF req[n].kind = "reserve" THEN "sweep" ELSE "begin",
                             ![n].snap = NoSnap]
  /\ UNCHANGED <<resvs, active, now>>

(* Mutant: only pending reservations expire.                               *)
ExpirePending(table) ==
  [r \in Resv |-> IF IsOpen(table[r]) /\ table[r].status = "pending" /\ table[r].exp < now
                  THEN [table[r] EXCEPT !.status = "expired", !.copy = NoCopy] ELSE table[r]]

(* syncExpired: one transaction over rows read FOR UPDATE.                 *)
Expire(table) ==
  [r \in Resv |-> IF IsOpen(table[r]) /\ table[r].exp < now
                  THEN [table[r] EXCEPT !.status = "expired", !.copy = NoCopy] ELSE table[r]]

SweepForReserve(n) ==
  /\ At(n, "sweep", "reserve")
  /\ resvs' = Expire(resvs)
  /\ req' = [req EXCEPT ![n].stage = "begin"]
  /\ UNCHANGED <<loans, active, now>>

SweepForPrepare(n) ==
  /\ req[n].stage = "idle" /\ "prepare" \in Kinds
  /\ resvs' = Expire(resvs)
  /\ req' = [req EXCEPT ![n] = [Idle EXCEPT !.stage = "begin", !.kind = "prepare"]]
  /\ UNCHANGED <<loans, active, now>>

(* The job that runs every minute, and every page that lists reservations. *)
ReservationExpiryJob ==
  /\ resvs' = Expire(resvs)
  /\ UNCHANGED <<loans, active, now, req>>

(* ------------------------------------- opening the main transaction *)

(* assertEligible: lock the patron row, then take the snapshot.            *)
OpenForPatron(n) ==
  /\ At(n, "begin", "borrow") \/ At(n, "begin", "reserve")
  /\ ~Locked(req[n].user)
  /\ Eligible(req[n].user)
  /\ req' = [req EXCEPT ![n].stage = "open", ![n].snap = Snapshot]
  /\ UNCHANGED <<loans, resvs, active, now>>

(* markReservationReady reads which book the reservation is for.           *)
OpenPrepare(n) ==
  /\ At(n, "begin", "prepare")
  /\ req' = [req EXCEPT ![n].stage = "open", ![n].snap = Snapshot]
  /\ UNCHANGED <<loans, resvs, active, now>>

(* withLockedCopy reads which book the copy belongs to.                    *)
OpenCopyChange(n, kind) ==
  /\ req[n].stage = "idle"
  /\ req' = [req EXCEPT ![n] = [Idle EXCEPT !.stage = "open", !.kind = kind, !.snap = Snapshot]]
  /\ UNCHANGED <<loans, resvs, active, now>>

(* --------------------------------------------------------------- checkout *)

(* The checks made with FOR UPDATE reads, under the lock on the book.      *)
CanLend(u, c) ==
  /\ c \in active
  /\ c \notin OutCopies(loans)
  /\ ~HasLoan(u, BookOf[c])

(* Mutant: the copy to be lent still counts as available.                  *)
CoversPending(c, snap) ==
  Cardinality(Available(BookOf[c], snap.active, snap.out, snap.resvs))
    >= Cardinality(PendingFor(snap.resvs, BookOf[c]))

(* The capacity check, made with plain reads: what is left when c is gone. *)
LeavesPendingCovered(c, snap) ==
  Cardinality(Available(BookOf[c], snap.active, snap.out, snap.resvs) \ {c})
    >= Cardinality(PendingFor(snap.resvs, BookOf[c]))

Lend(u, c, l, tokens) ==
  /\ loans[l].status = "none"
  /\ loans' = [loans EXCEPT ![l] = [NoLoan EXCEPT !.status = "borrowed", !.user = u, !.copy = c,
                                                  !.due = now + LoanPeriod, !.tokens = tokens]]
  /\ LoanKeysUnique(loans')

(* Mutant: the hold shelf is read without a lock.                          *)
BorrowWalkInStale(n, c, l) ==
  /\ At(n, "open", "borrow")
  /\ CanLend(req[n].user, c)
  /\ HoldsOn(req[n].snap.resvs, c) = {}
  /\ LeavesPendingCovered(c, req[n].snap)
  /\ Lend(req[n].user, c, l, IF "undo" \in Kinds THEN {"borrow"} ELSE {})
  /\ Finish(n)
  /\ UNCHANGED <<resvs, active, now>>

BorrowWalkIn(n, c, l) ==
  /\ At(n, "open", "borrow")
  /\ CanLend(req[n].user, c)
  /\ HoldsOn(resvs, c) = {}
  /\ LeavesPendingCovered(c, req[n].snap)
  /\ Lend(req[n].user, c, l, IF "undo" \in Kinds THEN {"borrow"} ELSE {})
  /\ Finish(n)
  /\ UNCHANGED <<resvs, active, now>>

(* Mutant: any copy of the title fulfils the reservation.                  *)
BorrowReservedAnyCopy(n, c, r, l) ==
  /\ At(n, "open", "borrow")
  /\ CanLend(req[n].user, c)
  /\ HoldsOn(resvs, c) \subseteq {r}
  /\ IsLive(resvs[r]) /\ resvs[r].status = "ready"
  /\ resvs[r].user = req[n].user /\ resvs[r].book = BookOf[c]
  /\ Lend(req[n].user, c, l, {})
  /\ resvs' = [resvs EXCEPT ![r].status = "fulfilled"]
  /\ Finish(n)
  /\ UNCHANGED <<active, now>>

BorrowReserved(n, c, r, l) ==
  /\ At(n, "open", "borrow")
  /\ CanLend(req[n].user, c)
  /\ HoldsOn(resvs, c) \subseteq {r}
  /\ IsLive(resvs[r]) /\ resvs[r].status = "ready"
  /\ resvs[r].user = req[n].user /\ resvs[r].book = BookOf[c]
  /\ resvs[r].copy = c
  /\ Lend(req[n].user, c, l, {})
  /\ resvs' = [resvs EXCEPT ![r].status = "fulfilled"]
  /\ Finish(n)
  /\ UNCHANGED <<active, now>>

(* ------------------------------------------------------------ reservations *)

(* Mutant: one live reservation per patron and title.                      *)
HasLiveReservationOfTitle(u, b) ==
  \E r \in Resv : IsLive(resvs[r]) /\ resvs[r].user = u /\ resvs[r].book = b

(* findActiveReservationByUser: one live reservation per patron.           *)
HasLiveReservation(u, b) == \E r \in Resv : IsLive(resvs[r]) /\ resvs[r].user = u

(* registered_copy_count is a subquery of the FOR UPDATE read, and the open *)
(* reservations are counted with a plain read: both see the snapshot.       *)
Registered(b, snap) == Cardinality({c \in snap.active : BookOf[c] = b})

OpenCount(b, snap) == Cardinality({r \in Resv : IsLive(snap.resvs[r]) /\ snap.resvs[r].book = b})

(* getReservationCapacityForBook locks the rows it counts.                 *)
HasCapacity(b) ==
  Cardinality(Available(b, active, OutCopies(loans), resvs)) > Cardinality(PendingFor(resvs, b))

PlaceReservation(n, b, r) ==
  /\ At(n, "open", "reserve")
  /\ ~HasLiveReservation(req[n].user, b)
  /\ ~HasLoan(req[n].user, b)
  /\ HasCapacity(b)
  /\ OpenCount(b, req[n].snap) < Registered(b, req[n].snap)
  /\ resvs[r].status = "none"
  /\ resvs' = [resvs EXCEPT ![r] = [NoResv EXCEPT !.status = "pending", !.user = req[n].user, !.book = b,
                                                  !.exp = now + HoldWindow]]
  /\ ResvKeysUnique(resvs')
  /\ Finish(n)
  /\ UNCHANGED <<loans, active, now>>

(* Mutant: the copies on loan are not left out.                            *)
PrepareAnyCopy(n, r, c) ==
  /\ At(n, "open", "prepare")
  /\ req[n].snap.resvs[r].status # "none"
  /\ IsLive(resvs[r]) /\ resvs[r].status = "pending"
  /\ c \in active /\ BookOf[c] = resvs[r].book /\ HoldsOn(req[n].snap.resvs, c) = {}
  /\ resvs' = [resvs EXCEPT ![r].status = "ready", ![r].copy = c, ![r].exp = now + HoldWindow]
  /\ ResvKeysUnique(resvs')
  /\ Finish(n)
  /\ UNCHANGED <<loans, active, now>>

(* The reservation is one the snapshot shows.  The copy is chosen by a FOR *)
(* UPDATE read whose nested subqueries on loans and reservations are plain *)
(* reads: is_active is current, the rest is the snapshot's.                *)
PrepareReservation(n, r, c) ==
  /\ At(n, "open", "prepare")
  /\ req[n].snap.resvs[r].status # "none"
  /\ IsLive(resvs[r]) /\ resvs[r].status = "pending"
  /\ c \in Available(resvs[r].book, active, req[n].snap.out, req[n].snap.resvs)
  /\ resvs' = [resvs EXCEPT ![r].status = "ready", ![r].copy = c, ![r].exp = now + HoldWindow]
  /\ ResvKeysUnique(resvs')
  /\ Finish(n)
  /\ UNCHANGED <<loans, active, now>>

(* Mutant: the status is not looked at.                                    *)
CancelAnyReservation(r) ==
  /\ resvs[r].status # "none" /\ ~resvs[r].archived
  /\ resvs' = [resvs EXCEPT ![r].status = "cancelled"]
  /\ UNCHANGED <<loans, active, now, req>>

(* cancelReservation and cancelReservationAdmin: the copy stays on the row. *)
CancelReservation(r) ==
  /\ IsOpen(resvs[r])
  /\ resvs' = [resvs EXCEPT ![r].status = "cancelled"]
  /\ UNCHANGED <<loans, active, now, req>>

ArchiveReservation(r) ==
  /\ resvs[r].status \in {"fulfilled", "cancelled", "expired"} /\ ~resvs[r].archived
  /\ resvs' = [resvs EXCEPT ![r].archived = TRUE]
  /\ UNCHANGED <<loans, active, now, req>>

RestoreReservation(r) ==
  /\ resvs[r].archived
  /\ resvs' = [resvs EXCEPT ![r].archived = FALSE]
  /\ UNCHANGED <<loans, active, now, req>>

(* ------------------------------------------------------- loans afterwards *)

(* A return in time at the desk can be undone with the token it hands out, *)
(* for 60 seconds: a token that expires is one that is never presented.    *)
ReturnBook(l) ==
  /\ IsOut(loans[l])
  /\ loans' = [loans EXCEPT ![l].status = "returned", ![l].returned = TRUE,
                            ![l].tokens = IF "undo" \in Kinds /\ loans[l].status = "borrowed" /\ now <= loans[l].due
                                          THEN @ \union {"return"} ELSE @]
  /\ UNCHANGED <<resvs, active, now, req>>

(* Mutants: one renewal too many; a renewal of a loan already returned.    *)
RenewOnceMore(n, l) ==
  /\ At(n, "begin", "renew")
  /\ IsOut(loans[l]) /\ loans[l].user = req[n].user
  /\ loans[l].renewals <= MaxRenewals
  /\ \A r \in Resv : ~(IsLive(resvs[r]) /\ resvs[r].book = BookOf[loans[l].copy] /\ resvs[r].user # loans[l].user)
  /\ ~Locked(req[n].user)
  /\ Eligible(req[n].user)
  /\ loans' = [loans EXCEPT ![l].status = "borrowed", ![l].due = now + LoanPeriod, ![l].renewals = @ + 1]
  /\ Finish(n)
  /\ UNCHANGED <<resvs, active, now>>

RenewAnyLoan(n, l) ==
  /\ At(n, "begin", "renew")
  /\ loans[l].status # "none" /\ ~loans[l].archived /\ loans[l].user = req[n].user
  /\ loans[l].renewals < MaxRenewals
  /\ \A r \in Resv : ~(IsLive(resvs[r]) /\ resvs[r].book = BookOf[loans[l].copy] /\ resvs[r].user # loans[l].user)
  /\ ~Locked(req[n].user)
  /\ Eligible(req[n].user)
  /\ loans' = [loans EXCEPT ![l].status = "borrowed", ![l].due = now + LoanPeriod, ![l].renewals = @ + 1]
  /\ Finish(n)
  /\ UNCHANGED <<resvs, active, now>>

(* processRenew, after its sweep.                                          *)
RenewLoan(n, l) ==
  /\ At(n, "begin", "renew")
  /\ IsOut(loans[l]) /\ loans[l].user = req[n].user
  /\ loans[l].renewals < MaxRenewals
  /\ \A r \in Resv : ~(IsLive(resvs[r]) /\ resvs[r].book = BookOf[loans[l].copy] /\ resvs[r].user # loans[l].user)
  /\ ~Locked(req[n].user)
  /\ Eligible(req[n].user)
  /\ loans' = [loans EXCEPT ![l].status = "borrowed", ![l].due = now + LoanPeriod, ![l].renewals = @ + 1]
  /\ Finish(n)
  /\ UNCHANGED <<resvs, active, now>>

(* undoDeskTransaction for a checkout: the loan is closed and archived.    *)
UndoBorrow(l) ==
  /\ "borrow" \in loans[l].tokens
  /\ loans[l].status = "borrowed" /\ ~loans[l].archived
  /\ loans[l].copy \in active
  /\ ~Locked(loans[l].user)
  /\ now <= loans[l].due
  /\ loans' = [loans EXCEPT ![l].status = "returned", ![l].returned = TRUE, ![l].archived = TRUE, ![l].tokens = {}]
  /\ UNCHANGED <<resvs, active, now, req>>

(* Mutant: the pending reservations of the title are not looked at.        *)
ReturnedCopyFree(l) ==
  /\ loans[l].copy \notin OutCopies(loans)
  /\ ~HasLoan(loans[l].user, BookOf[loans[l].copy])
  /\ HoldsOn(resvs, loans[l].copy) = {}

(* undoDeskTransaction for a return: refused when the copy, the patron or  *)
(* the title has seen new activity.                                        *)
ReturnStillReversible(l) ==
  /\ loans[l].copy \notin OutCopies(loans)
  /\ ~HasLoan(loans[l].user, BookOf[loans[l].copy])
  /\ HoldsOn(resvs, loans[l].copy) = {}
  /\ PendingFor(resvs, BookOf[loans[l].copy]) = {}

UndoReturn(l) ==
  /\ "return" \in loans[l].tokens
  /\ loans[l].status = "returned" /\ ~loans[l].archived
  /\ loans[l].copy \in active
  /\ ~Locked(loans[l].user)
  /\ now < loans[l].due
  /\ ReturnStillReversible(l)
  /\ loans' = [loans EXCEPT ![l].status = "borrowed", ![l].returned = FALSE, ![l].tokens = @ \ {"return"}]
  /\ UNCHANGED <<resvs, active, now, req>>

ArchiveLoan(l) ==
  /\ loans[l].status = "returned" /\ ~loans[l].archived
  /\ ~Locked(loans[l].user)
  /\ loans' = [loans EXCEPT ![l].archived = TRUE]
  /\ UNCHANGED <<resvs, active, now, req>>

(* The row comes back with the status it has: the unique keys decide.      *)
RestoreLoan(l) ==
  /\ loans[l].archived
  /\ ~Locked(loans[l].user)
  /\ loans' = [loans EXCEPT ![l].archived = FALSE]
  /\ LoanKeysUnique(loans')
  /\ UNCHANGED <<resvs, active, now, req>>

(* ------------------------------------------------------------------ copies *)

(* Mutant: the hold shelf is not looked at.                                *)
NotLentIn(c, snap) == c \notin snap.out

(* findCopyStateForUpdate returns is_active from the latest row; whether it *)
(* is on loan or prepared comes from nested subqueries, so from the snapshot *)
UncommittedIn(c, snap) == c \notin snap.out /\ HoldsOn(snap.resvs, c) = {}

RetireCopy(n, c) ==
  /\ At(n, "open", "retire")
  /\ c \in active
  /\ UncommittedIn(c, req[n].snap)
  /\ LeavesPendingCovered(c, req[n].snap)
  /\ active' = active \ {c}
  /\ Finish(n)
  /\ UNCHANGED <<loans, resvs, now>>

ReinstateCopy(n, c) ==
  /\ At(n, "open", "reinstate")
  /\ c \in Copy \ active
  /\ UncommittedIn(c, req[n].snap)
  /\ active' = active \union {c}
  /\ Finish(n)
  /\ UNCHANGED <<loans, resvs, now>>

(* syncBookCopies with a smaller count, in one step: it locks the book     *)
(* before its first consistent read.  D are the copies it deactivates.     *)
ReduceCopies(b, D) ==
  LET free    == Available(b, active, OutCopies(loans), resvs)
      pending == Cardinality(PendingFor(resvs, b))
      ofBook  == {c \in active : BookOf[c] = b}
      borrowed == {l \in Loan : IsOut(loans[l]) /\ BookOf[loans[l].copy] = b}
      prepared == {r \in Resv : IsLive(resvs[r]) /\ resvs[r].status = "ready" /\ resvs[r].book = b}
  IN /\ D # {} /\ D \subseteq free
     /\ Cardinality(borrowed) + Cardinality(prepared) + pending <= Cardinality(ofBook \ D)
     /\ Cardinality(free \ D) >= pending
     /\ active' = active \ D
     /\ UNCHANGED <<loans, resvs, now, req>>

Tick == now < MaxTime /\ now' = now + 1 /\ UNCHANGED <<loans, resvs, active, req>>

(* ----------------------------------------------------------- specification *)

Init ==
  /\ loans = [l \in Loan |-> NoLoan]
  /\ resvs = [r \in Resv |-> NoResv]
  /\ active = Copy
  /\ now = 0
  /\ req = [n \in Conn |-> Idle]

(* A request arrives.                                                      *)
Begin(n) ==
  \/ \E u \in User, kind \in Kinds \intersect {"borrow", "reserve", "renew"} : SyncOpen(n, kind, u)
  \/ "overdue" \in Kinds /\ SyncOpen(n, "overdue", Nobody)
  \/ SweepForPrepare(n)
  \/ \E kind \in Kinds \intersect {"retire", "reinstate"} : OpenCopyChange(n, kind)

(* A request in progress takes its next transaction.                       *)
Continue(n) ==
  \/ SyncCommit(n) \/ SweepForReserve(n) \/ OpenForPatron(n) \/ OpenPrepare(n) \/ Abort(n)
  \/ \E c \in Copy, l \in Loan : BorrowWalkIn(n, c, l) \/ \E r \in Resv : BorrowReserved(n, c, r, l)
  \/ \E b \in Book, r \in Resv : PlaceReservation(n, b, r)
  \/ \E r \in Resv, c \in Copy : PrepareReservation(n, r, c)
  \/ \E l \in Loan : RenewLoan(n, l)
  \/ \E c \in Copy : RetireCopy(n, c) \/ ReinstateCopy(n, c)

(* The requests that are one transaction, and the expiry job.              *)
OneTransaction ==
  \/ ReservationExpiryJob
  \/ \E l \in Loan : ReturnBook(l) \/ UndoBorrow(l) \/ UndoReturn(l)
  \/ \E r \in Resv : CancelReservation(r)
  \/ "archive" \in Kinds /\ \/ \E l \in Loan : ArchiveLoan(l) \/ RestoreLoan(l)
                            \/ \E r \in Resv : ArchiveReservation(r) \/ RestoreReservation(r)
  \/ "reduce" \in Kinds /\ \E b \in Book, D \in SUBSET Copy : ReduceCopies(b, D)

Next == OneTransaction \/ Tick \/ \E n \in Conn : Begin(n) \/ Continue(n)

Spec == Init /\ [][Next]_vars

(* The same system when no two requests overlap.                           *)
Quiet == \A n \in Conn : req[n].stage = "idle"

SerialNext ==
  \/ Quiet /\ (OneTransaction \/ \E n \in Conn : Begin(n))
  \/ Tick
  \/ \E n \in Conn : Continue(n)

SerialSpec == Init /\ [][SerialNext]_vars

(* The expiry job runs from a timer every minute whatever the requests do, *)
(* and the clock advances.                                                 *)
FairSpec == Spec /\ WF_vars(ReservationExpiryJob) /\ WF_vars(Tick)

(* -------------------------------------------------------------- properties *)

LoanRow == [status : {"none", "borrowed", "overdue", "returned"}, user : User \union {Nobody},
            copy : Copy \union {NoCopy}, due : Nat, renewals : 0..MaxRenewals,
            returned : BOOLEAN, archived : BOOLEAN, tokens : SUBSET {"borrow", "return"}]

ResvRow == [status : {"none", "pending", "ready", "fulfilled", "cancelled", "expired"},
            user : User \union {Nobody}, book : Book \union {NoBook}, copy : Copy \union {NoCopy},
            exp : Nat, archived : BOOLEAN]

SnapRow == [out : SUBSET (Copy \union {NoCopy}), active : SUBSET Copy, resvs : [Resv -> ResvRow], due : [Loan -> Nat]]

Request == [stage : {"idle", "marking", "sweep", "begin", "open"}, kind : RequestKinds \union {"none"},
            user : User \union {Nobody}, began : 0..MaxTime, snap : SnapRow]

TypeOK ==
  /\ loans \in [Loan -> LoanRow]
  /\ resvs \in [Resv -> ResvRow]
  /\ active \subseteq Copy
  /\ now \in 0..MaxTime
  /\ req \in [Conn -> Request]

(* No copy is on loan twice and no patron has two copies of one title,     *)
(* although the overdue sweep marks rows by id from a stale list.          *)
OneActiveLoanPerCopy ==
  \A k, l \in Loan : k # l /\ IsOut(loans[k]) /\ IsOut(loans[l]) =>
    /\ loans[k].copy # loans[l].copy
    /\ <<loans[k].user, BookOf[loans[k].copy]>> # <<loans[l].user, BookOf[loans[l].copy]>>

(* A patron never has two live reservations, of any titles: the placement  *)
(* rule is not a unique key, it rests on the patron row lock.              *)
OneLiveReservationPerPatron ==
  \A q, r \in Resv : IsLive(resvs[q]) /\ IsLive(resvs[r]) /\ resvs[q].user = resvs[r].user => q = r

(* A fulfilled reservation was fulfilled by a loan of the very copy that   *)
(* was prepared, to the very patron, whatever was archived since.          *)
FulfilledByLoan ==
  \A r \in Resv : resvs[r].status = "fulfilled" =>
    \E l \in Loan : /\ loans[l].status # "none"
                    /\ loans[l].user = resvs[r].user /\ loans[l].copy = resvs[r].copy

(* A checkout that commits finds its copy active and not on the hold shelf *)
(* for somebody else at that moment, however long it waited for the book.  *)
LentFromTheShelf ==
  [][\A l \in Loan : loans[l].status = "none" /\ loans'[l].status # "none" =>
       /\ loans'[l].copy \in active
       /\ \A r \in HoldsOn(resvs, loans'[l].copy) : resvs[r].user = loans'[l].user]_vars

(* A checkout never commits for a patron who has not given back a loan     *)
(* that was past due when the request came in: the sweep before it and the *)
(* eligibility check under the patron's lock see to it, whatever commits   *)
(* between them and afterwards.  (Rows that the sweep marked although they *)
(* had been returned are set aside: they are what ReturnedStaysReturned is *)
(* about.)                                                                 *)
NoCheckoutWhilePastDue ==
  [][\A n \in Conn, l \in Loan :
       At(n, "open", "borrow") /\ loans[l].status = "none" /\ loans'[l].status # "none" /\ req'[n] = Idle =>
         \A k \in Loan : IsOut(loans[k]) /\ ~loans[k].returned /\ loans[k].user = req[n].user =>
                          loans[k].due >= req[n].began]_vars

(* A reservation ends once: fulfilment, cancellation and expiry race to    *)
(* one outcome that no later step changes, archiving and restoring         *)
(* included.                                                               *)
ReservationsEndOnce ==
  [][\A r \in Resv : resvs[r].status \in {"fulfilled", "cancelled", "expired"} =>
       resvs'[r] \in {[resvs[r] EXCEPT !.archived = TRUE], [resvs[r] EXCEPT !.archived = FALSE]}]_vars

(* Every live pending reservation of a title can be prepared: there are at *)
(* least as many available copies as live pending reservations.            *)
PendingCovered ==
  \A b \in Book : Cardinality(Available(b, active, OutCopies(loans), resvs)) >= Cardinality(PendingFor(resvs, b))

(* No copy is on loan and on the hold shelf at once, and a retired copy is *)
(* on neither.                                                             *)
CopiesInOnePlace ==
  /\ \A c \in OutCopies(loans) : HoldsOn(resvs, c) = {}
  /\ \A c \in Copy \ active : c \notin OutCopies(loans) /\ HoldsOn(resvs, c) = {}

(* A loan that was returned stays returned, but for the desk reversal that *)
(* its own undo token allows.                                              *)
ReturnedStaysReturned ==
  [][\A l \in Loan : loans[l].status = "returned" =>
       \/ loans'[l].status = "returned"
       \/ "return" \in loans[l].tokens /\ loans'[l].status = "borrowed"]_vars

(* A copy does not stay on the hold shelf: whatever else the patrons and   *)
(* the staff do, a prepared reservation ends or its deadline is beyond the *)
(* bound of the clock.                                                     *)
HoldsEnd ==
  \A r \in Resv : resvs[r].status = "ready" /\ resvs[r].exp < MaxTime ~> resvs[r].status # "ready"
=============================================================================
