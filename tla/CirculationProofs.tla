------------------------- MODULE CirculationProofs -------------------------
(* Theorems about Circulation for every value of its constants: under      *)
(* every overlap of requests, and at the end for requests that do not      *)
(* overlap.                                                                *)
EXTENDS Circulation, FiniteSetTheorems, TLAPS

(* ------------------------------------------------------- the type of rows *)

LEMMA RowTypes ==
  /\ NoLoan \in LoanRow
  /\ NoResv \in ResvRow
  /\ NoSnap \in SnapRow
  /\ Idle \in Request
<1> USE BoundsAssumption
<1>1. NoLoan \in LoanRow
  BY DEF NoLoan, LoanRow
<1>2. NoResv \in ResvRow
  BY DEF NoResv, ResvRow
<1>3. Never \in Nat
  BY DEF Never
<1>4. NoSnap \in SnapRow
  BY <1>2, <1>3 DEF NoSnap, SnapRow
<1>5. Idle \in Request
  BY <1>4 DEF Idle, Request
<1> QED
  BY <1>1, <1>2, <1>4, <1>5

LEMMA SnapshotType ==
  ASSUME TypeOK PROVE Snapshot \in SnapRow /\ OverdueCandidates \in SnapRow
<1> USE BoundsAssumption
<1>1. Never \in Nat
  BY DEF Never
<1>2. OutCopies(loans) \subseteq Copy \union {NoCopy}
  BY DEF OutCopies, TypeOK, LoanRow
<1>3. [r \in Resv |-> IF IsOpen(resvs[r]) THEN resvs[r] ELSE NoResv] \in [Resv -> ResvRow]
  BY RowTypes DEF TypeOK
<1>4. Snapshot \in SnapRow
  BY <1>1, <1>2, <1>3 DEF Snapshot, NoSnap, SnapRow, TypeOK
<1>5. OverdueCandidates \in SnapRow
  BY <1>1, RowTypes DEF OverdueCandidates, NoSnap, SnapRow, TypeOK, LoanRow
<1> QED
  BY <1>4, <1>5

(* ------------------------------------------ steps that change one request *)

(* What a step does to the record of its connection keeps the type.        *)
LEMMA RequestUpdate ==
  ASSUME TypeOK, NEW n \in Conn,
         NEW st \in {"idle", "marking", "sweep", "begin", "open"}, NEW s \in SnapRow
  PROVE  /\ [req EXCEPT ![n] = Idle] \in [Conn -> Request]
         /\ [req EXCEPT ![n].stage = st] \in [Conn -> Request]
         /\ [req EXCEPT ![n].stage = st, ![n].snap = s] \in [Conn -> Request]
<1>1. req \in [Conn -> Request] /\ req[n] \in Request
  BY DEF TypeOK
<1>2. [req[n] EXCEPT !.stage = st] \in Request
  BY <1>1 DEF Request
<1>3. [[req[n] EXCEPT !.stage = st] EXCEPT !.snap = s] \in Request
  BY <1>1 DEF Request
<1> QED
  BY <1>1, <1>2, <1>3, RowTypes

LEMMA MarkType ==
  ASSUME TypeOK, NEW due \in [Loan -> Nat]
  PROVE  MarkOverdue(loans, due) \in [Loan -> LoanRow]
<1>1. ASSUME NEW l \in Loan PROVE [loans[l] EXCEPT !.status = "overdue"] \in LoanRow
  BY DEF TypeOK, LoanRow
<1> QED
  BY <1>1 DEF MarkOverdue, TypeOK

LEMMA ExpireType ==
  ASSUME TypeOK PROVE Expire(resvs) \in [Resv -> ResvRow]
<1>1. ASSUME NEW r \in Resv PROVE [resvs[r] EXCEPT !.status = "expired", !.copy = NoCopy] \in ResvRow
  BY DEF TypeOK, ResvRow
<1> QED
  BY <1>1 DEF Expire, TypeOK

LEMMA SweepsType ==
  ASSUME TypeOK, NEW n \in Conn,
         \/ \E u \in User \union {Nobody}, kind \in RequestKinds : SyncOpen(n, kind, u)
         \/ SyncCommit(n) \/ SweepForReserve(n) \/ SweepForPrepare(n)
  PROVE  TypeOK'
<1>1. ASSUME NEW u \in User \union {Nobody}, NEW kind \in RequestKinds, SyncOpen(n, kind, u)
      PROVE  TypeOK'
  <2>1. [stage |-> "marking", kind |-> kind, user |-> u, snap |-> OverdueCandidates,
         began |-> IF kind = "borrow" THEN now ELSE 0] \in Request
    BY SnapshotType, BoundsAssumption DEF Request, TypeOK
  <2> QED
    BY <1>1, <2>1 DEF SyncOpen, TypeOK
<1>2. CASE SyncCommit(n)
  <2>1. loans' \in [Loan -> LoanRow]
    BY <1>2, MarkType DEF SyncCommit, TypeOK, Request, SnapRow
  <2>2. CASE req[n].kind = "overdue"
    BY <1>2, <2>1, <2>2, RequestUpdate, RowTypes DEF SyncCommit, Finish, TypeOK
  <2>3. CASE req[n].kind = "reserve"
    <3>1. req' = [req EXCEPT ![n].stage = "sweep", ![n].snap = NoSnap]
      BY <1>2, <2>3 DEF SyncCommit
    <3> QED
      BY <1>2, <2>1, <3>1, RequestUpdate, RowTypes DEF SyncCommit, TypeOK
  <2>4. CASE req[n].kind \notin {"overdue", "reserve"}
    <3>1. req' = [req EXCEPT ![n].stage = "begin", ![n].snap = NoSnap]
      BY <1>2, <2>4 DEF SyncCommit
    <3> QED
      BY <1>2, <2>1, <3>1, RequestUpdate, RowTypes DEF SyncCommit, TypeOK
  <2> QED
    BY <2>2, <2>3, <2>4
<1>3. CASE SweepForReserve(n)
  BY <1>3, ExpireType, RequestUpdate, RowTypes DEF SweepForReserve, TypeOK
<1>4. CASE SweepForPrepare(n)
  <2>1. [Idle EXCEPT !.stage = "begin", !.kind = "prepare"] \in Request
    BY RowTypes DEF Request, RequestKinds
  <2> QED
    BY <1>4, <2>1, ExpireType DEF SweepForPrepare, TypeOK
<1> QED
  BY <1>1, <1>2, <1>3, <1>4

LEMMA ExpiryJobType ==
  ASSUME TypeOK, ReservationExpiryJob PROVE TypeOK'
  BY ExpireType DEF ReservationExpiryJob, TypeOK

LEMMA OpeningType ==
  ASSUME TypeOK, NEW n \in Conn,
         \/ OpenForPatron(n) \/ OpenPrepare(n) \/ Abort(n)
         \/ \E kind \in RequestKinds : OpenCopyChange(n, kind)
  PROVE  TypeOK'
<1>1. CASE OpenForPatron(n) \/ OpenPrepare(n)
  <2>1. [req EXCEPT ![n].stage = "open", ![n].snap = Snapshot] \in [Conn -> Request]
    BY SnapshotType, RequestUpdate
  <2> QED
    BY <1>1, <2>1 DEF OpenForPatron, OpenPrepare, TypeOK
<1>2. CASE Abort(n)
  BY <1>2, RequestUpdate, RowTypes DEF Abort, Finish, TypeOK
<1>3. ASSUME NEW kind \in RequestKinds, OpenCopyChange(n, kind)
      PROVE  TypeOK'
  <2>1. [Idle EXCEPT !.stage = "open", !.kind = kind, !.snap = Snapshot] \in Request
    BY SnapshotType, RowTypes DEF Request
  <2> QED
    BY <1>3, <2>1 DEF OpenCopyChange, TypeOK
<1> QED
  BY <1>1, <1>2, <1>3

(* ------------------------------------------------- steps that write a row *)

LEMMA LendType ==
  ASSUME TypeOK, NEW u \in User \union {Nobody}, NEW c \in Copy, NEW l \in Loan,
         NEW tokens \in SUBSET {"borrow", "return"}, Lend(u, c, l, tokens)
  PROVE  loans' \in [Loan -> LoanRow]
<1>1. now + LoanPeriod \in Nat
  BY BoundsAssumption DEF TypeOK
<1>2. [NoLoan EXCEPT !.status = "borrowed", !.user = u, !.copy = c, !.due = now + LoanPeriod,
                     !.tokens = tokens] \in LoanRow
  BY <1>1, RowTypes DEF LoanRow
<1> QED
  BY <1>2 DEF Lend, TypeOK

LEMMA CheckoutType ==
  ASSUME TypeOK, NEW n \in Conn, NEW c \in Copy, NEW l \in Loan,
         BorrowWalkIn(n, c, l) \/ \E r \in Resv : BorrowReserved(n, c, r, l)
  PROVE  TypeOK'
<1>1. req[n].user \in User \union {Nobody}
  BY DEF TypeOK, Request
<1>2. CASE BorrowWalkIn(n, c, l)
  <2>1. loans' \in [Loan -> LoanRow]
    BY <1>1, <1>2, LendType DEF BorrowWalkIn
  <2> QED
    BY <1>2, <2>1, RequestUpdate, RowTypes DEF BorrowWalkIn, Finish, TypeOK
<1>3. ASSUME NEW r \in Resv, BorrowReserved(n, c, r, l)
      PROVE  TypeOK'
  <2>1. loans' \in [Loan -> LoanRow]
    BY <1>1, <1>3, LendType DEF BorrowReserved
  <2>2. [resvs[r] EXCEPT !.status = "fulfilled"] \in ResvRow
    BY DEF TypeOK, ResvRow
  <2> QED
    BY <1>3, <2>1, <2>2, RequestUpdate, RowTypes DEF BorrowReserved, Finish, TypeOK
<1> QED
  BY <1>2, <1>3

LEMMA ReservationType ==
  ASSUME TypeOK, NEW r \in Resv,
         \/ \E n \in Conn, b \in Book : PlaceReservation(n, b, r)
         \/ \E n \in Conn, c \in Copy : PrepareReservation(n, r, c)
         \/ CancelReservation(r) \/ ArchiveReservation(r) \/ RestoreReservation(r)
  PROVE  TypeOK'
<1>1. /\ now + HoldWindow \in Nat /\ resvs[r] \in ResvRow
      /\ \A n \in Conn : req[n].user \in User \union {Nobody}
  BY BoundsAssumption DEF TypeOK, Request
<1>2. ASSUME NEW n \in Conn, NEW b \in Book, PlaceReservation(n, b, r) PROVE TypeOK'
  <2>1. [NoResv EXCEPT !.status = "pending", !.user = req[n].user, !.book = b,
                       !.exp = now + HoldWindow] \in ResvRow
    BY <1>1, RowTypes DEF ResvRow
  <2> QED
    BY <1>2, <2>1, RequestUpdate, RowTypes DEF PlaceReservation, Finish, TypeOK
<1>3. ASSUME NEW n \in Conn, NEW c \in Copy, PrepareReservation(n, r, c) PROVE TypeOK'
  <2>1. [resvs[r] EXCEPT !.status = "ready", !.copy = c, !.exp = now + HoldWindow] \in ResvRow
    BY <1>1 DEF ResvRow
  <2>2. resvs' = [resvs EXCEPT ![r] = [resvs[r] EXCEPT !.status = "ready", !.copy = c, !.exp = now + HoldWindow]]
    BY <1>3 DEF PrepareReservation, TypeOK
  <2>3. resvs' \in [Resv -> ResvRow]
    BY <2>1, <2>2 DEF TypeOK
  <2>4. req' \in [Conn -> Request]
    BY <1>3, RequestUpdate, RowTypes DEF PrepareReservation, Finish
  <2> QED
    BY <1>3, <2>3, <2>4 DEF PrepareReservation, TypeOK
<1>4. CASE CancelReservation(r)
  <2>1. [resvs[r] EXCEPT !.status = "cancelled"] \in ResvRow
    BY <1>1 DEF ResvRow
  <2> QED
    BY <1>4, <2>1 DEF CancelReservation, TypeOK
<1>5. CASE ArchiveReservation(r) \/ RestoreReservation(r)
  <2>1. \A flag \in BOOLEAN : [resvs[r] EXCEPT !.archived = flag] \in ResvRow
    BY <1>1 DEF ResvRow
  <2> QED
    BY <1>5, <2>1 DEF ArchiveReservation, RestoreReservation, TypeOK
<1> QED
  BY <1>2, <1>3, <1>4, <1>5

LEMMA LoanType ==
  ASSUME TypeOK, NEW l \in Loan,
         \/ ReturnBook(l) \/ UndoBorrow(l) \/ UndoReturn(l) \/ ArchiveLoan(l) \/ RestoreLoan(l)
         \/ \E n \in Conn : RenewLoan(n, l)
  PROVE  TypeOK'
<1>1. loans[l] \in LoanRow /\ now + LoanPeriod \in Nat
  BY BoundsAssumption DEF TypeOK
<1>2. CASE ReturnBook(l)
  <2>1. \A t \in SUBSET {"borrow", "return"} :
          [[[loans[l] EXCEPT !.status = "returned"] EXCEPT !.returned = TRUE] EXCEPT !.tokens = t] \in LoanRow
    BY <1>1 DEF LoanRow
  <2>2. loans[l].tokens \union {"return"} \in SUBSET {"borrow", "return"} /\ loans[l].tokens \in SUBSET {"borrow", "return"}
    BY <1>1 DEF LoanRow
  <2>3. \E t \in SUBSET {"borrow", "return"} :
          loans' = [loans EXCEPT ![l] = [[[loans[l] EXCEPT !.status = "returned"] EXCEPT !.returned = TRUE]
                                         EXCEPT !.tokens = t]]
    BY <1>2, <2>2 DEF ReturnBook, TypeOK
  <2> QED
    BY <1>2, <2>1, <2>3 DEF ReturnBook, TypeOK
<1>3. CASE UndoBorrow(l)
  <2>1. [[[[loans[l] EXCEPT !.status = "returned"] EXCEPT !.returned = TRUE] EXCEPT !.archived = TRUE]
          EXCEPT !.tokens = {}] \in LoanRow
    BY <1>1 DEF LoanRow
  <2> QED
    BY <1>3, <2>1 DEF UndoBorrow, TypeOK
<1>4. CASE UndoReturn(l)
  <2>1. [[[loans[l] EXCEPT !.status = "borrowed"] EXCEPT !.returned = FALSE]
          EXCEPT !.tokens = loans[l].tokens \ {"return"}] \in LoanRow
    BY <1>1 DEF LoanRow
  <2> QED
    BY <1>4, <2>1 DEF UndoReturn, TypeOK
<1>5. CASE ArchiveLoan(l) \/ RestoreLoan(l)
  <2>1. \A flag \in BOOLEAN : [loans[l] EXCEPT !.archived = flag] \in LoanRow
    BY <1>1 DEF LoanRow
  <2> QED
    BY <1>5, <2>1 DEF ArchiveLoan, RestoreLoan, TypeOK
<1>6. ASSUME NEW n \in Conn, RenewLoan(n, l) PROVE TypeOK'
  <2>1. loans[l].renewals + 1 \in 0..MaxRenewals
    BY <1>1, <1>6, BoundsAssumption DEF RenewLoan, LoanRow
  <2>2. [[[loans[l] EXCEPT !.status = "borrowed"] EXCEPT !.due = now + LoanPeriod]
          EXCEPT !.renewals = loans[l].renewals + 1] \in LoanRow
    BY <1>1, <2>1 DEF LoanRow
  <2> QED
    BY <1>6, <2>2, RequestUpdate, RowTypes DEF RenewLoan, Finish, TypeOK
<1> QED
  BY <1>2, <1>3, <1>4, <1>5, <1>6

LEMMA CopyType ==
  ASSUME TypeOK,
         \/ \E n \in Conn, c \in Copy : RetireCopy(n, c) \/ ReinstateCopy(n, c)
         \/ \E b \in Book, D \in SUBSET Copy : ReduceCopies(b, D)
         \/ Tick
  PROVE  TypeOK'
<1>1. ASSUME NEW n \in Conn, NEW c \in Copy, RetireCopy(n, c) \/ ReinstateCopy(n, c)
      PROVE  TypeOK'
  <2>1. active' \subseteq Copy
    BY <1>1 DEF RetireCopy, ReinstateCopy, TypeOK
  <2> QED
    BY <1>1, <2>1, RequestUpdate, RowTypes DEF RetireCopy, ReinstateCopy, Finish, TypeOK
<1>2. ASSUME NEW b \in Book, NEW D \in SUBSET Copy, ReduceCopies(b, D)
      PROVE  TypeOK'
  BY <1>2 DEF ReduceCopies, TypeOK
<1>3. CASE Tick
  <2>1. now' \in 0..MaxTime
    BY <1>3, BoundsAssumption DEF Tick, TypeOK
  <2> QED
    BY <1>3, <2>1 DEF Tick, TypeOK
<1> QED
  BY <1>1, <1>2, <1>3

(* ------------------------------------------------------- type correctness *)

LEMMA NextKeepsType ==
  ASSUME TypeOK, Next PROVE TypeOK'
<1>1. CASE OneTransaction
  BY <1>1, ExpiryJobType, ReservationType, LoanType, CopyType DEF OneTransaction
<1>2. CASE Tick
  BY <1>2, CopyType
<1>3. ASSUME NEW n \in Conn, Begin(n) PROVE TypeOK'
  BY <1>3, SweepsType, OpeningType DEF Begin, RequestKinds
<1>4. ASSUME NEW n \in Conn, Continue(n) PROVE TypeOK'
  BY <1>4, SweepsType, OpeningType, CheckoutType, ReservationType, LoanType, CopyType DEF Continue
<1> QED
  BY <1>1, <1>2, <1>3, <1>4 DEF Next

(* Every row, every snapshot a transaction works from and every request in *)
(* progress stays in its type, whatever the number of connections.         *)
THEOREM TypeCorrect == Spec => []TypeOK
<1>1. Init => TypeOK
  BY RowTypes, BoundsAssumption DEF Init, TypeOK
<1>2. TypeOK /\ UNCHANGED vars => TypeOK'
  BY DEF TypeOK, vars
<1>3. TypeOK /\ [Next]_vars => TypeOK'
  BY <1>2, NextKeepsType
<1> QED
  BY <1>1, <1>3, PTL DEF Spec

(* ------------------------------------------------ how rows may be written *)

(* No step takes a loan row back to "none", or gives a row that is a loan  *)
(* to another patron or another copy.                                      *)
LoansKept ==
  \A l \in Loan : loans[l].status # "none" =>
    /\ loans'[l].status # "none"
    /\ loans'[l].user = loans[l].user /\ loans'[l].copy = loans[l].copy

(* A closed reservation changes in nothing but its archived flag.          *)
ClosedResvsKept ==
  \A r \in Resv : resvs[r].status \in {"fulfilled", "cancelled", "expired"} =>
    resvs'[r] \in {[resvs[r] EXCEPT !.archived = TRUE], [resvs[r] EXCEPT !.archived = FALSE]}

LEMMA SameLoansKept == ASSUME UNCHANGED loans PROVE LoansKept
  BY DEF LoansKept

LEMMA SameResvsKept == ASSUME TypeOK, UNCHANGED resvs PROVE ClosedResvsKept
<1>1. ASSUME NEW r \in Resv
      PROVE  resvs[r] \in {[resvs[r] EXCEPT !.archived = TRUE], [resvs[r] EXCEPT !.archived = FALSE]}
  BY DEF TypeOK, ResvRow
<1> QED
  BY <1>1 DEF ClosedResvsKept

LEMMA ExpireKept ==
  ASSUME TypeOK, resvs' = Expire(resvs) PROVE ClosedResvsKept
<1>1. ASSUME NEW r \in Resv, resvs[r].status \in {"fulfilled", "cancelled", "expired"}
      PROVE  resvs'[r] = resvs[r]
  BY <1>1 DEF Expire, IsOpen
<1> QED
  BY <1>1 DEF ClosedResvsKept, TypeOK, ResvRow

LEMMA LendKept ==
  ASSUME TypeOK, NEW u, NEW c, NEW l \in Loan, NEW tokens, Lend(u, c, l, tokens) PROVE LoansKept
  BY DEF Lend, LoansKept, TypeOK

(* A step that replaces one open row keeps the closed ones.                *)
LEMMA OpenRowKept ==
  ASSUME TypeOK, NEW r \in Resv, resvs[r].status \in {"none", "pending", "ready"}, NEW row,
         resvs' = [resvs EXCEPT ![r] = row]
  PROVE  ClosedResvsKept
<1>1. ASSUME NEW q \in Resv, resvs[q].status \in {"fulfilled", "cancelled", "expired"}
      PROVE  resvs'[q] = resvs[q]
  BY <1>1 DEF TypeOK
<1> QED
  BY <1>1 DEF ClosedResvsKept, TypeOK, ResvRow

(* Every step keeps both tables in this sense.                             *)
LEMMA OneTransactionKept ==
  ASSUME TypeOK, OneTransaction PROVE LoansKept /\ ClosedResvsKept
<1>1. CASE ReservationExpiryJob
  BY <1>1, ExpireKept, SameLoansKept DEF ReservationExpiryJob
<1>2. ASSUME NEW l \in Loan, ReturnBook(l) \/ UndoBorrow(l) \/ UndoReturn(l) \/ ArchiveLoan(l) \/ RestoreLoan(l)
      PROVE  LoansKept /\ ClosedResvsKept
  <2>1. \A k \in Loan : loans[k].status # "none" =>
          /\ loans'[k].status # "none" /\ loans'[k].user = loans[k].user /\ loans'[k].copy = loans[k].copy
    BY <1>2 DEF ReturnBook, UndoBorrow, UndoReturn, ArchiveLoan, RestoreLoan, TypeOK, LoanRow
  <2> QED
    BY <1>2, <2>1, SameResvsKept DEF LoansKept, ReturnBook, UndoBorrow, UndoReturn, ArchiveLoan, RestoreLoan
<1>3. ASSUME NEW r \in Resv, CancelReservation(r) PROVE LoansKept /\ ClosedResvsKept
  <2>1. resvs[r].status \in {"pending", "ready"}
    BY <1>3 DEF CancelReservation, IsOpen
  <2>2. \E row : resvs' = [resvs EXCEPT ![r] = row]
    BY <1>3 DEF CancelReservation
  <2> QED
    BY <1>3, <2>1, <2>2, OpenRowKept, SameLoansKept DEF CancelReservation
<1>4. ASSUME NEW r \in Resv, ArchiveReservation(r) \/ RestoreReservation(r)
      PROVE  LoansKept /\ ClosedResvsKept
  <2>1. ASSUME NEW q \in Resv, resvs[q].status \in {"fulfilled", "cancelled", "expired"}
        PROVE  resvs'[q] \in {[resvs[q] EXCEPT !.archived = TRUE], [resvs[q] EXCEPT !.archived = FALSE]}
    <3>1. CASE q = r
      BY <1>4, <3>1 DEF ArchiveReservation, RestoreReservation, TypeOK
    <3>2. CASE q # r
      <4>1. resvs'[q] = resvs[q]
        BY <1>4, <3>2 DEF ArchiveReservation, RestoreReservation, TypeOK
      <4> QED
        BY <4>1 DEF TypeOK, ResvRow
    <3> QED
      BY <3>1, <3>2
  <2> QED
    BY <1>4, <2>1, SameLoansKept DEF ClosedResvsKept, ArchiveReservation, RestoreReservation
<1>5. ASSUME NEW b \in Book, NEW D \in SUBSET Copy, ReduceCopies(b, D)
      PROVE  LoansKept /\ ClosedResvsKept
  BY <1>5, SameLoansKept, SameResvsKept DEF ReduceCopies
<1> QED
  BY <1>1, <1>2, <1>3, <1>4, <1>5 DEF OneTransaction

LEMMA ContinueKept ==
  ASSUME TypeOK, NEW n \in Conn, Continue(n) PROVE LoansKept /\ ClosedResvsKept
<1>1. CASE SyncCommit(n)
  <2>1. LoansKept
    BY <1>1 DEF SyncCommit, MarkOverdue, LoansKept, TypeOK, LoanRow
  <2> QED
    BY <1>1, <2>1, SameResvsKept DEF SyncCommit
<1>2. CASE SweepForReserve(n)
  BY <1>2, ExpireKept, SameLoansKept DEF SweepForReserve
<1>3. CASE OpenForPatron(n) \/ OpenPrepare(n) \/ Abort(n)
  BY <1>3, SameLoansKept, SameResvsKept DEF OpenForPatron, OpenPrepare, Abort
<1>4. ASSUME NEW c \in Copy, NEW l \in Loan, BorrowWalkIn(n, c, l)
      PROVE  LoansKept /\ ClosedResvsKept
  BY <1>4, LendKept, SameResvsKept DEF BorrowWalkIn
<1>5. ASSUME NEW c \in Copy, NEW l \in Loan, NEW r \in Resv, BorrowReserved(n, c, r, l)
      PROVE  LoansKept /\ ClosedResvsKept
  <2>1. \E row : resvs' = [resvs EXCEPT ![r] = row]
    BY <1>5 DEF BorrowReserved
  <2> QED
    BY <1>5, <2>1, LendKept, OpenRowKept DEF BorrowReserved
<1>6. ASSUME NEW b \in Book, NEW r \in Resv, PlaceReservation(n, b, r)
      PROVE  LoansKept /\ ClosedResvsKept
  BY <1>6, OpenRowKept, SameLoansKept DEF PlaceReservation
<1>7. ASSUME NEW r \in Resv, NEW c \in Copy, PrepareReservation(n, r, c)
      PROVE  LoansKept /\ ClosedResvsKept
  <2>1. \E row : resvs' = [resvs EXCEPT ![r] = row]
    BY <1>7 DEF PrepareReservation
  <2> QED
    BY <1>7, <2>1, OpenRowKept, SameLoansKept DEF PrepareReservation
<1>8. ASSUME NEW l \in Loan, RenewLoan(n, l) PROVE LoansKept /\ ClosedResvsKept
  <2>1. LoansKept
    BY <1>8 DEF RenewLoan, LoansKept, TypeOK, LoanRow
  <2> QED
    BY <1>8, <2>1, SameResvsKept DEF RenewLoan
<1>9. ASSUME NEW c \in Copy, RetireCopy(n, c) \/ ReinstateCopy(n, c)
      PROVE  LoansKept /\ ClosedResvsKept
  BY <1>9, SameLoansKept, SameResvsKept DEF RetireCopy, ReinstateCopy
<1> QED
  BY <1>1, <1>2, <1>3, <1>4, <1>5, <1>6, <1>7, <1>8, <1>9 DEF Continue

LEMMA NextKept ==
  ASSUME TypeOK, [Next]_vars PROVE LoansKept /\ ClosedResvsKept
<1>1. ASSUME NEW n \in Conn, Begin(n) PROVE LoansKept /\ ClosedResvsKept
  <2>1. CASE UNCHANGED <<loans, resvs>>
    BY <2>1, SameLoansKept, SameResvsKept
  <2>2. CASE SweepForPrepare(n)
    BY <2>2, ExpireKept, SameLoansKept DEF SweepForPrepare
  <2> QED
    BY <1>1, <2>1, <2>2 DEF Begin, SyncOpen, OpenCopyChange
<1>2. CASE Tick \/ UNCHANGED vars
  BY <1>2, SameLoansKept, SameResvsKept DEF Tick, vars
<1> QED
  BY <1>1, <1>2, OneTransactionKept, ContinueKept DEF Next

(* A reservation ends once: whichever of fulfilment, cancellation and      *)
(* expiry commits first decides, and no later step changes the row.        *)
THEOREM ReservationsEnd == Spec => ReservationsEndOnce
<1>1. TypeOK /\ [Next]_vars => ClosedResvsKept
  BY NextKept
<1> QED
  BY <1>1, TypeCorrect, PTL DEF Spec, ReservationsEndOnce, ClosedResvsKept

(* ------------------------------------------------- fulfilment has a loan *)

(* Every reservation a step fulfils has its loan when the step is done.    *)
NewFulfilmentsHaveLoans ==
  \A r \in Resv : resvs'[r].status = "fulfilled" /\ resvs[r].status # "fulfilled" =>
    \E l \in Loan : /\ loans'[l].status # "none"
                    /\ loans'[l].user = resvs'[r].user /\ loans'[l].copy = resvs'[r].copy

LEMMA NoNewFulfilment ==
  ASSUME TypeOK, UNCHANGED resvs \/ resvs' = Expire(resvs) PROVE NewFulfilmentsHaveLoans
<1>1. CASE UNCHANGED resvs
  BY <1>1 DEF NewFulfilmentsHaveLoans
<1>2. CASE resvs' = Expire(resvs)
  <2>1. ASSUME NEW r \in Resv PROVE resvs'[r] = resvs[r] \/ resvs'[r].status = "expired"
    BY <1>2 DEF Expire, TypeOK, ResvRow
  <2> QED
    BY <2>1 DEF NewFulfilmentsHaveLoans
<1> QED
  BY <1>1, <1>2

(* The checkout of a prepared copy writes both rows in one transaction.    *)
LEMMA CheckoutFulfils ==
  ASSUME TypeOK, NEW n \in Conn, NEW c \in Copy, NEW r \in Resv, NEW l \in Loan, BorrowReserved(n, c, r, l)
  PROVE  NewFulfilmentsHaveLoans
<1>1. loans'[l].status = "borrowed" /\ loans'[l].user = req[n].user /\ loans'[l].copy = c
  BY DEF BorrowReserved, Lend, NoLoan, TypeOK
<1>2. resvs'[r].user = req[n].user /\ resvs'[r].copy = c
  BY DEF BorrowReserved, TypeOK, ResvRow
<1>3. \A q \in Resv : q # r => resvs'[q] = resvs[q]
  BY DEF BorrowReserved, TypeOK
<1> QED
  BY <1>1, <1>2, <1>3 DEF NewFulfilmentsHaveLoans

LEMMA NextFulfils ==
  ASSUME TypeOK, [Next]_vars PROVE NewFulfilmentsHaveLoans
<1>1. CASE UNCHANGED resvs \/ resvs' = Expire(resvs)
  BY <1>1, NoNewFulfilment
<1>2. ASSUME NEW n \in Conn, NEW c \in Copy, NEW r \in Resv, NEW l \in Loan, BorrowReserved(n, c, r, l)
      PROVE  NewFulfilmentsHaveLoans
  BY <1>2, CheckoutFulfils
<1>3. ASSUME NEW r \in Resv, CancelReservation(r) PROVE NewFulfilmentsHaveLoans
  <2>1. \A q \in Resv : resvs'[q] = resvs[q] \/ resvs'[q].status = "cancelled"
    BY <1>3 DEF CancelReservation, TypeOK, ResvRow
  <2> QED
    BY <2>1 DEF NewFulfilmentsHaveLoans
<1>4. ASSUME NEW r \in Resv, ArchiveReservation(r) \/ RestoreReservation(r) PROVE NewFulfilmentsHaveLoans
  <2>1. \A q \in Resv : resvs'[q].status = resvs[q].status
    BY <1>4 DEF ArchiveReservation, RestoreReservation, TypeOK, ResvRow
  <2> QED
    BY <2>1 DEF NewFulfilmentsHaveLoans
<1>5. ASSUME NEW n \in Conn, NEW b \in Book, NEW r \in Resv, PlaceReservation(n, b, r)
      PROVE  NewFulfilmentsHaveLoans
  <2>1. \A q \in Resv : resvs'[q] = resvs[q] \/ resvs'[q].status = "pending"
    BY <1>5 DEF PlaceReservation, NoResv, TypeOK, ResvRow
  <2> QED
    BY <2>1 DEF NewFulfilmentsHaveLoans
<1>6. ASSUME NEW n \in Conn, NEW r \in Resv, NEW c \in Copy, PrepareReservation(n, r, c)
      PROVE  NewFulfilmentsHaveLoans
  <2>1. \A q \in Resv : resvs'[q] = resvs[q] \/ resvs'[q].status = "ready"
    BY <1>6 DEF PrepareReservation, TypeOK, ResvRow
  <2> QED
    BY <2>1 DEF NewFulfilmentsHaveLoans
<1>7. ASSUME OneTransaction PROVE NewFulfilmentsHaveLoans
  <2>1. CASE UNCHANGED resvs \/ resvs' = Expire(resvs)
    BY <2>1, <1>1
  <2>2. CASE \E r \in Resv : CancelReservation(r) \/ ArchiveReservation(r) \/ RestoreReservation(r)
    BY <2>2, <1>3, <1>4
  <2> QED
    BY <1>7, <2>1, <2>2
    DEF OneTransaction, ReservationExpiryJob, ReturnBook, UndoBorrow, UndoReturn, ArchiveLoan, RestoreLoan,
        ReduceCopies
<1>8. ASSUME NEW n \in Conn, Begin(n) \/ Continue(n) PROVE NewFulfilmentsHaveLoans
  <2>1. CASE Begin(n)
    BY <2>1, <1>1 DEF Begin, SyncOpen, SweepForPrepare, OpenCopyChange
  <2>2. CASE Continue(n)
    <3>1. \/ UNCHANGED resvs \/ resvs' = Expire(resvs)
          \/ \E c \in Copy, l \in Loan, r \in Resv : BorrowReserved(n, c, r, l)
          \/ \E b \in Book, r \in Resv : PlaceReservation(n, b, r)
          \/ \E r \in Resv, c \in Copy : PrepareReservation(n, r, c)
      BY <2>2
      DEF Continue, SyncCommit, SweepForReserve, OpenForPatron, OpenPrepare, Abort, BorrowWalkIn, RenewLoan,
          RetireCopy, ReinstateCopy
    <3> QED
      BY <3>1, <1>1, <1>2, <1>5, <1>6
  <2> QED
    BY <1>8, <2>1, <2>2
<1> QED
  BY <1>1, <1>7, <1>8 DEF Next, Tick, vars

(* A fulfilled reservation has a loan of the copy that was prepared to the *)
(* patron it was prepared for, and keeps it.                               *)
THEOREM FulfilmentHasLoan == Spec => []FulfilledByLoan
<1>1. Init => FulfilledByLoan
  BY DEF Init, FulfilledByLoan, NoResv
<1>2. ASSUME TypeOK, FulfilledByLoan, [Next]_vars PROVE FulfilledByLoan'
  <2> SUFFICES ASSUME NEW r \in Resv, resvs'[r].status = "fulfilled"
               PROVE  \E l \in Loan : /\ loans'[l].status # "none"
                                      /\ loans'[l].user = resvs'[r].user /\ loans'[l].copy = resvs'[r].copy
    BY DEF FulfilledByLoan
  <2>1. CASE resvs[r].status = "fulfilled"
    <3>1. resvs'[r].user = resvs[r].user /\ resvs'[r].copy = resvs[r].copy
      BY <1>2, <2>1, NextKept DEF ClosedResvsKept, TypeOK, ResvRow
    <3>2. PICK l \in Loan : /\ loans[l].status # "none"
                           /\ loans[l].user = resvs[r].user /\ loans[l].copy = resvs[r].copy
      BY <1>2, <2>1 DEF FulfilledByLoan
    <3> QED
      BY <1>2, <3>1, <3>2, NextKept DEF LoansKept
  <2>2. CASE resvs[r].status # "fulfilled"
    BY <1>2, <2>2, NextFulfils DEF NewFulfilmentsHaveLoans
  <2> QED
    BY <2>1, <2>2
<1> QED
  BY <1>1, <1>2, TypeCorrect, PTL DEF Spec

(* ----------------------------------------------- keys of loans stay unique *)

(* Steps that take loans back, or rewrite the deadline of one, disturb no  *)
(* key.                                                                    *)
NoNewLoan ==
  \A l \in Loan : IsOut(loans'[l]) =>
    IsOut(loans[l]) /\ loans'[l].user = loans[l].user /\ loans'[l].copy = loans[l].copy

LEMMA NoNewLoanKeepsKeys ==
  ASSUME LoanKeysUnique(loans), NoNewLoan PROVE LoanKeysUnique(loans')
  BY DEF LoanKeysUnique, NoNewLoan

LEMMA SameLoansKeepKeys ==
  ASSUME LoanKeysUnique(loans), UNCHANGED loans PROVE LoanKeysUnique(loans')
  OBVIOUS

(* The reversal of a return is refused when the copy is out again, or the  *)
(* patron has the title again.                                             *)
LEMMA UndoReturnKeepsKeys ==
  ASSUME TypeOK, LoanKeysUnique(loans), NEW l \in Loan, UndoReturn(l) PROVE LoanKeysUnique(loans')
<1>1. \A k \in Loan : k # l => loans'[k] = loans[k]
  BY DEF UndoReturn, TypeOK
<1>2. loans'[l].user = loans[l].user /\ loans'[l].copy = loans[l].copy
  BY DEF UndoReturn, TypeOK, LoanRow
<1>3. \A k \in Loan : IsOut(loans[k]) =>
        /\ loans[k].copy # loans[l].copy
        /\ loans[k].user # loans[l].user \/ BookOf[loans[k].copy] # BookOf[loans[l].copy]
  BY DEF UndoReturn, ReturnStillReversible, OutCopies, HasLoan
<1> QED
  BY <1>1, <1>2, <1>3 DEF LoanKeysUnique

LEMMA OneTransactionKeepsKeys ==
  ASSUME TypeOK, LoanKeysUnique(loans), OneTransaction PROVE LoanKeysUnique(loans')
<1>1. CASE UNCHANGED loans
  BY <1>1, SameLoansKeepKeys
<1>2. ASSUME NEW l \in Loan, ReturnBook(l) \/ UndoBorrow(l) \/ ArchiveLoan(l)
      PROVE  LoanKeysUnique(loans')
  <2>1. NoNewLoan
    BY <1>2 DEF ReturnBook, UndoBorrow, ArchiveLoan, NoNewLoan, IsOut, TypeOK, LoanRow
  <2> QED
    BY <2>1, NoNewLoanKeepsKeys
<1>3. ASSUME NEW l \in Loan, UndoReturn(l) PROVE LoanKeysUnique(loans')
  BY <1>3, UndoReturnKeepsKeys
<1>4. ASSUME NEW l \in Loan, RestoreLoan(l) PROVE LoanKeysUnique(loans')
  BY <1>4 DEF RestoreLoan
<1> QED
  BY <1>1, <1>2, <1>3, <1>4
  DEF OneTransaction, ReservationExpiryJob, CancelReservation, ArchiveReservation, RestoreReservation, ReduceCopies

LEMMA ContinueKeepsKeys ==
  ASSUME TypeOK, LoanKeysUnique(loans), NEW n \in Conn, Continue(n) PROVE LoanKeysUnique(loans')
<1>1. CASE UNCHANGED loans
  BY <1>1, SameLoansKeepKeys
<1>2. CASE SyncCommit(n)
  BY <1>2 DEF SyncCommit
<1>3. ASSUME NEW c \in Copy, NEW l \in Loan, NEW r \in Resv, BorrowWalkIn(n, c, l) \/ BorrowReserved(n, c, r, l)
      PROVE  LoanKeysUnique(loans')
  BY <1>3 DEF BorrowWalkIn, BorrowReserved, Lend
<1>4. ASSUME NEW l \in Loan, RenewLoan(n, l) PROVE LoanKeysUnique(loans')
  <2>1. NoNewLoan
    BY <1>4 DEF RenewLoan, NoNewLoan, IsOut, TypeOK, LoanRow
  <2> QED
    BY <2>1, NoNewLoanKeepsKeys
<1>5. ASSUME NEW c \in Copy, NEW l \in Loan, BorrowWalkIn(n, c, l) PROVE LoanKeysUnique(loans')
  BY <1>5 DEF BorrowWalkIn, Lend
<1> QED
  BY <1>1, <1>2, <1>3, <1>4, <1>5
  DEF Continue, SweepForReserve, OpenForPatron, OpenPrepare, Abort, PlaceReservation, PrepareReservation,
      RetireCopy, ReinstateCopy

(* No copy is on loan twice, no patron has two copies of a title: the      *)
(* unique keys refuse the write, and the one write that does not reach     *)
(* them, the reversal of a return, checks first.                           *)
THEOREM OneActiveLoan == Spec => []OneActiveLoanPerCopy
<1>1. Init => LoanKeysUnique(loans)
  BY DEF Init, LoanKeysUnique, IsOut, NoLoan
<1>2. ASSUME TypeOK, LoanKeysUnique(loans), [Next]_vars PROVE LoanKeysUnique(loans)'
  <2>1. ASSUME NEW n \in Conn, Begin(n) PROVE LoanKeysUnique(loans')
    BY <1>2, <2>1, SameLoansKeepKeys DEF Begin, SyncOpen, SweepForPrepare, OpenCopyChange
  <2>2. CASE Tick \/ UNCHANGED vars
    BY <1>2, <2>2, SameLoansKeepKeys DEF Tick, vars
  <2>3. LoanKeysUnique(loans')
    BY <1>2, <2>1, <2>2, OneTransactionKeepsKeys, ContinueKeepsKeys DEF Next
  <2> QED
    BY <2>3 DEF LoanKeysUnique, IsOut
<1>3. LoanKeysUnique(loans) => OneActiveLoanPerCopy
  BY DEF LoanKeysUnique, OneActiveLoanPerCopy
<1> QED
  BY <1>1, <1>2, <1>3, TypeCorrect, PTL DEF Spec

(* ------------------------------------- one live reservation for each patron *)

(* What makes "one live reservation per patron" inductive: a reservation   *)
(* that was archived is closed, so restoring it brings none to life.       *)
ArchivedClosed == \A r \in Resv : resvs[r].archived => resvs[r].status \in {"fulfilled", "cancelled", "expired"}

OneLive == OneLiveReservationPerPatron /\ ArchivedClosed

(* Steps that bring no reservation to life.                                *)
NoNewReservation ==
  \A r \in Resv :
    /\ IsLive(resvs[r])' => IsLive(resvs[r]) /\ resvs'[r].user = resvs[r].user
    /\ resvs'[r].archived => resvs'[r].status \in {"fulfilled", "cancelled", "expired"}

LEMMA NoNewReservationKeepsOne ==
  ASSUME OneLive, NoNewReservation PROVE OneLive'
  BY DEF OneLive, NoNewReservation, OneLiveReservationPerPatron, ArchivedClosed

(* The clock only takes reservations out of the live ones.                 *)
LEMMA SameReservations ==
  ASSUME TypeOK, OneLive, UNCHANGED resvs, now' = now \/ now' = now + 1 PROVE NoNewReservation
<1>1. \A r \in Resv : resvs[r].exp \in Nat /\ now \in Nat
  BY DEF TypeOK, ResvRow
<1> QED
  BY <1>1 DEF NoNewReservation, IsLive, OneLive, ArchivedClosed

LEMMA ExpiredReservations ==
  ASSUME TypeOK, OneLive, resvs' = Expire(resvs), UNCHANGED now PROVE NoNewReservation
<1>1. ASSUME NEW r \in Resv PROVE resvs'[r] = resvs[r] \/ (resvs'[r].status = "expired" /\ ~resvs'[r].archived)
  BY DEF Expire, IsOpen, TypeOK, ResvRow
<1> QED
  BY <1>1 DEF NoNewReservation, IsLive, IsOpen, OneLive, ArchivedClosed

(* Steps that write one reservation row.                                   *)
LEMMA WrittenReservation ==
  ASSUME TypeOK, OneLive, UNCHANGED now, NEW r \in Resv,
         \/ CancelReservation(r) \/ ArchiveReservation(r) \/ RestoreReservation(r)
         \/ \E n \in Conn, c \in Copy : PrepareReservation(n, r, c)
         \/ \E n \in Conn, c \in Copy, l \in Loan : BorrowReserved(n, c, r, l)
  PROVE  NoNewReservation
<1>1. \A q \in Resv : q # r => resvs'[q] = resvs[q]
  BY DEF CancelReservation, ArchiveReservation, RestoreReservation, PrepareReservation, BorrowReserved, TypeOK
<1>2. resvs'[r].user = resvs[r].user
  <2>1. CASE CancelReservation(r) \/ ArchiveReservation(r) \/ RestoreReservation(r)
    BY <2>1 DEF CancelReservation, ArchiveReservation, RestoreReservation, TypeOK, ResvRow
  <2>2. ASSUME NEW n \in Conn, NEW c \in Copy, PrepareReservation(n, r, c) PROVE resvs'[r].user = resvs[r].user
    BY <2>2 DEF PrepareReservation, TypeOK, ResvRow
  <2>3. ASSUME NEW n \in Conn, NEW c \in Copy, NEW l \in Loan, BorrowReserved(n, c, r, l)
        PROVE  resvs'[r].user = resvs[r].user
    BY <2>3 DEF BorrowReserved, TypeOK, ResvRow
  <2> QED
    BY <2>1, <2>2, <2>3
<1>3. \/ resvs'[r].status \in {"fulfilled", "cancelled", "expired"}
      \/ resvs'[r].status = "ready" /\ ~resvs'[r].archived /\ IsLive(resvs[r])
  <2>1. CASE CancelReservation(r)
    BY <2>1 DEF CancelReservation, TypeOK, ResvRow
  <2>2. CASE ArchiveReservation(r) \/ RestoreReservation(r)
    BY <2>2 DEF ArchiveReservation, RestoreReservation, OneLive, ArchivedClosed, TypeOK, ResvRow
  <2>3. ASSUME NEW n \in Conn, NEW c \in Copy, PrepareReservation(n, r, c)
        PROVE  resvs'[r].status = "ready" /\ ~resvs'[r].archived /\ IsLive(resvs[r])
    BY <2>3 DEF PrepareReservation, IsLive, IsOpen, TypeOK, ResvRow
  <2>4. ASSUME NEW n \in Conn, NEW c \in Copy, NEW l \in Loan, BorrowReserved(n, c, r, l)
        PROVE  resvs'[r].status = "fulfilled"
    BY <2>4 DEF BorrowReserved, TypeOK, ResvRow
  <2> QED
    BY <2>1, <2>2, <2>3, <2>4
<1> QED
  BY <1>1, <1>2, <1>3 DEF NoNewReservation, IsLive, IsOpen, OneLive, ArchivedClosed

(* A placement is refused when the patron has a live reservation.          *)
LEMMA PlacedReservation ==
  ASSUME TypeOK, OneLive, NEW n \in Conn, NEW b \in Book, NEW r \in Resv, PlaceReservation(n, b, r)
  PROVE  OneLive'
<1>1. \A q \in Resv : q # r => resvs'[q] = resvs[q]
  BY DEF PlaceReservation, TypeOK
<1>2. resvs'[r].user = req[n].user /\ resvs'[r].status = "pending" /\ ~resvs'[r].archived
  BY DEF PlaceReservation, NoResv, TypeOK
<1>3. \A q \in Resv : IsLive(resvs[q]) => resvs[q].user # req[n].user
  BY DEF PlaceReservation, HasLiveReservation
<1>4. now' = now
  BY DEF PlaceReservation
<1> QED
  BY <1>1, <1>2, <1>3, <1>4 DEF OneLive, OneLiveReservationPerPatron, ArchivedClosed, IsLive

LEMMA NextKeepsOneLive ==
  ASSUME TypeOK, OneLive, [Next]_vars PROVE OneLive'
<1>1. CASE UNCHANGED resvs /\ (now' = now \/ now' = now + 1)
  BY <1>1, SameReservations, NoNewReservationKeepsOne
<1>2. CASE resvs' = Expire(resvs) /\ UNCHANGED now
  BY <1>2, ExpiredReservations, NoNewReservationKeepsOne
<1>3. ASSUME NEW r \in Resv, UNCHANGED now,
             \/ CancelReservation(r) \/ ArchiveReservation(r) \/ RestoreReservation(r)
             \/ \E n \in Conn, c \in Copy : PrepareReservation(n, r, c)
             \/ \E n \in Conn, c \in Copy, l \in Loan : BorrowReserved(n, c, r, l)
      PROVE  OneLive'
  BY <1>3, WrittenReservation, NoNewReservationKeepsOne
<1>4. CASE OneTransaction
  <2>1. \/ UNCHANGED <<resvs, now>>
        \/ resvs' = Expire(resvs) /\ UNCHANGED now
        \/ \E r \in Resv : UNCHANGED now /\ (CancelReservation(r) \/ ArchiveReservation(r) \/ RestoreReservation(r))
    BY <1>4
    DEF OneTransaction, ReservationExpiryJob, ReturnBook, UndoBorrow, UndoReturn, ArchiveLoan, RestoreLoan,
        ReduceCopies, CancelReservation, ArchiveReservation, RestoreReservation
  <2> QED
    BY <2>1, <1>1, <1>2, <1>3
<1>5. ASSUME NEW n \in Conn, Begin(n) PROVE OneLive'
  BY <1>5, <1>1, <1>2 DEF Begin, SyncOpen, SweepForPrepare, OpenCopyChange
<1>6. ASSUME NEW n \in Conn, Continue(n) PROVE OneLive'
  <2>1. \/ UNCHANGED <<resvs, now>>
        \/ resvs' = Expire(resvs) /\ UNCHANGED now
        \/ \E r \in Resv, c \in Copy, l \in Loan : UNCHANGED now /\ BorrowReserved(n, c, r, l)
        \/ \E b \in Book, r \in Resv : PlaceReservation(n, b, r)
        \/ \E r \in Resv, c \in Copy : UNCHANGED now /\ PrepareReservation(n, r, c)
    BY <1>6
    DEF Continue, SyncCommit, SweepForReserve, OpenForPatron, OpenPrepare, Abort, BorrowWalkIn, BorrowReserved,
        PrepareReservation, RenewLoan, RetireCopy, ReinstateCopy
  <2> QED
    BY <2>1, <1>1, <1>2, <1>3, PlacedReservation
<1> QED
  BY <1>1, <1>4, <1>5, <1>6 DEF Next, Tick, vars

(* A patron never has two live reservations, although no unique key says   *)
(* so: the check is a FOR UPDATE read under the patron's lock, and no      *)
(* other step brings a reservation to life.                                *)
THEOREM OneLiveReservation == Spec => []OneLiveReservationPerPatron
<1>1. Init => OneLive
  BY DEF Init, OneLive, OneLiveReservationPerPatron, ArchivedClosed, IsLive, IsOpen, NoResv
<1>2. TypeOK /\ OneLive /\ [Next]_vars => OneLive'
  BY NextKeepsOneLive
<1>3. OneLive => OneLiveReservationPerPatron
  BY DEF OneLive
<1> QED
  BY <1>1, <1>2, <1>3, TypeCorrect, PTL DEF Spec

(* ------------------------------------------------------- the loans past due *)

(* What the columns of a loan say together: the date of return stays on an *)
(* archived row, and on a returned one that the sweep marked.              *)
RowsConsistent ==
  \A l \in Loan :
    /\ loans[l].status = "none" => loans[l].user = Nobody
    /\ loans[l].status = "returned" => loans[l].returned
    /\ loans[l].archived => loans[l].returned

NotGivenBack(row) == IsOut(row) /\ ~row.returned

(* A loan not given back after a step was not given back before it, or has *)
(* a deadline that was set by the step or is still ahead.                  *)
DeadlinesFresh ==
  \A l \in Loan : NotGivenBack(loans'[l]) /\ loans'[l].user # Nobody =>
    \/ loans'[l].due >= now
    \/ /\ NotGivenBack(loans[l])
       /\ loans'[l].user = loans[l].user /\ loans'[l].due = loans[l].due
       /\ loans'[l].status = loans[l].status \/ loans'[l].status = "overdue"

LEMMA SameLoansFresh ==
  ASSUME RowsConsistent, UNCHANGED loans PROVE DeadlinesFresh /\ RowsConsistent'
  BY DEF RowsConsistent, DeadlinesFresh

LEMMA LendFresh ==
  ASSUME TypeOK, RowsConsistent, NEW u \in User, NEW c, NEW l \in Loan, NEW tokens, Lend(u, c, l, tokens)
  PROVE  DeadlinesFresh /\ RowsConsistent'
<1>1. /\ loans'[l].due = now + LoanPeriod /\ loans'[l].status = "borrowed"
      /\ ~loans'[l].returned /\ ~loans'[l].archived
  BY DEF Lend, NoLoan, TypeOK
<1>2. \A k \in Loan : k # l => loans'[k] = loans[k]
  BY DEF Lend, TypeOK
<1>3. now + LoanPeriod >= now
  BY BoundsAssumption DEF TypeOK
<1> QED
  BY <1>1, <1>2, <1>3 DEF DeadlinesFresh, RowsConsistent

LEMMA LoanStepFresh ==
  ASSUME TypeOK, RowsConsistent, NEW l \in Loan,
         \/ ReturnBook(l) \/ UndoBorrow(l) \/ UndoReturn(l) \/ ArchiveLoan(l) \/ RestoreLoan(l)
         \/ \E n \in Conn : RenewLoan(n, l)
  PROVE  DeadlinesFresh /\ RowsConsistent'
<1>1. loans[l].due \in Nat /\ now \in Nat /\ now + LoanPeriod >= now
  BY BoundsAssumption DEF TypeOK, LoanRow
<1>2. \A k \in Loan : k # l => loans'[k] = loans[k]
  BY DEF ReturnBook, UndoBorrow, UndoReturn, ArchiveLoan, RestoreLoan, RenewLoan, TypeOK
<1>3. CASE ReturnBook(l) \/ UndoBorrow(l)
  <2>1. loans'[l].status = "returned" /\ loans'[l].returned
    BY <1>3 DEF ReturnBook, UndoBorrow, TypeOK, LoanRow
  <2> QED
    BY <1>2, <2>1 DEF DeadlinesFresh, RowsConsistent, NotGivenBack
<1>4. CASE ArchiveLoan(l) \/ RestoreLoan(l)
  <2>1. loans'[l].status = loans[l].status /\ loans'[l].returned /\ loans'[l].user = loans[l].user
    BY <1>4 DEF ArchiveLoan, RestoreLoan, RowsConsistent, TypeOK, LoanRow
  <2> QED
    BY <1>2, <2>1 DEF DeadlinesFresh, RowsConsistent, NotGivenBack
<1>5. CASE UndoReturn(l)
  <2>1. loans'[l].status = "borrowed" /\ loans'[l].due >= now /\ ~loans'[l].archived
    BY <1>1, <1>5 DEF UndoReturn, TypeOK, LoanRow
  <2> QED
    BY <1>2, <2>1 DEF DeadlinesFresh, RowsConsistent
<1>6. ASSUME NEW n \in Conn, RenewLoan(n, l) PROVE DeadlinesFresh /\ RowsConsistent'
  <2>1. loans'[l].status = "borrowed" /\ loans'[l].due >= now /\ ~loans'[l].archived
    BY <1>1, <1>6 DEF RenewLoan, IsOut, TypeOK, LoanRow
  <2> QED
    BY <1>2, <2>1 DEF DeadlinesFresh, RowsConsistent
<1> QED
  BY <1>3, <1>4, <1>5, <1>6

LEMMA MarkFresh ==
  ASSUME TypeOK, RowsConsistent, NEW n \in Conn, SyncCommit(n) PROVE DeadlinesFresh /\ RowsConsistent'
<1>1. ASSUME NEW l \in Loan
      PROVE  /\ loans'[l].user = loans[l].user /\ loans'[l].due = loans[l].due
             /\ loans'[l].returned = loans[l].returned /\ loans'[l].archived = loans[l].archived
             /\ loans'[l].status = loans[l].status \/ loans'[l].status = "overdue"
  BY DEF SyncCommit, MarkOverdue, TypeOK, LoanRow
<1>2. \A l \in Loan : loans[l].status \in {"none", "borrowed", "overdue", "returned"}
  BY DEF TypeOK, LoanRow
<1> QED
  BY <1>1, <1>2 DEF DeadlinesFresh, RowsConsistent, NotGivenBack, IsOut

LEMMA NextFresh ==
  ASSUME TypeOK, RowsConsistent, [Next]_vars,
         \A n \in Conn : req[n].kind = "borrow" => req[n].user \in User
  PROVE  DeadlinesFresh /\ RowsConsistent'
<1>1. CASE UNCHANGED loans
  BY <1>1, SameLoansFresh
<1>2. CASE OneTransaction
  BY <1>1, <1>2, LoanStepFresh
  DEF OneTransaction, ReservationExpiryJob, CancelReservation, ArchiveReservation, RestoreReservation, ReduceCopies
<1>3. ASSUME NEW n \in Conn, Continue(n) PROVE DeadlinesFresh /\ RowsConsistent'
  <2>1. CASE SyncCommit(n)
    BY <2>1, MarkFresh
  <2>2. CASE \E l \in Loan : RenewLoan(n, l)
    BY <2>2, LoanStepFresh
  <2>3. CASE \E c \in Copy, l \in Loan, tokens \in SUBSET {"borrow"} :
               At(n, "open", "borrow") /\ Lend(req[n].user, c, l, tokens)
    BY <2>3, LendFresh DEF At
  <2>4. ASSUME NEW c \in Copy, NEW l \in Loan, NEW r \in Resv, BorrowWalkIn(n, c, l) \/ BorrowReserved(n, c, r, l)
        PROVE  \E tokens \in SUBSET {"borrow"} : At(n, "open", "borrow") /\ Lend(req[n].user, c, l, tokens)
    BY <2>4 DEF BorrowWalkIn, BorrowReserved
  <2>5. ASSUME NEW c \in Copy, NEW l \in Loan, BorrowWalkIn(n, c, l)
        PROVE  \E tokens \in SUBSET {"borrow"} : At(n, "open", "borrow") /\ Lend(req[n].user, c, l, tokens)
    BY <2>5 DEF BorrowWalkIn
  <2> QED
    BY <1>1, <1>3, <2>1, <2>2, <2>3, <2>4, <2>5
    DEF Continue, SweepForReserve, OpenForPatron, OpenPrepare, Abort, PlaceReservation, PrepareReservation,
        RetireCopy, ReinstateCopy
<1> QED
  BY <1>1, <1>2, <1>3 DEF Next, Begin, SyncOpen, SweepForPrepare, OpenCopyChange, Tick, vars

(* ------------------------------------------- what a request in progress knows *)

PastDue(n, l) == NotGivenBack(loans[l]) /\ loans[l].user = req[n].user /\ loans[l].due < req[n].began

(* A loan past due when the request came in is on the list of its sweep,   *)
(* then marked, and then the request does not get past its eligibility     *)
(* check.                                                                  *)
PastDueSeen(n) ==
  req[n].kind = "borrow" =>
    /\ req[n].user \in User
    /\ req[n].began <= now
    /\ req[n].stage \in {"marking", "begin", "open"}
    /\ \A l \in Loan : PastDue(n, l) =>
         \/ req[n].stage = "marking" /\ (loans[l].status = "overdue" \/ req[n].snap.due[l] = loans[l].due)
         \/ req[n].stage = "begin" /\ loans[l].status = "overdue"

CheckoutInv == RowsConsistent /\ \A n \in Conn : PastDueSeen(n)

LEMMA PastDueBefore ==
  ASSUME TypeOK, TypeOK', DeadlinesFresh, NEW n \in Conn, PastDueSeen(n), req[n].kind = "borrow",
         req'[n].user = req[n].user, req'[n].began = req[n].began, NEW l \in Loan, PastDue(n, l)'
  PROVE  /\ PastDue(n, l)
         /\ loans'[l].due = loans[l].due
         /\ loans'[l].status = loans[l].status \/ loans'[l].status = "overdue"
<1>1. NotGivenBack(loans'[l]) /\ loans'[l].user = req[n].user /\ loans'[l].due < req[n].began
  BY DEF PastDue, NotGivenBack, IsOut
<1>2. loans'[l].user # Nobody
  BY <1>1, NullAssumption DEF PastDueSeen
<1>3. ~(loans'[l].due >= now)
  <2>1. req[n].began \in Nat /\ now \in Nat /\ req[n].began <= now /\ loans'[l].due \in Nat
    BY BoundsAssumption DEF PastDueSeen, TypeOK, Request, LoanRow
  <2> QED
    BY <1>1, <2>1
<1> QED
  BY <1>1, <1>2, <1>3 DEF DeadlinesFresh, PastDue

(* A request that does not move keeps what it knows; the clock and the     *)
(* other requests cannot make a loan past due before it came in.           *)
LEMMA WaitingSees ==
  ASSUME TypeOK, TypeOK', DeadlinesFresh, NEW n \in Conn, PastDueSeen(n), req'[n] = req[n],
         now' = now \/ now' = now + 1
  PROVE  PastDueSeen(n)'
<1>1. CASE req[n].kind # "borrow"
  BY <1>1 DEF PastDueSeen
<1>2. CASE req[n].kind = "borrow"
  <2>1. req[n].began <= now'
    BY <1>2, BoundsAssumption DEF PastDueSeen, TypeOK, Request
  <2>2. ASSUME NEW l \in Loan, PastDue(n, l)'
        PROVE  \/ req[n].stage = "marking" /\ (loans'[l].status = "overdue" \/ req[n].snap.due[l] = loans'[l].due)
               \/ req[n].stage = "begin" /\ loans'[l].status = "overdue"
    BY <1>2, <2>2, PastDueBefore DEF PastDueSeen
  <2> QED
    BY <1>2, <2>1, <2>2 DEF PastDueSeen
<1> QED
  BY <1>1, <1>2

LEMMA ArrivingSees ==
  ASSUME TypeOK, NEW n \in Conn, NEW u \in User, SyncOpen(n, "borrow", u) PROVE PastDueSeen(n)'
<1>1. req'[n] = [stage |-> "marking", kind |-> "borrow", user |-> u, snap |-> OverdueCandidates, began |-> now]
  BY DEF SyncOpen, TypeOK
<1>2. \A l \in Loan : IsOut(loans[l]) => loans[l].status = "overdue" \/ OverdueCandidates.due[l] = loans[l].due
  BY DEF OverdueCandidates, NoSnap, IsOut
<1>3. UNCHANGED <<loans, now>> /\ now \in Nat
  BY BoundsAssumption DEF SyncOpen, TypeOK
<1> QED
  BY <1>1, <1>2, <1>3 DEF PastDueSeen, PastDue, NotGivenBack, IsOut

(* The sweep of a checkout marks what was on its list and is still there.  *)
LEMMA MarkingSees ==
  ASSUME TypeOK, TypeOK', DeadlinesFresh, NEW n \in Conn, PastDueSeen(n), SyncCommit(n) PROVE PastDueSeen(n)'
<1>1. \/ req'[n].kind # "borrow"
      \/ req[n].kind = "borrow" /\ req'[n] = [req[n] EXCEPT !.stage = "begin", !.snap = NoSnap]
  <2>1. CASE req[n].kind = "overdue"
    BY <2>1 DEF SyncCommit, Finish, Idle, TypeOK
  <2>2. CASE req[n].kind # "overdue"
    <3>1. PICK stage \in {"sweep", "begin"} :
            /\ req[n].kind = "borrow" => stage = "begin"
            /\ req' = [req EXCEPT ![n] = [req[n] EXCEPT !.stage = stage, !.snap = NoSnap]]
      <4>1. CASE req[n].kind = "reserve"
        BY <2>2, <4>1 DEF SyncCommit, TypeOK, Request
      <4>2. CASE req[n].kind # "reserve"
        BY <2>2, <4>2 DEF SyncCommit, TypeOK, Request
      <4> QED
        BY <4>1, <4>2
    <3>2. req'[n] = [req[n] EXCEPT !.stage = stage, !.snap = NoSnap]
      BY <3>1 DEF TypeOK
    <3>3. req'[n].kind = req[n].kind
      BY <3>2 DEF TypeOK, Request
    <3> QED
      BY <3>1, <3>2, <3>3
  <2> QED
    BY <2>1, <2>2
<1>2. CASE req'[n].kind # "borrow"
  BY <1>2 DEF PastDueSeen
<1>3. CASE req[n].kind = "borrow" /\ req'[n] = [req[n] EXCEPT !.stage = "begin", !.snap = NoSnap]
  <2>1. /\ req'[n].stage = "begin" /\ req'[n].kind = "borrow"
        /\ req'[n].user = req[n].user /\ req'[n].began = req[n].began
    BY <1>3 DEF TypeOK, Request
  <2>2. ASSUME NEW l \in Loan, PastDue(n, l)' PROVE loans'[l].status = "overdue"
    <3>1. PastDue(n, l)
      BY <1>3, <2>1, <2>2, PastDueBefore
    <3>2. loans[l].status = "overdue" \/ req[n].snap.due[l] = loans[l].due
      BY <1>3, <3>1 DEF PastDueSeen, SyncCommit
    <3>3. loans[l].due < now
      <4>1. loans[l].due \in Nat /\ req[n].began \in Nat /\ now \in Nat
        BY BoundsAssumption DEF TypeOK, Request, LoanRow
      <4> QED
        BY <1>3, <3>1, <4>1 DEF PastDue, PastDueSeen
    <3> QED
      BY <3>2, <3>3 DEF SyncCommit, MarkOverdue, TypeOK, LoanRow
  <2>3. req'[n].began <= now'
    BY <1>3, <2>1 DEF PastDueSeen, SyncCommit
  <2> QED
    BY <1>3, <2>1, <2>2, <2>3 DEF PastDueSeen
<1> QED
  BY <1>1, <1>2, <1>3

(* The eligibility check lets nobody through who has a loan marked.        *)
LEMMA EligibilitySees ==
  ASSUME TypeOK, NEW n \in Conn, PastDueSeen(n), OpenForPatron(n) PROVE PastDueSeen(n)'
<1>1. CASE req'[n].kind # "borrow"
  BY <1>1 DEF PastDueSeen
<1>2. CASE req'[n].kind = "borrow"
  <2>1. /\ req'[n].stage = "open" /\ req'[n].user = req[n].user /\ req'[n].began = req[n].began
        /\ req[n].kind = "borrow" /\ req[n].stage = "begin" /\ UNCHANGED <<loans, now>>
    BY <1>2 DEF OpenForPatron, At, TypeOK, Request
  <2>2. \A l \in Loan : ~PastDue(n, l)
    BY <2>1 DEF PastDueSeen, PastDue, NotGivenBack, IsOut, OpenForPatron, Eligible
  <2> QED
    BY <2>1, <2>2 DEF PastDueSeen, PastDue, NotGivenBack, IsOut
<1> QED
  BY <1>1, <1>2

(* How a step moves a request.                                             *)
LEMMA RequestMoves ==
  ASSUME TypeOK, [Next]_vars, NEW n \in Conn
  PROVE  \/ req'[n] = req[n] /\ (now' = now \/ now' = now + 1)
         \/ req'[n].kind # "borrow"
         \/ \E u \in User : SyncOpen(n, "borrow", u)
         \/ SyncCommit(n) \/ OpenForPatron(n)
<1>1. CASE UNCHANGED <<req, now>> \/ Tick
  BY <1>1 DEF Tick
<1>2. CASE OneTransaction
  BY <1>2
  DEF OneTransaction, ReservationExpiryJob, ReturnBook, UndoBorrow, UndoReturn, ArchiveLoan, RestoreLoan,
      CancelReservation, ArchiveReservation, RestoreReservation, ReduceCopies
<1>3. ASSUME NEW m \in Conn, Begin(m)
      PROVE  \/ req'[n] = req[n] /\ now' = now
             \/ req'[n].kind # "borrow"
             \/ \E u \in User : SyncOpen(n, "borrow", u)
  <2>1. now' = now /\ (m # n => req'[n] = req[n])
    BY <1>3 DEF Begin, SyncOpen, SweepForPrepare, OpenCopyChange, TypeOK
  <2>2. ASSUME NEW kind, NEW u, kind # "borrow", SyncOpen(n, kind, u) PROVE req'[n].kind # "borrow"
    BY <2>2 DEF SyncOpen, TypeOK
  <2>3. ASSUME SweepForPrepare(n) PROVE req'[n].kind # "borrow"
    BY <2>3 DEF SweepForPrepare, Idle, TypeOK
  <2>4. ASSUME NEW kind \in {"retire", "reinstate"}, OpenCopyChange(n, kind) PROVE req'[n].kind # "borrow"
    BY <2>4 DEF OpenCopyChange, Idle, TypeOK
  <2> QED
    BY <1>3, <2>1, <2>2, <2>3, <2>4 DEF Begin
<1>4. ASSUME NEW m \in Conn, Continue(m)
      PROVE  \/ req'[n] = req[n] /\ now' = now
             \/ req'[n].kind # "borrow"
             \/ SyncCommit(n) \/ OpenForPatron(n)
  <2>1. now' = now /\ (m # n => req'[n] = req[n])
    BY <1>4
    DEF Continue, SyncCommit, SweepForReserve, OpenForPatron, OpenPrepare, Abort, BorrowWalkIn, BorrowReserved,
        PlaceReservation, PrepareReservation, RenewLoan, RetireCopy, ReinstateCopy, Finish, TypeOK
  <2>2. ASSUME Finish(n) PROVE req'[n].kind # "borrow"
    BY <2>2 DEF Finish, Idle, TypeOK
  <2>3. ASSUME SweepForReserve(n) \/ OpenPrepare(n) PROVE req'[n].kind # "borrow"
    BY <2>3 DEF SweepForReserve, OpenPrepare, At, TypeOK, Request
  <2> QED
    BY <1>4, <2>1, <2>2, <2>3
    DEF Continue, Abort, BorrowWalkIn, BorrowReserved, PlaceReservation, PrepareReservation, RenewLoan, RetireCopy,
        ReinstateCopy
<1> QED
  BY <1>1, <1>2, <1>3, <1>4 DEF Next, vars

LEMMA NextSees ==
  ASSUME TypeOK, TypeOK', CheckoutInv, [Next]_vars PROVE CheckoutInv'
<1>1. DeadlinesFresh /\ RowsConsistent'
  BY NextFresh DEF CheckoutInv, PastDueSeen
<1>2. ASSUME NEW n \in Conn PROVE PastDueSeen(n)'
  <2>1. CASE req'[n].kind # "borrow"
    BY <2>1 DEF PastDueSeen
  <2> QED
    BY <1>1, <2>1, RequestMoves, WaitingSees, ArrivingSees, MarkingSees, EligibilitySees DEF CheckoutInv
<1> QED
  BY <1>1, <1>2 DEF CheckoutInv

(* No checkout commits for a patron who has not given back a loan that was *)
(* past due when the request came in, however the sweep, the renewals, the *)
(* returns and the other checkouts interleave.                             *)
THEOREM CheckoutSeesPastDue == Spec => NoCheckoutWhilePastDue
<1>1. Init => CheckoutInv
  BY DEF Init, CheckoutInv, RowsConsistent, PastDueSeen, NoLoan, Idle
<1>2. TypeOK /\ TypeOK' /\ CheckoutInv /\ [Next]_vars => CheckoutInv'
  BY NextSees
<1>3. ASSUME TypeOK, CheckoutInv, NEW n \in Conn, At(n, "open", "borrow"),
             NEW k \in Loan, IsOut(loans[k]), ~loans[k].returned, loans[k].user = req[n].user
      PROVE  loans[k].due >= req[n].began
  <2>1. ~(loans[k].due < req[n].began)
    BY <1>3 DEF CheckoutInv, PastDueSeen, PastDue, NotGivenBack, At
  <2>2. loans[k].due \in Nat /\ req[n].began \in Nat
    BY <1>3, BoundsAssumption DEF TypeOK, LoanRow, Request
  <2> QED
    BY <2>1, <2>2
<1>4. TypeOK /\ CheckoutInv =>
        [\A n \in Conn, l \in Loan :
           At(n, "open", "borrow") /\ loans[l].status = "none" /\ loans'[l].status # "none" /\ req'[n] = Idle =>
             \A k \in Loan : IsOut(loans[k]) /\ ~loans[k].returned /\ loans[k].user = req[n].user =>
                              loans[k].due >= req[n].began]_vars
  BY <1>3
<1> QED
  BY <1>1, <1>2, <1>4, TypeCorrect, PTL DEF Spec, NoCheckoutWhilePastDue

(* ---------------------------------------------------- the shelf it lends from *)

(* The list a sweep marks from names loans only: it makes none.            *)
CandidatesAreLoans ==
  \A n \in Conn, l \in Loan : req[n].snap.due[l] < Never => loans[l].status # "none"

LEMMA NoCandidate == NoSnap \in SnapRow /\ \A l \in Loan : ~(NoSnap.due[l] < Never)
<1>1. Never \in Nat
  BY BoundsAssumption DEF Never
<1> QED
  BY <1>1, RowTypes DEF NoSnap

(* What a step can put in the snapshot of a request.                       *)
LEMMA SnapshotMoves ==
  ASSUME TypeOK, [Next]_vars, NEW n \in Conn
  PROVE  req'[n].snap.due \in {req[n].snap.due, NoSnap.due, OverdueCandidates.due}
<1> DEFINE Lists == {req[n].snap.due, NoSnap.due, OverdueCandidates.due}
<1>1. CASE UNCHANGED req
  BY <1>1
<1>2. Snapshot.due = NoSnap.due /\ Idle.snap = NoSnap
  BY DEF Snapshot, NoSnap, Idle
<1>3. ASSUME NEW m \in Conn, Begin(m) PROVE req'[n].snap.due \in Lists
  <2>1. m # n => req'[n] = req[n]
    BY <1>3 DEF Begin, SyncOpen, SweepForPrepare, OpenCopyChange, TypeOK
  <2>2. ASSUME NEW kind, NEW u, SyncOpen(n, kind, u) PROVE req'[n].snap = OverdueCandidates
    BY <2>2 DEF SyncOpen, TypeOK
  <2>3. ASSUME SweepForPrepare(n) PROVE req'[n].snap = NoSnap
    BY <2>3 DEF SweepForPrepare, Idle, TypeOK
  <2>4. ASSUME NEW kind, OpenCopyChange(n, kind) PROVE req'[n].snap = Snapshot
    BY <2>4 DEF OpenCopyChange, Idle, TypeOK
  <2> QED
    BY <1>2, <1>3, <2>1, <2>2, <2>3, <2>4 DEF Begin
<1>4. ASSUME NEW m \in Conn, Continue(m) PROVE req'[n].snap.due \in Lists
  <2>1. m # n => req'[n] = req[n]
    BY <1>4
    DEF Continue, SyncCommit, SweepForReserve, OpenForPatron, OpenPrepare, Abort, BorrowWalkIn, BorrowReserved,
        PlaceReservation, PrepareReservation, RenewLoan, RetireCopy, ReinstateCopy, Finish, TypeOK
  <2>2. ASSUME Finish(n) PROVE req'[n].snap = NoSnap
    BY <1>2, <2>2 DEF Finish, TypeOK
  <2>3. ASSUME SyncCommit(n), ~Finish(n) PROVE req'[n].snap = NoSnap
    <3>1. \E stage : req' = [req EXCEPT ![n] = [req[n] EXCEPT !.stage = stage, !.snap = NoSnap]]
      BY <2>3 DEF SyncCommit, TypeOK
    <3> QED
      BY <3>1 DEF TypeOK, Request
  <2>4. ASSUME SweepForReserve(n) PROVE req'[n].snap = req[n].snap
    BY <2>4 DEF SweepForReserve, TypeOK, Request
  <2>5. ASSUME OpenForPatron(n) \/ OpenPrepare(n) PROVE req'[n].snap = Snapshot
    BY <2>5 DEF OpenForPatron, OpenPrepare, TypeOK, Request
  <2> QED
    BY <1>2, <1>4, <2>1, <2>2, <2>3, <2>4, <2>5
    DEF Continue, Abort, BorrowWalkIn, BorrowReserved, PlaceReservation, PrepareReservation, RenewLoan, RetireCopy,
        ReinstateCopy
<1> QED
  BY <1>1, <1>3, <1>4
  DEF Next, OneTransaction, ReservationExpiryJob, ReturnBook, UndoBorrow, UndoReturn, ArchiveLoan, RestoreLoan,
      CancelReservation, ArchiveReservation, RestoreReservation, ReduceCopies, Tick, vars

LEMMA NextKeepsCandidates ==
  ASSUME TypeOK, CandidatesAreLoans, [Next]_vars PROVE CandidatesAreLoans'
<1>1. \A l \in Loan : OverdueCandidates.due[l] < Never => loans[l].status # "none"
  BY NoCandidate DEF OverdueCandidates, NoSnap
<1>2. ASSUME NEW n \in Conn, NEW l \in Loan, req'[n].snap.due[l] < Never PROVE loans'[l].status # "none"
  <2>1. loans[l].status # "none"
    BY <1>1, <1>2, SnapshotMoves, NoCandidate DEF CandidatesAreLoans
  <2> QED
    BY <2>1, NextKept DEF LoansKept
<1> QED
  BY <1>2 DEF CandidatesAreLoans, Never

(* A new loan is of an active copy that is not held for somebody else.     *)
NewLoansFromTheShelf ==
  \A l \in Loan : loans[l].status = "none" /\ loans'[l].status # "none" =>
    /\ loans'[l].copy \in active
    /\ \A r \in HoldsOn(resvs, loans'[l].copy) : resvs[r].user = loans'[l].user

LEMMA LentLoan ==
  ASSUME TypeOK, NEW u, NEW c \in active, NEW l \in Loan, NEW tokens, Lend(u, c, l, tokens),
         \A r \in HoldsOn(resvs, c) : resvs[r].user = u
  PROVE  NewLoansFromTheShelf
<1>1. loans'[l].user = u /\ loans'[l].copy = c
  BY DEF Lend, NoLoan, TypeOK
<1>2. \A k \in Loan : k # l => loans'[k] = loans[k]
  BY DEF Lend, TypeOK
<1> QED
  BY <1>1, <1>2 DEF NewLoansFromTheShelf

LEMMA NoLentLoan ==
  ASSUME TypeOK, CandidatesAreLoans, NEW l \in Loan, loans[l].status = "none", loans'[l].status # "none", [Next]_vars
  PROVE  \E n \in Conn, c \in Copy, k \in Loan : BorrowWalkIn(n, c, k) \/ \E r \in Resv : BorrowReserved(n, c, r, k)
<1>1. loans' # loans
  OBVIOUS
<1>2. ASSUME NEW k \in Loan,
             \/ ReturnBook(k) \/ UndoBorrow(k) \/ UndoReturn(k) \/ ArchiveLoan(k) \/ RestoreLoan(k)
             \/ \E n \in Conn : RenewLoan(n, k)
      PROVE  FALSE
  <2>1. CASE k # l
    BY <1>2, <2>1
    DEF ReturnBook, UndoBorrow, UndoReturn, ArchiveLoan, RestoreLoan, RenewLoan, TypeOK
  <2>2. CASE k = l
    BY <1>2, <2>2
    DEF ReturnBook, UndoBorrow, UndoReturn, ArchiveLoan, RestoreLoan, RenewLoan, IsOut, TypeOK, LoanRow
  <2> QED
    BY <2>1, <2>2
<1>3. ASSUME NEW n \in Conn, SyncCommit(n) PROVE FALSE
  <2>1. ~(req[n].snap.due[l] < Never)
    BY DEF CandidatesAreLoans
  <2>2. now \in Nat /\ Never \in Nat /\ now <= Never /\ req[n].snap.due[l] \in Nat
    BY BoundsAssumption DEF Never, TypeOK, Request, SnapRow
  <2> QED
    BY <1>3, <2>1, <2>2 DEF SyncCommit, MarkOverdue
<1> QED
  BY <1>1, <1>2, <1>3
  DEF Next, OneTransaction, ReservationExpiryJob, CancelReservation, ArchiveReservation, RestoreReservation,
      ReduceCopies, Begin, SyncOpen, SweepForPrepare, OpenCopyChange, Continue, SweepForReserve, OpenForPatron,
      OpenPrepare, Abort, PlaceReservation, PrepareReservation, RetireCopy, ReinstateCopy, Tick, vars

LEMMA NextLends ==
  ASSUME TypeOK, CandidatesAreLoans, [Next]_vars PROVE NewLoansFromTheShelf
<1>1. ASSUME NEW n \in Conn, NEW c \in Copy, NEW k \in Loan, BorrowWalkIn(n, c, k) PROVE NewLoansFromTheShelf
  BY <1>1, LentLoan DEF BorrowWalkIn, CanLend
<1>2. ASSUME NEW n \in Conn, NEW c \in Copy, NEW k \in Loan, NEW r \in Resv, BorrowReserved(n, c, r, k)
      PROVE  NewLoansFromTheShelf
  BY <1>2, LentLoan DEF BorrowReserved, CanLend
<1> QED
  BY <1>1, <1>2, NoLentLoan DEF NewLoansFromTheShelf

(* A checkout that commits finds its copy active, and not on the hold      *)
(* shelf for another patron, at that moment.                               *)
THEOREM CheckoutFromTheShelf == Spec => LentFromTheShelf
<1>1. Init => CandidatesAreLoans
  BY NoCandidate DEF Init, CandidatesAreLoans, Idle
<1>2. TypeOK /\ CandidatesAreLoans /\ [Next]_vars => CandidatesAreLoans'
  BY NextKeepsCandidates
<1>3. TypeOK /\ CandidatesAreLoans /\ [Next]_vars => NewLoansFromTheShelf
  BY NextLends
<1> QED
  BY <1>1, <1>2, <1>3, TypeCorrect, PTL DEF Spec, LentFromTheShelf, NewLoansFromTheShelf

(* ------------------------------------------ requests that do not overlap *)

(* While a request is under way nothing else commits: what it has read is  *)
(* still so.                                                               *)
OneAtATime == \A m, n \in Conn : req[m].stage # "idle" /\ req[n].stage # "idle" => m = n
SnapsCurrent ==
  \A n \in Conn : /\ req[n].stage = "open" => req[n].snap = Snapshot
                  /\ req[n].stage = "marking" => req[n].snap = OverdueCandidates

(* A loan in the archive was given back.                                   *)
ArchivedReturned == \A l \in Loan : loans[l].archived => loans[l].status = "returned"

ReadsCurrent == OneAtATime /\ SnapsCurrent
SerialInv == TypeOK /\ OneLive /\ ReadsCurrent /\ ArchivedReturned /\ PendingCovered /\ CopiesInOnePlace

(* What is free and who waits, by the tables as they are.                  *)
Free(b) == Available(b, active, OutCopies(loans), resvs)
Waiting(b) == PendingFor(resvs, b)

LEMMA FreeAndWaiting ==
  /\ TypeOK => \A b : IsFiniteSet(Free(b)) /\ IsFiniteSet(Waiting(b)) /\ Free(b) \subseteq Copy
  /\ TypeOK' => \A b : IsFiniteSet(Free(b)') /\ IsFiniteSet(Waiting(b)') /\ Free(b)' \subseteq Copy
<1>1. ASSUME NEW b, TypeOK PROVE IsFiniteSet(Free(b)) /\ IsFiniteSet(Waiting(b)) /\ Free(b) \subseteq Copy
  <2>1. Free(b) \in SUBSET Copy /\ Waiting(b) \in SUBSET Resv
    BY <1>1 DEF Free, Waiting, Available, PendingFor, TypeOK
  <2> QED
    BY <2>1, TablesAssumption, FS_Subset
<1>2. ASSUME NEW b, TypeOK' PROVE IsFiniteSet(Free(b)') /\ IsFiniteSet(Waiting(b)') /\ Free(b)' \subseteq Copy
  <2>1. Free(b)' \in SUBSET Copy /\ Waiting(b)' \in SUBSET Resv
    BY <1>2 DEF Free, Waiting, Available, PendingFor, TypeOK
  <2> QED
    BY <2>1, TablesAssumption, FS_Subset
<1> QED
  BY <1>1, <1>2

LEMMA Covered == PendingCovered <=> \A b \in Book : Cardinality(Free(b)) >= Cardinality(Waiting(b))
  BY DEF PendingCovered, Free, Waiting

LEMMA CoveredNext == PendingCovered' <=> \A b \in Book : Cardinality(Free(b)') >= Cardinality(Waiting(b)')
  BY DEF PendingCovered, Free, Waiting

LEMMA MoreForFewer ==
  ASSUME NEW A, NEW P, NEW B, NEW Q, IsFiniteSet(B), IsFiniteSet(P), A \subseteq B, Q \subseteq P,
         Cardinality(A) >= Cardinality(P)
  PROVE  Cardinality(B) >= Cardinality(Q)
<1>1. IsFiniteSet(A) /\ Cardinality(A) <= Cardinality(B)
  BY FS_Subset
<1>2. IsFiniteSet(Q) /\ Cardinality(Q) <= Cardinality(P)
  BY FS_Subset
<1>3. Cardinality(A) \in Nat /\ Cardinality(B) \in Nat /\ Cardinality(P) \in Nat /\ Cardinality(Q) \in Nat
  BY <1>1, <1>2, FS_CardinalityType
<1> QED
  BY <1>1, <1>2, <1>3

(* A step after which no more is lent, held or waited for.                 *)
NoMoreLent == OutCopies(loans)' \subseteq OutCopies(loans)
NoMoreHeld ==
  \A r \in Resv : IsLive(resvs[r])' =>
    /\ IsLive(resvs[r]) /\ resvs'[r].status = resvs[r].status
    /\ resvs'[r].book = resvs[r].book /\ resvs'[r].copy = resvs[r].copy

LEMMA LessKeeps ==
  ASSUME SerialInv, TypeOK', active \subseteq active', NoMoreLent, NoMoreHeld
  PROVE  PendingCovered' /\ CopiesInOnePlace'
<1>1. \A c : HoldsOn(resvs, c)' \subseteq HoldsOn(resvs, c)
  BY DEF HoldsOn, NoMoreHeld
<1>2. ASSUME NEW b \in Book PROVE Cardinality(Free(b)') >= Cardinality(Waiting(b)')
  <2>1. Free(b) \subseteq Free(b)'
    BY <1>1 DEF Free, Available, NoMoreLent
  <2>2. Waiting(b)' \subseteq Waiting(b)
    BY DEF Waiting, PendingFor, NoMoreHeld
  <2> QED
    BY <2>1, <2>2, FreeAndWaiting, MoreForFewer, Covered DEF SerialInv
<1>3. CopiesInOnePlace'
  BY <1>1 DEF CopiesInOnePlace, SerialInv, NoMoreLent
<1> QED
  BY <1>2, <1>3, CoveredNext
(* ------------------------------------------------- a copy is taken away *)

(* A free copy is taken away: it is lent, or retired.  What is left covers *)
(* whoever waits.                                                          *)
LEMMA TakenKeeps ==
  ASSUME SerialInv, TypeOK', NoMoreHeld, NEW D \in SUBSET Copy,
         active' \subseteq active, active \ D \subseteq active',
         OutCopies(loans)' \subseteq OutCopies(loans) \union (D \intersect active'),
         \A c \in D : HoldsOn(resvs, c) = {} /\ (c \notin active' => c \notin OutCopies(loans)'),
         \A b \in Book : Cardinality(Free(b) \ D) >= Cardinality(Waiting(b))
  PROVE  PendingCovered' /\ CopiesInOnePlace'
<1>1. \A c : HoldsOn(resvs, c)' \subseteq HoldsOn(resvs, c)
  BY DEF HoldsOn, NoMoreHeld
<1>2. ASSUME NEW b \in Book PROVE Cardinality(Free(b)') >= Cardinality(Waiting(b)')
  <2>1. Free(b) \ D \subseteq Free(b)'
    BY <1>1 DEF Free, Available
  <2>2. Waiting(b)' \subseteq Waiting(b)
    BY DEF Waiting, PendingFor, NoMoreHeld
  <2>3. IsFiniteSet(Free(b)') /\ IsFiniteSet(Waiting(b))
    BY FreeAndWaiting DEF SerialInv
  <2> QED
    BY <2>1, <2>2, <2>3, MoreForFewer
<1>3. CopiesInOnePlace'
  <2>1. \A c \in OutCopies(loans)' : HoldsOn(resvs, c)' = {}
    BY <1>1 DEF CopiesInOnePlace, SerialInv
  <2>2. \A c \in Copy \ active' : c \notin OutCopies(loans)' /\ HoldsOn(resvs, c)' = {}
    BY <1>1 DEF CopiesInOnePlace, SerialInv
  <2> QED
    BY <2>1, <2>2 DEF CopiesInOnePlace
<1> QED
  BY <1>2, <1>3, CoveredNext

(* What a snapshot says while it is current.                               *)
LEMMA SnapshotTells ==
  ASSUME TypeOK
  PROVE  /\ Snapshot.out = OutCopies(loans) /\ Snapshot.active = active
         /\ \A c : HoldsOn(Snapshot.resvs, c) = HoldsOn(resvs, c)
         /\ \A b : PendingFor(Snapshot.resvs, b) = Waiting(b)
         /\ \A b : Available(b, active, Snapshot.out, Snapshot.resvs) = Free(b)
<1>1. /\ Snapshot.out = OutCopies(loans) /\ Snapshot.active = active
      /\ Snapshot.resvs = [r \in Resv |-> IF IsOpen(resvs[r]) THEN resvs[r] ELSE NoResv]
  BY DEF Snapshot, NoSnap
<1>2. ~IsOpen(NoResv)
  BY DEF NoResv, IsOpen
<1>3. \A r \in Resv : /\ IsLive(Snapshot.resvs[r]) <=> IsLive(resvs[r])
                      /\ IsLive(resvs[r]) => Snapshot.resvs[r] = resvs[r]
  BY <1>1, <1>2 DEF IsLive
<1>4. \A c : HoldsOn(Snapshot.resvs, c) = HoldsOn(resvs, c)
  BY <1>3 DEF HoldsOn
<1>5. \A b : PendingFor(Snapshot.resvs, b) = Waiting(b)
  BY <1>3 DEF PendingFor, Waiting
<1>6. \A b : Available(b, active, Snapshot.out, Snapshot.resvs) = Free(b)
  BY <1>1, <1>4 DEF Available, Free
<1> QED
  BY <1>1, <1>4, <1>5, <1>6

LEMMA OpenSees ==
  ASSUME SerialInv, NEW n \in Conn, req[n].stage = "open"
  PROVE  /\ req[n].snap.out = OutCopies(loans) /\ req[n].snap.active = active
         /\ \A c : HoldsOn(req[n].snap.resvs, c) = HoldsOn(resvs, c)
         /\ \A b : PendingFor(req[n].snap.resvs, b) = Waiting(b)
         /\ \A b : Available(b, active, req[n].snap.out, req[n].snap.resvs) = Free(b)
  BY SnapshotTells DEF SerialInv, ReadsCurrent, SnapsCurrent

(* What a loan that is made adds to the copies on loan.                    *)
LEMMA LendAdds ==
  ASSUME TypeOK, NEW u, NEW c, NEW l \in Loan, NEW tokens, Lend(u, c, l, tokens)
  PROVE  /\ OutCopies(loans)' = OutCopies(loans) \union {c}
         /\ \A k \in Loan : loans[k].status # "none" => loans'[k] = loans[k]
         /\ ~loans'[l].archived
<1>1. loans'[l].status = "borrowed" /\ loans'[l].copy = c /\ ~loans'[l].archived
  BY DEF Lend, NoLoan, TypeOK
<1>2. \A k \in Loan \ {l} : loans'[k] = loans[k]
  BY DEF Lend, TypeOK
<1>3. loans[l].status = "none"
  BY DEF Lend
<1>4. IsOut(loans'[l]) /\ ~IsOut(loans[l])
  BY <1>1, <1>3 DEF IsOut
<1>5. OutCopies(loans') = OutCopies(loans) \union {c}
  BY <1>1, <1>2, <1>4 DEF OutCopies
<1>6. OutCopies(loans)' = OutCopies(loans')
  BY DEF OutCopies, IsOut
<1> QED
  BY <1>1, <1>2, <1>3, <1>5, <1>6

LEMMA SameHolds == ASSUME UNCHANGED <<resvs, now>> PROVE NoMoreHeld
  BY DEF NoMoreHeld, IsLive, IsOpen

(* A copy that is not of the title is not free for it.                     *)
LEMMA FreeOfTitle == \A b : \A c \in Free(b) : BookOf[c] = b /\ c \in active /\ c \notin OutCopies(loans)
  BY DEF Free, Available

LEMMA OtherTitles ==
  ASSUME SerialInv, NEW c, NEW b \in Book, BookOf[c] # b
  PROVE  Cardinality(Free(b) \ {c}) >= Cardinality(Waiting(b))
<1>1. Free(b) \ {c} = Free(b)
  BY FreeOfTitle
<1> QED
  BY <1>1, Covered DEF SerialInv

LEMMA WalkInKeeps ==
  ASSUME SerialInv, TypeOK', NEW n \in Conn, NEW c \in Copy, NEW l \in Loan, BorrowWalkIn(n, c, l)
  PROVE  PendingCovered' /\ CopiesInOnePlace'
<1>1. req[n].stage = "open" /\ HoldsOn(resvs, c) = {} /\ c \in active /\ c \notin OutCopies(loans)
  BY DEF BorrowWalkIn, CanLend, At
<1>2. OutCopies(loans)' = OutCopies(loans) \union {c}
  BY LendAdds DEF BorrowWalkIn, SerialInv
<1>3. active' = active /\ NoMoreHeld
  BY SameHolds DEF BorrowWalkIn
<1>4. LeavesPendingCovered(c, req[n].snap)
  BY DEF BorrowWalkIn
<1>5. Cardinality(Free(BookOf[c]) \ {c}) >= Cardinality(Waiting(BookOf[c]))
  BY <1>1, <1>4, OpenSees DEF LeavesPendingCovered
<1>6. \A b \in Book : Cardinality(Free(b) \ {c}) >= Cardinality(Waiting(b))
  BY <1>5, OtherTitles
<1> QED
  BY <1>1, <1>2, <1>3, <1>6, TakenKeeps

LEMMA RetireKeeps ==
  ASSUME SerialInv, TypeOK', NEW n \in Conn, NEW c \in Copy, RetireCopy(n, c)
  PROVE  PendingCovered' /\ CopiesInOnePlace'
<1>1. req[n].stage = "open" /\ c \in active /\ active' = active \ {c}
  BY DEF RetireCopy, At
<1>2. HoldsOn(resvs, c) = {} /\ c \notin OutCopies(loans)
  BY <1>1, OpenSees DEF RetireCopy, UncommittedIn
<1>3. OutCopies(loans)' = OutCopies(loans) /\ NoMoreHeld
  BY SameHolds DEF RetireCopy, OutCopies, IsOut
<1>4. Cardinality(Free(BookOf[c]) \ {c}) >= Cardinality(Waiting(BookOf[c]))
  BY <1>1, OpenSees DEF LeavesPendingCovered, RetireCopy
<1>5. \A b \in Book : Cardinality(Free(b) \ {c}) >= Cardinality(Waiting(b))
  BY <1>4, OtherTitles
<1> QED
  BY <1>1, <1>2, <1>3, <1>5, TakenKeeps

LEMMA ReduceKeeps ==
  ASSUME SerialInv, TypeOK', NEW b \in Book, NEW D \in SUBSET Copy, ReduceCopies(b, D)
  PROVE  PendingCovered' /\ CopiesInOnePlace'
<1>1. D \subseteq Free(b) /\ Cardinality(Free(b) \ D) >= Cardinality(Waiting(b))
  BY DEF ReduceCopies, Free, Waiting
<1>2. active' = active \ D
  BY DEF ReduceCopies
<1>3. OutCopies(loans)' = OutCopies(loans) /\ NoMoreHeld
  BY SameHolds DEF ReduceCopies, OutCopies, IsOut
<1>4. \A c \in D : HoldsOn(resvs, c) = {} /\ c \notin OutCopies(loans)
  BY <1>1 DEF Free, Available
<1>5. ASSUME NEW x \in Book PROVE Cardinality(Free(x) \ D) >= Cardinality(Waiting(x))
  <2>1. CASE x # b
    <3>1. Free(x) \ D = Free(x)
      BY <1>1, <2>1, FreeOfTitle
    <3> QED
      BY <3>1, Covered DEF SerialInv
  <2> QED
    BY <1>1, <2>1
<1> QED
  BY <1>2, <1>3, <1>4, <1>5, TakenKeeps

LEMMA UndoReturnKeeps ==
  ASSUME SerialInv, TypeOK', NEW l \in Loan, UndoReturn(l)
  PROVE  PendingCovered' /\ CopiesInOnePlace'
<1> DEFINE c == loans[l].copy
<1>1. c \in active /\ HoldsOn(resvs, c) = {} /\ Waiting(BookOf[c]) = {} /\ c \in Copy
  BY DEF UndoReturn, ReturnStillReversible, Waiting, SerialInv, TypeOK
<1>2. loans'[l].copy = c /\ \A k \in Loan \ {l} : loans'[k] = loans[k]
  BY DEF UndoReturn, SerialInv, TypeOK, LoanRow
<1>3. OutCopies(loans)' \subseteq OutCopies(loans) \union {c}
  BY <1>2 DEF OutCopies, IsOut
<1>4. active' = active /\ NoMoreHeld
  BY SameHolds DEF UndoReturn
<1>5. Cardinality(Free(BookOf[c]) \ {c}) >= Cardinality(Waiting(BookOf[c]))
  <2>1. IsFiniteSet(Free(BookOf[c]) \ {c})
    BY FreeAndWaiting, FS_Subset DEF SerialInv
  <2>2. Cardinality(Free(BookOf[c]) \ {c}) \in Nat /\ Cardinality({}) = 0
    BY <2>1, FS_CardinalityType, FS_EmptySet
  <2> QED
    BY <1>1, <2>2
<1> HIDE DEF c
<1>6. \A b \in Book : Cardinality(Free(b) \ {c}) >= Cardinality(Waiting(b))
  BY <1>5, OtherTitles
<1> QED
  BY <1>1, <1>3, <1>4, <1>6, TakenKeeps
(* ------------------------------------------------- reservations come and go *)

LEMMA ReservedKeeps ==
  ASSUME SerialInv, TypeOK', NEW n \in Conn, NEW c \in Copy, NEW r \in Resv, NEW l \in Loan,
         BorrowReserved(n, c, r, l)
  PROVE  PendingCovered' /\ CopiesInOnePlace'
<1>1. /\ HoldsOn(resvs, c) \subseteq {r} /\ c \in active /\ active' = active /\ now' = now
      /\ IsLive(resvs[r]) /\ resvs[r].status = "ready" /\ resvs[r].copy = c
  BY DEF BorrowReserved, CanLend
<1>2. OutCopies(loans)' = OutCopies(loans) \union {c}
  BY LendAdds DEF BorrowReserved, SerialInv
<1>3. resvs'[r].status = "fulfilled" /\ \A q \in Resv \ {r} : resvs'[q] = resvs[q]
  BY DEF BorrowReserved, SerialInv, TypeOK, ResvRow
<1>4. NoMoreHeld /\ \A q \in Resv \ {r} : IsLive(resvs[q])' <=> IsLive(resvs[q])
  BY <1>1, <1>3 DEF NoMoreHeld, IsLive, IsOpen
<1>5. HoldsOn(resvs, c)' = {} /\ \A d : HoldsOn(resvs, d)' \subseteq HoldsOn(resvs, d)
  BY <1>1, <1>3, <1>4 DEF HoldsOn, NoMoreHeld
<1>6. r \in HoldsOn(resvs, c)
  BY <1>1 DEF HoldsOn
<1>7. ASSUME NEW b \in Book PROVE Cardinality(Free(b)') >= Cardinality(Waiting(b)')
  <2>1. Free(b) \subseteq Free(b)'
    BY <1>1, <1>2, <1>5, <1>6 DEF Free, Available
  <2>2. Waiting(b)' \subseteq Waiting(b)
    BY <1>4 DEF Waiting, PendingFor, NoMoreHeld
  <2> QED
    BY <2>1, <2>2, FreeAndWaiting, MoreForFewer, Covered DEF SerialInv
<1>8. CopiesInOnePlace'
  BY <1>1, <1>2, <1>5 DEF CopiesInOnePlace, SerialInv
<1> QED
  BY <1>7, <1>8, CoveredNext

LEMMA PlaceKeeps ==
  ASSUME SerialInv, TypeOK', NEW n \in Conn, NEW b \in Book, NEW r \in Resv, PlaceReservation(n, b, r)
  PROVE  PendingCovered' /\ CopiesInOnePlace'
<1>1. Cardinality(Free(b)) > Cardinality(Waiting(b))
  BY DEF PlaceReservation, HasCapacity, Free, Waiting
<1>2. resvs'[r].status = "pending" /\ resvs'[r].book = b /\ \A q \in Resv \ {r} : resvs'[q] = resvs[q]
  BY DEF PlaceReservation, NoResv, SerialInv, TypeOK
<1>3. UNCHANGED <<loans, active, now>> /\ resvs[r].status = "none"
  BY DEF PlaceReservation
<1>4. ~IsLive(resvs[r]) /\ \A q \in Resv \ {r} : IsLive(resvs[q])' <=> IsLive(resvs[q])
  BY <1>2, <1>3 DEF IsLive, IsOpen
<1>5. \A c : HoldsOn(resvs, c)' = HoldsOn(resvs, c)
  BY <1>2, <1>3, <1>4 DEF HoldsOn
<1>6. OutCopies(loans)' = OutCopies(loans)
  BY <1>3 DEF OutCopies, IsOut
<1>7. ASSUME NEW x \in Book PROVE Cardinality(Free(x)') >= Cardinality(Waiting(x)')
  <2>1. Free(x)' = Free(x)
    BY <1>3, <1>5, <1>6 DEF Free, Available
  <2>2. CASE x # b
    <3>1. Waiting(x)' = Waiting(x)
      BY <1>2, <1>4, <2>2 DEF Waiting, PendingFor
    <3> QED
      BY <2>1, <3>1, Covered DEF SerialInv
  <2>3. CASE x = b
    <3>1. Waiting(x)' \subseteq Waiting(x) \union {r}
      BY <1>2, <1>4 DEF Waiting, PendingFor
    <3>2. IsFiniteSet(Waiting(x) \union {r}) /\ Cardinality(Waiting(x) \union {r}) <= Cardinality(Waiting(x)) + 1
      <4>1. IsFiniteSet(Waiting(x))
        BY FreeAndWaiting DEF SerialInv
      <4>2. Cardinality(Waiting(x)) \in Nat
        BY <4>1, FS_CardinalityType
      <4> QED
        BY <4>1, <4>2, FS_AddElement
    <3>3. Cardinality(Free(x)) \in Nat /\ Cardinality(Waiting(x)) \in Nat /\ Cardinality(Waiting(x) \union {r}) \in Nat
      BY <3>2, FreeAndWaiting, FS_CardinalityType DEF SerialInv
    <3>4. Cardinality(Free(x)) >= Cardinality(Waiting(x) \union {r})
      BY <1>1, <2>3, <3>2, <3>3
    <3>5. IsFiniteSet(Free(x))
      BY FreeAndWaiting DEF SerialInv
    <3> QED
      BY <2>1, <3>1, <3>2, <3>4, <3>5, MoreForFewer
  <2> QED
    BY <2>2, <2>3
<1>8. CopiesInOnePlace'
  BY <1>3, <1>5, <1>6 DEF CopiesInOnePlace, SerialInv
<1> QED
  BY <1>7, <1>8, CoveredNext

LEMMA PrepareKeeps ==
  ASSUME SerialInv, TypeOK', NEW n \in Conn, NEW r \in Resv, NEW c \in Copy, PrepareReservation(n, r, c)
  PROVE  PendingCovered' /\ CopiesInOnePlace'
<1> DEFINE b == resvs[r].book
<1>1. IsLive(resvs[r]) /\ resvs[r].status = "pending" /\ c \in Free(b)
  BY OpenSees DEF PrepareReservation, At
<1>2. /\ resvs'[r].status = "ready" /\ resvs'[r].copy = c
      /\ \A q \in Resv \ {r} : resvs'[q] = resvs[q]
  BY DEF PrepareReservation, SerialInv, TypeOK, ResvRow
<1>3. UNCHANGED <<loans, active, now>>
  BY DEF PrepareReservation
<1>4. \A q \in Resv \ {r} : IsLive(resvs[q])' <=> IsLive(resvs[q])
  BY <1>2, <1>3 DEF IsLive, IsOpen
<1>5. \A d : d # c => HoldsOn(resvs, d)' \subseteq HoldsOn(resvs, d)
  BY <1>2, <1>4 DEF HoldsOn
<1>6. OutCopies(loans)' = OutCopies(loans)
  BY <1>3 DEF OutCopies, IsOut
<1>7. BookOf[c] = b /\ c \in active /\ c \notin OutCopies(loans)
  BY <1>1, FreeOfTitle
<1>8. r \in Waiting(b)
  BY <1>1 DEF Waiting, PendingFor
<1>9. \A x \in Book : /\ Free(x) \ {c} \subseteq Free(x)'
                      /\ Waiting(x)' \subseteq Waiting(x) \ {r}
  BY <1>2, <1>3, <1>4, <1>5, <1>6 DEF Free, Available, Waiting, PendingFor
<1> HIDE DEF b
<1>10. ASSUME NEW x \in Book PROVE Cardinality(Free(x)') >= Cardinality(Waiting(x)')
  <2>1. IsFiniteSet(Free(x)) /\ IsFiniteSet(Waiting(x)) /\ IsFiniteSet(Free(x)')
    BY FreeAndWaiting DEF SerialInv
  <2>2. Cardinality(Free(x)) \in Nat /\ Cardinality(Waiting(x)) \in Nat
    BY <2>1, FS_CardinalityType
  <2>3. Cardinality(Free(x) \ {c}) >= Cardinality(Waiting(x) \ {r})
    <3>1. CASE x = b
      <4>1. Cardinality(Free(x) \ {c}) = Cardinality(Free(x)) - 1
        BY <1>1, <2>1, <3>1, FS_RemoveElement
      <4>2. Cardinality(Waiting(x) \ {r}) = Cardinality(Waiting(x)) - 1
        BY <1>8, <2>1, <3>1, FS_RemoveElement
      <4> QED
        BY <2>2, <4>1, <4>2, Covered DEF SerialInv
    <3>2. CASE x # b
      <4>1. Free(x) \ {c} = Free(x)
        BY <1>7, <3>2, FreeOfTitle
      <4>2. IsFiniteSet(Waiting(x) \ {r}) /\ Waiting(x) \ {r} \subseteq Waiting(x)
        BY <2>1, FS_Subset
      <4> QED
        BY <2>1, <4>1, <4>2, MoreForFewer, Covered DEF SerialInv
    <3> QED
      BY <3>1, <3>2
  <2>4. IsFiniteSet(Waiting(x) \ {r})
    BY <2>1, FS_Subset
  <2> QED
    BY <1>9, <2>1, <2>3, <2>4, MoreForFewer
<1>11. CopiesInOnePlace'
  BY <1>3, <1>5, <1>6, <1>7 DEF CopiesInOnePlace, SerialInv
<1> QED
  BY <1>10, <1>11, CoveredNext

(* Rows that leave the live ones, or that time takes out of them.          *)
LEMMA EndedKeeps ==
  ASSUME SerialInv, TypeOK', UNCHANGED <<loans, active>>,
         \/ UNCHANGED resvs /\ (now' = now \/ now' = now + 1)
         \/ UNCHANGED now /\ resvs' = Expire(resvs)
         \/ UNCHANGED now /\ \E r \in Resv : CancelReservation(r) \/ ArchiveReservation(r) \/ RestoreReservation(r)
  PROVE  PendingCovered' /\ CopiesInOnePlace'
<1>1. NoMoreHeld
  <2>1. CASE UNCHANGED resvs /\ (now' = now \/ now' = now + 1)
    <3>1. now \in Nat /\ \A r \in Resv : resvs[r].exp \in Nat
      BY DEF SerialInv, TypeOK, ResvRow
    <3> QED
      BY <2>1, <3>1 DEF NoMoreHeld, IsLive, IsOpen
  <2>2. CASE UNCHANGED now /\ resvs' = Expire(resvs)
    <3>1. \A r \in Resv : resvs'[r] = resvs[r] \/ resvs'[r].status = "expired"
      BY <2>2 DEF Expire, SerialInv, TypeOK, ResvRow
    <3> QED
      BY <2>2, <3>1 DEF NoMoreHeld, IsLive, IsOpen
  <2>3. ASSUME UNCHANGED now, NEW r \in Resv,
               CancelReservation(r) \/ ArchiveReservation(r) \/ RestoreReservation(r)
        PROVE  NoMoreHeld
    <3>1. resvs'[r].status \in {"cancelled", "fulfilled", "expired"} /\ \A q \in Resv \ {r} : resvs'[q] = resvs[q]
      BY <2>3 DEF CancelReservation, ArchiveReservation, RestoreReservation, SerialInv, TypeOK, ResvRow,
                  OneLive, ArchivedClosed
    <3> QED
      BY <2>3, <3>1 DEF NoMoreHeld, IsLive, IsOpen
  <2> QED
    BY <2>1, <2>2, <2>3
<1>2. NoMoreLent
  BY DEF NoMoreLent, OutCopies, IsOut
<1> QED
  BY <1>1, <1>2, LessKeeps
(* ------------------------------------------------------ loans afterwards *)

(* Steps after which no other copy is on loan, no returned loan is out     *)
(* again, and what is archived was given back.                             *)
LoansMove ==
  \A l \in Loan :
    /\ IsOut(loans'[l]) => IsOut(loans[l]) /\ loans'[l].copy = loans[l].copy
    /\ loans[l].status = "returned" => loans'[l].status = "returned"
    /\ loans'[l].archived => loans'[l].status = "returned"

LEMMA LoansMoveKeep ==
  ASSUME SerialInv, TypeOK', LoansMove, UNCHANGED <<resvs, active, now>> PROVE PendingCovered' /\ CopiesInOnePlace'
<1>1. NoMoreLent
  BY DEF NoMoreLent, OutCopies, IsOut, LoansMove
<1> QED
  BY <1>1, SameHolds, LessKeeps

LEMMA SyncMoves == ASSUME SerialInv, NEW n \in Conn, SyncCommit(n) PROVE LoansMove
<1>1. req[n].snap.due = [l \in Loan |-> IF loans[l].status = "borrowed" /\ ~loans[l].archived
                                       THEN loans[l].due ELSE Never]
  <2>1. req[n].snap = OverdueCandidates
    BY DEF SyncCommit, SerialInv, ReadsCurrent, SnapsCurrent
  <2> QED
    BY <2>1 DEF OverdueCandidates, NoSnap
<1>2. ~(Never < now)
  BY BoundsAssumption DEF Never, SerialInv, TypeOK
<1>3. ASSUME NEW l \in Loan
      PROVE  \/ loans'[l] = loans[l]
             \/ /\ loans[l].status = "borrowed" /\ ~loans[l].archived
                /\ loans'[l].status = "overdue" /\ ~loans'[l].archived /\ loans'[l].copy = loans[l].copy
  <2>1. CASE req[n].snap.due[l] < now
    <3>1. loans[l].status = "borrowed" /\ ~loans[l].archived
      BY <1>1, <1>2, <2>1
    <3>2. loans'[l] = [loans[l] EXCEPT !.status = "overdue"]
      BY <2>1 DEF SyncCommit, MarkOverdue
    <3> QED
      BY <3>1, <3>2 DEF SerialInv, TypeOK, LoanRow
  <2>2. CASE ~(req[n].snap.due[l] < now)
    BY <2>2 DEF SyncCommit, MarkOverdue
  <2> QED
    BY <2>1, <2>2
<1> QED
  BY <1>3 DEF LoansMove, IsOut, SerialInv, ArchivedReturned

LEMMA LoanStepMoves ==
  ASSUME SerialInv, NEW l \in Loan,
         \/ ReturnBook(l) \/ UndoBorrow(l) \/ ArchiveLoan(l) \/ RestoreLoan(l)
         \/ \E n \in Conn : RenewLoan(n, l)
  PROVE  LoansMove
<1> USE DEF SerialInv, TypeOK, LoanRow
<1>1. \A k \in Loan \ {l} : loans'[k] = loans[k]
  BY DEF ReturnBook, UndoBorrow, ArchiveLoan, RestoreLoan, RenewLoan
<1>2. \/ loans'[l].status = "returned"
      \/ IsOut(loans[l]) /\ ~loans'[l].archived /\ loans'[l].copy = loans[l].copy
  <2>1. CASE ReturnBook(l)
    BY <2>1 DEF ReturnBook
  <2>2. CASE UndoBorrow(l)
    BY <2>2 DEF UndoBorrow
  <2>3. CASE ArchiveLoan(l)
    BY <2>3 DEF ArchiveLoan
  <2>4. CASE RestoreLoan(l)
    BY <2>4 DEF RestoreLoan, ArchivedReturned
  <2>5. ASSUME NEW n \in Conn, RenewLoan(n, l)
        PROVE  IsOut(loans[l]) /\ ~loans'[l].archived /\ loans'[l].copy = loans[l].copy
    BY <2>5 DEF RenewLoan, IsOut
  <2> QED
    BY <2>1, <2>2, <2>3, <2>4, <2>5
<1> QED
  BY <1>1, <1>2 DEF LoansMove, IsOut, ArchivedReturned

(* ------------------------------------------------------------ the requests *)

(* The step of a connection while the others are idle.                     *)
Alone(n) == \A m \in Conn \ {n} : req[m].stage = "idle" /\ req'[m] = req[m]

LEMMA OneRequestKeeps ==
  ASSUME NEW n \in Conn, Alone(n),
         \/ req'[n].stage \in {"idle", "sweep", "begin"}
         \/ /\ UNCHANGED <<loans, resvs, active>>
            /\ \/ req'[n].stage = "open" /\ req'[n].snap = Snapshot
               \/ req'[n].stage = "marking" /\ req'[n].snap = OverdueCandidates
  PROVE  ReadsCurrent'
<1>1. OneAtATime'
  BY DEF OneAtATime, Alone
<1>2. UNCHANGED <<loans, resvs, active>> => Snapshot' = Snapshot /\ OverdueCandidates' = OverdueCandidates
  BY DEF Snapshot, OverdueCandidates, NoSnap, OutCopies, IsOut, IsOpen, NoResv, Never
<1>3. SnapsCurrent'
  BY <1>2 DEF SnapsCurrent, Alone
<1> QED
  BY <1>1, <1>3 DEF ReadsCurrent

LEMMA OthersIdle ==
  ASSUME SerialInv, NEW n \in Conn, req[n].stage # "idle" \/ Quiet PROVE \A m \in Conn \ {n} : req[m].stage = "idle"
  BY DEF SerialInv, ReadsCurrent, OneAtATime, Quiet

LEMMA BeginReads == ASSUME SerialInv, Quiet, NEW n \in Conn, Begin(n) PROVE ReadsCurrent'
<1>1. Alone(n)
  BY OthersIdle DEF Alone, Begin, SyncOpen, SweepForPrepare, OpenCopyChange, SerialInv, TypeOK
<1>2. ASSUME NEW kind, NEW u, SyncOpen(n, kind, u)
      PROVE  /\ UNCHANGED <<loans, resvs, active>>
             /\ req'[n].stage = "marking" /\ req'[n].snap = OverdueCandidates
  BY <1>2 DEF SyncOpen, SerialInv, TypeOK
<1>3. CASE SweepForPrepare(n)
  <2>1. req'[n].stage = "begin"
    BY <1>3 DEF SweepForPrepare, Idle, SerialInv, TypeOK
  <2> QED
    BY <1>1, <2>1, OneRequestKeeps
<1>4. ASSUME NEW kind, OpenCopyChange(n, kind)
      PROVE  UNCHANGED <<loans, resvs, active>> /\ req'[n].stage = "open" /\ req'[n].snap = Snapshot
  BY <1>4 DEF OpenCopyChange, Idle, SerialInv, TypeOK
<1> QED
  BY <1>1, <1>2, <1>3, <1>4, OneRequestKeeps DEF Begin

LEMMA ContinueReads == ASSUME SerialInv, NEW n \in Conn, Continue(n) PROVE ReadsCurrent'
<1>1. req[n].stage # "idle"
  BY DEF Continue, SyncCommit, SweepForReserve, OpenForPatron, OpenPrepare, Abort, BorrowWalkIn, BorrowReserved,
         PlaceReservation, PrepareReservation, RenewLoan, RetireCopy, ReinstateCopy, At
<1>2. \A m \in Conn \ {n} : req'[m] = req[m]
  BY DEF Continue, SyncCommit, SweepForReserve, OpenForPatron, OpenPrepare, Abort, BorrowWalkIn, BorrowReserved,
         PlaceReservation, PrepareReservation, RenewLoan, RetireCopy, ReinstateCopy, Finish, SerialInv, TypeOK
<1>3. Alone(n)
  BY <1>1, <1>2, OthersIdle DEF Alone
<1>4. ASSUME Finish(n) PROVE req'[n].stage = "idle"
  BY <1>4 DEF Finish, Idle, SerialInv, TypeOK
<1>5. ASSUME SyncCommit(n), ~Finish(n) PROVE req'[n].stage \in {"sweep", "begin"}
  <2>1. \E stage \in {"sweep", "begin"} : req' = [req EXCEPT ![n] = [req[n] EXCEPT !.stage = stage, !.snap = NoSnap]]
    BY <1>5 DEF SyncCommit, SerialInv, TypeOK
  <2> QED
    BY <2>1 DEF SerialInv, TypeOK, Request
<1>6. ASSUME SweepForReserve(n) PROVE req'[n].stage = "begin"
  BY <1>6 DEF SweepForReserve, SerialInv, TypeOK, Request
<1>7. ASSUME OpenForPatron(n) \/ OpenPrepare(n)
      PROVE  UNCHANGED <<loans, resvs, active>> /\ req'[n].stage = "open" /\ req'[n].snap = Snapshot
  BY <1>7 DEF OpenForPatron, OpenPrepare, SerialInv, TypeOK, Request
<1>8. \/ req'[n].stage \in {"idle", "sweep", "begin"}
      \/ UNCHANGED <<loans, resvs, active>> /\ req'[n].stage = "open" /\ req'[n].snap = Snapshot
  BY <1>4, <1>5, <1>6, <1>7
  DEF Continue, Abort, BorrowWalkIn, BorrowReserved, PlaceReservation, PrepareReservation, RenewLoan, RetireCopy,
      ReinstateCopy
<1> QED
  BY <1>3, <1>8, OneRequestKeeps

LEMMA OthersRead ==
  ASSUME SerialInv, UNCHANGED req, Quiet \/ UNCHANGED <<loans, resvs, active>> PROVE ReadsCurrent'
<1>1. UNCHANGED <<loans, resvs, active>> => Snapshot' = Snapshot /\ OverdueCandidates' = OverdueCandidates
  BY DEF Snapshot, OverdueCandidates, NoSnap, OutCopies, IsOut, IsOpen, NoResv, Never
<1> QED
  BY <1>1 DEF SerialInv, ReadsCurrent, OneAtATime, SnapsCurrent, Quiet
(* ---------------------------------------------------------- every step *)

StayReturned ==
  \A l \in Loan : loans[l].status = "returned" =>
    \/ loans'[l].status = "returned"
    \/ "return" \in loans[l].tokens /\ loans'[l].status = "borrowed"

Kept == PendingCovered' /\ CopiesInOnePlace' /\ ArchivedReturned' /\ StayReturned

LEMMA SameLoansStay == ASSUME SerialInv, UNCHANGED loans PROVE ArchivedReturned' /\ StayReturned
  BY DEF SerialInv, ArchivedReturned, StayReturned

LEMMA LoansMoveStay == ASSUME LoansMove PROVE ArchivedReturned' /\ StayReturned
  BY DEF LoansMove, ArchivedReturned, StayReturned

LEMMA LendStay ==
  ASSUME SerialInv, NEW u, NEW c, NEW l \in Loan, NEW tokens, Lend(u, c, l, tokens)
  PROVE  ArchivedReturned' /\ StayReturned
<1>1. loans[l].status = "none" /\ ~loans'[l].archived /\ \A k \in Loan \ {l} : loans'[k] = loans[k]
  BY LendAdds DEF Lend, SerialInv, TypeOK
<1> QED
  BY <1>1 DEF SerialInv, ArchivedReturned, StayReturned

LEMMA UndoReturnStay == ASSUME SerialInv, NEW l \in Loan, UndoReturn(l) PROVE ArchivedReturned' /\ StayReturned
<1>1. /\ "return" \in loans[l].tokens /\ loans'[l].status = "borrowed" /\ ~loans'[l].archived
      /\ \A k \in Loan \ {l} : loans'[k] = loans[k]
  BY DEF UndoReturn, SerialInv, TypeOK, LoanRow
<1> QED
  BY <1>1 DEF SerialInv, ArchivedReturned, StayReturned

LEMMA OneTransactionSerial == ASSUME SerialInv, TypeOK', OneTransaction PROVE Kept
<1>1. ASSUME NEW l \in Loan, ReturnBook(l) \/ UndoBorrow(l) \/ ArchiveLoan(l) \/ RestoreLoan(l) PROVE Kept
  <2>1. LoansMove
    BY <1>1, LoanStepMoves
  <2>2. UNCHANGED <<resvs, active, now>>
    BY <1>1 DEF ReturnBook, UndoBorrow, ArchiveLoan, RestoreLoan
  <2> QED
    BY <2>1, <2>2, LoansMoveKeep, LoansMoveStay DEF Kept
<1>2. ASSUME NEW l \in Loan, UndoReturn(l) PROVE Kept
  BY <1>2, UndoReturnKeeps, UndoReturnStay DEF Kept
<1>3. ASSUME \/ ReservationExpiryJob
             \/ \E r \in Resv : CancelReservation(r) \/ ArchiveReservation(r) \/ RestoreReservation(r)
      PROVE  Kept
  <2>1. /\ UNCHANGED <<loans, active, now>>
        /\ \/ resvs' = Expire(resvs)
           \/ \E r \in Resv : CancelReservation(r) \/ ArchiveReservation(r) \/ RestoreReservation(r)
    BY <1>3 DEF ReservationExpiryJob, CancelReservation, ArchiveReservation, RestoreReservation
  <2> QED
    BY <2>1, EndedKeeps, SameLoansStay DEF Kept
<1>4. ASSUME NEW b \in Book, NEW D \in SUBSET Copy, ReduceCopies(b, D) PROVE Kept
  BY <1>4, ReduceKeeps, SameLoansStay DEF Kept, ReduceCopies
<1> QED
  BY <1>1, <1>2, <1>3, <1>4 DEF OneTransaction

LEMMA BeginSerial == ASSUME SerialInv, TypeOK', NEW n \in Conn, Begin(n) PROVE Kept
<1>1. UNCHANGED <<loans, active, now>> /\ (resvs' = resvs \/ resvs' = Expire(resvs))
  BY DEF Begin, SyncOpen, SweepForPrepare, OpenCopyChange
<1> QED
  BY <1>1, EndedKeeps, SameLoansStay DEF Kept

LEMMA ContinueSerial == ASSUME SerialInv, TypeOK', NEW n \in Conn, Continue(n) PROVE Kept
<1>1. ASSUME SweepForReserve(n) \/ OpenForPatron(n) \/ OpenPrepare(n) \/ Abort(n) PROVE Kept
  <2>1. UNCHANGED <<loans, active, now>> /\ (resvs' = resvs \/ resvs' = Expire(resvs))
    BY <1>1 DEF SweepForReserve, OpenForPatron, OpenPrepare, Abort
  <2> QED
    BY <2>1, EndedKeeps, SameLoansStay DEF Kept
<1>2. ASSUME SyncCommit(n) \/ \E l \in Loan : RenewLoan(n, l) PROVE Kept
  <2>1. LoansMove
    BY <1>2, SyncMoves, LoanStepMoves
  <2>2. UNCHANGED <<resvs, active, now>>
    BY <1>2 DEF SyncCommit, RenewLoan
  <2> QED
    BY <2>1, <2>2, LoansMoveKeep, LoansMoveStay DEF Kept
<1>3. ASSUME NEW c \in Copy, NEW l \in Loan, BorrowWalkIn(n, c, l) PROVE Kept
  BY <1>3, WalkInKeeps, LendStay DEF Kept, BorrowWalkIn
<1>4. ASSUME NEW c \in Copy, NEW r \in Resv, NEW l \in Loan, BorrowReserved(n, c, r, l) PROVE Kept
  BY <1>4, ReservedKeeps, LendStay DEF Kept, BorrowReserved
<1>5. ASSUME NEW b \in Book, NEW r \in Resv, PlaceReservation(n, b, r) PROVE Kept
  BY <1>5, PlaceKeeps, SameLoansStay DEF Kept, PlaceReservation
<1>6. ASSUME NEW r \in Resv, NEW c \in Copy, PrepareReservation(n, r, c) PROVE Kept
  BY <1>6, PrepareKeeps, SameLoansStay DEF Kept, PrepareReservation
<1>7. ASSUME NEW c \in Copy, RetireCopy(n, c) PROVE Kept
  BY <1>7, RetireKeeps, SameLoansStay DEF Kept, RetireCopy
<1>8. ASSUME NEW c \in Copy, ReinstateCopy(n, c) PROVE Kept
  <2>1. active \subseteq active' /\ UNCHANGED <<loans, resvs, now>>
    BY <1>8 DEF ReinstateCopy
  <2>2. NoMoreLent
    BY <2>1 DEF NoMoreLent, OutCopies, IsOut
  <2> QED
    BY <2>1, <2>2, SameHolds, LessKeeps, SameLoansStay DEF Kept
<1> QED
  BY <1>1, <1>2, <1>3, <1>4, <1>5, <1>6, <1>7, <1>8 DEF Continue

LEMMA SerialKeeps == ASSUME SerialInv, [SerialNext]_vars PROVE SerialInv' /\ [StayReturned]_vars
<1>1. CASE UNCHANGED vars
  <2>1. UNCHANGED <<loans, resvs, active, now, req>>
    BY <1>1 DEF vars
  <2>2. TypeOK' /\ OneLive'
    BY <1>1, <2>1, NextKeepsOneLive DEF SerialInv, TypeOK
  <2>3. ReadsCurrent'
    BY <2>1, OthersRead
  <2> QED
    BY <2>1, <2>2, <2>3, <1>1, EndedKeeps, SameLoansStay DEF SerialInv
<1>2. CASE SerialNext
  <2>1. Next
    BY <1>2 DEF SerialNext, Next
  <2>2. TypeOK' /\ OneLive'
    BY <2>1, NextKeepsType, NextKeepsOneLive DEF SerialInv
  <2>3. CASE Quiet /\ OneTransaction
    <3>1. UNCHANGED req
      BY <2>3
      DEF OneTransaction, ReservationExpiryJob, ReturnBook, UndoBorrow, UndoReturn, CancelReservation, ArchiveLoan,
          RestoreLoan, ArchiveReservation, RestoreReservation, ReduceCopies
    <3> QED
      BY <2>2, <2>3, <3>1, OthersRead, OneTransactionSerial DEF Kept, SerialInv
  <2>4. ASSUME Quiet, NEW n \in Conn, Begin(n) PROVE SerialInv' /\ [StayReturned]_vars
    BY <2>2, <2>4, BeginReads, BeginSerial DEF Kept, SerialInv
  <2>5. CASE Tick
    BY <2>2, <2>5, OthersRead, EndedKeeps, SameLoansStay DEF Tick, SerialInv
  <2>6. ASSUME NEW n \in Conn, Continue(n) PROVE SerialInv' /\ [StayReturned]_vars
    BY <2>2, <2>6, ContinueReads, ContinueSerial DEF Kept, SerialInv
  <2> QED
    BY <1>2, <2>3, <2>4, <2>5, <2>6 DEF SerialNext
<1> QED
  BY <1>1, <1>2

LEMMA SerialInit == ASSUME Init PROVE SerialInv
<1>1. TypeOK
  BY RowTypes, BoundsAssumption DEF Init, TypeOK
<1>2. OneLive
  BY DEF Init, OneLive, OneLiveReservationPerPatron, ArchivedClosed, IsLive, IsOpen, NoResv
<1>3. ReadsCurrent
  BY DEF Init, ReadsCurrent, OneAtATime, SnapsCurrent, Idle
<1>4. ArchivedReturned
  BY DEF Init, ArchivedReturned, NoLoan
<1>5. OutCopies(loans) = {} /\ (\A c : HoldsOn(resvs, c) = {}) /\ \A b : Waiting(b) = {}
  BY DEF Init, OutCopies, IsOut, NoLoan, HoldsOn, Waiting, PendingFor, IsLive, IsOpen, NoResv
<1>6. CopiesInOnePlace
  BY <1>5 DEF CopiesInOnePlace
<1>7. ASSUME NEW b \in Book PROVE Cardinality(Free(b)) >= Cardinality(Waiting(b))
  <2>1. Cardinality(Free(b)) \in Nat /\ Cardinality({}) = 0
    BY <1>1, FreeAndWaiting, FS_CardinalityType, FS_EmptySet
  <2> QED
    BY <1>5, <2>1
<1> QED
  BY <1>1, <1>2, <1>3, <1>4, <1>6, <1>7, Covered DEF SerialInv

(* What was read is still so while requests do not overlap, and with it    *)
(* every check of a request covers what the request then writes.           *)
THEOREM SerialInvariant == SerialSpec => []SerialInv
<1>1. Init => SerialInv
  BY SerialInit
<1>2. SerialInv /\ [SerialNext]_vars => SerialInv'
  BY SerialKeeps
<1> QED
  BY <1>1, <1>2, PTL DEF SerialSpec

(* A live pending reservation can be prepared: checkouts, placements,      *)
(* preparations, retirements and reversals of returns leave, one after     *)
(* another, as many available copies of every title as it has pending      *)
(* reservations.                                                           *)
THEOREM PendingStaysCovered == SerialSpec => []PendingCovered
<1>1. SerialInv => PendingCovered
  BY DEF SerialInv
<1> QED
  BY <1>1, SerialInvariant, PTL

(* A copy is on loan or on the hold shelf but not on both, and retired     *)
(* copies are on neither, when requests do not overlap.                    *)
THEOREM CopiesStayInOnePlace == SerialSpec => []CopiesInOnePlace
<1>1. SerialInv => CopiesInOnePlace
  BY DEF SerialInv
<1> QED
  BY <1>1, SerialInvariant, PTL

(* The sweep marks no loan that was returned, when nothing commits between *)
(* its list and its marks: only the desk reversal takes a return back.     *)
THEOREM ReturnedStay == SerialSpec => ReturnedStaysReturned
<1>1. SerialInv /\ [SerialNext]_vars =>
        [\A l \in Loan : loans[l].status = "returned" =>
           \/ loans'[l].status = "returned"
           \/ "return" \in loans[l].tokens /\ loans'[l].status = "borrowed"]_vars
  BY SerialKeeps DEF StayReturned
<1> QED
  BY <1>1, SerialInvariant, PTL DEF SerialSpec, ReturnedStaysReturned

=============================================================================
