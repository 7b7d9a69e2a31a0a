---------------------------- MODULE MCCirculation ----------------------------
(* Instances of Circulation for TLC.                                         *)
EXTENDS Circulation, TLC

CONSTANTS u1, u2, b1, b2, c1, c2, l1, l2, r1, r2, n1, n2

OneUser == {u1}
TwoUsers == {u1, u2}
OneBook == {b1}
TwoBooks == {b1, b2}
OneCopy == {c1}
TwoCopies == {c1, c2}
OneLoan == {l1}
TwoLoans == {l1, l2}
OneResv == {r1}
TwoResvs == {r1, r2}
OneConn == {n1}
TwoConns == {n1, n2}

(* Both copies are of one title, or each is of a title of its own.           *)
SameTitle == [c \in Copy |-> b1]
OwnTitles == [c \in Copy |-> IF c = c1 THEN b1 ELSE b2]

(* The operations in use in a run.                                           *)
HoldKinds == {"borrow", "reserve", "prepare", "retire", "reduce"}
LoanKinds == {"overdue", "borrow", "renew", "archive", "undo"}
LendingKinds == LoanKinds \union {"reserve"}
CheckoutKinds == {"borrow", "reserve"}

(* Identifiers that nothing but their equality distinguishes.  Copies are    *)
(* interchangeable only when they are of the same title.                     *)
Rows == Permutations(User) \union Permutations(Loan) \union Permutations(Resv) \union Permutations(Conn)
RowsAndCopies == Rows \union Permutations(Copy)
=============================================================================
