---------------------------- MODULE MCFineLedger ----------------------------
(* Small instances of FineLedger.                                          *)
EXTENDS FineLedger, TLC

CONSTANTS u1, u2, n1, n2, none

OneLoan == {1}
TwoLoans == {1, 2}

HolderOne == [l \in OneLoan |-> u1]
HolderTwo == [l \in TwoLoans |-> u1]

(* Loan 1 follows the library's rate by the hour; loan 2 has terms of its  *)
(* own, an interval of two ticks and an initial fine.                      *)
OwnRateOne == [l \in OneLoan |-> none]
IntervalOne == [l \in OneLoan |-> 1]
InitialOne == [l \in OneLoan |-> 0]
OwnRateTwo == [l \in TwoLoans |-> IF l = 1 THEN none ELSE 1]
IntervalTwo == [l \in TwoLoans |-> l]
InitialTwo == [l \in TwoLoans |-> l - 1]

RateOne == {1}
RateTwo == {1, 2}

TwoConns == Permutations({n1, n2})

SweepKinds == {"sweep", "renew"}
PaymentKinds == {"pay", "adjust", "reverse"}
TermKinds == {"sweep", "renew", "settings", "summary"}
EveryKind == AllKinds
DepartureKinds == {"sweep", "pay", "adjust", "reverse", "archive"}
=============================================================================
