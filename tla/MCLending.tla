------------------------------ MODULE MCLending ------------------------------
(* Two scenes of Circulation on one instance, one patron with a copy of    *)
(* each of two titles.  In "loans" the copies are lent, renewed and taken  *)
(* back over and over; in "placing" at most one loan is made, and the      *)
(* patron places reservations beside it.  Which scene a behaviour plays is *)
(* settled at the start.                                                   *)
EXTENDS MCCirculation

VARIABLE scene

UsedLoans == {l \in Loan : loans[l].status # "none"}

Plays ==
  \/ scene = "loans" /\ \A n \in Conn : req[n].kind # "reserve"
  \/ scene = "placing" /\ Cardinality(UsedLoans) <= 1 /\ \A n \in Conn : req[n].kind # "renew"

LendingInit == Init /\ scene \in {"loans", "placing"}
LendingNext == Next /\ UNCHANGED scene /\ Plays'
LendingSpec == LendingInit /\ [][LendingNext]_<<vars, scene>>

(* The two titles are interchangeable, each together with its copy.        *)
SwapTitles == [x \in {b1, b2, c1, c2} |->
                 CASE x = b1 -> b2 [] x = b2 -> b1 [] x = c1 -> c2 [] x = c2 -> c1]
RowsAndTitles == Rows \union {SwapTitles}
=============================================================================
