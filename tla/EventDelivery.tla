---------------------------- MODULE EventDelivery ----------------------------
(***************************************************************************)
(* What the delivery outbox promises to the transactions that leave events *)
(* in it: an event that was accepted takes effect, once, before it counts  *)
(* as delivered, unless an administrator cancels it first.  Only an event  *)
(* that rewrites a notice already sent may be written again.               *)
(***************************************************************************)
EXTENDS Naturals

CONSTANT Event   \* rows of delivery_outbox

VARIABLES
  class,       \* of each event accepted; "none" of the others
  effects,     \* how often each took effect; 2 stands for more than once
  settled,     \* the events that will not be delivered any more
  withdrawn    \* those of them an administrator cancelled

vars == <<class, effects, settled, withdrawn>>

(* A handoff only tells the email worker of a message.                     *)
Classes == {"once", "rewriting", "handoff"}
Accepted == {e \in Event : class[e] # "none"}

Init ==
  /\ class = [e \in Event |-> "none"]
  /\ effects = [e \in Event |-> 0]
  /\ settled = {}
  /\ withdrawn = {}

Accept(e) ==
  /\ e \notin Accepted
  /\ \E c \in Classes : class' = [class EXCEPT ![e] = c]
  /\ UNCHANGED <<effects, settled, withdrawn>>

(* The messages of a notice are handed over in the transaction of the      *)
(* notice.                                                                 *)
Apply(e) ==
  /\ \/ class[e] = "once" /\ effects[e] = 0
     \/ class[e] = "rewriting"
  /\ effects' = [effects EXCEPT ![e] = IF @ = 0 THEN 1 ELSE 2]
  /\ \E messages \in SUBSET (Event \ Accepted) :
       class' = [x \in Event |-> IF x \in messages THEN "handoff" ELSE class[x]]
  /\ UNCHANGED <<settled, withdrawn>>

Settle(e) ==
  /\ e \in Accepted \ settled
  /\ class[e] = "handoff" \/ effects[e] > 0
  /\ settled' = settled \union {e}
  /\ UNCHANGED <<class, effects, withdrawn>>

Withdraw(e) ==
  /\ e \in Accepted \ settled
  /\ settled' = settled \union {e}
  /\ withdrawn' = withdrawn \union {e}
  /\ UNCHANGED <<class, effects>>

Next == \E e \in Event : Accept(e) \/ Apply(e) \/ Settle(e) \/ Withdraw(e)

Spec == Init /\ [][Next]_vars
=============================================================================
