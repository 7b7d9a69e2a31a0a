------------------------------- MODULE MCLedger -------------------------------
(* Four scenes of FineLedger on one instance, one patron with two loans.    *)
(* In "terms" loans run late, are renewed and come back while the library's *)
(* rate changes, one request at a time; in "sweeps" two requests at a time  *)
(* do that to one of the loans.  In "departure" two requests at a time      *)
(* sweep, pay, correct and archive on one of the loans; in "payments" they  *)
(* pay and correct on both.  Each scene has the operations and the bounds   *)
(* that its question needs, and a behaviour plays the one it starts with.   *)
EXTENDS MCFineLedger

VARIABLE scene

Terms == INSTANCE FineLedger WITH Kinds <- TermKinds, MaxTx <- 0
Sweeps == INSTANCE FineLedger WITH Kinds <- TermKinds, MaxTx <- 0, MaxTime <- 4
Departure == INSTANCE FineLedger
               WITH Kinds <- DepartureKinds, Rate <- RateOne, MaxTime <- 3, MaxRenewals <- 0
Payments == INSTANCE FineLedger
              WITH Kinds <- PaymentKinds, Rate <- RateOne, MaxTime <- 2, MaxRenewals <- 0

(* One request at a time: a step is the clock's, or that of the request in *)
(* progress, or starts one when there is none.                             *)
OneAtATime ==
  /\ \A n \in Conn : req[n] # Idle => now' # now \/ req'[n] # req[n]
  /\ \A m, n \in Conn : req'[m] # Idle /\ req'[n] # Idle => m = n

OneLent == \E l \in Loan : \A k \in Loan \ {l} : loans[k] = NoneLent

LedgerInit ==
  \/ scene = "terms" /\ Terms!Init
  \/ scene = "sweeps" /\ Sweeps!Init
  \/ scene = "departure" /\ Departure!Init
  \/ scene = "payments" /\ Payments!Init

LedgerNext ==
  /\ \/ scene = "terms" /\ Terms!Next /\ OneAtATime
     \/ scene = "sweeps" /\ Sweeps!Next /\ OneLent'
     \/ scene = "departure" /\ Departure!Next /\ OneLent'
     \/ scene = "payments" /\ Payments!Next
  /\ UNCHANGED scene

LedgerSpec == LedgerInit /\ [][LedgerNext]_<<vars, scene>>
==============================================================================
