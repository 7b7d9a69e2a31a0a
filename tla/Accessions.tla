----------------------------- MODULE Accessions -----------------------------
(***************************************************************************)
(* The accession numbers of the copies of one book.  A number is claimed   *)
(* for good by the QR code of a copy; the registry of claims and of voids  *)
(* survives a restore of the library, which puts the other tables back to  *)
(* an earlier state.                                                       *)
(*                                                                         *)
(* A transaction that locks the book is one step, but for an assignment:   *)
(* a restore may read the registry while one is under way.  The registry   *)
(* of corrections takes no more rows, and is left out.                     *)
(***************************************************************************)
EXTENDS Naturals, FiniteSets, FiniteSetsExt, Functions

CONSTANTS
  LastCopy,     \* bound on the QR codes of the book, the sequence numbers 1..LastCopy
  LastNumber,   \* bound on accession numbers
  MaxBackups,   \* bound on backups
  MaxRestores   \* bound on restores

AccessionBounds == {LastCopy, LastNumber, MaxBackups, MaxRestores} \subseteq Nat

QR == 1..LastCopy
Number == 1..LastNumber
NoQR == 0
NoNumber == 0

VARIABLES
  copies,     \* the QR codes in book_copies
  active,     \* those with is_active = 1
  holdings,   \* copy_holdings: the number of each copy
  claims,     \* accession_claims: the QR code that claimed each number
  voids,      \* accession_claim_voids
  assigning,  \* what an assignment under way has written: the number of some copies
  backups,    \* the backups taken
  restoring,  \* the backup being restored, with the registry read before
  restores,   \* not in the code: restores so far
  overlapped  \* not in the code: whether one read the registry during an assignment

tables == <<copies, active, holdings>>
registry == <<claims, voids>>
counts == <<restores, overlapped>>
vars == <<tables, registry, assigning, backups, restoring, counts>>

Nothing == <<>>
Committed == [copies |-> copies, active |-> active, holdings |-> holdings,
              claims |-> claims, voids |-> voids]

Init ==
  /\ copies = {} /\ active = {}
  /\ holdings = [q \in QR |-> NoNumber]
  /\ claims = [n \in Number |-> NoQR] /\ voids = {}
  /\ assigning = Nothing
  /\ backups = {} /\ restoring = Nothing /\ restores = 0 /\ overlapped = FALSE

(* Maintenance keeps requests out during a restore.                        *)
Quiet == assigning = Nothing /\ restoring = Nothing

(* ---------------------------------------------------------------- copies *)

Claimed == {claims[n] : n \in Number} \ {NoQR}

(* getLastCopySequence.                                                    *)
LastSequence == Max({0} \union copies \union Claimed)

(* syncBookCopies, for one copy more.  A trigger refuses the QR code of a  *)
(* claim.                                                                  *)
AddCopy ==
  LET q == LastSequence + 1
  IN  /\ Quiet /\ q \in QR /\ q \notin Claimed
      /\ copies' = copies \union {q} /\ active' = active \union {q}
      /\ UNCHANGED <<holdings, registry, assigning, backups, restoring, counts>>

(* A copy is retired or put back, as far as Circulation allows.            *)
SetActive(q) ==
  /\ Quiet /\ q \in copies
  /\ active' = IF q \in active THEN active \ {q} ELSE active \union {q}
  /\ UNCHANGED <<copies, holdings, registry, assigning, backups, restoring, counts>>

(* ------------------------------------------------------------ accessions *)

(* Mutant: a copy may be given another number.                             *)
AssignableAgain(q) == q \in active

Assignable(q) == q \in active /\ holdings[q] = NoNumber

(* assignAccessionRange, and updateHolding for the first number of a copy: *)
(* numbers that nobody claimed, consecutive in whatever order the copies   *)
(* were chosen.                                                            *)
BeginAssign(some, start) ==
  LET numbers == start..(start + Cardinality(some) - 1)
  IN  /\ Quiet /\ some # {} /\ \A q \in some : Assignable(q)
      /\ \A n \in numbers : n \in Number /\ claims[n] = NoQR
      /\ assigning' \in Bijection(some, numbers)
      /\ UNCHANGED <<tables, registry, backups, restoring, counts>>

(* The claims and the holdings are committed together.                     *)
CommitAssign ==
  /\ assigning # Nothing
  /\ claims' = [n \in Number |-> IF \E q \in DOMAIN assigning : assigning[q] = n
                                 THEN CHOOSE q \in DOMAIN assigning : assigning[q] = n ELSE claims[n]]
  /\ holdings' = [q \in QR |-> IF q \in DOMAIN assigning THEN assigning[q] ELSE holdings[q]]
  /\ assigning' = Nothing
  /\ UNCHANGED <<copies, active, voids, backups, restoring, counts>>

AbortAssign ==
  /\ assigning # Nothing
  /\ assigning' = Nothing
  /\ UNCHANGED <<tables, registry, backups, restoring, counts>>

(* voidAccession, as far as Circulation allows.                            *)
VoidAccession(q) ==
  /\ Quiet /\ q \in copies /\ holdings[q] # NoNumber /\ holdings[q] \notin voids
  /\ voids' = voids \union {holdings[q]}
  /\ UNCHANGED <<tables, claims, assigning, backups, restoring, counts>>

(* --------------------------------------------------------------- restore *)

TakeBackup ==
  /\ Cardinality(backups) < MaxBackups
  /\ backups' = backups \union {Committed}
  /\ UNCHANGED <<tables, registry, assigning, restoring, counts>>

(* The claims of a backup together with those of the live registry.        *)
Combined(b, live) == [n \in Number |-> IF b.claims[n] # NoQR THEN b.claims[n] ELSE live.claims[n]]
NumbersOf(q, table) == {n \in Number : table[n] = q}

(* What prepareAccessionRestore refuses: a number claimed by two copies, a *)
(* void without its claim, a copy with two claims, a holding that is not   *)
(* the one claimed.                                                        *)
Conflict(b, live) ==
  LET combined == Combined(b, live)
  IN  \/ \E n \in Number : NoQR \notin {b.claims[n], live.claims[n]} /\ b.claims[n] # live.claims[n]
      \/ \E n \in b.voids \union live.voids : combined[n] = NoQR
      \/ \E q \in QR : Cardinality(NumbersOf(q, combined)) > 1
      \/ \E q \in b.copies : b.holdings[q] # NoNumber /\ combined[b.holdings[q]] # q

(* Mutant: the holdings come from the backup like all other tables.        *)
RestoredHoldingsOfBackup(b, live) == b.holdings

(* A copy whose QR code has a claim holds the number claimed.              *)
RestoredHoldings(b, live) ==
  [q \in QR |-> IF q \in b.copies /\ NumbersOf(q, Combined(b, live)) # {}
                THEN CHOOSE n \in Number : Combined(b, live)[n] = q
                ELSE b.holdings[q]]

(* getLiveAccessionState, a plain read.                                    *)
BeginRestore(b) ==
  /\ restoring = Nothing /\ restores < MaxRestores
  /\ restoring' = <<b, Committed>>
  /\ restores' = restores + 1 /\ overlapped' = (overlapped \/ assigning # Nothing)
  /\ UNCHANGED <<tables, registry, assigning, backups>>

(* Mutant: the registry is replaced as well.                               *)
CommitRestoreAll ==
  /\ restoring # Nothing /\ assigning = Nothing
  /\ LET b == restoring[1] IN
       /\ ~Conflict(b, restoring[2])
       /\ copies' = b.copies /\ active' = b.active
       /\ holdings' = RestoredHoldings(b, restoring[2])
       /\ claims' = b.claims /\ voids' = b.voids
  /\ restoring' = Nothing
  /\ UNCHANGED <<assigning, backups, counts>>

(* The tables are replaced once the transactions that had rows locked are  *)
(* over; the rows of the registry stay, and those missing are inserted.    *)
CommitRestore ==
  /\ restoring # Nothing /\ assigning = Nothing
  /\ LET b == restoring[1]
         live == restoring[2]
     IN  /\ ~Conflict(b, live)
         /\ copies' = b.copies /\ active' = b.active
         /\ holdings' = RestoredHoldings(b, live)
         /\ claims' = [n \in Number |-> IF claims[n] # NoQR THEN claims[n] ELSE Combined(b, live)[n]]
         /\ voids' = voids \union b.voids \union live.voids
  /\ restoring' = Nothing
  /\ UNCHANGED <<assigning, backups, counts>>

(* It fails, because of a conflict or otherwise.                           *)
FailRestore ==
  /\ restoring # Nothing
  /\ restoring' = Nothing
  /\ UNCHANGED <<tables, registry, assigning, backups, counts>>

Next ==
  \/ AddCopy \/ \E q \in QR : SetActive(q) \/ VoidAccession(q)
  \/ \E some \in SUBSET QR, start \in Number : BeginAssign(some, start)
  \/ CommitAssign \/ AbortAssign
  \/ TakeBackup \/ \E b \in backups : BeginRestore(b)
  \/ CommitRestore \/ FailRestore

Spec == Init /\ [][Next]_vars

(* ------------------------------------------------------------ properties *)

(* The tables and the registry keep to what their keys allow: a copy that  *)
(* is gone holds nothing, a void has its claim.                            *)
TypeOK ==
  /\ active \subseteq copies /\ copies \subseteq QR
  /\ holdings \in [QR -> Number \union {NoNumber}]
  /\ \A q \in QR \ copies : holdings[q] = NoNumber
  /\ claims \in [Number -> QR \union {NoQR}]
  /\ voids \subseteq {n \in Number : claims[n] # NoQR}

(* A copy whose QR code has claimed a number holds that number, so that it *)
(* cannot be given another, and every number that is held was claimed; and *)
(* no course of assignments, voids and restores leaves a backup that can   *)
(* no longer be restored.  All this unless a restore reads the registry    *)
(* while an assignment is under way: that loses the holding to its claim.  *)
RegistryHolds ==
  ~overlapped =>
    /\ \A n \in Number, q \in copies : holdings[q] = n <=> claims[n] = q
    /\ \A b \in backups : ~Conflict(b, Committed)

(* A number once claimed stays with its QR code, and once voided stays     *)
(* void, whatever is restored; and every step leaves the tables in         *)
(* agreement with the registry.                                            *)
AccessionsStand ==
  [][/\ \A n \in Number : claims[n] # NoQR => claims'[n] = claims[n]
     /\ voids \subseteq voids'
     /\ RegistryHolds']_vars
=============================================================================
