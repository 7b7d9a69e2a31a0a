---------------------------- MODULE OfficeProofs ----------------------------
(* Theorems about OfficeSpec: the accessions of a book with restores in    *)
(* between, comments under moderation, publishing, the desk, the gate, the *)
(* catalogue, the library's registers and due dates, for every number of   *)
(* copies, members, editors, patrons, books and days.  Each room has its   *)
(* part of the invariant; a step of the office is a step of one room.      *)
EXTENDS MCOffice, CirculationProofs, Sequences, FiniteSetTheorems, WellFoundedInduction, TLAPS

(* ------------------------------------------------------------- accessions *)

LEMMA SameCounts == \A S : A!Cardinality(S) = Cardinality(S)
  BY DEF Cardinality, A!Cardinality, IsFiniteSet, A!IsFiniteSet

(* -------------------------------------------------- the inductive invariant *)

(* The tables as they are and as a backup holds them: what is held was     *)
(* claimed.                                                                *)
BookTables == [copies : SUBSET A!QR, active : SUBSET A!QR, holdings : [A!QR -> A!Number \union {A!NoNumber}],
           claims : [A!Number -> A!QR \union {A!NoQR}], voids : SUBSET A!Number]
Fits(t) ==
  /\ t \in BookTables /\ t.active \subseteq t.copies
  /\ \A q \in A!QR \ t.copies : t.holdings[q] = A!NoNumber
  /\ \A n \in t.voids : t.claims[n] # A!NoQR
  /\ \A q \in t.copies : t.holdings[q] # A!NoNumber => t.claims[t.holdings[q]] = q

(* The registry only grew since.                                           *)
Behind(t) ==
  /\ \A n \in A!Number : t.claims[n] # A!NoQR => claims[n] = t.claims[n]
  /\ t.voids \subseteq voids
BackupsFit ==
  /\ \A b \in shelf : Fits(b) /\ Behind(b)
  /\ replacing # A!Nothing => replacing[1] \in shelf /\ Fits(replacing[2]) /\ Behind(replacing[2])

(* What an assignment under way is about to write.                         *)
AssigningFits ==
  assigning # A!Nothing => \A q \in DOMAIN assigning :
    /\ q \in inUse /\ holdings[q] = A!NoNumber
    /\ assigning[q] \in A!Number /\ claims[assigning[q]] = A!NoQR
    /\ \A r \in DOMAIN assigning : assigning[q] = assigning[r] => q = r

(* Unless a restore overlapped an assignment, what is claimed is held, and *)
(* a restore has read what is still so.                                    *)
ClaimsApart == \A m, n \in A!Number : claims[m] # A!NoQR /\ claims[m] = claims[n] => m = n
HoldingsClaimed == \A n \in A!Number, q \in copies : holdings[q] = n <=> claims[n] = q
Undisturbed ==
  ~overlapped =>
    /\ HoldingsClaimed /\ ClaimsApart
    /\ replacing # A!Nothing => /\ assigning = A!Nothing
                                /\ replacing[2].claims = claims /\ replacing[2].voids = voids

AccessionsInv == Fits(A!Committed) /\ BackupsFit /\ AssigningFits /\ Undisturbed

(* No claim and no void is lost.                                           *)
RegistryGrows ==
  /\ \A n \in A!Number : claims[n] # A!NoQR => claims'[n] = claims[n]
  /\ voids \subseteq voids'

LEMMA Zero ==
  A!AccessionBounds => A!NoQR \notin A!QR /\ A!NoNumber \notin A!Number /\ A!QR \subseteq Nat /\ A!Number \subseteq Nat
  BY DEF A!AccessionBounds, A!NoQR, A!NoNumber, A!QR, A!Number

LEMMA StillBehind ==
  ASSUME NEW t, Fits(t), Behind(t), RegistryGrows PROVE Behind(t)'
  BY DEF Behind, RegistryGrows, Fits, BookTables

LEMMA BackupsStillFit ==
  ASSUME BackupsFit, RegistryGrows, UNCHANGED shelf, replacing' = replacing \/ replacing' = A!Nothing
  PROVE  BackupsFit'
  BY StillBehind DEF BackupsFit

(* ---------------------------------------------------- the tables of a book *)

LEMMA AddCopyKeeps ==
  ASSUME A!AccessionBounds, AccessionsInv, A!AddCopy PROVE AccessionsInv' /\ RegistryGrows
<1> USE Zero DEF AccessionsInv, A!registry, A!counts
<1>1. PICK q \in A!QR :
        /\ q \notin A!Claimed /\ A!Quiet /\ copies' = copies \union {q} /\ inUse' = inUse \union {q}
        /\ UNCHANGED <<holdings, claims, voids, assigning, shelf, replacing, overlapped>>
  BY DEF A!AddCopy
<1>2. RegistryGrows
  BY <1>1 DEF RegistryGrows
<1>3. Fits(A!Committed)'
  BY <1>1 DEF Fits, BookTables, A!Committed
<1>4. AssigningFits'
  BY <1>1 DEF AssigningFits
<1>5. BackupsFit'
  BY <1>1, <1>2, BackupsStillFit
<1>6. \A n \in A!Number : claims[n] # q
  BY <1>1 DEF A!Claimed
<1>7. q \notin copies => holdings[q] = A!NoNumber
  BY DEF Fits, BookTables, A!Committed
<1>8. Undisturbed'
  BY <1>1, <1>6, <1>7 DEF Undisturbed, HoldingsClaimed, ClaimsApart
<1> QED
  BY <1>2, <1>3, <1>4, <1>5, <1>8

LEMMA SetActiveKeeps ==
  ASSUME A!AccessionBounds, AccessionsInv, NEW q \in A!QR, A!SetActive(q) PROVE AccessionsInv' /\ RegistryGrows
<1> USE Zero DEF AccessionsInv, A!registry, A!counts
<1>1. /\ A!Quiet /\ inUse' \subseteq copies
      /\ UNCHANGED <<copies, holdings, claims, voids, assigning, shelf, replacing, overlapped>>
  BY DEF A!SetActive, Fits, BookTables, A!Committed
<1>2. RegistryGrows
  BY <1>1 DEF RegistryGrows
<1>3. Fits(A!Committed)' /\ AssigningFits' /\ Undisturbed'
  BY <1>1 DEF Fits, BookTables, A!Committed, AssigningFits, A!Quiet, Undisturbed, HoldingsClaimed, ClaimsApart
<1>4. BackupsFit'
  BY <1>1, <1>2, BackupsStillFit
<1> QED
  BY <1>2, <1>3, <1>4

LEMMA VoidAccessionKeeps ==
  ASSUME A!AccessionBounds, AccessionsInv, NEW q \in A!QR, A!VoidAccession(q) PROVE AccessionsInv' /\ RegistryGrows
<1> USE Zero DEF AccessionsInv, A!registry, A!counts, A!tables
<1>1. PICK n \in A!Number : n = holdings[q] /\ claims[n] = q
  BY DEF A!VoidAccession, Fits, BookTables, A!Committed
<1>2. /\ A!Quiet /\ voids' = voids \union {n}
      /\ UNCHANGED <<copies, inUse, holdings, claims, assigning, shelf, replacing, overlapped>>
  BY <1>1 DEF A!VoidAccession
<1>3. RegistryGrows
  BY <1>2 DEF RegistryGrows
<1>4. Fits(A!Committed)'
  BY <1>1, <1>2 DEF Fits, BookTables, A!Committed
<1>5. AssigningFits' /\ Undisturbed'
  BY <1>2 DEF AssigningFits, A!Quiet, Undisturbed, HoldingsClaimed, ClaimsApart
<1>6. BackupsFit'
  BY <1>2, <1>3, BackupsStillFit
<1> QED
  BY <1>3, <1>4, <1>5, <1>6

(* ------------------------------------------------------------- assignments *)

LEMMA BeginAssignKeeps ==
  ASSUME A!AccessionBounds, AccessionsInv, NEW some \in SUBSET A!QR, NEW start \in A!Number, A!BeginAssign(some, start)
  PROVE  AccessionsInv' /\ RegistryGrows
<1> USE Zero DEF AccessionsInv, A!registry, A!counts, A!tables
<1>1. PICK numbers \in SUBSET A!Number :
        (\A n \in numbers : claims[n] = A!NoQR) /\ assigning' \in A!Bijection(some, numbers)
  BY DEF A!BeginAssign
<1>2. /\ A!Quiet /\ \A q \in some : q \in inUse /\ holdings[q] = A!NoNumber
      /\ UNCHANGED <<copies, inUse, holdings, claims, voids, shelf, replacing, overlapped>>
  BY DEF A!BeginAssign, A!Assignable
<1>3. /\ DOMAIN assigning' = some
      /\ \A q \in some : assigning'[q] \in numbers /\ \A r \in some : assigning'[q] = assigning'[r] => q = r
  BY <1>1 DEF A!Bijection, A!Injection, A!IsInjective
<1>4. RegistryGrows
  BY <1>2 DEF RegistryGrows
<1>5. AssigningFits'
  BY <1>1, <1>2, <1>3 DEF AssigningFits
<1>6. Fits(A!Committed)' /\ Undisturbed'
  BY <1>2 DEF Fits, BookTables, A!Committed, A!Quiet, Undisturbed, HoldingsClaimed, ClaimsApart
<1>7. BackupsFit'
  BY <1>2, <1>4, BackupsStillFit
<1> QED
  BY <1>4, <1>5, <1>6, <1>7

LEMMA CommitAssignKeeps ==
  ASSUME A!AccessionBounds, AccessionsInv, A!CommitAssign PROVE AccessionsInv' /\ RegistryGrows
<1> USE Zero DEF AccessionsInv, A!registry, A!counts, A!tables
<1>1. /\ assigning # A!Nothing /\ assigning' = A!Nothing
      /\ UNCHANGED <<copies, inUse, voids, shelf, replacing, overlapped>>
  BY DEF A!CommitAssign
<1>2. /\ DOMAIN assigning \subseteq A!QR /\ inUse \subseteq copies /\ copies \subseteq A!QR
      /\ \A q \in DOMAIN assigning :
           /\ q \in inUse /\ holdings[q] = A!NoNumber
           /\ assigning[q] \in A!Number /\ claims[assigning[q]] = A!NoQR
           /\ \A r \in DOMAIN assigning : assigning[q] = assigning[r] => q = r
  BY <1>1 DEF AssigningFits, Fits, BookTables, A!Committed
<1>3. /\ claims' \in [A!Number -> A!QR \union {A!NoQR}]
      /\ \A q \in DOMAIN assigning : claims'[assigning[q]] = q
      /\ \A n \in A!Number : (\A q \in DOMAIN assigning : assigning[q] # n) => claims'[n] = claims[n]
  BY <1>2 DEF A!CommitAssign, Fits, BookTables, A!Committed
<1>4. /\ holdings' \in [A!QR -> A!Number \union {A!NoNumber}]
      /\ \A q \in A!QR : holdings'[q] = IF q \in DOMAIN assigning THEN assigning[q] ELSE holdings[q]
  BY <1>2 DEF A!CommitAssign, Fits, BookTables, A!Committed
<1>5. RegistryGrows
  BY <1>1, <1>2, <1>3 DEF RegistryGrows
<1>6. Fits(A!Committed)'
  BY <1>1, <1>2, <1>3, <1>4, <1>5 DEF Fits, BookTables, A!Committed, RegistryGrows
<1>7. Undisturbed'
  <2> SUFFICES ASSUME ~overlapped PROVE HoldingsClaimed' /\ ClaimsApart' /\ (replacing = A!Nothing)
    BY <1>1 DEF Undisturbed
  <2>1. HoldingsClaimed /\ ClaimsApart /\ replacing = A!Nothing
    BY <1>1 DEF Undisturbed
  <2>2. HoldingsClaimed'
    BY <1>1, <1>2, <1>3, <1>4, <2>1 DEF HoldingsClaimed
  <2>3. ClaimsApart'
    BY <1>2, <1>3, <2>1 DEF HoldingsClaimed, ClaimsApart
  <2> QED
    BY <2>1, <2>2, <2>3
<1>8. BackupsFit'
  BY <1>1, <1>5, BackupsStillFit
<1> QED
  BY <1>1, <1>5, <1>6, <1>7, <1>8 DEF AssigningFits

LEMMA AbortAssignKeeps ==
  ASSUME A!AccessionBounds, AccessionsInv, A!AbortAssign PROVE AccessionsInv' /\ RegistryGrows
<1> USE Zero DEF AccessionsInv, A!registry, A!counts, A!tables
<1>1. /\ assigning' = A!Nothing
      /\ UNCHANGED <<copies, inUse, holdings, claims, voids, shelf, replacing, overlapped>>
  BY DEF A!AbortAssign
<1>2. RegistryGrows
  BY <1>1 DEF RegistryGrows
<1>3. Fits(A!Committed)' /\ AssigningFits' /\ Undisturbed'
  BY <1>1 DEF Fits, BookTables, A!Committed, AssigningFits, Undisturbed, HoldingsClaimed, ClaimsApart
<1>4. BackupsFit'
  BY <1>1, <1>2, BackupsStillFit
<1> QED
  BY <1>2, <1>3, <1>4

(* ------------------------------------------------------- backups, restores *)

LEMMA BackupKeeps ==
  ASSUME A!AccessionBounds, AccessionsInv, A!TakeBackup \/ A!FailRestore \/ \E b \in shelf : A!BeginRestore(b)
  PROVE  AccessionsInv' /\ RegistryGrows
<1> USE Zero DEF AccessionsInv, A!registry, A!counts, A!tables
<1>1. UNCHANGED <<copies, inUse, holdings, claims, voids, assigning>>
  BY DEF A!TakeBackup, A!BeginRestore, A!FailRestore
<1>2. RegistryGrows
  BY <1>1 DEF RegistryGrows
<1>3. Fits(A!Committed)' /\ AssigningFits'
  BY <1>1 DEF Fits, BookTables, A!Committed, AssigningFits
<1>4. Behind(A!Committed)
  BY DEF Behind, A!Committed, Fits, BookTables
<1>5. BackupsFit'
  <2>1. \A t : Behind(t) => Behind(t)'
    BY <1>1 DEF Behind
  <2>2. CASE A!TakeBackup
    BY <1>4, <2>1, <2>2 DEF A!TakeBackup, BackupsFit
  <2>3. ASSUME NEW b \in shelf, A!BeginRestore(b) PROVE BackupsFit'
    BY <1>4, <2>1, <2>3 DEF A!BeginRestore, BackupsFit
  <2>4. CASE A!FailRestore
    BY <2>1, <2>4 DEF A!FailRestore, BackupsFit
  <2> QED
    BY <2>2, <2>3, <2>4
<1>6. Undisturbed'
  <2> SUFFICES ASSUME ~overlapped'
               PROVE  /\ HoldingsClaimed' /\ ClaimsApart'
                      /\ replacing' # A!Nothing => /\ assigning' = A!Nothing
                                                   /\ replacing'[2].claims = claims' /\ replacing'[2].voids = voids'
    BY DEF Undisturbed
  <2>0. ~overlapped
    BY DEF A!TakeBackup, A!BeginRestore, A!FailRestore
  <2>1. ~overlapped /\ HoldingsClaimed /\ ClaimsApart
    BY <2>0 DEF Undisturbed
  <2>2. HoldingsClaimed' /\ ClaimsApart'
    BY <1>1, <2>1 DEF HoldingsClaimed, ClaimsApart
  <2>3. CASE A!TakeBackup
    BY <1>1, <2>1, <2>2, <2>3 DEF A!TakeBackup, Undisturbed
  <2>4. ASSUME NEW b \in shelf, A!BeginRestore(b)
        PROVE  assigning' = A!Nothing /\ replacing'[2].claims = claims' /\ replacing'[2].voids = voids'
    BY <1>1, <2>4 DEF A!BeginRestore, A!Committed
  <2>5. CASE A!FailRestore
    BY <2>2, <2>5 DEF A!FailRestore
  <2> QED
    BY <2>2, <2>3, <2>4, <2>5
<1> QED
  BY <1>2, <1>3, <1>5, <1>6

(* Together with what the live registry had, the claims of a backup are    *)
(* those of the registry, for it only grew.                                *)
LEMMA CombinedIsLive ==
  ASSUME NEW b, NEW registered, Fits(b), Fits(registered), Behind(b), Behind(registered)
  PROVE  /\ A!Combined(b, registered) \in [A!Number -> A!QR \union {A!NoQR}]
         /\ \A n \in A!Number : A!Combined(b, registered)[n] # A!NoQR => claims[n] = A!Combined(b, registered)[n]
  BY DEF A!Combined, Fits, BookTables, Behind

LEMMA RestoredHold ==
  ASSUME A!AccessionBounds, NEW b, NEW registered, Fits(b), Fits(registered), ~A!Conflict(b, registered), NEW q \in A!QR
  PROVE  LET n == A!RestoredHoldings(b, registered)[q]
         IN  /\ n \in A!Number \union {A!NoNumber}
             /\ q \notin b.copies => n = A!NoNumber
             /\ q \in b.copies /\ n # A!NoNumber => A!Combined(b, registered)[n] = q
             /\ q \in b.copies /\ (\E m \in A!Number : A!Combined(b, registered)[m] = q) => n # A!NoNumber
<1>1. CASE q \in b.copies /\ A!NumbersOf(q, A!Combined(b, registered)) # {}
  <2>1. \E m \in A!Number : A!Combined(b, registered)[m] = q
    BY <1>1 DEF A!NumbersOf
  <2>2. A!RestoredHoldings(b, registered)[q] = CHOOSE n \in A!Number : A!Combined(b, registered)[n] = q
    BY <1>1 DEF A!RestoredHoldings
  <2> HIDE DEF A!Combined
  <2>3. /\ A!RestoredHoldings(b, registered)[q] \in A!Number
        /\ A!Combined(b, registered)[A!RestoredHoldings(b, registered)[q]] = q
    BY <2>1, <2>2
  <2> QED
    BY <1>1, <2>3, Zero
<1>2. CASE ~(q \in b.copies /\ A!NumbersOf(q, A!Combined(b, registered)) # {})
  <2>1. A!RestoredHoldings(b, registered)[q] = b.holdings[q]
    BY <1>2 DEF A!RestoredHoldings
  <2>2. b.holdings[q] \in A!Number \union {A!NoNumber} /\ (q \notin b.copies => b.holdings[q] = A!NoNumber)
    BY DEF Fits, BookTables
  <2>3. q \in b.copies /\ b.holdings[q] # A!NoNumber => A!Combined(b, registered)[b.holdings[q]] = q
    BY DEF A!Conflict
  <2> QED
    BY <1>2, <2>1, <2>2, <2>3 DEF A!NumbersOf
<1> QED
  BY <1>1, <1>2

LEMMA CommitRestoreKeeps ==
  ASSUME A!AccessionBounds, AccessionsInv, A!CommitRestore PROVE AccessionsInv' /\ RegistryGrows
<1> USE Zero DEF AccessionsInv, A!registry, A!counts, A!tables
<1>1. PICK b, registered : b = replacing[1] /\ registered = replacing[2]
  OBVIOUS
<1>2. /\ assigning = A!Nothing /\ replacing # A!Nothing /\ ~A!Conflict(b, registered) /\ b \in shelf
      /\ Fits(b) /\ Fits(registered) /\ Behind(b) /\ Behind(registered)
  BY <1>1 DEF A!CommitRestore, BackupsFit
<1>3. /\ copies' = b.copies /\ inUse' = b.active /\ holdings' = A!RestoredHoldings(b, registered)
      /\ claims' = [n \in A!Number |-> IF claims[n] # A!NoQR THEN claims[n] ELSE A!Combined(b, registered)[n]]
      /\ voids' = voids \union b.voids \union registered.voids
      /\ replacing' = A!Nothing /\ UNCHANGED <<assigning, shelf, overlapped>>
  BY <1>1 DEF A!CommitRestore
<1>4. PICK combined \in [A!Number -> A!QR \union {A!NoQR}] :
        combined = A!Combined(b, registered) /\ \A n \in A!Number : combined[n] # A!NoQR => claims[n] = combined[n]
  BY <1>2, CombinedIsLive
<1>5. claims' = claims
  BY <1>3, <1>4 DEF Fits, BookTables, A!Committed
<1>6. RegistryGrows
  BY <1>3, <1>5 DEF RegistryGrows
<1>7. holdings' \in [A!QR -> A!Number \union {A!NoNumber}]
  BY <1>2, <1>3, RestoredHold DEF A!RestoredHoldings
<1>8. \A q \in A!QR : /\ q \notin copies' => holdings'[q] = A!NoNumber
                      /\ q \in copies' /\ holdings'[q] # A!NoNumber => claims'[holdings'[q]] = q
                      /\ q \in copies' /\ (\E m \in A!Number : combined[m] = q) => holdings'[q] # A!NoNumber
  BY <1>2, <1>3, <1>4, <1>5, <1>7, RestoredHold
<1>9. Fits(A!Committed)'
  <2>1. \A n \in voids' : claims'[n] # A!NoQR
    BY <1>2, <1>3, <1>5 DEF Fits, BookTables, A!Committed, Behind
  <2>2. /\ copies' \in SUBSET A!QR /\ inUse' \subseteq copies' /\ voids' \in SUBSET A!Number
        /\ claims' \in [A!Number -> A!QR \union {A!NoQR}]
    BY <1>2, <1>3, <1>5 DEF Fits, BookTables, A!Committed
  <2> QED
    BY <1>7, <1>8, <2>1, <2>2 DEF Fits, BookTables, A!Committed
<1>10. Undisturbed'
  <2> SUFFICES ASSUME ~overlapped PROVE HoldingsClaimed' /\ ClaimsApart'
    BY <1>3 DEF Undisturbed
  <2>1. ClaimsApart /\ registered.claims = claims
    BY <1>1, <1>2 DEF Undisturbed
  <2>2. \A n \in A!Number : claims[n] # A!NoQR => combined[n] = claims[n]
    BY <1>2, <1>4, <2>1 DEF A!Combined, Behind, Fits, BookTables, A!Committed
  <2>3. HoldingsClaimed'
    <3> SUFFICES ASSUME NEW n \in A!Number, NEW q \in copies' PROVE holdings'[q] = n <=> claims'[n] = q
      BY DEF HoldingsClaimed
    <3>1. q \in A!QR
      BY <1>2, <1>3 DEF Fits, BookTables
    <3>2. holdings'[q] = n => claims'[n] = q
      BY <1>8, <3>1
    <3>3. claims'[n] = q => holdings'[q] = n
      BY <1>5, <1>7, <1>8, <2>1, <2>2, <3>1 DEF ClaimsApart
    <3> QED
      BY <3>2, <3>3
  <2> QED
    BY <1>5, <2>1, <2>3 DEF ClaimsApart
<1>11. BackupsFit'
  BY <1>3, <1>6, BackupsStillFit
<1> QED
  BY <1>2, <1>3, <1>6, <1>9, <1>10, <1>11 DEF AssigningFits

(* ------------------------------------------------------------- theorems *)

(* Claims that are apart give no QR code two numbers.                      *)
LEMMA RegistryHeld == ASSUME A!AccessionBounds, AccessionsInv PROVE A!RegistryHolds
<1> USE Zero DEF AccessionsInv
<1> SUFFICES ASSUME ~overlapped PROVE HoldingsClaimed /\ \A b \in shelf : ~A!Conflict(b, A!Committed)
  BY DEF A!RegistryHolds, HoldingsClaimed
<1>1. HoldingsClaimed /\ ClaimsApart
  BY DEF Undisturbed
<1>2. ASSUME NEW b \in shelf PROVE ~A!Conflict(b, A!Committed)
  <2>1. Fits(b) /\ Behind(b) /\ Fits(A!Committed)
    BY DEF BackupsFit
  <2>2. A!Committed.claims = claims /\ A!Committed.voids = voids
    BY DEF A!Committed
  <2>3. A!Combined(b, A!Committed) = claims
    BY <2>1, <2>2 DEF A!Combined, Behind, Fits, BookTables
  <2>4. ASSUME NEW q \in A!QR PROVE ~(A!Cardinality(A!NumbersOf(q, claims)) > 1)
    <3>1. CASE A!NumbersOf(q, claims) = {}
      BY <3>1, FS_EmptySet, SameCounts
    <3>2. CASE A!NumbersOf(q, claims) # {}
      <4>1. PICK n \in A!Number : claims[n] = q
        BY <3>2 DEF A!NumbersOf
      <4>2. A!NumbersOf(q, claims) = {n}
        BY <4>1, <1>1 DEF A!NumbersOf, ClaimsApart
      <4> QED
        <5>1. A!Cardinality({n}) = 1
          BY FS_Singleton, SameCounts
        <5> QED
          BY <4>2, <5>1
    <3> QED
      BY <3>1, <3>2
  <2>5. \A n \in A!Number : b.claims[n] # A!NoQR => claims[n] = b.claims[n]
    BY <2>1 DEF Behind
  <2>6. \A n \in b.voids \union voids : claims[n] # A!NoQR
    BY <2>1, <2>2 DEF Fits, BookTables, Behind
  <2>7. \A q \in b.copies : b.holdings[q] # A!NoNumber => claims[b.holdings[q]] = q
    BY <2>1, <2>5 DEF Fits, BookTables
  <2> QED
    BY <2>2, <2>3, <2>4, <2>5, <2>6, <2>7 DEF A!Conflict
<1> QED
  BY <1>1, <1>2

LEMMA AccessionsStart == ASSUME A!AccessionBounds, A!Init PROVE AccessionsInv
<1> USE Zero DEF A!Init
<1>1. Fits(A!Committed)
  BY DEF Fits, BookTables, A!Committed
<1>2. BackupsFit /\ AssigningFits /\ Undisturbed
  BY DEF BackupsFit, AssigningFits, Undisturbed, HoldingsClaimed, ClaimsApart
<1> QED
  BY <1>1, <1>2 DEF AccessionsInv

LEMMA AccessionsKeep == ASSUME A!AccessionBounds, AccessionsInv, [A!Next]_(A!vars) PROVE AccessionsInv' /\ RegistryGrows
<1>1. CASE A!Next
  BY <1>1, AddCopyKeeps, SetActiveKeeps, VoidAccessionKeeps, BeginAssignKeeps, CommitAssignKeeps, AbortAssignKeeps,
     BackupKeeps, CommitRestoreKeeps DEF A!Next
<1>2. CASE UNCHANGED A!vars
  BY <1>2 DEF A!vars, A!tables, A!registry, A!counts, AccessionsInv, RegistryGrows, Fits, A!Committed, BackupsFit,
     Behind, AssigningFits, Undisturbed, HoldingsClaimed, ClaimsApart
<1> QED
  BY <1>1, <1>2

(* -------------------------------------------------------------- moderation *)

Someone == Member \union {Nobody}
Comments == [author : Someone, hider : Someone, remover : Someone, hidden : BOOLEAN, held : BOOLEAN]
Cases == [status : {"none", "open", "resolved", "dismissed", "withdrawn"},
          source : {"none", "screening", "report", "staff", "appeal"}, urgent : BOOLEAN,
          revision : Nat, appealed : BOOLEAN, reviewer : Someone, resolved : Nat]
Reviews == [comment : Comments, case : Cases, reports : SUBSET Member]

(* The page of a reviewer with the present revision shows what is there,   *)
(* but for a removal.                                                      *)
ShowsPresent(page) ==
  /\ page.case.revision <= case.revision
  /\ case # M!NoCase /\ page.case.revision = case.revision =>
       /\ [page.comment EXCEPT !.remover = comment.remover] = comment
       /\ page.case = case /\ page.reports = reports

ModerationInv ==
  /\ post \in {"open", "locked", "archived"}
  /\ comment \in Comments /\ case \in Cases /\ reports \in SUBSET Member /\ loaded \in [Admin -> Reviews]
  /\ comment.held => comment.hidden /\ comment.hider = Nobody
  /\ case # M!NoCase => comment.author # Nobody /\ case.revision > 0
  /\ case.status = "open" => case.reviewer = Nobody
  /\ M!WaitingIsOpen
  /\ \A a \in Admin : ShowsPresent(loaded[a])

LEMMA Roles == M!AccountRoles => Admin \subseteq Member /\ Staff \subseteq Member /\ Nobody \notin Member
  BY DEF M!AccountRoles

LEMMA ModerationStarts == ASSUME M!AccountRoles, M!Init PROVE ModerationInv
<1>1. M!NoComment \in Comments /\ M!NoCase \in Cases
  BY DEF M!NoComment, M!NoCase, Comments, Cases, Someone
<1>2. /\ post = "open" /\ comment = M!NoComment /\ case = M!NoCase /\ reports = {}
      /\ loaded = [a \in Admin |-> [comment |-> M!NoComment, case |-> M!NoCase, reports |-> {}]]
  BY DEF M!Init, M!Review
<1>3. loaded \in [Admin -> Reviews]
  BY <1>1, <1>2 DEF Reviews
<1>4. \A a \in Admin : ShowsPresent(loaded[a])
  BY <1>2 DEF ShowsPresent, M!NoCase
<1> QED
  BY <1>1, <1>2, <1>3, <1>4 DEF ModerationInv, M!WaitingIsOpen, M!Live, M!NoComment, M!NoCase

(* What opening a case does to it.                                         *)
LEMMA OpenedCase ==
  ASSUME case \in Cases, NEW source \in {"screening", "report", "staff", "appeal"}, NEW urgent \in BOOLEAN
  PROVE  LET opened == M!Opened(source, urgent)
         IN  /\ opened \in Cases /\ opened.status = "open" /\ opened.reviewer = Nobody
             /\ opened.revision = case.revision + 1 /\ opened.resolved = 0 /\ opened.appealed = case.appealed
<1>1. /\ case.revision + 1 \in Nat /\ Nobody \in Someone /\ 0 \in Nat
      /\ (urgent \/ (case.status = "open" /\ case.urgent)) \in BOOLEAN
      /\ (IF case = M!NoCase THEN source ELSE case.source) \in {"none", "screening", "report", "staff", "appeal"}
  BY DEF Cases, Someone
<1> QED
  BY <1>1 DEF M!Opened, Cases

(* A step that counts up the revision leaves no page with the present one. *)
LEMMA PagesAreOld ==
  ASSUME ModerationInv, loaded' = loaded, case' \in Cases, case'.revision = case.revision + 1
  PROVE  (\A a \in Admin : ShowsPresent(loaded[a]))' /\ loaded' \in [Admin -> Reviews]
<1> SUFFICES ASSUME NEW a \in Admin PROVE ShowsPresent(loaded[a])'
  BY DEF ModerationInv
<1>1. loaded[a].case.revision \in Nat /\ case.revision \in Nat /\ loaded[a].case.revision <= case.revision
  BY DEF ModerationInv, ShowsPresent, Reviews, Cases
<1> QED
  BY <1>1 DEF ShowsPresent

(* The page of a comment that only changed by its removal.                 *)
LEMMA PagesStay ==
  ASSUME ModerationInv, UNCHANGED <<case, reports, loaded>>, NEW remover \in Someone,
         comment' = [comment EXCEPT !.remover = remover] \/ case = M!NoCase
  PROVE  (\A a \in Admin : ShowsPresent(loaded[a]))'
<1> SUFFICES ASSUME NEW a \in Admin PROVE ShowsPresent(loaded[a])'
  OBVIOUS
<1>1. ShowsPresent(loaded[a]) /\ comment \in Comments /\ loaded[a].comment \in Comments
  BY DEF ModerationInv, Reviews
<1> QED
  BY <1>1 DEF ShowsPresent, Comments

LEMMA ReplyKeeps ==
  ASSUME M!AccountRoles, ModerationInv, NEW u \in Member, NEW held \in BOOLEAN, NEW urgent \in BOOLEAN,
         M!AddReply(u, held, urgent)
  PROVE  ModerationInv'
<1>1. /\ comment = M!NoComment /\ comment' = [comment EXCEPT !.author = u, !.hidden = held, !.held = held]
      /\ case' = IF held THEN M!Opened("screening", urgent) ELSE case
      /\ UNCHANGED <<post, reports, loaded>>
  BY DEF M!AddReply
<1>2. case = M!NoCase
  BY <1>1 DEF ModerationInv, M!NoComment
<1>3. /\ comment' \in Comments /\ comment'.author = u /\ comment'.held = held /\ comment'.hidden = held
      /\ comment'.hider = Nobody
  BY <1>1 DEF ModerationInv, Comments, M!NoComment, Someone
<1>4. /\ case' \in Cases
      /\ held => case'.status = "open" /\ case'.reviewer = Nobody /\ case'.revision = case.revision + 1
      /\ case'.appealed = case.appealed
  BY <1>1, OpenedCase DEF ModerationInv
<1>5. (\A a \in Admin : ShowsPresent(loaded[a]))'
  BY <1>1, <1>2, <1>4, PagesAreOld, PagesStay DEF Someone
<1>6. case.revision \in Nat
  BY DEF ModerationInv, Cases
<1> QED
  BY <1>1, <1>2, <1>3, <1>4, <1>5, <1>6, Roles DEF ModerationInv, M!WaitingIsOpen, M!NoCase

(* A report, a hiding or an appeal opens the case.                         *)
LEMMA OpeningKeeps ==
  ASSUME M!AccountRoles, ModerationInv, NEW u \in Member, NEW urgent \in BOOLEAN,
         M!Report(u, urgent) \/ M!Hide(u) \/ M!Reconsider
  PROVE  ModerationInv'
<1>1. /\ comment.author # Nobody /\ UNCHANGED <<post, loaded>>
      /\ comment' = comment \/ (~comment.held /\ comment' = [comment EXCEPT !.hidden = TRUE, !.hider = u])
      /\ reports' = reports \/ reports' = reports \union {u}
  BY DEF M!Report, M!Hide, M!Reconsider, M!Live
<1>2. case' \in Cases /\ case'.status = "open" /\ case'.reviewer = Nobody /\ case'.revision = case.revision + 1
  <2>1. PICK source \in {"report", "staff", "appeal"}, hasty \in BOOLEAN :
          case' = M!Opened(source, hasty) \/ case' = [M!Opened(source, hasty) EXCEPT !.appealed = TRUE]
    BY DEF M!Report, M!Hide, M!Reconsider, ModerationInv, Cases
  <2> DEFINE opened == M!Opened(source, hasty)
  <2>2. opened \in Cases /\ opened.status = "open" /\ opened.reviewer = Nobody /\ opened.revision = case.revision + 1
    BY OpenedCase DEF ModerationInv
  <2> HIDE DEF opened
  <2>3. case' = opened \/ case' = [opened EXCEPT !.appealed = TRUE]
    BY <2>1 DEF opened
  <2> QED
    BY <2>2, <2>3 DEF Cases
<1>3. (\A a \in Admin : ShowsPresent(loaded[a]))'
  BY <1>1, <1>2, PagesAreOld
<1>4. comment' \in Comments /\ comment'.author = comment.author /\ (comment'.held => comment' = comment)
  BY <1>1 DEF ModerationInv, Comments, Someone
<1>5. case.revision \in Nat
  BY DEF ModerationInv, Cases
<1> QED
  BY <1>1, <1>2, <1>3, <1>4, <1>5 DEF ModerationInv, M!WaitingIsOpen

LEMMA UnhideKeeps ==
  ASSUME M!AccountRoles, ModerationInv, NEW u \in Member, M!Unhide(u)
  PROVE  ModerationInv'
<1>1. /\ comment.author # Nobody /\ ~comment.held /\ UNCHANGED <<post, reports, loaded>>
      /\ comment' = [comment EXCEPT !.hidden = FALSE, !.hider = Nobody]
      /\ case' = IF case = M!NoCase THEN case ELSE [case EXCEPT !.revision = @ + 1]
  BY DEF M!Unhide, M!Live, M!RecordVisibilityChange
<1>2. comment' \in Comments /\ comment'.author = comment.author /\ ~comment'.held
  BY <1>1 DEF ModerationInv, Comments, Someone
<1>3. CASE case = M!NoCase
  <2>1. case' = case
    BY <1>1, <1>3
  <2>2. (\A a \in Admin : ShowsPresent(loaded[a]))'
    BY <1>1, <1>3, <2>1, PagesStay DEF Someone
  <2> QED
    BY <1>1, <1>2, <1>3, <2>1, <2>2 DEF ModerationInv, M!WaitingIsOpen
<1>4. CASE case # M!NoCase
  <2>1. /\ case' \in Cases /\ case'.revision = case.revision + 1 /\ case'.status = case.status
        /\ case'.reviewer = case.reviewer /\ case'.appealed = case.appealed /\ case.revision \in Nat
    BY <1>1, <1>4 DEF ModerationInv, Cases
  <2>2. (\A a \in Admin : ShowsPresent(loaded[a]))'
    BY <1>1, <2>1, PagesAreOld
  <2> QED
    BY <1>1, <1>2, <2>1, <2>2 DEF ModerationInv, M!WaitingIsOpen
<1> QED
  BY <1>3, <1>4

LEMMA RemovalKeeps ==
  ASSUME M!AccountRoles, ModerationInv, NEW u \in Member, M!RemoveComment(u)
  PROVE  ModerationInv'
<1>1. /\ comment.author # Nobody /\ UNCHANGED <<post, reports, loaded>>
      /\ comment' = [comment EXCEPT !.remover = u]
      /\ case' = M!Withdrawn(u)
  BY DEF M!RemoveComment, M!Live
<1>2. /\ comment' \in Comments /\ comment'.author = comment.author /\ comment'.remover # Nobody
      /\ comment'.held = comment.held /\ comment'.hidden = comment.hidden /\ comment'.hider = comment.hider
  BY <1>1, Roles DEF ModerationInv, Comments, Someone
<1>3. CASE case' = case
  <2>1. (\A a \in Admin : ShowsPresent(loaded[a]))'
    BY <1>1, <1>3, PagesStay DEF Someone
  <2> QED
    BY <1>1, <1>2, <1>3, <2>1 DEF ModerationInv, M!WaitingIsOpen, M!Live
<1>4. CASE case' # case
  <2>0. /\ case \in Cases /\ case.revision \in Nat /\ case.revision + 1 \in Nat
        /\ case' = [case EXCEPT !.status = "withdrawn", !.appealed = FALSE,
                                !.revision = case.revision + 1, !.resolved = case.revision + 1]
    BY <1>1, <1>4 DEF ModerationInv, Cases, M!Withdrawn
  <2>1. /\ case' \in Cases /\ case'.revision = case.revision + 1 /\ case'.status = "withdrawn"
        /\ ~case'.appealed /\ case.revision \in Nat
    BY <2>0 DEF Cases
  <2>2. (\A a \in Admin : ShowsPresent(loaded[a]))'
    BY <1>1, <2>1, PagesAreOld
  <2> QED
    BY <1>1, <1>2, <2>1, <2>2 DEF ModerationInv, M!WaitingIsOpen, M!Live
<1> QED
  BY <1>3, <1>4

LEMMA DetailKeeps ==
  ASSUME M!AccountRoles, ModerationInv, NEW a \in Admin, M!Detail(a)
  PROVE  ModerationInv'
<1>1. UNCHANGED <<post, comment, case, reports>> /\ loaded' = [loaded EXCEPT ![a] = M!Review]
  BY DEF M!Detail
<1>2. M!Review \in Reviews /\ ShowsPresent(M!Review)
  BY DEF ModerationInv, M!Review, Reviews, ShowsPresent, Comments, Cases
<1>3. loaded' \in [Admin -> Reviews] /\ \A x \in Admin : loaded'[x] = IF x = a THEN M!Review ELSE loaded[x]
  BY <1>1, <1>2 DEF ModerationInv
<1>4. \A x \in Admin : ShowsPresent(loaded'[x])
  BY <1>2, <1>3 DEF ModerationInv
<1>5. (\A x \in Admin : ShowsPresent(loaded[x]))'
  BY <1>1, <1>4 DEF ShowsPresent
<1> QED
  BY <1>1, <1>3, <1>5 DEF ModerationInv, M!WaitingIsOpen, M!Live

LEMMA DecisionKeeps ==
  ASSUME M!AccountRoles, ModerationInv, NEW a \in Admin, NEW action \in {"dismiss", "hide", "restore"},
         M!Decide(a, action)
  PROVE  ModerationInv'
<1>1. /\ case.status \notin {"none", "withdrawn"} /\ UNCHANGED <<post, reports, loaded>>
      /\ action = "dismiss" => ~(comment.held /\ M!Live)
      /\ comment' = M!Decided(a, action)
      /\ case' = [case EXCEPT !.status = IF action = "dismiss" THEN "dismissed" ELSE "resolved",
                              !.reviewer = a, !.appealed = FALSE,
                              !.revision = @ + 1, !.resolved = case.revision + 1]
  BY DEF M!Decide, M!Reviewable
<1>2. case # M!NoCase /\ comment.author # Nobody
  BY <1>1 DEF M!NoCase, ModerationInv
<1>3. a \in Someone
  BY Roles DEF Someone
<1>4. /\ case' \in Cases /\ case'.revision = case.revision + 1 /\ case'.status # "open" /\ ~case'.appealed
      /\ case.revision \in Nat
  <2> DEFINE status == IF action = "dismiss" THEN "dismissed" ELSE "resolved"
  <2>1. case \in Cases /\ case.revision \in Nat /\ case.revision + 1 \in Nat
    BY DEF ModerationInv, Cases
  <2>2. status \in {"dismissed", "resolved"}
    OBVIOUS
  <2>3. case' = [case EXCEPT !.status = status, !.reviewer = a, !.appealed = FALSE,
                             !.revision = case.revision + 1, !.resolved = case.revision + 1]
    BY <1>1
  <2> HIDE DEF status
  <2> QED
    BY <1>3, <2>1, <2>2, <2>3 DEF Cases
<1>5. (\A x \in Admin : ShowsPresent(loaded[x]))'
  BY <1>1, <1>4, PagesAreOld
<1>6. CASE action = "dismiss"
  <2>1. comment' = comment
    BY <1>1, <1>6 DEF M!Decided
  <2> QED
    BY <1>1, <1>2, <1>4, <1>5, <1>6, <2>1 DEF ModerationInv, M!WaitingIsOpen, M!Live
<1>7. CASE action # "dismiss"
  <2>1. comment' \in Comments /\ comment'.author = comment.author /\ ~comment'.held
    BY <1>1, <1>3, <1>7 DEF M!Decided, ModerationInv, Comments, Someone
  <2> QED
    BY <1>1, <1>2, <1>4, <1>5, <2>1 DEF ModerationInv, M!WaitingIsOpen
<1> QED
  BY <1>6, <1>7

LEMMA ModerationKeeps == ASSUME M!AccountRoles, ModerationInv, [M!Next]_(M!vars) PROVE ModerationInv'
<1>1. CASE M!LockComments \/ M!ArchivePost \/ UNCHANGED M!vars
  BY <1>1 DEF M!LockComments, M!ArchivePost, M!vars, ModerationInv, ShowsPresent, M!WaitingIsOpen, M!Live
<1>2. CASE M!Reconsider
  <2>1. \E u \in Member : TRUE
    BY <1>2 DEF M!Reconsider, M!Live, ModerationInv, Comments, Someone
  <2> QED
    BY <1>2, <2>1, OpeningKeeps
<1> QED
  BY <1>1, <1>2, ReplyKeeps, OpeningKeeps, UnhideKeeps, RemovalKeeps, DetailKeeps, DecisionKeeps DEF M!Next

(* Only a decision sets a reviewer together with the revision at which the *)
(* case was resolved, and it is taken with the present revision.           *)
LEMMA DecisionsInformed ==
  ASSUME M!AccountRoles, ModerationInv, M!Next, case'.reviewer # Nobody, case'.resolved # case.resolved
  PROVE  LET page == loaded[case'.reviewer]
         IN  /\ [page.comment EXCEPT !.remover = comment.remover] = comment
             /\ page.case = case /\ page.reports = reports
<1>1. ASSUME NEW a \in Admin, NEW action, M!Decide(a, action)
      PROVE  case'.reviewer = a /\ case # M!NoCase /\ loaded[a].case.revision = case.revision
  BY <1>1 DEF M!Decide, M!Reviewable, M!NoCase, ModerationInv, Cases
<1>2. ASSUME NEW source \in {"screening", "report", "staff", "appeal"}, NEW urgent \in BOOLEAN,
             case' = M!Opened(source, urgent) \/ case' = [M!Opened(source, urgent) EXCEPT !.appealed = TRUE]
      PROVE  FALSE
  <2> DEFINE opened == M!Opened(source, urgent)
  <2>1. opened \in Cases /\ opened.reviewer = Nobody
    BY OpenedCase DEF ModerationInv
  <2> HIDE DEF opened
  <2>2. case' = opened \/ case' = [opened EXCEPT !.appealed = TRUE]
    BY <1>2 DEF opened
  <2> QED
    BY <2>1, <2>2 DEF Cases
<1>3. ASSUME NEW u \in Member, M!Unhide(u) \/ M!RemoveComment(u) PROVE FALSE
  BY <1>3 DEF M!Unhide, M!RemoveComment, M!RecordVisibilityChange, M!Withdrawn, ModerationInv, Cases
<1>4. ASSUME NEW u \in Member, NEW held \in BOOLEAN, NEW urgent \in BOOLEAN,
             M!AddReply(u, held, urgent) \/ M!Report(u, urgent) \/ M!Hide(u) \/ M!Reconsider
      PROVE  FALSE
  <2>1. case' # case
    OBVIOUS
  <2> QED
    BY <1>2, <1>4, <2>1 DEF M!AddReply, M!Report, M!Hide, M!Reconsider, ModerationInv, Cases
<1>5. ~M!Reconsider
  <2> SUFFICES ASSUME M!Reconsider PROVE FALSE
    OBVIOUS
  <2>1. case' = [M!Opened("appeal", case.urgent) EXCEPT !.appealed = TRUE] /\ case.urgent \in BOOLEAN
    BY DEF M!Reconsider, ModerationInv, Cases
  <2> QED
    BY <1>2, <2>1
<1>6. ~(M!LockComments \/ M!ArchivePost) /\ \A a \in Admin : ~M!Detail(a)
  BY DEF M!LockComments, M!ArchivePost, M!Detail
<1>7. PICK a \in Admin, action \in {"dismiss", "hide", "restore"} : M!Decide(a, action)
  BY <1>3, <1>4, <1>5, <1>6 DEF M!Next
<1> QED
  BY <1>1, <1>7 DEF ModerationInv, ShowsPresent

(* -------------------------------------------------------------- publishing *)

(* Whoever has loaded the present revision knows what the draft was begun  *)
(* from, as every change of the draft counts up its revision.              *)
PublishingInv ==
  /\ revision \in Nat /\ editor = [e \in Editor |-> editor[e]]
  /\ \A e \in Editor :
       /\ editor[e].revision \in Nat /\ editor[e].revision <= revision
       /\ editor[e].revision = revision /\ draft # NoDraft => editor[e].base = base

LEMMA PublishingStarts == ASSUME P!Init PROVE PublishingInv
  BY DEF PublishingInv, P!Init, P!Document

(* An answer tells the editor the draft that is there now.                 *)
LEMMA AnswersKeep ==
  ASSUME PublishingInv, NEW e \in Editor, NEW count \in {1, 2}, revision' = revision + count, P!Answer(e)
  PROVE  PublishingInv'
<1>1. revision' \in Nat /\ revision' > revision
  BY DEF PublishingInv
<1>2. editor' = [editor EXCEPT ![e] = P!Document(draft', base', revision', live')]
  BY DEF P!Answer
<1>3. editor' = [f \in Editor |-> editor'[f]]
  BY <1>2 DEF PublishingInv
<1>4. ASSUME NEW f \in Editor
      PROVE  /\ editor'[f].revision \in Nat /\ editor'[f].revision <= revision'
             /\ editor'[f].revision = revision' /\ draft' # NoDraft => editor'[f].base = base'
  <2>1. CASE f = e
    <3>1. editor'[f] = P!Document(draft', base', revision', live')
      BY <1>2, <2>1 DEF PublishingInv
    <3> QED
      BY <1>1, <3>1 DEF P!Document
  <2>2. CASE f # e
    <3>1. editor'[f] = editor[f] /\ editor[f].revision \in Nat /\ editor[f].revision <= revision /\ revision \in Nat
      BY <1>2, <2>2 DEF PublishingInv
    <3> QED
      BY <1>1, <3>1
  <2> QED
    BY <2>1, <2>2
<1> QED
  BY <1>1, <1>3, <1>4 DEF PublishingInv

LEMMA LoadKeeps == ASSUME PublishingInv, NEW e \in Editor, P!Load(e) PROVE PublishingInv'
<1>1. /\ UNCHANGED <<live, draft, base, revision>>
      /\ editor' = [editor EXCEPT ![e] = P!Document(draft, base, revision, live)]
  BY DEF P!Load, P!Answer
<1>2. editor' = [f \in Editor |-> editor'[f]]
  BY <1>1 DEF PublishingInv
<1>3. ASSUME NEW f \in Editor
      PROVE  /\ editor'[f].revision \in Nat /\ editor'[f].revision <= revision
             /\ editor'[f].revision = revision /\ draft # NoDraft => editor'[f].base = base
  <2>1. f = e => editor'[f] = P!Document(draft, base, revision, live)
    BY <1>1 DEF PublishingInv
  <2>2. f # e => editor'[f] = editor[f]
    BY <1>1 DEF PublishingInv
  <2>3. f = e \/ f # e
    OBVIOUS
  <2> QED
    BY <2>1, <2>2, <2>3 DEF PublishingInv, P!Document
<1> QED
  BY <1>1, <1>2, <1>3 DEF PublishingInv

LEMMA PublishingKeeps == ASSUME PublishingInv, [P!Next]_(P!vars) PROVE PublishingInv'
<1>1. CASE UNCHANGED P!vars
  BY <1>1 DEF PublishingInv, P!vars
<1>2. ASSUME NEW e \in Editor, P!Load(e) PROVE PublishingInv'
  BY <1>2, LoadKeeps
<1>3. ASSUME NEW e \in Editor, P!Discard(e) PROVE PublishingInv'
  BY <1>3, AnswersKeep DEF P!Discard, P!Clear, P!SetDraft
<1>4. ASSUME NEW e \in Editor, NEW payload, P!SaveDraft(e, payload) \/ P!Publish(e, payload) PROVE PublishingInv'
  BY <1>4, AnswersKeep DEF P!SaveDraft, P!Publish, P!Clear, P!SetDraft
<1>5. ASSUME NEW e \in Editor, NEW r \in Record, P!DiscardRecord(e, r) PROVE PublishingInv'
  <2>1. revision' = revision + 1 /\ P!Answer(e)
    BY <1>5 DEF P!DiscardRecord, P!Clear, P!SetDraft
  <2> QED
    BY <2>1, AnswersKeep
<1>6. ASSUME NEW e \in Editor, NEW r \in Record, NEW content, P!SaveRecord(e, r, content) PROVE PublishingInv'
  BY <1>6, AnswersKeep DEF P!SaveRecord, P!SetDraft
<1>7. ASSUME NEW e \in Editor, NEW r \in Record, NEW content, P!PublishRecord(e, r, content) PROVE PublishingInv'
  <2>1. P!Answer(e) /\ (revision' = revision + 1 \/ revision' = revision + 2)
    BY <1>7 DEF P!PublishRecord, P!Clear, P!SetDraft
  <2> QED
    BY <2>1, AnswersKeep
<1>8. ASSUME NEW r \in Record, NEW content, P!ChangeLive(r, content) PROVE PublishingInv'
  BY <1>8 DEF PublishingInv, P!ChangeLive
<1> QED
  BY <1>1, <1>2, <1>3, <1>4, <1>5, <1>6, <1>7, <1>8 DEF P!Next

(* Only an editor with the present revision publishes, and only over what  *)
(* the draft was begun from.                                               *)
LEMMA PublicationsKnowing ==
  ASSUME PublishingInv, [P!Next]_(P!vars), NEW e \in Editor, publisher' # publisher, publisher'[1] = e
  PROVE  live \in {editor[e].version, editor[e].base}
<1>1. PICK f \in Editor : P!Publishable(f) /\ P!PublishedBy(f)
  <2>1. P!Next
    BY DEF P!vars
  <2>2. ASSUME NEW g \in Editor, P!Load(g) \/ P!Discard(g) PROVE FALSE
    BY <2>2 DEF P!Load, P!Discard
  <2>3. ASSUME NEW g \in Editor, NEW payload, P!SaveDraft(g, payload) PROVE FALSE
    BY <2>3 DEF P!SaveDraft
  <2>4. ASSUME NEW g \in Editor, NEW r, NEW content, P!DiscardRecord(g, r) \/ P!SaveRecord(g, r, content) PROVE FALSE
    BY <2>4 DEF P!DiscardRecord, P!SaveRecord
  <2>5. ASSUME NEW r, NEW content, P!ChangeLive(r, content) PROVE FALSE
    BY <2>5 DEF P!ChangeLive
  <2>6. ASSUME NEW g \in Editor, NEW r, NEW content, P!Publish(g, content) \/ P!PublishRecord(g, r, content)
        PROVE  P!Publishable(g) /\ P!PublishedBy(g)
    BY <2>6 DEF P!Publish, P!PublishRecord
  <2> QED
    BY <2>1, <2>2, <2>3, <2>4, <2>5, <2>6 DEF P!Next
<1>2. f = e
  BY <1>1 DEF P!PublishedBy
<1> QED
  BY <1>1, <1>2 DEF PublishingInv, P!Publishable, P!Current, P!Base

(* ---------------------------------------------------------------- the desk *)

(* Nothing is shown but what the fields hold; each mode has lookups of its *)
(* own, as switching overtakes those of the other; and the patron of a     *)
(* reservation stays in his field.  A desk that left a reservation during  *)
(* its lookup may show its patron beside another's number.                 *)
DeskInv ==
  /\ type \in {"borrow", "return"} /\ copyBarcode \in D!Id /\ lookups \subseteq D!Lookup
  /\ foundUser # Nobody /\ ~strayed => studentId = foundUser
  /\ foundCopy # Nobody => copyBarcode = foundCopy
  /\ returnPreview # Nobody => copyBarcode = returnPreview
  /\ type = "return" => foundCopy = Nobody
  /\ type = "borrow" => returnPreview = Nobody
  /\ submission.kind = "return" => type = "return"
  /\ reservationCheckout # Nobody =>
       /\ type = "borrow" /\ ~undoable /\ submission.kind \in {"none", "borrow"}
       /\ studentId = reservationCheckout /\ ~strayed
  /\ \A k \in lookups :
       /\ k.kind = "user" => reservationCheckout = Nobody
       /\ k.kind = "reserved" => k.id = reservationCheckout \/ strayed
       /\ k.kind = "copy" /\ k.current => type = "borrow"
       /\ k.kind = "return" /\ k.current => type = "return" /\ k.id = copyBarcode

LEMMA LookupsAre ==
  ASSUME NEW kind \in {"user", "reserved", "copy", "return"}, NEW i \in Patron \union Item
  PROVE  [kind |-> kind, id |-> i, current |-> TRUE] \in D!Lookup
<1>1. TRUE \in BOOLEAN
  OBVIOUS
<1> QED
  BY <1>1 DEF D!Lookup

LEMMA DeskStarts == ASSUME D!Init PROVE DeskInv
<1>1. /\ reservationCheckout \in Patron \union {Nobody} /\ copyBarcode \in Item \union {Nobody}
      /\ type = "borrow" /\ studentId = reservationCheckout /\ submission.kind = "none" /\ ~undoable /\ ~strayed
      /\ foundUser = Nobody /\ foundCopy = Nobody /\ returnPreview = Nobody
  BY DEF D!Init, D!Idle
<1>2. ASSUME NEW k \in lookups
      PROVE  /\ k \in D!Lookup
             /\ \/ k.kind = "reserved" /\ k.id = reservationCheckout
                \/ k.kind = "copy"
  <2>1. PICK i \in Patron \union Item :
          \/ i = reservationCheckout /\ k = [kind |-> "reserved", id |-> i, current |-> TRUE]
          \/ k = [kind |-> "copy", id |-> i, current |-> TRUE]
    BY <1>1 DEF D!Init
  <2>2. /\ [kind |-> "reserved", id |-> i, current |-> TRUE] \in D!Lookup
        /\ [kind |-> "copy", id |-> i, current |-> TRUE] \in D!Lookup
    BY LookupsAre
  <2>3. CASE i = reservationCheckout /\ k = [kind |-> "reserved", id |-> i, current |-> TRUE]
    BY <2>2, <2>3
  <2>4. CASE k = [kind |-> "copy", id |-> i, current |-> TRUE]
    BY <2>2, <2>4
  <2> QED
    BY <2>1, <2>3, <2>4
<1> QED
  BY <1>1, <1>2 DEF DeskInv, D!Id

LEMMA OvertakenAre ==
  ASSUME lookups \subseteq D!Lookup, NEW kinds, NEW k \in D!Overtaken(kinds)
  PROVE  /\ k \in D!Lookup
         /\ \E j \in lookups : j.kind = k.kind /\ j.id = k.id /\ (k.current => j.current /\ k.kind \notin kinds)
<1>1. PICK j \in lookups : k = IF j.kind \in kinds THEN [j EXCEPT !.current = FALSE] ELSE j
  BY DEF D!Overtaken
<1> QED
  BY <1>1 DEF D!Lookup

(* A lookup that starts is the only current one of its kind.               *)
LEMMA StartedAre ==
  ASSUME lookups \subseteq D!Lookup, NEW kind \in {"user", "copy", "return"}, NEW i \in Patron \union Item,
         NEW k \in D!Started(kind, i)
  PROVE  /\ k \in D!Lookup
         /\ \/ k.kind = kind /\ k.id = i
            \/ \E j \in lookups : /\ j.kind = k.kind /\ j.id = k.id
                                  /\ k.current => j.current /\ k.kind # kind
<1>1. CASE k = [kind |-> kind, id |-> i, current |-> TRUE]
  BY <1>1, LookupsAre
<1>2. CASE k \in D!Overtaken({kind})
  BY <1>2, OvertakenAre
<1> QED
  BY <1>1, <1>2 DEF D!Started

LEMMA FormKeeps ==
  ASSUME DeskInv,
         \/ \E p \in Patron \union {Nobody} : D!TypePatron(p)
         \/ \E c \in Item \union {Nobody} : D!TypeCopy(c) \/ D!TypeReturn(c)
  PROVE  DeskInv'
<1>1. CASE \E p \in Patron \union {Nobody} : D!TypePatron(p)
  <2>1. /\ reservationCheckout = Nobody /\ foundUser' = Nobody /\ lookups' = D!Overtaken({"user"})
        /\ UNCHANGED <<type, copyBarcode, foundCopy, returnPreview, submission, undoable, reservationCheckout, strayed>>
    BY <1>1 DEF D!TypePatron, D!PatronField, D!desk
  <2> QED
    BY <2>1, OvertakenAre DEF DeskInv, D!Id
<1>2. CASE \E c \in Item \union {Nobody} : D!TypeCopy(c)
  <2>1. /\ type = "borrow" /\ copyBarcode' \in Item \union {Nobody} /\ foundCopy' = Nobody
        /\ lookups' = D!Overtaken({"copy"})
        /\ UNCHANGED <<type, studentId, foundUser, returnPreview, submission, undoable, reservationCheckout, strayed>>
    BY <1>2 DEF D!TypeCopy, D!CopyField, D!desk
  <2> QED
    BY <2>1, OvertakenAre DEF DeskInv, D!Id
<1>3. CASE \E c \in Item \union {Nobody} : D!TypeReturn(c)
  <2>1. /\ type = "return" /\ copyBarcode' \in Item \union {Nobody} /\ returnPreview' = Nobody
        /\ lookups' = D!Overtaken({"return"})
        /\ UNCHANGED <<type, studentId, foundUser, foundCopy, submission, undoable, reservationCheckout, strayed>>
    BY <1>3 DEF D!TypeReturn, D!ReturnField, D!desk
  <2> QED
    BY <2>1, OvertakenAre DEF DeskInv, D!Id
<1> QED
  BY <1>1, <1>2, <1>3

LEMMA LookupKeeps ==
  ASSUME DeskInv, (\E p \in Patron : D!LookupUser(p)) \/ D!LookupCopy \/ \E force \in BOOLEAN : D!LookupReturn(force)
  PROVE  DeskInv'
<1>1. CASE \E p \in Patron : D!LookupUser(p)
  <2>1. PICK p \in Patron :
          /\ reservationCheckout = Nobody
          /\ lookups' = D!Started("user", p)
          /\ UNCHANGED <<type, studentId, copyBarcode, foundUser, foundCopy, returnPreview, submission, undoable,
                         reservationCheckout, strayed>>
    BY <1>1 DEF D!LookupUser, D!PatronField, D!form, D!found, D!desk
  <2>2. ASSUME NEW k \in lookups'
        PROVE  /\ k \in D!Lookup
               /\ \/ k.kind = "user" /\ k.id = p
                  \/ \E j \in lookups : /\ j.kind = k.kind /\ j.id = k.id
                                        /\ k.current => j.current /\ k.kind # "user"
    <3>1. k \in D!Started("user", p) /\ p \in Patron \union Item /\ lookups \subseteq D!Lookup
      BY <2>1 DEF DeskInv
    <3> QED
      BY <3>1, StartedAre
  <2> QED
    BY <2>1, <2>2 DEF DeskInv
<1>2. CASE D!LookupCopy
  <2>1. /\ type = "borrow" /\ copyBarcode # Nobody
        /\ lookups' = D!Started("copy", copyBarcode)
        /\ UNCHANGED <<type, studentId, copyBarcode, foundUser, foundCopy, returnPreview, submission, undoable,
                       reservationCheckout, strayed>>
    BY <1>2 DEF D!LookupCopy, D!CopyField, D!form, D!found, D!desk
  <2>2. ASSUME NEW k \in lookups'
        PROVE  /\ k \in D!Lookup
               /\ \/ k.kind = "copy" /\ k.id = copyBarcode
                  \/ \E j \in lookups : /\ j.kind = k.kind /\ j.id = k.id
                                        /\ k.current => j.current /\ k.kind # "copy"
    <3>1. k \in D!Started("copy", copyBarcode) /\ copyBarcode \in Patron \union Item /\ lookups \subseteq D!Lookup
      BY <2>1 DEF DeskInv, D!Id
    <3> QED
      BY <3>1, StartedAre
  <2> QED
    BY <2>1, <2>2 DEF DeskInv
<1>3. CASE \E force \in BOOLEAN : D!LookupReturn(force)
  <2>1. /\ type = "return" /\ copyBarcode # Nobody /\ returnPreview' = Nobody
        /\ lookups' = D!Started("return", copyBarcode)
        /\ UNCHANGED <<type, studentId, copyBarcode, foundUser, foundCopy, submission, undoable, reservationCheckout, strayed>>
    BY <1>3 DEF D!LookupReturn, D!form, D!desk
  <2>2. ASSUME NEW k \in lookups'
        PROVE  /\ k \in D!Lookup
               /\ \/ k.kind = "return" /\ k.id = copyBarcode
                  \/ \E j \in lookups : /\ j.kind = k.kind /\ j.id = k.id
                                        /\ k.current => j.current /\ k.kind # "return"
    <3>1. k \in D!Started("return", copyBarcode) /\ copyBarcode \in Patron \union Item /\ lookups \subseteq D!Lookup
      BY <2>1 DEF DeskInv, D!Id
    <3> QED
      BY <3>1, StartedAre
  <2> QED
    BY <2>1, <2>2 DEF DeskInv
<1> QED
  BY <1>1, <1>2, <1>3

LEMMA AnswerKeeps ==
  ASSUME DeskInv, NEW k \in lookups, NEW ok \in BOOLEAN, D!Answer(k, ok)
  PROVE  DeskInv'
<1> DEFINE shown == IF ok THEN k.id ELSE Nobody
<1>1. /\ lookups' = lookups \ {k} /\ k \in D!Lookup
      /\ UNCHANGED <<type, submission, undoable, reservationCheckout, strayed>>
  BY DEF D!Answer, D!desk, DeskInv
<1>2. CASE k.kind \in {"user", "reserved"} /\ D!Takes(k)
  <2>1. /\ foundUser' = shown /\ UNCHANGED <<foundCopy, copyBarcode, returnPreview>>
        /\ studentId' = IF k.kind = "user" /\ ok THEN k.id ELSE studentId
    BY <1>2 DEF D!Answer
  <2> QED
    BY <1>1, <1>2, <2>1 DEF DeskInv
<1>3. CASE k.kind = "copy" /\ D!Takes(k)
  <2>1. /\ foundCopy' = shown /\ UNCHANGED <<foundUser, studentId, returnPreview>>
        /\ copyBarcode' = IF ok THEN k.id ELSE copyBarcode
        /\ k.current
    BY <1>3 DEF D!Answer, D!Takes
  <2> QED
    BY <1>1, <1>3, <2>1 DEF DeskInv, D!Id, D!Lookup
<1>4. CASE k.kind = "return" /\ D!Takes(k)
  <2>1. /\ returnPreview' = shown /\ UNCHANGED <<foundUser, studentId, foundCopy, copyBarcode>>
        /\ k.current
    BY <1>4 DEF D!Answer, D!Takes
  <2> QED
    BY <1>1, <1>4, <2>1 DEF DeskInv
<1>5. CASE ~D!Takes(k)
  <2>1. UNCHANGED <<foundUser, studentId, foundCopy, copyBarcode, returnPreview>>
    BY <1>5 DEF D!Answer
  <2> QED
    BY <1>1, <2>1 DEF DeskInv
<1> QED
  BY <1>1, <1>2, <1>3, <1>4, <1>5 DEF D!Lookup

LEMMA SwitchKeeps == ASSUME DeskInv, D!SwitchMode PROVE DeskInv'
<1>1. /\ submission = D!Idle /\ reservationCheckout = Nobody /\ type' \in {"borrow", "return"}
      /\ copyBarcode' = Nobody /\ foundCopy' = Nobody /\ returnPreview' = Nobody
      /\ lookups' = D!Overtaken({"copy", "return"})
      /\ UNCHANGED <<studentId, foundUser, submission, undoable, reservationCheckout, strayed>>
  BY DEF D!SwitchMode, D!Unlocked, D!desk
<1> QED
  BY <1>1, OvertakenAre DEF DeskInv, D!Idle, D!Id

LEMMA ConfirmationKeeps ==
  ASSUME DeskInv, D!Submit \/ D!Borrowed \/ D!Returned \/ D!Failed \/ D!Undo \/ D!Undone
  PROVE  DeskInv'
<1>1. CASE D!Submit
  <2>1. /\ UNCHANGED <<type, studentId, copyBarcode, foundUser, foundCopy, returnPreview, lookups, undoable,
                       reservationCheckout, strayed>>
        /\ \/ type = "borrow" /\ submission'.kind = "borrow"
           \/ type = "return" /\ submission'.kind = "return"
    BY <1>1 DEF D!Submit, D!form, D!found
  <2> QED
    BY <2>1 DEF DeskInv
<1>2. CASE D!Borrowed \/ D!Undone
  <2>1. /\ reservationCheckout = Nobody /\ submission'.kind = "none"
        /\ foundUser' = Nobody /\ copyBarcode' = Nobody /\ foundCopy' = Nobody /\ returnPreview' = Nobody
        /\ lookups' = D!Overtaken({"user", "copy", "return"}) /\ UNCHANGED <<type, reservationCheckout, strayed>>
    BY <1>2 DEF D!Borrowed, D!Undone, D!ResetForm, D!Idle, DeskInv
  <2> QED
    BY <2>1, OvertakenAre DEF DeskInv, D!Id
<1>3. CASE D!Returned
  <2>1. /\ type = "return" /\ reservationCheckout = Nobody /\ submission'.kind = "none"
        /\ copyBarcode' = Nobody /\ returnPreview' = Nobody /\ lookups' = D!Overtaken({"return"})
        /\ UNCHANGED <<type, studentId, foundUser, foundCopy, reservationCheckout, strayed>>
    BY <1>3 DEF D!Returned, D!Idle, DeskInv
  <2> QED
    BY <2>1, OvertakenAre DEF DeskInv, D!Id
<1>4. CASE D!Failed
  <2>1. /\ submission'.kind = "none" /\ (UNCHANGED returnPreview \/ returnPreview' = Nobody)
        /\ UNCHANGED <<type, studentId, copyBarcode, foundUser, foundCopy, lookups, undoable, reservationCheckout, strayed>>
    BY <1>4 DEF D!Failed, D!Idle, D!form
  <2> QED
    BY <2>1 DEF DeskInv
<1>5. CASE D!Undo
  <2>1. /\ undoable /\ submission'.kind = "undo"
        /\ UNCHANGED <<type, studentId, copyBarcode, foundUser, foundCopy, returnPreview, lookups, undoable,
                       reservationCheckout, strayed>>
    BY <1>5 DEF D!Undo, D!Idle, D!form, D!found
  <2> QED
    BY <2>1 DEF DeskInv
<1> QED
  BY <1>1, <1>2, <1>3, <1>4, <1>5

LEMMA LeavingKeeps == ASSUME DeskInv, D!LeaveReservation PROVE DeskInv'
<1>1. /\ reservationCheckout # Nobody /\ reservationCheckout' = Nobody
      /\ strayed' = \E k \in lookups : k.kind = "reserved"
      /\ UNCHANGED <<type, studentId, copyBarcode, foundUser, foundCopy, returnPreview, lookups, submission, undoable>>
  BY DEF D!LeaveReservation, D!form, D!found
<1>2. ~strayed /\ \A k \in lookups : k.kind # "user"
  BY <1>1 DEF DeskInv
<1>3. \A k \in lookups : k.kind = "reserved" => strayed'
  BY <1>1
<1> QED
  BY <1>1, <1>2, <1>3 DEF DeskInv

LEMMA DeskKeeps == ASSUME DeskInv, [D!Next]_(D!vars) PROVE DeskInv'
<1>1. CASE UNCHANGED D!vars
  BY <1>1 DEF DeskInv, D!vars, D!form, D!found, D!waiting, D!scan, D!desk
<1>2. CASE D!TimerPasses
  BY <1>2 DEF D!TimerPasses, DeskInv, D!form, D!found, D!waiting, D!desk
<1> QED
  BY <1>1, <1>2, FormKeeps, LookupKeeps, AnswerKeeps, SwitchKeeps, ConfirmationKeeps, LeavingKeeps DEF D!Next

(* Only Submit confirms; all else leaves the desk idle, or undoes.         *)
LEMMA ConfirmationsAsShown ==
  ASSUME DeskInv, [D!Next]_(D!vars), submission = D!Idle
  PROVE  /\ submission'.kind = "borrow" => (submission'.patron = foundUser \/ strayed) /\ submission'.copy = foundCopy
         /\ submission'.kind = "return" => submission'.copy = returnPreview
<1>1. CASE D!Submit
  BY <1>1 DEF D!Submit, DeskInv
<1>2. CASE D!Undo
  BY <1>2 DEF D!Undo, D!Idle
<1>3. CASE UNCHANGED submission
  BY <1>3 DEF D!Idle
<1>4. CASE D!Borrowed \/ D!Returned \/ D!Failed \/ D!Undone
  BY <1>4 DEF D!Borrowed, D!Returned, D!Failed, D!Undone, D!Idle
<1>5. \/ D!Submit \/ D!Undo \/ UNCHANGED submission
      \/ D!Borrowed \/ D!Returned \/ D!Failed \/ D!Undone
  BY DEF D!Next, D!vars, D!TypePatron, D!TypeCopy, D!TypeReturn, D!LookupUser, D!LookupCopy, D!LookupReturn,
         D!TimerPasses, D!Answer, D!SwitchMode, D!LeaveReservation, D!desk
<1> QED
  BY <1>1, <1>2, <1>3, <1>4, <1>5

(* ------------------------------------------------------------ the registers *)

LEMMA SameRegisterCounts == \A S : R!Cardinality(S) = Cardinality(S)
  BY DEF Cardinality, R!Cardinality, IsFiniteSet, R!IsFiniteSet

(* Every term has an end after its beginning, and what a request has chosen*)
(* and locked stays active.                                                *)
RegistersTyped ==
  /\ listed \in [R!Entry -> {"none", "active", "archived"}]
  /\ terms \in [Term -> [from : 0..LastTermDay, to : 0..LastTermDay, current : BOOLEAN]]
  /\ people \in [Person -> [entry : R!Entry \union {Nobody}, term : Term \union {Nobody}]]
  /\ located \in [Holding -> Program \union {Nobody}]
  /\ saving \in [Clerk -> [person : Person \union {Nobody}, entry : R!Entry \union {Nobody},
                           term : Term \union {Nobody}, locked : SUBSET (R!Entry \union Term)]]
RegistersInv ==
  /\ RegistersTyped
  /\ \A t \in R!Terms : 1 <= terms[t].from
  /\ \A t, other \in R!Terms : t # other => terms[t].to < terms[other].from \/ terms[other].to < terms[t].from
  /\ R!Terms # {} => \E t \in R!Terms : R!Current = {t}
  /\ \A n \in Clerk : saving[n] # R!Idle => saving[n].entry \in R!Active /\ saving[n].entry \in saving[n].locked

LEMMA RegistersStart == ASSUME R!RegistersAssumption, R!Init PROVE RegistersInv
<1>1. /\ R!NoTerm \in [from : 0..LastTermDay, to : 0..LastTermDay, current : BOOLEAN]
      /\ R!Idle \in [person : Person \union {Nobody}, entry : R!Entry \union {Nobody},
                     term : Term \union {Nobody}, locked : SUBSET (R!Entry \union Term)]
      /\ R!Stranger \in [entry : R!Entry \union {Nobody}, term : Term \union {Nobody}]
  <2>1. 0 \in 0..LastTermDay /\ FALSE \in BOOLEAN
    BY DEF R!RegistersAssumption
  <2> QED
    BY <2>1 DEF R!NoTerm, R!Idle, R!Stranger
<1>2. RegistersTyped
  BY <1>1 DEF R!Init, RegistersTyped
<1>3. R!Terms = {} /\ \A n \in Clerk : saving[n] = R!Idle
  BY DEF R!Init, R!Terms
<1> QED
  BY <1>2, <1>3 DEF RegistersInv

(* ---------------------------------------------------- accounts and holdings *)

LEMMA OpenSaveKeeps ==
  ASSUME R!RegistersAssumption, RegistersInv, NEW n \in Clerk, NEW u \in Person,
         NEW e \in R!Entry, NEW t \in Term \union {Nobody},
         R!CreateUser(n, u, e, t) \/ R!UpdateUser(n, u, e, t)
  PROVE  RegistersInv'
<1>1. PICK rows \in {{e, t}, {e, Nobody}} : R!OpenSave(n, u, e, t, rows)
  BY DEF R!CreateUser, R!UpdateUser, R!RowsChosen
<1> DEFINE request == [person |-> u, entry |-> e, term |-> t, locked |-> rows \ {Nobody}]
<1>2. /\ e \in R!Active /\ saving' = [saving EXCEPT ![n] = request]
      /\ UNCHANGED <<listed, terms, people, located>>
  BY <1>1 DEF R!OpenSave
<1>3. /\ request \in [person : Person \union {Nobody}, entry : R!Entry \union {Nobody},
                      term : Term \union {Nobody}, locked : SUBSET (R!Entry \union Term)]
      /\ request.entry = e /\ e \in request.locked
  BY DEF R!RegistersAssumption, R!Entry
<1> HIDE DEF request
<1> QED
  BY <1>2, <1>3 DEF RegistersInv, RegistersTyped, R!Terms, R!Current, R!Active

LEMMA EndSaveKeeps ==
  ASSUME R!RegistersAssumption, RegistersInv, NEW n \in Clerk, R!CommitSave(n) \/ R!AbortSave(n)
  PROVE  RegistersInv'
<1>1. /\ saving' = [saving EXCEPT ![n] = R!Idle] /\ UNCHANGED <<listed, terms, located>>
      /\ \/ people' = people
         \/ /\ saving[n].term \in R!Terms \union {Nobody}
            /\ people' = [people EXCEPT ![saving[n].person] = [entry |-> saving[n].entry, term |-> saving[n].term]]
  BY DEF R!CommitSave, R!AbortSave
<1>2. R!Idle \in [person : Person \union {Nobody}, entry : R!Entry \union {Nobody},
                  term : Term \union {Nobody}, locked : SUBSET (R!Entry \union Term)]
  BY DEF R!Idle
<1>3. people' \in [Person -> [entry : R!Entry \union {Nobody}, term : Term \union {Nobody}]]
  BY <1>1 DEF RegistersInv, RegistersTyped
<1> QED
  BY <1>1, <1>2, <1>3 DEF RegistersInv, RegistersTyped, R!Terms, R!Current, R!Active

LEMMA HoldingKeeps ==
  ASSUME RegistersInv, NEW h \in Holding, NEW p \in Program \union {Nobody}, R!UpdateHolding(h, p)
  PROVE  RegistersInv'
  BY DEF R!UpdateHolding, RegistersInv, RegistersTyped, R!Terms, R!Current, R!Active

(* --------------------------------------------------- programs, departments *)

LEMMA ListingKeeps ==
  ASSUME RegistersInv, NEW e \in R!Entry, R!Create(e) \/ R!Restore(e)
  PROVE  RegistersInv'
<1>1. listed' = [listed EXCEPT ![e] = "active"] /\ UNCHANGED <<terms, people, located, saving>>
  BY DEF R!Create, R!Restore
<1> QED
  BY <1>1 DEF RegistersInv, RegistersTyped, R!Terms, R!Current, R!Active

(* A row in use is archived; one that is not may go, and nobody refers to  *)
(* it.  Nothing that a request has locked is touched.                      *)
LEMMA DeletionKeeps ==
  ASSUME RegistersInv, NEW e \in R!Entry, NEW mode \in R!Modes, R!Delete(e, mode)
  PROVE  RegistersInv' /\ UNCHANGED <<people, located>>
<1>1. /\ ~R!Locked(e) /\ UNCHANGED <<terms, saving>>
      /\ \E life \in {"none", "archived"} : listed' = [listed EXCEPT ![e] = life]
  BY DEF R!Delete, R!Remove
<1>2. UNCHANGED <<people, located>>
  <2>1. CASE R!Referred(e) \/ mode = "archive"
    BY <2>1 DEF R!Delete
  <2>2. CASE ~(R!Referred(e) \/ mode = "archive")
    <3>1. /\ people' = [u \in Person |-> IF people[u].entry = e THEN [people[u] EXCEPT !.entry = Nobody] ELSE people[u]]
          /\ located' = [h \in Holding |-> IF located[h] = e THEN Nobody ELSE located[h]]
      BY <2>2 DEF R!Delete, R!Remove
    <3>2. (\A u \in Person : people[u].entry # e) /\ \A h \in Holding : located[h] # e
      BY <2>2 DEF R!Referred
    <3>3. people' = [u \in Person |-> people[u]] /\ located' = [h \in Holding |-> located[h]]
      BY <3>1, <3>2
    <3> QED
      BY <3>3 DEF RegistersInv, RegistersTyped
  <2> QED
    BY <2>1, <2>2
<1>3. \A n \in Clerk : saving[n] # R!Idle => saving[n].entry # e
  BY <1>1 DEF R!Locked, RegistersInv
<1> QED
  BY <1>1, <1>2, <1>3 DEF RegistersInv, RegistersTyped, R!Terms, R!Current, R!Active

(* -------------------------------------------------------------------- terms *)

LEMMA NoTermStays == ASSUME NEW x, x = R!NoTerm, NEW y, y = [x EXCEPT !.current = FALSE] PROVE y = R!NoTerm
<1>1. y \in [from : {0}, to : {0}, current : {FALSE}] /\ R!NoTerm \in [from : {0}, to : {0}, current : {FALSE}]
  BY DEF R!NoTerm
<1> QED
  BY <1>1

(* A term is saved where no other one is, and is the current one when the  *)
(* others give up being it.                                                *)
LEMMA TermKeeps ==
  ASSUME R!RegistersAssumption, RegistersInv, NEW t \in Term, NEW from \in 1..LastTermDay, NEW to \in 0..LastTermDay,
         NEW current \in BOOLEAN,
         R!SaveTerm(t, from, to, current),
         \A other \in R!Terms \ {t} : to < terms[other].from \/ terms[other].to < from,
         R!Terms = {} \/ (t \in R!Terms /\ terms[t].current) => current
  PROVE  RegistersInv'
<1> DEFINE saved == [from |-> from, to |-> to, current |-> current]
           kept(other) == IF current THEN [terms[other] EXCEPT !.current = FALSE] ELSE terms[other]
<1>1. /\ terms' = [other \in Term |-> IF other = t THEN saved ELSE kept(other)]
      /\ UNCHANGED <<listed, people, located, saving>>
  BY DEF R!SaveTerm
<1>2. ASSUME NEW other \in Term
      PROVE  /\ kept(other) \in [from : 0..LastTermDay, to : 0..LastTermDay, current : BOOLEAN]
             /\ kept(other).from = terms[other].from /\ kept(other).to = terms[other].to
             /\ kept(other).current <=> terms[other].current /\ ~current
             /\ kept(other) = R!NoTerm => terms[other].from = 0
             /\ terms[other] = R!NoTerm => kept(other) = R!NoTerm
  <2>1. terms[other] \in [from : 0..LastTermDay, to : 0..LastTermDay, current : BOOLEAN]
    BY DEF RegistersInv, RegistersTyped
  <2>2. CASE current
    <3>1. kept(other) = [terms[other] EXCEPT !.current = FALSE] /\ FALSE \in BOOLEAN
      BY <2>2
    <3> HIDE DEF kept
    <3>2. /\ kept(other) \in [from : 0..LastTermDay, to : 0..LastTermDay, current : BOOLEAN]
          /\ kept(other).from = terms[other].from /\ kept(other).to = terms[other].to
      BY <2>1, <3>1
    <3>3. ~kept(other).current
      BY <2>1, <3>1
    <3>4. kept(other) = R!NoTerm => terms[other].from = 0
      BY <3>2 DEF R!NoTerm
    <3>5. terms[other] = R!NoTerm => kept(other) = R!NoTerm
      BY <3>1, NoTermStays
    <3> QED
      BY <2>2, <3>2, <3>3, <3>4, <3>5
  <2>3. CASE ~current
    <3>1. kept(other) = terms[other]
      BY <2>3
    <3> QED
      BY <2>1, <2>3, <3>1 DEF R!NoTerm
  <2> QED
    BY <2>2, <2>3
<1>3. saved \in [from : 0..LastTermDay, to : 0..LastTermDay, current : BOOLEAN] /\ saved # R!NoTerm
  BY DEF R!RegistersAssumption, R!NoTerm
<1> HIDE DEF kept
<1>4. /\ terms'[t] = saved
      /\ \A other \in Term \ {t} : terms'[other] = kept(other)
      /\ terms' \in [Term -> [from : 0..LastTermDay, to : 0..LastTermDay, current : BOOLEAN]]
  BY <1>1, <1>2, <1>3
<1>5. R!Terms' = R!Terms \union {t}
  <2>1. ASSUME NEW other \in Term \ {t} PROVE kept(other) = R!NoTerm <=> other \notin R!Terms
    BY <1>2 DEF RegistersInv, R!Terms
  <2> QED
    BY <1>3, <1>4, <2>1 DEF R!Terms
<1>6. \A s \in R!Terms' : 1 <= terms'[s].from
  BY <1>2, <1>4, <1>5 DEF RegistersInv, R!Terms
<1>7. \A s, other \in R!Terms' : s # other => terms'[s].to < terms'[other].from \/ terms'[other].to < terms'[s].from
  BY <1>2, <1>4, <1>5 DEF RegistersInv, R!Terms
<1>8. \A n \in Clerk : saving'[n] # R!Idle => saving'[n].entry \in R!Active' /\ saving'[n].entry \in saving'[n].locked
  BY <1>1 DEF RegistersInv, R!Active
<1>9. RegistersTyped'
  BY <1>1, <1>4 DEF RegistersInv, RegistersTyped
<1>10. CASE current
  <2>1. R!Current' = {t}
    BY <1>2, <1>4, <1>5, <1>10 DEF R!Current, R!Terms
  <2>2. R!Terms' # {} => \E s \in R!Terms' : R!Current' = {s}
    BY <1>5, <2>1
  <2> QED
    BY <1>6, <1>7, <1>8, <1>9, <2>2 DEF RegistersInv
<1>11. CASE ~current
  <2>1. R!Current' = R!Current
    BY <1>2, <1>4, <1>5, <1>11 DEF R!Current, R!Terms
  <2>2. R!Terms' # {} => \E s \in R!Terms' : R!Current' = {s}
    BY <1>5, <1>11, <2>1 DEF RegistersInv
  <2> QED
    BY <1>6, <1>7, <1>8, <1>9, <2>2 DEF RegistersInv
<1> QED
  BY <1>10, <1>11

LEMMA TermStepKeeps ==
  ASSUME R!RegistersAssumption, RegistersInv, NEW t \in Term,
         \/ R!SetCurrentTerm(t)
         \/ \E from, to \in 1..LastTermDay, current \in BOOLEAN :
              R!CreateTerm(t, from, to, current) \/ R!UpdateTerm(t, from, to, current)
  PROVE  RegistersInv'
<1>1. CASE R!SetCurrentTerm(t)
  <2>1. t \in R!Terms /\ R!SaveTerm(t, terms[t].from, terms[t].to, TRUE)
    BY <1>1 DEF R!SetCurrentTerm
  <2>2. terms[t].from \in 1..LastTermDay /\ terms[t].to \in 0..LastTermDay
    BY <2>1 DEF RegistersInv, RegistersTyped
  <2>3. \A other \in R!Terms \ {t} : terms[t].to < terms[other].from \/ terms[other].to < terms[t].from
    BY <2>1 DEF RegistersInv
  <2> QED
    BY <2>1, <2>2, <2>3, TermKeeps
<1>2. ASSUME NEW from \in 1..LastTermDay, NEW to \in 1..LastTermDay, NEW current \in BOOLEAN,
             R!CreateTerm(t, from, to, current) \/ R!UpdateTerm(t, from, to, current)
      PROVE  RegistersInv'
  <2>1. R!TermFits(t, from, to)
    BY <1>2 DEF R!CreateTerm, R!UpdateTerm
  <2>2. \A other \in R!Terms \ {t} : to < terms[other].from \/ terms[other].to < from
    <3>1. ASSUME NEW other \in R!Terms PROVE terms[other].from \in Nat /\ terms[other].to \in Nat
      BY DEF RegistersInv, RegistersTyped, R!Terms
    <3> QED
      BY <2>1, <3>1 DEF R!TermFits, R!Overlaps
  <2>3. CASE R!CreateTerm(t, from, to, current)
    <3> DEFINE chosen == current \/ R!Terms = {}
    <3>1. /\ t \notin R!Terms /\ R!SaveTerm(t, from, to, chosen)
          /\ chosen \in BOOLEAN /\ (R!Terms = {} => chosen)
      BY <2>3 DEF R!CreateTerm
    <3> HIDE DEF chosen
    <3> QED
      BY <2>2, <3>1, TermKeeps
  <2>4. CASE R!UpdateTerm(t, from, to, current)
    <3>1. t \in R!Terms /\ R!SaveTerm(t, from, to, current) /\ (terms[t].current => current)
      BY <2>4 DEF R!UpdateTerm
    <3> QED
      BY <2>2, <3>1, TermKeeps
  <2> QED
    BY <1>2, <2>3, <2>4
<1> QED
  BY <1>1, <1>2

(* Nobody is in a term that goes, and it is not the current one.           *)
LEMMA TermGoes ==
  ASSUME R!RegistersAssumption, RegistersInv, NEW t \in Term, R!DeleteTerm(t)
  PROVE  RegistersInv' /\ UNCHANGED <<people, located>>
<1>1. /\ ~terms[t].current /\ \A u \in Person : people[u].term # t
      /\ terms' = [terms EXCEPT ![t] = R!NoTerm]
      /\ people' = [u \in Person |-> IF people[u].term = t THEN [people[u] EXCEPT !.term = Nobody] ELSE people[u]]
      /\ UNCHANGED <<listed, located, saving>>
  BY DEF R!DeleteTerm, R!TermMayGo
<1>2. people' = [u \in Person |-> people[u]]
  BY <1>1
<1>3. people' = people
  BY <1>2 DEF RegistersInv, RegistersTyped
<1>4. R!NoTerm \in [from : 0..LastTermDay, to : 0..LastTermDay, current : BOOLEAN]
  <2>1. 0 \in 0..LastTermDay /\ FALSE \in BOOLEAN
    BY DEF R!RegistersAssumption
  <2> QED
    BY <2>1 DEF R!NoTerm
<1>5. R!Terms' = R!Terms \ {t} /\ R!Current' = R!Current
  BY <1>1 DEF R!Terms, R!Current, RegistersInv, RegistersTyped
<1>6. \A s \in R!Terms' : terms'[s] = terms[s]
  BY <1>1, <1>5 DEF RegistersInv, RegistersTyped, R!Terms
<1>7. RegistersTyped'
  BY <1>1, <1>3, <1>4 DEF RegistersInv, RegistersTyped
<1>8. R!Terms' # {} => \E s \in R!Terms' : R!Current' = {s}
  BY <1>1, <1>5 DEF RegistersInv, R!Current
<1> QED
  BY <1>1, <1>3, <1>5, <1>6, <1>7, <1>8 DEF RegistersInv, R!Active

(* ------------------------------------------------------------------ together *)

LEMMA RegistersKeep ==
  ASSUME R!RegistersAssumption, RegistersInv, [R!Next]_(R!vars)
  PROVE  RegistersInv'
<1>1. CASE UNCHANGED R!vars
  BY <1>1 DEF R!vars, RegistersInv, RegistersTyped, R!Terms, R!Current, R!Active
<1>2. CASE \E n \in Clerk : R!CommitSave(n) \/ R!AbortSave(n)
  BY <1>2, EndSaveKeeps
<1>3. CASE \E n \in Clerk : \E u \in Person, e \in R!Entry, t \in Term \union {Nobody} :
             R!CreateUser(n, u, e, t) \/ R!UpdateUser(n, u, e, t)
  BY <1>3, OpenSaveKeeps
<1>4. CASE \E h \in Holding, p \in Program \union {Nobody} : R!UpdateHolding(h, p)
  BY <1>4, HoldingKeeps
<1>5. CASE \E e \in R!Entry : R!Create(e) \/ R!Restore(e) \/ \E mode \in R!Modes : R!Delete(e, mode)
  BY <1>5, ListingKeeps, DeletionKeeps
<1>6. CASE \E t \in Term : R!DeleteTerm(t)
  BY <1>6, TermGoes
<1>7. CASE \E t \in Term : \/ R!SetCurrentTerm(t)
                           \/ \E from, to \in 1..LastTermDay, current \in BOOLEAN :
                                R!CreateTerm(t, from, to, current) \/ R!UpdateTerm(t, from, to, current)
  BY <1>7, TermStepKeeps
<1> QED
  BY <1>1, <1>2, <1>3, <1>4, <1>5, <1>6, <1>7
  DEF R!Next, R!CreateAcademicProgram, R!RestoreAcademicProgram, R!DeleteAcademicProgram, R!CreateDepartment,
      R!RestoreDepartment, R!DeleteDepartment, R!Entry

LEMMA TermsStayInOrder == ASSUME RegistersInv PROVE R!TermsInOrder
<1>1. \A t : R!Cardinality({t}) = 1
  BY FS_Singleton, SameRegisterCounts
<1> QED
  BY <1>1 DEF RegistersInv, R!TermsInOrder

(* Only what is saved changes what it refers to.                           *)
LEMMA ReferencesStay == ASSUME RegistersInv, [R!Next]_(R!vars) PROVE R!ReferencesKept
<1>1. CASE UNCHANGED <<people, located>>
  BY <1>1 DEF R!ReferencesKept
<1>2. ASSUME NEW n \in Clerk, R!CommitSave(n) PROVE R!ReferencesKept
  <2>1. /\ saving[n] # R!Idle /\ saving'[n] = R!Idle /\ UNCHANGED located
        /\ people' = [people EXCEPT ![saving[n].person] = [entry |-> saving[n].entry, term |-> saving[n].term]]
    BY <1>2 DEF R!CommitSave, RegistersInv, RegistersTyped
  <2>2. saving[n].entry \in R!Active
    BY <2>1 DEF RegistersInv
  <2>3. ASSUME NEW u \in Person, people'[u] # people[u] PROVE saving[n].person = u
    BY <2>1, <2>3 DEF RegistersInv, RegistersTyped
  <2> QED
    BY <2>1, <2>2, <2>3 DEF R!ReferencesKept
<1>3. CASE \E h \in Holding, p \in Program \union {Nobody} : R!UpdateHolding(h, p)
  BY <1>3 DEF R!UpdateHolding, R!ReferencesKept
<1>4. CASE \E e \in R!Entry : R!Create(e) \/ R!Restore(e) \/ \E mode \in R!Modes : R!Delete(e, mode)
  BY <1>1, <1>4, DeletionKeeps DEF R!Create, R!Restore
<1>5. CASE \E t \in Term : R!SetCurrentTerm(t) \/ R!DeleteTerm(t)
  <2>1. PICK t \in Term : R!SetCurrentTerm(t) \/ R!DeleteTerm(t)
    BY <1>5
  <2>2. R!SetCurrentTerm(t) => UNCHANGED <<people, located>>
    BY DEF R!SetCurrentTerm, R!SaveTerm
  <2>3. R!DeleteTerm(t) => UNCHANGED <<people, located>>
    BY TermGoes, RolesAndBounds
  <2> QED
    BY <1>1, <2>1, <2>2, <2>3
<1>6. ASSUME NEW t \in Term, NEW from, NEW to, NEW current,
             R!CreateTerm(t, from, to, current) \/ R!UpdateTerm(t, from, to, current)
      PROVE  UNCHANGED <<people, located>>
  BY <1>6 DEF R!CreateTerm, R!UpdateTerm, R!SaveTerm
<1>7. ASSUME NEW n \in Clerk, NEW u, NEW e, NEW t,
             R!AbortSave(n) \/ R!CreateUser(n, u, e, t) \/ R!UpdateUser(n, u, e, t)
      PROVE  UNCHANGED <<people, located>>
  BY <1>7 DEF R!AbortSave, R!CreateUser, R!UpdateUser, R!OpenSave
<1>8. UNCHANGED R!vars => UNCHANGED <<people, located>>
  BY DEF R!vars
<1> QED
  BY <1>1, <1>2, <1>3, <1>4, <1>5, <1>6, <1>7, <1>8
  DEF R!Next, R!CreateAcademicProgram, R!RestoreAcademicProgram, R!DeleteAcademicProgram, R!CreateDepartment,
      R!RestoreDepartment, R!DeleteDepartment, R!Entry

(* Numbers have a least one: an induction over them is one over the least  *)
(* number that breaks what is to be shown.                                 *)
LEMMA LeastNumber == ASSUME NEW some \in SUBSET Nat, some # {} PROVE \E m \in some : \A k \in some : m <= k
<1>1. PICK m \in some : \A k \in some : <<k, m>> \notin OpToRel(<, Nat)
  BY WFMin, NatLessThanWellFounded, Zenon
<1>2. \A k \in some : ~(k < m)
  BY <1>1, Zenon DEF OpToRel
<1> QED
  BY <1>2

(* ----------------------------------------------------------------- the gate *)

Logs == [visitor : Visitor, type : G!Types, day : Nat, late : BOOLEAN, confirmed : Nat]
Past == {"reading", "writing", "leaving"}
VisitsTyped ==
  /\ logs \in Seq(Logs) /\ Len(logs) <= MaxLogs /\ visitDay \in 1..LastDay
  /\ scan \in [Scanner -> G!Requests] /\ holder \in [Visitor -> Scanner \union {Nobody}]
  /\ \A r \in Scanner : scan[r].visits \subseteq 1..Len(logs)
  /\ \A r \in Scanner : scan[r].at \in {"locking"} \union Past => scan[r].visitor \in Visitor

(* A request that is past the lock holds it, and what it was allowed on    *)
(* its day is still allowed while that day lasts.                          *)
LocksAreHeld ==
  /\ \A r \in Scanner : scan[r].at \in Past => holder[scan[r].visitor] = r
  /\ \A v \in Visitor : holder[v] # Nobody => scan[holder[v]].visitor = v /\ scan[holder[v]].at \in Past
StillAllowed ==
  \A r \in Scanner : scan[r].at = "writing" =>
    /\ scan[r].day <= visitDay
    /\ scan[r].day = visitDay => G!Allowed(scan[r], G!LatestLog(scan[r].visitor))
DatedByNow == \A i \in DOMAIN logs : logs[i].day <= visitDay
VisitsInv == VisitsTyped /\ LocksAreHeld /\ StillAllowed /\ DatedByNow /\ G!VisitsAlternate

LEMMA GateConstants ==
  G!AttendanceAssumption => /\ MaxLogs \in Nat /\ LastDay \in Nat /\ LastDay > 0 /\ Nobody \notin Scanner
                            /\ G!AnyLog \in Nat /\ G!NoLog = 0
  BY DEF G!AttendanceAssumption, G!AnyLog, G!NoLog

LEMMA EmptyScan ==
  ASSUME G!AttendanceAssumption
  PROVE  /\ G!None \in G!Requests /\ G!None.at = "idle" /\ G!None.visits = {}
         /\ \A v \in Visitor, way \in G!Types :
              G!Scan(v, way) \in G!Requests /\ G!Scan(v, way).at = "locking" /\ G!Scan(v, way).visitor = v
<1>1. G!AnyLog \in 1..G!AnyLog /\ 0 \in 0..LastDay /\ {} \in SUBSET (1..MaxLogs) /\ "check_in" \in G!Types
  BY GateConstants DEF G!Types, G!AnyLog
<1>2. G!None \in G!Requests /\ G!None.at = "idle" /\ G!None.visits = {}
  BY <1>1 DEF G!None, G!Requests
<1> QED
  BY <1>2 DEF G!Scan, G!Requests

LEMMA VisitsStart == ASSUME G!AttendanceAssumption, G!Init PROVE VisitsInv
<1>1. logs = <<>> /\ visitDay = 1 /\ scan = [r \in Scanner |-> G!None] /\ holder = [v \in Visitor |-> Nobody]
  BY DEF G!Init
<1>2. VisitsTyped
  BY <1>1, EmptyScan, GateConstants DEF VisitsTyped, Past
<1>3. LocksAreHeld /\ StillAllowed /\ DatedByNow
  BY <1>1, EmptyScan DEF LocksAreHeld, StillAllowed, DatedByNow, Past
<1>4. G!VisitsAlternate
  BY <1>1 DEF G!VisitsAlternate, G!LogsOf
<1> QED
  BY <1>2, <1>3, <1>4 DEF VisitsInv

(* The latest of some logs is one of them, and none is later.              *)
LEMMA LatestIs ==
  ASSUME NEW n \in Nat, NEW some \in SUBSET (1..n), some # {}
  PROVE  G!Latest(some) \in some /\ \A j \in some : j <= G!Latest(some)
<1> DEFINE distances == {m \in 0..n : n - m \in some}
<1>1. ASSUME NEW j \in some PROVE n - j \in distances /\ j \in 1..n
  <2>1. j \in 1..n /\ n - j \in 0..n /\ n - (n - j) = j
    OBVIOUS
  <2> QED
    BY <2>1
<1>2. distances \in SUBSET Nat /\ \A m \in distances : m \in 0..n /\ n - m \in some
  OBVIOUS
<1>3. distances # {}
  <2> HIDE DEF distances
  <2> QED
    BY <1>1
<1> HIDE DEF distances
<1>4. PICK m \in distances : \A k \in distances : m <= k
  BY <1>2, <1>3, LeastNumber
<1>5. n - m \in some /\ m \in 0..n
  BY <1>2
<1>6. ASSUME NEW j \in some PROVE j <= n - m
  <2>1. m <= n - j /\ j \in 1..n
    BY <1>1, <1>4
  <2> QED
    BY <1>5, <2>1
<1>7. PICK i \in some : \A j \in some : j <= i
  BY <1>5, <1>6
<1> QED
  BY <1>7 DEF G!Latest

(* Steps that record nothing and let nobody past a check.                  *)
LEMMA QuietScanKeeps ==
  ASSUME G!AttendanceAssumption, VisitsInv, NEW r \in Scanner, NEW request \in G!Requests,
         UNCHANGED <<logs, visitDay>>, scan' = [scan EXCEPT ![r] = request],
         request.visits \subseteq 1..Len(logs),
         request.at \in {"locking"} \union Past => request.visitor \in Visitor,
         request.at = "writing" => request.day = visitDay /\ G!Allowed(request, G!LatestLog(request.visitor)),
         holder' \in [Visitor -> Scanner \union {Nobody}], LocksAreHeld'
  PROVE  VisitsInv'
<1>1. VisitsTyped'
  BY DEF VisitsInv, VisitsTyped
<1>2. StillAllowed'
  <2>1. ASSUME NEW s \in Scanner, scan'[s].at = "writing"
        PROVE  /\ scan'[s].day <= visitDay
               /\ scan'[s].day = visitDay => G!Allowed(scan'[s], G!LatestLog(scan'[s].visitor))
    <3>1. visitDay \in Nat
      BY GateConstants DEF VisitsInv, VisitsTyped
    <3>2. scan'[s] = IF s = r THEN request ELSE scan[s]
      BY DEF VisitsInv, VisitsTyped
    <3> QED
      BY <2>1, <3>1, <3>2 DEF VisitsInv, StillAllowed
  <2>2. \A s \in Scanner : G!Allowed(scan'[s], G!LatestLog(scan'[s].visitor)) <=>
                            G!Allowed(scan[s], G!LatestLog(scan[s].visitor))'
    BY DEF G!Allowed, G!LatestLog, G!LogsOf
  <2> QED
    BY <2>1, <2>2 DEF StillAllowed
<1>3. DatedByNow' /\ G!VisitsAlternate'
  BY DEF VisitsInv, DatedByNow, G!VisitsAlternate, G!LogsOf
<1> QED
  BY <1>1, <1>2, <1>3 DEF VisitsInv

LEMMA DoneIs ==
  ASSUME G!AttendanceAssumption, VisitsInv, NEW r \in Scanner, G!Done(r)
  PROVE  \E request \in G!Requests :
           /\ scan' = [scan EXCEPT ![r] = request] /\ request.at \in {"idle", "closing"}
           /\ request.visits \subseteq scan[r].visits
<1> DEFINE closing == [G!None EXCEPT !.at = "closing", !.visits = scan[r].visits]
<1>1. scan[r].visits \in SUBSET (1..MaxLogs)
  BY DEF VisitsInv, VisitsTyped, G!Requests
<1>2. closing \in G!Requests /\ closing.at = "closing" /\ closing.visits = scan[r].visits
  BY <1>1, EmptyScan DEF G!Requests
<1>3. scan' = [scan EXCEPT ![r] = G!None] \/ scan' = [scan EXCEPT ![r] = closing]
  BY DEF G!Done
<1> HIDE DEF closing
<1> QED
  BY <1>2, <1>3, EmptyScan

LEMMA OpeningScanKeeps ==
  ASSUME G!AttendanceAssumption, VisitsInv, NEW r \in Scanner,
         \/ \E v \in Visitor, way \in G!Types : G!BeginScan(r, v, way)
         \/ G!BeginTimeOut(r) \/ G!NextVisit(r) \/ G!LockFails(r)
  PROVE  VisitsInv'
<1>1. scan[r] \in G!Requests /\ scan[r].visits \subseteq 1..Len(logs) /\ Len(logs) \in Nat /\ Len(logs) <= MaxLogs
  BY DEF VisitsInv, VisitsTyped
<1>2. PICK request \in G!Requests :
        /\ UNCHANGED <<logs, visitDay, holder>> /\ scan' = [scan EXCEPT ![r] = request]
        /\ scan[r].at \notin Past /\ request.at \notin Past /\ request.visits \subseteq 1..Len(logs)
        /\ request.at = "locking" => request.visitor \in Visitor
  <2>1. CASE \E v \in Visitor, way \in G!Types : G!BeginScan(r, v, way)
    <3>1. PICK v \in Visitor, way \in G!Types : G!BeginScan(r, v, way)
      BY <2>1
    <3>2. G!Scan(v, way) \in G!Requests /\ G!Scan(v, way).visits = {}
      BY EmptyScan DEF G!Scan, G!None, G!Requests
    <3> QED
      BY <3>1, <3>2, EmptyScan DEF G!BeginScan, Past
  <2>2. CASE G!BeginTimeOut(r)
    <3>1. PICK cutoff \in 0..Len(logs) :
            scan' = [scan EXCEPT ![r] = [G!None EXCEPT !.at = "closing", !.visits = G!Inside(cutoff)]]
      BY <2>2 DEF G!BeginTimeOut
    <3>2. G!Inside(cutoff) \subseteq 1..Len(logs) /\ G!Inside(cutoff) \subseteq 1..MaxLogs
      BY <1>1, GateConstants DEF G!Inside
    <3> DEFINE request == [G!None EXCEPT !.at = "closing", !.visits = G!Inside(cutoff)]
    <3>3. request \in G!Requests /\ request.at = "closing" /\ request.visits = G!Inside(cutoff)
      BY <3>2, EmptyScan DEF G!Requests
    <3> HIDE DEF request
    <3>4. scan' = [scan EXCEPT ![r] = request]
      BY <3>1 DEF request
    <3> QED
      BY <2>2, <3>2, <3>3, <3>4, EmptyScan DEF G!BeginTimeOut, Past
  <2>3. CASE G!NextVisit(r)
    <3>1. PICK i \in scan[r].visits :
            scan' = [scan EXCEPT ![r] = [G!Scan(logs[i].visitor, "check_out")
                       EXCEPT !.visits = scan[r].visits \ {i}, !.expected = i]]
      BY <2>3 DEF G!NextVisit
    <3> DEFINE opened == G!Scan(logs[i].visitor, "check_out")
               request == [opened EXCEPT !.visits = scan[r].visits \ {i}, !.expected = i]
    <3>2. i \in 1..Len(logs) /\ logs \in Seq(Logs) /\ MaxLogs \in Nat
      BY <1>1, GateConstants DEF VisitsInv, VisitsTyped
    <3>3. logs[i] \in Logs
      BY <3>2
    <3>4. logs[i].visitor \in Visitor /\ i \in 1..MaxLogs /\ scan[r].visits \ {i} \in SUBSET (1..MaxLogs)
      BY <1>1, <3>2, <3>3 DEF Logs
    <3>5. opened \in G!Requests /\ opened.at = "locking" /\ opened.visitor = logs[i].visitor
      BY <3>4, EmptyScan DEF G!Types
    <3>6. i \in 1..G!AnyLog
      BY <3>4, GateConstants DEF G!AnyLog
    <3> HIDE DEF opened
    <3>7. /\ request \in G!Requests /\ request.at = "locking" /\ request.visitor = logs[i].visitor
          /\ request.visits = scan[r].visits \ {i}
      BY <3>4, <3>5, <3>6 DEF G!Requests
    <3>8. scan' = [scan EXCEPT ![r] = request]
      BY <3>1 DEF opened
    <3> HIDE DEF request
    <3> QED
      BY <1>1, <2>3, <3>4, <3>7, <3>8 DEF G!NextVisit, Past
  <2>4. CASE G!LockFails(r)
    <3>1. PICK request \in G!Requests :
            /\ scan' = [scan EXCEPT ![r] = request] /\ request.at \in {"idle", "closing"}
            /\ request.visits \subseteq scan[r].visits
      BY <2>4, DoneIs DEF G!LockFails
    <3> QED
      BY <1>1, <2>4, <3>1 DEF G!LockFails, Past
  <2> QED
    BY <2>1, <2>2, <2>3, <2>4
<1>3. LocksAreHeld'
  BY <1>2, GateConstants DEF VisitsInv, VisitsTyped, LocksAreHeld, Past
<1> QED
  BY <1>2, <1>3, QuietScanKeeps DEF VisitsInv, VisitsTyped, Past

(* A holder that stays past the lock stays the holder.                     *)
LEMMA HolderStays ==
  ASSUME LocksAreHeld, NEW r \in Scanner, NEW request, scan \in [Scanner -> G!Requests],
         scan' = [scan EXCEPT ![r] = request], UNCHANGED holder,
         holder \in [Visitor -> Scanner \union {Nobody}],
         scan[r].at \in Past, request.at \in Past, request.visitor = scan[r].visitor
  PROVE  LocksAreHeld'
<1>1. \A s \in Scanner : scan'[s] = IF s = r THEN request ELSE scan[s]
  OBVIOUS
<1>2. \A s \in Scanner : /\ scan'[s].visitor = scan[s].visitor
                         /\ scan'[s].at \in Past <=> scan[s].at \in Past
  BY <1>1
<1>3. \A v \in Visitor : holder[v] # Nobody => scan'[holder[v]].visitor = v /\ scan'[holder[v]].at \in Past
  BY <1>2 DEF LocksAreHeld
<1> QED
  BY <1>2, <1>3 DEF LocksAreHeld

LEMMA LocksKeep ==
  ASSUME G!AttendanceAssumption, VisitsInv, NEW r \in Scanner,
         \/ G!Lock(r) \/ G!ReadLatest(r) \/ G!InsertFails(r) \/ G!Release(r)
  PROVE  VisitsInv'
<1> DEFINE v == scan[r].visitor
<1>1. /\ scan[r] \in G!Requests /\ scan[r].visits \subseteq 1..Len(logs) /\ v \in Visitor
      /\ scan \in [Scanner -> G!Requests] /\ holder \in [Visitor -> Scanner \union {Nobody}]
      /\ visitDay \in 0..LastDay /\ Nobody \notin Scanner
  BY GateConstants DEF VisitsInv, VisitsTyped, G!Lock, G!ReadLatest, G!InsertFails, G!Release, Past
<1>2. CASE G!Lock(r)
  <2> DEFINE request == [scan[r] EXCEPT !.at = "reading"]
  <2>1. /\ request \in G!Requests /\ request.at = "reading" /\ request.visits = scan[r].visits
        /\ request.visitor = v
    BY <1>1 DEF G!Requests
  <2>2. scan' = [scan EXCEPT ![r] = request] /\ holder' = [holder EXCEPT ![v] = r]
        /\ UNCHANGED <<logs, visitDay>> /\ holder[v] = Nobody /\ scan[r].at = "locking"
    BY <1>2 DEF G!Lock
  <2> HIDE DEF request, v
  <2>3. LocksAreHeld'
    BY <1>1, <2>1, <2>2 DEF VisitsInv, LocksAreHeld, Past
  <2>4. holder' \in [Visitor -> Scanner \union {Nobody}]
    BY <1>1, <2>2
  <2> QED
    BY <1>1, <2>1, <2>2, <2>3, <2>4, QuietScanKeeps
<1>3. CASE G!ReadLatest(r)
  <2> DEFINE next == IF G!Allowed(scan[r], G!LatestLog(v)) THEN "writing" ELSE "leaving"
             request == [scan[r] EXCEPT !.day = visitDay, !.at = next]
  <2>1. next \in {"writing", "leaving"} /\ (next = "writing" => G!Allowed(scan[r], G!LatestLog(v)))
    OBVIOUS
  <2>2. scan' = [scan EXCEPT ![r] = request]
    BY <1>1, <1>3 DEF G!ReadLatest
  <2>3. /\ UNCHANGED <<logs, visitDay, holder>> /\ scan[r].at = "reading"
    BY <1>3 DEF G!ReadLatest
  <2> HIDE DEF next
  <2>4. /\ request \in G!Requests /\ request.at = next /\ request.visits = scan[r].visits
        /\ request.visitor = v /\ request.day = visitDay
        /\ request.expected = scan[r].expected /\ request.type = scan[r].type
    BY <1>1, <2>1 DEF G!Requests
  <2> HIDE DEF request, v
  <2>5. LocksAreHeld'
    BY <1>1, <2>4, <2>3, <2>1, <2>2, HolderStays DEF VisitsInv, Past, v
  <2>6. next = "writing" => G!Allowed(request, G!LatestLog(v))
    BY <2>4, <2>1 DEF G!Allowed
  <2> QED
    BY <1>1, <2>4, <2>3, <2>5, <2>6, <2>2, QuietScanKeeps
<1>4. CASE G!InsertFails(r)
  <2> DEFINE request == [scan[r] EXCEPT !.at = "leaving"]
  <2>1. /\ request \in G!Requests /\ request.at = "leaving" /\ request.visits = scan[r].visits
        /\ request.visitor = v
    BY <1>1 DEF G!Requests
  <2>2. /\ scan' = [scan EXCEPT ![r] = request] /\ UNCHANGED <<logs, visitDay, holder>>
        /\ scan[r].at = "writing"
    BY <1>4 DEF G!InsertFails
  <2> HIDE DEF request, v
  <2>3. LocksAreHeld'
    BY <1>1, <2>1, <2>2, HolderStays DEF VisitsInv, Past, v
  <2> QED
    BY <1>1, <2>1, <2>2, <2>3, QuietScanKeeps
<1>5. CASE G!Release(r)
  <2>1. PICK request \in G!Requests :
          /\ scan' = [scan EXCEPT ![r] = request] /\ request.at \in {"idle", "closing"}
          /\ request.visits \subseteq scan[r].visits
    BY <1>5, DoneIs DEF G!Release
  <2>2. /\ scan[r].at = "leaving" /\ UNCHANGED <<logs, visitDay>>
        /\ holder' = [holder EXCEPT ![v] = IF holder[v] = r THEN Nobody ELSE holder[v]]
    BY <1>5 DEF G!Release
  <2> HIDE DEF v
  <2>3. holder[v] = r
    BY <2>2 DEF VisitsInv, LocksAreHeld, Past, v
  <2>4. LocksAreHeld'
    BY <1>1, <2>1, <2>2, <2>3 DEF VisitsInv, LocksAreHeld, Past
  <2>5. holder' \in [Visitor -> Scanner \union {Nobody}]
    BY <1>1, <2>2, <2>3
  <2> QED
    BY <1>1, <2>1, <2>2, <2>4, <2>5, QuietScanKeeps DEF Past
<1> QED
  BY <1>2, <1>3, <1>4, <1>5

(* The visits of one visitor on one day.                                   *)
Before(v, day, i) == G!Latest({j \in G!LogsOf(v, day) : j < i})
Follows(i, last) ==
  /\ logs[i].type = "check_in" <=> last = G!NoLog \/ logs[last].type = "check_out"
  /\ logs[i].confirmed \in {G!AnyLog, last}
Alternate(v, day) ==
  (\A i \in G!LogsOf(v, day) : ~logs[i].late) => \A i \in G!LogsOf(v, day) : Follows(i, Before(v, day, i))

LEMMA AlternateEach == G!VisitsAlternate <=> \A v \in Visitor, day \in 1..visitDay : Alternate(v, day)
  BY DEF G!VisitsAlternate, Alternate, Follows, Before

(* What precedes a log is one of the logs, if anything is.                 *)
LEMMA LatestOrNone ==
  ASSUME logs \in Seq(Logs), NEW some, some \subseteq 1..Len(logs)
  PROVE  G!Latest(some) = G!NoLog \/ G!Latest(some) \in some
<1>1. CASE some = {}
  BY <1>1 DEF G!Latest
<1>2. CASE some # {}
  BY <1>2, LatestIs
<1> QED
  BY <1>1, <1>2

LEMMA RecordIs ==
  ASSUME G!AttendanceAssumption, VisitsInv, NEW r \in Scanner, G!InsertScan(r)
  PROVE  LET entry == [visitor |-> scan[r].visitor, type |-> scan[r].type, day |-> visitDay,
                       late |-> scan[r].day # visitDay, confirmed |-> scan[r].expected]
             n == Len(logs)
         IN  /\ entry \in Logs /\ n \in Nat /\ n < MaxLogs
             /\ logs' \in Seq(Logs) /\ Len(logs') = n + 1 /\ logs'[n+1] = entry
             /\ \A i \in 1..n : logs'[i] = logs[i]
             /\ \A v \in Visitor, day \in Nat : G!LogsOf(v, day)' =
                  G!LogsOf(v, day) \union (IF v = scan[r].visitor /\ day = visitDay THEN {n+1} ELSE {})
<1> DEFINE entry == [visitor |-> scan[r].visitor, type |-> scan[r].type, day |-> visitDay,
                     late |-> scan[r].day # visitDay, confirmed |-> scan[r].expected]
           n == Len(logs)
<1>1. /\ scan[r].visitor \in Visitor /\ scan[r].type \in G!Types /\ visitDay \in Nat
      /\ scan[r].expected \in Nat /\ logs \in Seq(Logs) /\ n \in Nat /\ n < MaxLogs
  BY GateConstants DEF VisitsInv, VisitsTyped, G!Requests, G!InsertScan, Past
<1>2. entry \in Logs
  BY <1>1 DEF Logs
<1>3. logs' = Append(logs, entry)
  BY DEF G!InsertScan
<1>4. entry.visitor = scan[r].visitor /\ entry.day = visitDay
  OBVIOUS
<1> HIDE DEF entry
<1>5. /\ logs' \in Seq(Logs) /\ Len(logs') = n + 1 /\ logs'[n+1] = entry
      /\ \A i \in 1..n : logs'[i] = logs[i]
  BY <1>1, <1>2, <1>3
<1>6. DOMAIN logs' = 1..(n+1) /\ DOMAIN logs = 1..n
  BY <1>1, <1>5
<1>7. ASSUME NEW v \in Visitor, NEW day \in Nat
      PROVE  G!LogsOf(v, day)' =
               G!LogsOf(v, day) \union (IF v = scan[r].visitor /\ day = visitDay THEN {n+1} ELSE {})
  <2>1. G!LogsOf(v, day) = {i \in 1..n : logs[i].visitor = v /\ logs[i].day = day}
    BY <1>6 DEF G!LogsOf
  <2>2. G!LogsOf(v, day)' = {i \in 1..(n+1) : logs'[i].visitor = v /\ logs'[i].day = day}
    BY <1>6 DEF G!LogsOf
  <2> HIDE DEF n
  <2>3. \A i : i \in 1..(n+1) <=> i \in 1..n \/ i = n+1
    BY <1>1
  <2> QED
    BY <1>4, <1>5, <2>1, <2>2, <2>3
<1> QED
  BY <1>1, <1>2, <1>5, <1>7 DEF entry

LEMMA RecordKeepsTypes ==
  ASSUME G!AttendanceAssumption, VisitsInv, NEW r \in Scanner, G!InsertScan(r)
  PROVE  VisitsTyped' /\ LocksAreHeld' /\ DatedByNow'
<1> DEFINE request == [scan[r] EXCEPT !.at = "leaving"]
           n == Len(logs)
<1>1. /\ scan[r] \in G!Requests /\ scan[r].visits \subseteq 1..n /\ scan[r].visitor \in Visitor
      /\ scan \in [Scanner -> G!Requests] /\ holder \in [Visitor -> Scanner \union {Nobody}]
      /\ scan[r].at = "writing" /\ visitDay \in Nat
  BY GateConstants DEF VisitsInv, VisitsTyped, G!InsertScan, Past
<1>2. /\ request \in G!Requests /\ request.at = "leaving" /\ request.visits = scan[r].visits
      /\ request.visitor = scan[r].visitor
  BY <1>1 DEF G!Requests
<1>3. scan' = [scan EXCEPT ![r] = request] /\ UNCHANGED <<holder, visitDay>>
  BY DEF G!InsertScan
<1> HIDE DEF request
<1>4. LocksAreHeld'
  BY <1>1, <1>2, <1>3, HolderStays DEF VisitsInv, Past
<1>5. PICK entry \in Logs : /\ logs' \in Seq(Logs) /\ n \in Nat /\ n < MaxLogs /\ Len(logs') = n + 1
                           /\ logs'[n+1] = entry /\ entry.day = visitDay /\ \A i \in 1..n : logs'[i] = logs[i]
  BY RecordIs
<1> HIDE DEF n
<1>6. DOMAIN logs' = 1..(n+1) /\ DOMAIN logs = 1..n /\ MaxLogs \in Nat
  BY <1>5, GateConstants DEF VisitsInv, VisitsTyped, n
<1>7. DatedByNow'
  <2>1. \A i \in 1..(n+1) : i \in 1..n \/ i = n+1
    BY <1>5
  <2> QED
    BY <1>1, <1>3, <1>5, <1>6, <2>1 DEF VisitsInv, DatedByNow
<1>8. \A s \in Scanner : scan'[s].visits \subseteq 1..(n+1)
  <2>1. \A s \in Scanner : scan'[s].visits = scan[s].visits
    BY <1>1, <1>2, <1>3
  <2>2. \A s \in Scanner : scan[s].visits \subseteq 1..n
    BY DEF VisitsInv, VisitsTyped, n
  <2>3. 1..n \subseteq 1..(n+1)
    BY <1>5
  <2> QED
    BY <2>1, <2>2, <2>3
<1>9. VisitsTyped'
  <2>1. scan' \in [Scanner -> G!Requests] /\ \A s \in Scanner : scan'[s].visitor = scan[s].visitor
    BY <1>1, <1>2, <1>3
  <2>2. \A s \in Scanner : scan'[s].at \in {"locking"} \union Past => scan'[s].visitor \in Visitor
    BY <1>1, <1>2, <1>3, <2>1 DEF VisitsInv, VisitsTyped
  <2> QED
    BY <1>3, <1>5, <1>6, <1>8, <2>1, <2>2 DEF VisitsInv, VisitsTyped
<1> QED
  BY <1>4, <1>7, <1>9

(* Nobody else is past the check for the visitor of a scan.                *)
LEMMA OthersStillAllowed ==
  ASSUME G!AttendanceAssumption, VisitsInv, NEW r \in Scanner, G!InsertScan(r)
  PROVE  StillAllowed'
<1> DEFINE n == Len(logs)
<1>1. /\ scan \in [Scanner -> G!Requests] /\ visitDay \in Nat /\ logs \in Seq(Logs)
      /\ scan[r].at = "writing" /\ UNCHANGED visitDay
      /\ scan' = [scan EXCEPT ![r].at = "leaving"]
  BY GateConstants DEF VisitsInv, VisitsTyped, G!InsertScan
<1>2. ASSUME NEW s \in Scanner, scan'[s].at = "writing"
      PROVE  /\ scan'[s].day <= visitDay'
             /\ scan'[s].day = visitDay' => G!Allowed(scan[s], G!LatestLog(scan[s].visitor))'
  <2>1. s # r /\ scan'[s] = scan[s] /\ scan[s].at = "writing"
    <3>1. scan'[r].at = "leaving"
      BY <1>1 DEF G!Requests
    <3> QED
      BY <1>1, <1>2, <3>1
  <2>2. scan[s].visitor # scan[r].visitor /\ scan[s].visitor \in Visitor
    <3>1. scan[s].at \in Past /\ scan[r].at \in Past
      BY <1>1, <2>1 DEF Past
    <3>2. holder[scan[s].visitor] = s /\ holder[scan[r].visitor] = r
      BY <3>1 DEF VisitsInv, LocksAreHeld
    <3>3. scan[s].visitor \in Visitor
      BY <3>1 DEF VisitsInv, VisitsTyped
    <3> QED
      BY <2>1, <3>2, <3>3
  <2>3. G!LogsOf(scan[s].visitor, visitDay)' = G!LogsOf(scan[s].visitor, visitDay)
    <3>1. PICK v \in Visitor, day \in Nat :
            v = scan[s].visitor /\ day = visitDay /\ v # scan[r].visitor
      BY <1>1, <2>2
    <3>2. G!LogsOf(v, day)' = G!LogsOf(v, day) \union {}
      BY <3>1, RecordIs
    <3>3. v = scan'[s].visitor /\ day = visitDay'
      BY <1>1, <2>1, <3>1
    <3> QED
      BY <3>1, <3>2, <3>3 DEF G!LogsOf
  <2> DEFINE last == G!LatestLog(scan[s].visitor)
  <2>4. G!LatestLog(scan[s].visitor)' = last
    <3>1. G!LatestLog(scan[s].visitor) = G!Latest(G!LogsOf(scan[s].visitor, visitDay))
      BY DEF G!LatestLog
    <3>2. G!LatestLog(scan[s].visitor)' = G!Latest(G!LogsOf(scan[s].visitor, visitDay)')
      BY DEF G!LatestLog, G!Latest, G!LogsOf
    <3> QED
      BY <2>3, <3>1, <3>2
  <2>5. last = G!NoLog \/ last \in 1..n
    <3>1. G!LogsOf(scan[s].visitor, visitDay) \subseteq 1..n
      BY <1>1 DEF G!LogsOf
    <3> QED
      BY <1>1, <3>1, LatestOrNone DEF G!LatestLog
  <2>6. last # G!NoLog => logs'[last] = logs[last]
    BY <2>5, RecordIs
  <2>7. scan'[s].day = visitDay => G!Allowed(scan[s], last)
    BY <2>1 DEF VisitsInv, StillAllowed
  <2>8. scan'[s].day <= visitDay
    BY <2>1 DEF VisitsInv, StillAllowed
  <2> HIDE DEF last
  <2> QED
    BY <1>1, <2>1, <2>4, <2>6, <2>7, <2>8 DEF G!Allowed
<1> QED
  BY <1>2 DEF StillAllowed

LEMMA RecordKeepsVisits ==
  ASSUME G!AttendanceAssumption, VisitsInv, NEW r \in Scanner, G!InsertScan(r)
  PROVE  G!VisitsAlternate'
<1> DEFINE n == Len(logs)
           entry == [visitor |-> scan[r].visitor, type |-> scan[r].type, day |-> visitDay,
                     late |-> scan[r].day # visitDay, confirmed |-> scan[r].expected]
<1>1. /\ visitDay \in Nat /\ logs \in Seq(Logs) /\ n \in Nat /\ UNCHANGED visitDay
      /\ DOMAIN logs = 1..n /\ scan[r].at = "writing" /\ scan[r].type \in G!Types
  BY GateConstants DEF VisitsInv, VisitsTyped, G!InsertScan, G!Requests
<1>2. /\ logs' \in Seq(Logs) /\ Len(logs') = n + 1 /\ logs'[n+1] = entry
      /\ \A i \in 1..n : logs'[i] = logs[i]
      /\ \A v \in Visitor, day \in Nat : G!LogsOf(v, day)' =
           G!LogsOf(v, day) \union (IF v = scan[r].visitor /\ day = visitDay THEN {n+1} ELSE {})
  BY RecordIs
<1>3. /\ entry.visitor = scan[r].visitor /\ entry.type = scan[r].type /\ entry.confirmed = scan[r].expected
      /\ entry.late <=> scan[r].day # visitDay
  OBVIOUS
<1> HIDE DEF entry, n
<1>4. ASSUME NEW v \in Visitor, NEW day \in 1..visitDay PROVE Alternate(v, day)'
  <2>1. Alternate(v, day) /\ day \in Nat
    BY AlternateEach, <1>1 DEF VisitsInv
  <2>2. G!LogsOf(v, day) \subseteq 1..n
    BY <1>1 DEF G!LogsOf
  <2>3. SUFFICES ASSUME \A i \in G!LogsOf(v, day)' : ~logs'[i].late,
                        NEW i \in G!LogsOf(v, day)'
                 PROVE  Follows(i, Before(v, day, i))'
    BY DEF Alternate
  <2>4. \A j \in G!LogsOf(v, day) : ~logs[j].late
    BY <1>2, <2>1, <2>2, <2>3
  <2>5. CASE i \in G!LogsOf(v, day)
    <3>1. {j \in G!LogsOf(v, day)' : j < i} = {j \in G!LogsOf(v, day) : j < i}
      BY <1>1, <1>2, <2>1, <2>2, <2>5
    <3>2. Before(v, day, i)' = Before(v, day, i)
      <4>1. Before(v, day, i)' = G!Latest({j \in G!LogsOf(v, day)' : j < i})
        BY DEF Before, G!Latest, G!LogsOf
      <4> QED
        BY <3>1, <4>1 DEF Before
    <3>3. Before(v, day, i) = G!NoLog \/ Before(v, day, i) \in 1..n
      <4>1. {j \in G!LogsOf(v, day) : j < i} \subseteq 1..n
        BY <2>2
      <4> QED
        BY <1>1, <4>1, LatestOrNone DEF Before
    <3>4. Follows(i, Before(v, day, i))
      BY <2>1, <2>4, <2>5 DEF Alternate
    <3>5. logs'[i] = logs[i] /\ (Before(v, day, i) # G!NoLog => logs'[Before(v, day, i)] = logs[Before(v, day, i)])
      BY <1>2, <2>2, <2>5, <3>3
    <3> QED
      BY <3>2, <3>4, <3>5 DEF Follows
  <2>6. CASE i \notin G!LogsOf(v, day)
    <3>1. i = n+1 /\ v = entry.visitor /\ day = visitDay
      <4>1. i \in G!LogsOf(v, day) \union (IF v = scan[r].visitor /\ day = visitDay THEN {n+1} ELSE {})
        BY <1>2, <2>1, <2>3
      <4> QED
        BY <1>3, <2>6, <4>1
    <3>2. ~entry.late
      BY <1>2, <2>3, <3>1
    <3>3. scan[r].day = visitDay /\ v = scan[r].visitor
      BY <1>3, <3>1, <3>2
    <3> DEFINE last == G!LatestLog(v)
    <3>4. G!Allowed(scan[r], last)
      BY <1>1, <3>3 DEF VisitsInv, StillAllowed
    <3>5. G!LogsOf(v, day)' = G!LogsOf(v, day) \union {i}
      BY <1>2, <1>3, <2>1, <3>1
    <3>6. \A j \in G!LogsOf(v, day) : j < i
      BY <1>1, <2>2, <3>1
    <3>7. {j \in G!LogsOf(v, day)' : j < i} = G!LogsOf(v, day)
      BY <1>1, <3>1, <3>5, <3>6
    <3>8. Before(v, day, i)' = last
      <4>1. Before(v, day, i)' = G!Latest({j \in G!LogsOf(v, day)' : j < i})
        BY DEF Before, G!Latest, G!LogsOf
      <4>2. last = G!Latest(G!LogsOf(v, visitDay))
        BY DEF G!LatestLog
      <4> QED
        BY <3>1, <3>7, <4>1, <4>2
    <3>9. last = G!NoLog \/ last \in 1..n
      BY <1>1, <2>2, <3>1, LatestOrNone DEF G!LatestLog
    <3>10. last # G!NoLog => logs'[last] = logs[last] /\ logs[last].type \in G!Types
      <4>1. last \in 1..n => logs[last] \in Logs
        BY <1>1
      <4> QED
        BY <1>2, <3>9, <4>1 DEF Logs
    <3>11. logs'[i].type = scan[r].type /\ logs'[i].confirmed = scan[r].expected
      BY <1>2, <1>3, <3>1
    <3> HIDE DEF last
    <3> QED
      BY <1>1, <3>4, <3>8, <3>10, <3>11 DEF Follows, G!Allowed, G!Types
  <2> QED
    BY <2>5, <2>6
<1>5. (\A v \in Visitor, day \in 1..visitDay : Alternate(v, day))'
  BY <1>1, <1>4
<1>6. (G!VisitsAlternate <=> \A v \in Visitor, day \in 1..visitDay : Alternate(v, day))'
  BY DEF G!VisitsAlternate, Alternate, Follows, Before
<1> QED
  BY <1>5, <1>6

LEMMA MidnightKeeps ==
  ASSUME G!AttendanceAssumption, VisitsInv, G!Midnight PROVE VisitsInv'
<1>1. /\ UNCHANGED <<logs, holder, scan>> /\ visitDay' = visitDay + 1
      /\ visitDay \in 1..LastDay /\ visitDay < LastDay /\ LastDay \in Nat
      /\ logs \in Seq(Logs) /\ scan \in [Scanner -> G!Requests]
  BY GateConstants DEF G!Midnight, VisitsInv, VisitsTyped
<1>2. VisitsTyped' /\ LocksAreHeld'
  BY <1>1 DEF VisitsInv, VisitsTyped, LocksAreHeld
<1>3. DatedByNow'
  <2>1. \A i \in DOMAIN logs : logs[i].day \in Nat /\ logs[i].day <= visitDay
    <3>1. \A i \in DOMAIN logs : logs[i] \in Logs
      BY <1>1
    <3> QED
      BY <3>1 DEF VisitsInv, DatedByNow, Logs
  <2> QED
    BY <1>1, <2>1 DEF DatedByNow
<1>4. StillAllowed'
  <2>1. \A r \in Scanner : scan[r].at = "writing" => scan[r].day \in Nat /\ scan[r].day <= visitDay
    BY <1>1 DEF VisitsInv, StillAllowed, G!Requests
  <2> QED
    BY <1>1, <2>1 DEF StillAllowed
<1>5. G!VisitsAlternate'
  <2>1. ASSUME NEW v \in Visitor, NEW day \in 1..visitDay' PROVE Alternate(v, day)'
    <3>1. G!LogsOf(v, day)' = G!LogsOf(v, day)
      BY <1>1 DEF G!LogsOf
    <3>2. CASE day \in 1..visitDay
      <4>1. Alternate(v, day)
        BY <3>2, AlternateEach DEF VisitsInv
      <4> QED
        BY <1>1, <3>1, <4>1 DEF Alternate, Before, G!Latest, Follows
    <3>3. CASE day \notin 1..visitDay
      <4>1. G!LogsOf(v, day) = {}
        BY <1>1, <3>3 DEF VisitsInv, DatedByNow, G!LogsOf, Logs
      <4> QED
        BY <3>1, <4>1 DEF Alternate
    <3> QED
      BY <3>2, <3>3
  <2>2. (\A v \in Visitor, day \in 1..visitDay : Alternate(v, day))'
    BY <2>1
  <2>3. (G!VisitsAlternate <=> \A v \in Visitor, day \in 1..visitDay : Alternate(v, day))'
    BY DEF G!VisitsAlternate, Alternate, Follows, Before
  <2> QED
    BY <2>2, <2>3
<1> QED
  BY <1>2, <1>3, <1>4, <1>5 DEF VisitsInv

LEMMA VisitsKeep == ASSUME G!AttendanceAssumption, VisitsInv, [G!Next]_(G!vars) PROVE VisitsInv'
<1>1. ASSUME NEW r \in Scanner, G!InsertScan(r) PROVE VisitsInv'
  BY <1>1, RecordKeepsTypes, OthersStillAllowed, RecordKeepsVisits DEF VisitsInv
<1>2. CASE UNCHANGED G!vars
  <2>1. UNCHANGED <<logs, holder, scan, visitDay>>
    BY <1>2 DEF G!vars
  <2> QED
    BY <2>1 DEF VisitsInv, VisitsTyped, LocksAreHeld, StillAllowed, DatedByNow, G!VisitsAlternate,
                G!LogsOf, G!LatestLog, G!Allowed
<1> QED
  BY <1>1, <1>2, OpeningScanKeeps, LocksKeep, MidnightKeeps DEF G!Next

(* ------------------------------------------------------------ the catalogue *)

LEMMA SameCatalogueCounts == \A S : C!Cardinality(S) = Cardinality(S) /\ (C!IsFiniteSet(S) <=> IsFiniteSet(S))
  BY DEF Cardinality, C!Cardinality, IsFiniteSet, C!IsFiniteSet

BookRecords == [state : C!Life, policy : Policy \union {Nobody}, stored : SUBSET Field,
                count : 0..C!Cardinality(Exemplar)]
BookRequests == [stage : {"idle", "create", "edit", "copy"}, book : Title \union {Nobody},
                 policy : Policy \union {Nobody}, copy : Exemplar \union {Nobody},
                 schema : SUBSET Field, seen : SUBSET Exemplar]
CatalogueTyped ==
  /\ books \in [Title -> BookRecords]
  /\ exemplars \in [Exemplar -> {"none", "active", "retired"}]
  /\ policies \in [Policy -> C!Life] /\ fields \in [Field -> C!Life]
  /\ cataloguing \in [Cataloguer -> BookRequests]
  /\ missed \subseteq Title /\ late \subseteq Title

(* A request is about a book; the policy that an edit has locked is active *)
(* until it ends, and a change of a copy is about the book of the copy.    *)
Sound(request) ==
  /\ request.stage # "idle" => request.book \in Title
  /\ request.stage = "edit" /\ request.policy # Nobody => policies[request.policy] = "active"
  /\ request.stage = "copy" => request.copy \in Exemplar /\ HomeOf[request.copy] = request.book
RequestsSound == \A n \in Cataloguer : Sound(cataloguing[n])
CatalogueInv == CatalogueTyped /\ RequestsSound /\ C!PoliciesActive /\ C!DataHasFields /\ C!CountsMatch

LEMMA CopiesAreCounted ==
  ASSUME C!CatalogueAssumption
  PROVE  /\ C!Cardinality(Exemplar) \in Nat
         /\ \A S \in SUBSET Exemplar : C!Cardinality(S) \in 0..C!Cardinality(Exemplar)
<1>1. IsFiniteSet(Exemplar)
  BY SameCatalogueCounts DEF C!CatalogueAssumption
<1>2. Cardinality(Exemplar) \in Nat
  BY <1>1, FS_CardinalityType
<1>3. ASSUME NEW S \in SUBSET Exemplar PROVE Cardinality(S) \in 0..Cardinality(Exemplar)
  BY <1>1, <1>2, FS_Subset, FS_CardinalityType
<1> QED
  BY <1>2, <1>3, SameCatalogueCounts

LEMMA RestingRequest ==
  C!Idle \in BookRequests /\ C!Idle.stage = "idle" /\ Sound(C!Idle)
<1>1. C!Idle \in BookRequests /\ C!Idle.stage = "idle"
  BY DEF C!Idle, BookRequests
<1> QED
  BY <1>1 DEF Sound

LEMMA CatalogueStart == ASSUME C!CatalogueAssumption, C!Init PROVE CatalogueInv
<1>1. C!NoRecord \in BookRecords /\ C!NoRecord.state = "none"
  BY CopiesAreCounted DEF C!NoRecord, BookRecords, C!Life
<1>2. CatalogueTyped
  BY <1>1, RestingRequest DEF C!Init, CatalogueTyped, C!Life
<1>3. RequestsSound
  BY RestingRequest DEF C!Init, RequestsSound
<1>4. C!PresentBooks = {}
  BY <1>1 DEF C!Init, C!PresentBooks
<1> QED
  BY <1>2, <1>3, <1>4 DEF CatalogueInv, C!PoliciesActive, C!DataHasFields, C!CountsMatch

(* A request that begins or ends, and nothing else.                        *)
LEMMA RequestStepKeeps ==
  ASSUME CatalogueInv, NEW n \in Cataloguer, NEW request \in BookRequests, Sound(request),
         cataloguing' = [cataloguing EXCEPT ![n] = request],
         UNCHANGED <<books, exemplars, policies, fields, missed, late>>
  PROVE  CatalogueInv'
<1>1. CatalogueTyped'
  BY DEF CatalogueInv, CatalogueTyped
<1>2. RequestsSound'
  BY DEF CatalogueInv, CatalogueTyped, RequestsSound, Sound
<1>3. C!PoliciesActive' /\ C!DataHasFields' /\ C!CountsMatch'
  BY DEF CatalogueInv, C!PoliciesActive, C!DataHasFields, C!CountsMatch, C!PresentBooks, C!ActiveCopies
<1> QED
  BY <1>1, <1>2, <1>3 DEF CatalogueInv

LEMMA OpeningsKeep ==
  ASSUME C!CatalogueAssumption, CatalogueInv, NEW n \in Cataloguer,
         \/ C!Abort(n) \/ \E c \in Exemplar : C!OpenCopyChange(n, c)
         \/ \E b \in Title : C!OpenCreate(n, b) \/ \E p \in Policy \union {Nobody} : C!OpenEdit(n, b, p)
  PROVE  CatalogueInv'
<1>1. CASE C!Abort(n)
  BY <1>1, RestingRequest, RequestStepKeeps DEF C!Abort, C!Finish
<1>2. ASSUME NEW b \in Title, C!OpenCreate(n, b) PROVE CatalogueInv'
  <2> DEFINE request == [C!Idle EXCEPT !.stage = "create", !.book = b, !.schema = C!ActiveFields]
  <2>1. C!ActiveFields \in SUBSET Field
    BY DEF C!ActiveFields
  <2>2. request \in BookRequests /\ request.stage = "create" /\ request.book = b
    BY <2>1 DEF C!Idle, BookRequests
  <2>3. Sound(request)
    BY <2>2 DEF Sound
  <2>4. /\ cataloguing' = [cataloguing EXCEPT ![n] = request]
        /\ UNCHANGED <<books, exemplars, policies, fields, missed, late>>
    BY <1>2 DEF C!OpenCreate, C!Open
  <2> HIDE DEF request
  <2> QED
    BY <2>2, <2>3, <2>4, RequestStepKeeps
<1>3. ASSUME NEW b \in Title, NEW p \in Policy \union {Nobody}, C!OpenEdit(n, b, p) PROVE CatalogueInv'
  <2> DEFINE request == [C!Idle EXCEPT !.stage = "edit", !.book = b, !.policy = p]
  <2>1. request \in BookRequests /\ request.stage = "edit" /\ request.book = b /\ request.policy = p
    BY DEF C!Idle, BookRequests
  <2>2. Sound(request)
    BY <1>3, <2>1 DEF Sound, C!OpenEdit
  <2>3. /\ cataloguing' = [cataloguing EXCEPT ![n] = request]
        /\ UNCHANGED <<books, exemplars, policies, fields, missed, late>>
    BY <1>3 DEF C!OpenEdit, C!Open
  <2> HIDE DEF request
  <2> QED
    BY <2>1, <2>2, <2>3, RequestStepKeeps
<1>4. ASSUME NEW c \in Exemplar, C!OpenCopyChange(n, c) PROVE CatalogueInv'
  <2> DEFINE b == HomeOf[c]
             seen == C!ActiveCopies(b)
             request == [C!Idle EXCEPT !.stage = "copy", !.book = b, !.copy = c, !.seen = seen]
  <2>1. b \in Title /\ seen \in SUBSET Exemplar
    BY DEF C!CatalogueAssumption, C!ActiveCopies
  <2>2. /\ cataloguing' = [cataloguing EXCEPT ![n] = request]
        /\ UNCHANGED <<books, exemplars, policies, fields, missed, late>>
    BY <1>4 DEF C!OpenCopyChange, C!Open
  <2> HIDE DEF seen
  <2>3. request \in BookRequests /\ request.stage = "copy" /\ request.book = b /\ request.copy = c
    BY <2>1 DEF C!Idle, BookRequests
  <2>4. Sound(request)
    BY <2>1, <2>3 DEF Sound
  <2> HIDE DEF request
  <2> QED
    BY <2>3, <2>4, <2>2, RequestStepKeeps
<1> QED
  BY <1>1, <1>2, <1>3, <1>4

(* ------------------------------------------------------- books and copies *)

(* A book is written whose policy is active, which stores data of fields   *)
(* that are there and which counts its copies: or else is excused.         *)
LEMMA BookWritten ==
  ASSUME CatalogueInv, NEW b \in Title, NEW record \in BookRecords,
         books' = [books EXCEPT ![b] = record], UNCHANGED <<policies, fields>>,
         \A n \in Cataloguer : cataloguing'[n] \in {cataloguing[n], C!Idle},
         cataloguing' \in [Cataloguer -> BookRequests],
         exemplars' \in [Exemplar -> {"none", "active", "retired"}],
         \A other \in Title \ {b} : C!ActiveCopies(other)' = C!ActiveCopies(other),
         missed' \subseteq Title, missed \subseteq missed' \union {b}, late \subseteq late', late' \subseteq Title,
         record.state # "none" =>
           /\ record.policy # Nobody /\ policies[record.policy] = "active"
           /\ b \notin late' => \A f \in record.stored : fields[f] # "none"
           /\ b \notin missed' => record.count = C!Cardinality(C!ActiveCopies(b)')
  PROVE  CatalogueInv'
<1>1. CatalogueTyped'
  BY DEF CatalogueInv, CatalogueTyped
<1>2. RequestsSound'
  BY RestingRequest DEF CatalogueInv, RequestsSound, Sound
<1>3. \A x \in Title : books'[x] = IF x = b THEN record ELSE books[x]
  BY DEF CatalogueInv, CatalogueTyped
<1>4. C!PoliciesActive'
  BY <1>3 DEF CatalogueInv, C!PoliciesActive, C!PresentBooks
<1>5. C!DataHasFields'
  BY <1>3 DEF CatalogueInv, C!DataHasFields, C!PresentBooks
<1>6. C!CountsMatch'
  <2>1. SUFFICES ASSUME NEW x \in C!PresentBooks' \ missed' PROVE books'[x].count = C!Cardinality(C!ActiveCopies(x)')
    BY DEF C!CountsMatch, C!Cardinality, C!ActiveCopies
  <2>2. CASE x = b
    BY <1>3, <2>1, <2>2 DEF C!PresentBooks
  <2>3. CASE x # b
    BY <1>3, <2>1, <2>3 DEF CatalogueInv, C!CountsMatch, C!PresentBooks
  <2> QED
    BY <2>2, <2>3
<1> QED
  BY <1>1, <1>2, <1>4, <1>5, <1>6 DEF CatalogueInv

LEMMA SyncedIs ==
  ASSUME C!CatalogueAssumption, CatalogueInv, NEW b \in Title, NEW target \in SUBSET Exemplar, C!Synced(b, target)
  PROVE  /\ exemplars' \in [Exemplar -> {"none", "active", "retired"}]
         /\ C!ActiveCopies(b)' = target /\ missed' = missed \ {b}
         /\ \A other \in Title \ {b} : C!ActiveCopies(other)' = C!ActiveCopies(other)
         /\ C!Cardinality(target) \in 0..C!Cardinality(Exemplar)
<1>1. /\ exemplars \in [Exemplar -> {"none", "active", "retired"}]
      /\ \A c \in target : HomeOf[c] = b
      /\ exemplars' = [c \in Exemplar |-> IF c \in target THEN "active"
                                          ELSE IF c \in C!ActiveCopies(b) THEN "retired" ELSE exemplars[c]]
  BY DEF C!Synced, CatalogueInv, CatalogueTyped
<1>2. exemplars' \in [Exemplar -> {"none", "active", "retired"}]
  BY <1>1
<1>3. C!ActiveCopies(b)' = target
  BY <1>1 DEF C!ActiveCopies
<1>4. ASSUME NEW other \in Title \ {b} PROVE C!ActiveCopies(other)' = C!ActiveCopies(other)
  BY <1>1 DEF C!ActiveCopies
<1> QED
  BY <1>2, <1>3, <1>4, CopiesAreCounted DEF C!Synced

LEMMA RequestEnds ==
  ASSUME CatalogueInv, NEW n \in Cataloguer, C!Finish(n)
  PROVE  /\ cataloguing' \in [Cataloguer -> BookRequests]
         /\ \A m \in Cataloguer : cataloguing'[m] \in {cataloguing[m], C!Idle}
  BY RestingRequest DEF CatalogueInv, CatalogueTyped, C!Finish

LEMMA CreationKeeps ==
  ASSUME C!CatalogueAssumption, CatalogueInv, NEW n \in Cataloguer, NEW p \in Policy,
         NEW stored \in SUBSET Field, NEW target \in SUBSET Exemplar, C!CreateBook(n, p, stored, target)
  PROVE  CatalogueInv'
<1> DEFINE b == cataloguing[n].book
           record == [state |-> "active", policy |-> p, stored |-> stored, count |-> C!Cardinality(target)]
<1>1. b \in Title /\ policies[p] = "active" /\ C!Synced(b, target) /\ C!Finish(n) /\ UNCHANGED <<policies, fields>>
  BY DEF C!CreateBook, CatalogueInv, RequestsSound, Sound
<1>2. books' = [books EXCEPT ![b] = record]
  BY DEF C!CreateBook
<1>3. /\ late' = IF cataloguing[n].schema = C!ActiveFields THEN late ELSE late \union {b}
      /\ stored \subseteq cataloguing[n].schema
  BY DEF C!CreateBook
<1> HIDE DEF b
<1>4. late \subseteq late' /\ late' \subseteq Title /\ (b \notin late' => \A f \in stored : fields[f] # "none")
  BY <1>1, <1>3 DEF CatalogueInv, CatalogueTyped, C!ActiveFields
<1>5. /\ record \in BookRecords /\ record.policy = p /\ record.stored = stored
      /\ record.count = C!Cardinality(target)
  BY <1>1, SyncedIs DEF BookRecords, C!Life
<1> HIDE DEF record
<1>6. p # Nobody
  BY DEF C!CatalogueAssumption
<1>7. missed' \subseteq Title /\ missed \subseteq missed' \union {b}
  BY <1>1, SyncedIs DEF CatalogueInv, CatalogueTyped
<1> QED
  BY <1>1, <1>2, <1>4, <1>5, <1>6, <1>7, SyncedIs, RequestEnds, BookWritten

LEMMA EditKeeps ==
  ASSUME C!CatalogueAssumption, CatalogueInv, NEW n \in Cataloguer,
         NEW stored \in SUBSET Field, C!UpdateBook(n, stored)
  PROVE  CatalogueInv'
<1> DEFINE b == cataloguing[n].book
           policy == IF cataloguing[n].policy = Nobody THEN books[b].policy ELSE cataloguing[n].policy
           Edited(count) == [books[b] EXCEPT !.stored = stored, !.count = count, !.policy = policy]
<1>1. /\ cataloguing[n] \in BookRequests /\ cataloguing[n].stage = "edit" /\ b \in Title
      /\ C!Finish(n) /\ UNCHANGED <<policies, fields, late>>
      /\ books[b] \in BookRecords /\ books[b].state = "active"
  <2>1. cataloguing[n] \in BookRequests /\ books \in [Title -> BookRecords]
    BY DEF CatalogueInv, CatalogueTyped
  <2>2. /\ cataloguing[n].stage \in {"edit", "lookup"} /\ books[b].state = "active" /\ C!Finish(n)
        /\ UNCHANGED <<policies, fields, late>>
    BY DEF C!UpdateBook
  <2>3. cataloguing[n].stage = "edit"
    BY <2>1, <2>2 DEF BookRequests
  <2>4. b \in Title
    BY <2>3 DEF CatalogueInv, RequestsSound, Sound
  <2> QED
    BY <2>1, <2>2, <2>3, <2>4
<1>2. policy \in Policy /\ policy # Nobody /\ policies[policy] = "active"
  <2>1. books[b].policy \in Policy /\ books[b].policy # Nobody /\ policies[books[b].policy] = "active"
    BY <1>1 DEF CatalogueInv, C!PoliciesActive, C!PresentBooks, BookRecords
  <2>2. cataloguing[n].policy # Nobody =>
          cataloguing[n].policy \in Policy /\ policies[cataloguing[n].policy] = "active"
    BY <1>1 DEF CatalogueInv, RequestsSound, Sound, BookRequests
  <2> QED
    BY <2>1, <2>2
<1>3. b \notin late => \A f \in stored : fields[f] # "none"
  <2>1. stored \ C!ActiveFields = books[b].stored \ C!ActiveFields
    BY DEF C!UpdateBook
  <2>2. b \notin late => \A f \in books[b].stored : fields[f] # "none"
    BY <1>1 DEF CatalogueInv, C!DataHasFields, C!PresentBooks
  <2> QED
    BY <2>1, <2>2 DEF C!ActiveFields
<1>4. PICK target \in SUBSET Exemplar :
        \/ C!Synced(b, target) /\ books' = [books EXCEPT ![b] = Edited(C!Cardinality(target))]
        \/ UNCHANGED <<exemplars, missed>> /\ books' = [books EXCEPT ![b] = Edited(books[b].count)]
        \/ /\ UNCHANGED exemplars /\ missed' = missed \union {b}
           /\ \E count \in 0..C!Cardinality(Exemplar) : books' = [books EXCEPT ![b] = Edited(count)]
  BY DEF C!UpdateBook
<1> HIDE DEF b, policy
<1>5. \A count \in 0..C!Cardinality(Exemplar) :
        /\ Edited(count) \in BookRecords /\ Edited(count).policy = policy
        /\ Edited(count).stored = stored /\ Edited(count).count = count
  BY <1>1, <1>2 DEF BookRecords
<1> HIDE DEF Edited
<1>6. CASE C!Synced(b, target) /\ books' = [books EXCEPT ![b] = Edited(C!Cardinality(target))]
  <2>1. missed' \subseteq Title /\ missed \subseteq missed' \union {b} /\ late \subseteq Title
    BY <1>1, <1>6, SyncedIs DEF CatalogueInv, CatalogueTyped
  <2> QED
    BY <1>1, <1>2, <1>3, <1>5, <1>6, <2>1, SyncedIs, RequestEnds, BookWritten
<1>7. CASE UNCHANGED <<exemplars, missed>> /\ books' = [books EXCEPT ![b] = Edited(books[b].count)]
  <2>1. missed' \subseteq Title /\ missed \subseteq missed' \union {b} /\ late \subseteq Title
    BY <1>7 DEF CatalogueInv, CatalogueTyped
  <2>2. \A other \in Title : C!ActiveCopies(other)' = C!ActiveCopies(other)
    BY <1>7 DEF C!ActiveCopies
  <2>3. books[b].count \in 0..C!Cardinality(Exemplar)
    BY <1>1 DEF BookRecords
  <2>4. b \notin missed => books[b].count = C!Cardinality(C!ActiveCopies(b))
    BY <1>1 DEF CatalogueInv, C!CountsMatch, C!PresentBooks
  <2>5. exemplars' \in [Exemplar -> {"none", "active", "retired"}]
    BY <1>7 DEF CatalogueInv, CatalogueTyped
  <2>6. PICK x \in Title, record \in BookRecords :
          /\ x = b /\ books' = [books EXCEPT ![x] = record]
          /\ record.policy = policy /\ record.stored = stored /\ record.count = books[x].count
    BY <1>1, <1>5, <1>7, <2>3
  <2>7. x \notin missed' => record.count = C!Cardinality(C!ActiveCopies(x)')
    BY <1>7, <2>2, <2>4, <2>6
  <2>8. x \notin late' => \A f \in record.stored : fields[f] # "none"
    BY <1>1, <1>3, <2>6
  <2>9. /\ UNCHANGED <<policies, fields>> /\ missed \subseteq missed' \union {x}
        /\ late \subseteq late' /\ late' \subseteq Title
    BY <1>1, <2>1, <2>6
  <2>10. /\ cataloguing' \in [Cataloguer -> BookRequests]
         /\ \A m \in Cataloguer : cataloguing'[m] \in {cataloguing[m], C!Idle}
    BY <1>1, RequestEnds
  <2> QED
    BY <1>2, <2>1, <2>2, <2>5, <2>6, <2>7, <2>8, <2>9, <2>10, BookWritten
<1>8. ASSUME NEW count \in 0..C!Cardinality(Exemplar),
             UNCHANGED exemplars, missed' = missed \union {b}, books' = [books EXCEPT ![b] = Edited(count)]
      PROVE  CatalogueInv'
  <2>1. missed' \subseteq Title /\ missed \subseteq missed' \union {b} /\ late \subseteq Title /\ b \in missed'
    BY <1>1, <1>8 DEF CatalogueInv, CatalogueTyped
  <2>2. \A other \in Title : C!ActiveCopies(other)' = C!ActiveCopies(other)
    BY <1>8 DEF C!ActiveCopies
  <2>3. exemplars' \in [Exemplar -> {"none", "active", "retired"}]
    BY <1>8 DEF CatalogueInv, CatalogueTyped
  <2>4. PICK x \in Title, record \in BookRecords :
          /\ x = b /\ books' = [books EXCEPT ![x] = record]
          /\ record.policy = policy /\ record.stored = stored
    BY <1>1, <1>5, <1>8
  <2>5. x \in missed' /\ missed \subseteq missed' \union {x}
    BY <2>1, <2>4
  <2>6. x \notin late' => \A f \in record.stored : fields[f] # "none"
    BY <1>1, <1>3, <2>4
  <2>7. /\ UNCHANGED <<policies, fields>> /\ late \subseteq late' /\ late' \subseteq Title
    BY <1>1, <2>1
  <2>8. /\ cataloguing' \in [Cataloguer -> BookRequests]
        /\ \A m \in Cataloguer : cataloguing'[m] \in {cataloguing[m], C!Idle}
    BY <1>1, RequestEnds
  <2> QED
    BY <1>2, <2>1, <2>2, <2>3, <2>4, <2>5, <2>6, <2>7, <2>8, BookWritten
<1> QED
  BY <1>4, <1>6, <1>7, <1>8

LEMMA AdditionKeeps ==
  ASSUME C!CatalogueAssumption, CatalogueInv, NEW b \in Title, NEW target \in SUBSET Exemplar,
         C!AddBookCopies(b, target)
  PROVE  CatalogueInv'
<1> DEFINE record == [books[b] EXCEPT !.count = C!Cardinality(target)]
<1>1. /\ C!Synced(b, target) /\ UNCHANGED <<policies, fields, cataloguing, late>>
      /\ books[b] \in BookRecords /\ books[b].state = "active"
      /\ books' = [books EXCEPT ![b] = record]
  BY DEF C!AddBookCopies, CatalogueInv, CatalogueTyped
<1>2. /\ record \in BookRecords /\ record.policy = books[b].policy /\ record.stored = books[b].stored
      /\ record.count = C!Cardinality(target)
  BY <1>1, SyncedIs DEF BookRecords
<1> HIDE DEF record
<1>3. /\ books[b].policy # Nobody /\ policies[books[b].policy] = "active"
      /\ b \notin late => \A f \in books[b].stored : fields[f] # "none"
  BY <1>1 DEF CatalogueInv, C!PoliciesActive, C!DataHasFields, C!PresentBooks
<1>4. /\ missed' \subseteq Title /\ missed \subseteq missed' \union {b} /\ late' \subseteq Title
      /\ late \subseteq late' /\ cataloguing' \in [Cataloguer -> BookRequests]
      /\ \A n \in Cataloguer : cataloguing'[n] \in {cataloguing[n], C!Idle}
  BY <1>1, SyncedIs DEF CatalogueInv, CatalogueTyped
<1> QED
  BY <1>1, <1>2, <1>3, <1>4, SyncedIs, BookWritten

LEMMA ArchivalKeeps ==
  ASSUME CatalogueInv, NEW b \in Title, C!DeleteBook(b) \/ C!RestoreBook(b)
  PROVE  CatalogueInv'
<1>1. PICK state \in {"active", "archived"} :
        /\ books' = [books EXCEPT ![b] = [books[b] EXCEPT !.state = state]]
        /\ UNCHANGED <<exemplars, policies, fields, cataloguing, missed, late>>
        /\ books[b] \in BookRecords /\ books[b].state # "none"
  BY DEF C!DeleteBook, C!RestoreBook, CatalogueInv, CatalogueTyped
<1> DEFINE record == [books[b] EXCEPT !.state = state]
<1>2. /\ record \in BookRecords /\ record.policy = books[b].policy /\ record.stored = books[b].stored
      /\ record.count = books[b].count
  BY <1>1 DEF BookRecords, C!Life
<1> HIDE DEF record
<1>3. books' = [books EXCEPT ![b] = record]
  BY <1>1 DEF record
<1>4. /\ books[b].policy # Nobody /\ policies[books[b].policy] = "active"
      /\ b \notin late => \A f \in books[b].stored : fields[f] # "none"
      /\ b \notin missed => books[b].count = C!Cardinality(C!ActiveCopies(b))
  BY <1>1 DEF CatalogueInv, C!PoliciesActive, C!DataHasFields, C!CountsMatch, C!PresentBooks
<1>5. /\ missed' \subseteq Title /\ missed \subseteq missed' \union {b} /\ late' \subseteq Title
      /\ late \subseteq late' /\ cataloguing' \in [Cataloguer -> BookRequests]
      /\ \A n \in Cataloguer : cataloguing'[n] \in {cataloguing[n], C!Idle}
      /\ exemplars' \in [Exemplar -> {"none", "active", "retired"}]
  BY <1>1 DEF CatalogueInv, CatalogueTyped
<1>6. \A other \in Title : C!ActiveCopies(other)' = C!ActiveCopies(other)
  BY <1>1 DEF C!ActiveCopies
<1>7. /\ b \notin late' => \A f \in record.stored : fields[f] # "none"
      /\ b \notin missed' => record.count = C!Cardinality(C!ActiveCopies(b)')
  BY <1>1, <1>2, <1>4, <1>6
<1>8. UNCHANGED <<policies, fields>>
  BY <1>1
<1> QED
  BY <1>2, <1>3, <1>4, <1>5, <1>6, <1>7, <1>8, BookWritten

(* A count that was taken in a current snapshot is right; any other is     *)
(* excused.                                                                *)
LEMMA CopyChangeKeeps ==
  ASSUME C!CatalogueAssumption, CatalogueInv, NEW n \in Cataloguer, C!RetireCopy(n) \/ C!RestoreCopy(n)
  PROVE  CatalogueInv'
<1> DEFINE b == cataloguing[n].book
           c == cataloguing[n].copy
           seen == cataloguing[n].seen
           life == IF C!RetireCopy(n) THEN "retired" ELSE "active"
           next == IF C!RetireCopy(n) THEN seen \ {c} ELSE seen \union {c}
           record == [books[b] EXCEPT !.count = C!Cardinality(next)]
<1>1. cataloguing[n].stage = "copy" /\ books[b].state = "active"
  BY DEF C!RetireCopy, C!RestoreCopy
<1>2. /\ b \in Title /\ c \in Exemplar /\ HomeOf[c] = b /\ seen \in SUBSET Exemplar
      /\ books[b] \in BookRecords /\ exemplars \in [Exemplar -> {"none", "active", "retired"}]
  BY <1>1 DEF CatalogueInv, CatalogueTyped, RequestsSound, Sound, BookRequests
<1>3. /\ exemplars' = [exemplars EXCEPT ![c] = life] /\ C!Recount(n, next) /\ C!Finish(n)
      /\ UNCHANGED <<policies, fields, late>>
  BY DEF C!RetireCopy, C!RestoreCopy
<1>4. /\ life \in {"active", "retired"} /\ next \in SUBSET Exemplar
      /\ next = IF life = "active" THEN seen \union {c} ELSE seen \ {c}
  BY <1>2
<1>5. /\ books' = [books EXCEPT ![b] = record]
      /\ missed' = IF seen = C!ActiveCopies(b) THEN missed \ {b} ELSE missed \union {b}
  BY <1>2, <1>3 DEF C!Recount, CatalogueInv, CatalogueTyped
<1> HIDE DEF b, c, seen, life, next
<1>6. /\ record \in BookRecords /\ record.policy = books[b].policy /\ record.stored = books[b].stored
      /\ record.count = C!Cardinality(next)
  BY <1>2, <1>4, CopiesAreCounted DEF BookRecords
<1> HIDE DEF record
<1>7. /\ books[b].policy # Nobody /\ policies[books[b].policy] = "active"
      /\ b \notin late => \A f \in books[b].stored : fields[f] # "none"
  BY <1>1, <1>2 DEF CatalogueInv, C!PoliciesActive, C!DataHasFields, C!PresentBooks, b
<1>8. /\ missed' \subseteq Title /\ missed \subseteq missed' \union {b} /\ late' \subseteq Title /\ late \subseteq late'
      /\ exemplars' \in [Exemplar -> {"none", "active", "retired"}]
  BY <1>2, <1>3, <1>4, <1>5 DEF CatalogueInv, CatalogueTyped
<1>9. \A other \in Title \ {b} : C!ActiveCopies(other)' = C!ActiveCopies(other)
  BY <1>2, <1>3 DEF C!ActiveCopies
<1>10. ASSUME NEW x \in Title, x = b, seen = C!ActiveCopies(x) PROVE C!ActiveCopies(x)' = next
  <2>1. HomeOf[c] = x /\ \A y \in Exemplar : y \in seen <=> HomeOf[y] = x /\ exemplars[y] = "active"
    BY <1>2, <1>10 DEF C!ActiveCopies
  <2>2. \A y : y \in C!ActiveCopies(x)' <=> y \in Exemplar /\ HomeOf[y] = x /\ exemplars'[y] = "active"
    BY DEF C!ActiveCopies
  <2>3. \A y \in Exemplar : exemplars'[y] = IF y = c THEN life ELSE exemplars[y]
    BY <1>2, <1>3
  <2>4. \A y : y \in C!ActiveCopies(x)' <=> y \in next
    BY <1>2, <1>4, <2>1, <2>2, <2>3
  <2> QED
    BY <2>4
<1>11. \A x \in Title : x \notin missed' /\ x = b => record.count = C!Cardinality(C!ActiveCopies(x)')
  BY <1>2, <1>5, <1>6, <1>10
<1> QED
  BY <1>1, <1>2, <1>3, <1>5, <1>6, <1>7, <1>8, <1>9, <1>11, RequestEnds, BookWritten

(* --------------------------------------------------- policies and fields *)

(* A policy that changes is no request's and, if it ends, no book's.       *)
LEMMA PolicyStepKeeps ==
  ASSUME CatalogueInv, NEW p \in Policy,
         C!DeleteBookType(p) \/ \E state \in C!Life : C!SavePolicy(p, state)
  PROVE  CatalogueInv'
<1>1. PICK state \in C!Life :
        /\ policies' = [policies EXCEPT ![p] = state] /\ ~C!Locked(p)
        /\ state = "active" \/ policies[p] # "active" \/ C!Assigned(p) = {}
        /\ UNCHANGED <<books, exemplars, fields, cataloguing, missed, late>>
  BY DEF C!DeleteBookType, C!SavePolicy, C!Life
<1>2. CatalogueTyped'
  BY <1>1 DEF CatalogueInv, CatalogueTyped
<1>3. \A q \in Policy : q # p => policies'[q] = policies[q]
  BY <1>1 DEF CatalogueInv, CatalogueTyped
<1>4. policies'[p] = state
  BY <1>1 DEF CatalogueInv, CatalogueTyped
<1>5. RequestsSound'
  <2>1. ASSUME NEW n \in Cataloguer, cataloguing[n].stage = "edit", cataloguing[n].policy # Nobody
        PROVE  policies'[cataloguing[n].policy] = "active"
    <3>1. cataloguing[n].policy \in Policy /\ policies[cataloguing[n].policy] = "active"
      BY <2>1 DEF CatalogueInv, CatalogueTyped, RequestsSound, Sound, BookRequests
    <3>2. cataloguing[n].policy # p
      BY <1>1, <2>1 DEF C!Locked
    <3> QED
      BY <1>3, <3>1, <3>2
  <2> QED
    BY <1>1, <2>1 DEF CatalogueInv, RequestsSound, Sound
<1>6. C!PoliciesActive'
  <2>1. ASSUME NEW b \in C!PresentBooks
        PROVE  books[b].policy # Nobody /\ policies'[books[b].policy] = "active"
    <3>1. books[b].policy \in Policy /\ books[b].policy # Nobody /\ policies[books[b].policy] = "active"
      BY <2>1 DEF CatalogueInv, CatalogueTyped, C!PoliciesActive, C!PresentBooks, BookRecords
    <3>2. books[b].policy = p => state = "active"
      BY <1>1, <2>1, <3>1 DEF C!Assigned
    <3> QED
      BY <1>3, <1>4, <3>1, <3>2
  <2> QED
    BY <1>1, <2>1 DEF C!PoliciesActive, C!PresentBooks
<1>7. C!DataHasFields' /\ C!CountsMatch'
  BY <1>1 DEF CatalogueInv, C!DataHasFields, C!CountsMatch, C!PresentBooks, C!ActiveCopies
<1> QED
  BY <1>2, <1>5, <1>6, <1>7 DEF CatalogueInv

(* A field that is removed stores nothing.                                 *)
LEMMA SchemaKeeps ==
  ASSUME CatalogueInv, NEW next \in [Field -> C!Life], C!UpsertSchema(next)
  PROVE  CatalogueInv'
<1>1. fields' = next /\ UNCHANGED <<books, exemplars, policies, cataloguing, missed, late>>
  BY DEF C!UpsertSchema
<1>2. CatalogueTyped'
  BY <1>1 DEF CatalogueInv, CatalogueTyped
<1>3. RequestsSound' /\ C!PoliciesActive' /\ C!CountsMatch'
  BY <1>1 DEF CatalogueInv, RequestsSound, Sound, C!PoliciesActive, C!CountsMatch, C!PresentBooks, C!ActiveCopies
<1>4. C!DataHasFields'
  <2>1. ASSUME NEW b \in C!PresentBooks \ late, NEW f \in books[b].stored PROVE next[f] # "none"
    <3>1. fields[f] # "none" /\ f \in Field
      BY <2>1 DEF CatalogueInv, CatalogueTyped, C!DataHasFields, C!PresentBooks, BookRecords
    <3>2. C!Stored(f)
      BY <2>1 DEF C!Stored
    <3> QED
      BY <3>1, <3>2 DEF C!UpsertSchema
  <2> QED
    BY <1>1, <2>1 DEF C!DataHasFields, C!PresentBooks
<1> QED
  BY <1>2, <1>3, <1>4 DEF CatalogueInv

LEMMA CatalogueKeeps ==
  ASSUME C!CatalogueAssumption, CatalogueInv, [C!Next]_(C!vars) PROVE CatalogueInv'
<1>1. CASE UNCHANGED C!vars
  <2>1. UNCHANGED <<books, exemplars, policies, fields, cataloguing, missed, late>>
    BY <1>1 DEF C!vars
  <2> QED
    BY <2>1 DEF CatalogueInv, CatalogueTyped, RequestsSound, Sound, C!PoliciesActive, C!DataHasFields,
                C!CountsMatch, C!PresentBooks, C!ActiveCopies
<1>2. CASE \E n \in Cataloguer :
             \/ C!Abort(n) \/ C!RetireCopy(n) \/ C!RestoreCopy(n)
             \/ \E b \in Title : C!OpenCreate(n, b) \/ \E p \in Policy \union {Nobody} : C!OpenEdit(n, b, p)
             \/ \E c \in Exemplar : C!OpenCopyChange(n, c)
  BY <1>2, OpeningsKeep, CopyChangeKeeps
<1>3. CASE \E n \in Cataloguer, stored \in SUBSET Field :
             \/ C!UpdateBook(n, stored)
             \/ \E p \in Policy, target \in SUBSET Exemplar : C!CreateBook(n, p, stored, target)
  BY <1>3, EditKeeps, CreationKeeps
<1>4. CASE \E b \in Title : \/ C!DeleteBook(b) \/ C!RestoreBook(b)
                          \/ \E target \in SUBSET Exemplar : C!AddBookCopies(b, target)
  BY <1>4, ArchivalKeeps, AdditionKeeps
<1>5. CASE \E p \in Policy : C!DeleteBookType(p) \/ \E state \in C!Life : C!SavePolicy(p, state)
  BY <1>5, PolicyStepKeeps
<1>6. CASE \E next \in [Field -> C!Life] : C!UpsertSchema(next)
  BY <1>6, SchemaKeeps
<1> QED
  BY <1>1, <1>2, <1>3, <1>4, <1>5, <1>6 DEF C!Next

(* -------------------------------------------------------------- due dates *)

LEMMA SameCalendarCounts == \A S : L!Cardinality(S) = Cardinality(S) /\ (L!IsFiniteSet(S) <=> IsFiniteSet(S))
  BY DEF Cardinality, L!Cardinality, IsFiniteSet, L!IsFiniteSet

(* The days on which a loan can end that has some days left.               *)
Ends(day, left, closed) ==
  {end \in Nat : /\ day <= end /\ (end = day \/ end \notin closed)
                 /\ Cardinality((day + 1)..end \ closed) = left}

LEMMA DaysAreFinite ==
  ASSUME NEW day \in Nat, NEW end \in Nat, NEW closed
  PROVE  /\ IsFiniteSet((day + 1)..end \ closed) /\ Cardinality((day + 1)..end \ closed) \in Nat
         /\ end <= day => (day + 1)..end \ closed = {} /\ Cardinality((day + 1)..end \ closed) = 0
<1>1. IsFiniteSet((day + 1)..end)
  BY FS_Interval
<1>2. IsFiniteSet((day + 1)..end \ closed)
  BY <1>1, FS_Difference
<1>3. end <= day => (day + 1)..end \ closed = {}
  OBVIOUS
<1> QED
  BY <1>2, <1>3, FS_CardinalityType, FS_EmptySet

LEMMA EndsNow == ASSUME NEW day \in Nat, NEW closed PROVE Ends(day, 0, closed) = {day}
<1>1. day \in Ends(day, 0, closed)
  <2>1. day <= day /\ Cardinality((day + 1)..day \ closed) = 0
    BY DaysAreFinite
  <2> QED
    BY <2>1 DEF Ends
<1>2. ASSUME NEW end \in Ends(day, 0, closed), end # day PROVE FALSE
  <2>1. end \in Nat /\ end \notin closed /\ end \in (day + 1)..end /\ Cardinality((day + 1)..end \ closed) = 0
    BY <1>2 DEF Ends
  <2>2. (day + 1)..end \ closed = {}
    BY <2>1, DaysAreFinite, FS_EmptySet
  <2> QED
    BY <2>1, <2>2
<1> QED
  BY <1>1, <1>2

LEMMA EndsNext ==
  ASSUME NEW day \in Nat, NEW left \in Nat, left # 0, NEW closed
  PROVE  Ends(day, left, closed) = Ends(day + 1, IF day + 1 \in closed THEN left ELSE left - 1, closed)
<1> DEFINE rest == IF day + 1 \in closed THEN left ELSE left - 1
<1>1. rest \in Nat
  OBVIOUS
<1>2. ASSUME NEW end \in Nat, end <= day
      PROVE  end \notin Ends(day, left, closed) /\ end \notin Ends(day + 1, rest, closed)
  <2>1. Cardinality((day + 1)..end \ closed) = 0
    BY <1>2, DaysAreFinite
  <2> QED
    BY <1>2, <2>1 DEF Ends
<1>3. ASSUME NEW end \in Nat, day + 1 <= end
      PROVE  end \in Ends(day, left, closed) <=> end \in Ends(day + 1, rest, closed)
  <2> DEFINE all == (day + 1)..end \ closed
             later == (day + 1 + 1)..end \ closed
  <2>1. IsFiniteSet(later) /\ Cardinality(later) \in Nat /\ (end = day + 1 => Cardinality(later) = 0)
    <3>1. \A d \in Nat :
            /\ IsFiniteSet((d + 1)..end \ closed) /\ Cardinality((d + 1)..end \ closed) \in Nat
            /\ end <= d => Cardinality((d + 1)..end \ closed) = 0
      BY DaysAreFinite
    <3>2. day + 1 \in Nat /\ (end = day + 1 => end <= day + 1)
      OBVIOUS
    <3> QED
      BY <3>1, <3>2
  <2>2. all = IF day + 1 \in closed THEN later ELSE later \union {day + 1}
    BY <1>3
  <2>3. day + 1 \notin later
    OBVIOUS
  <2>4. Cardinality(all) = IF day + 1 \in closed THEN Cardinality(later) ELSE Cardinality(later) + 1
    <3> HIDE DEF all, later
    <3> QED
      BY <2>1, <2>2, <2>3, FS_AddElement
  <2>5. end \in Ends(day, left, closed) <=> end \notin closed /\ Cardinality(all) = left
    BY <1>3 DEF Ends
  <2>6. end \in Ends(day + 1, rest, closed) <=>
          (end = day + 1 \/ end \notin closed) /\ Cardinality(later) = rest
    BY <1>3 DEF Ends
  <2> HIDE DEF all, later
  <2> QED
    BY <1>1, <2>1, <2>4, <2>5, <2>6
<1>4. \A end \in Nat : end \in Ends(day, left, closed) <=> end \in Ends(day + 1, rest, closed)
  <2> HIDE DEF rest
  <2>1. \A end \in Nat : end <= day \/ day + 1 <= end
    OBVIOUS
  <2> QED
    BY <1>2, <1>3, <2>1
<1>5. Ends(day, left, closed) \subseteq Nat /\ Ends(day + 1, rest, closed) \subseteq Nat
  BY DEF Ends
<1> HIDE DEF rest
<1> QED
  BY <1>4, <1>5 DEF rest

(* The loop of calculateLoanDueDate, as a function of the day and the days *)
(* that are left.                                                          *)
Loops == Nat \X (0..MaxDays)
Round(run, at, closed) ==
  IF at[2] = 0 THEN at[1] ELSE run[<<at[1] + 1, IF at[1] + 1 \in closed THEN at[2] ELSE at[2] - 1>>]
IsLoop(run, closed) == run = [at \in Loops |-> Round(run, at, closed)]

LEMMA LoopStops ==
  ASSUME MaxDays \in Nat, NEW run, NEW closed, IsLoop(run, closed), NEW day \in Nat
  PROVE  run[<<day, 0>>] = day
<1>1. <<day, 0>> \in Loops
  BY DEF Loops
<1>2. run[<<day, 0>>] = Round(run, <<day, 0>>, closed)
  BY <1>1 DEF IsLoop
<1> QED
  BY <1>2 DEF Round

LEMMA LoopGoesOn ==
  ASSUME MaxDays \in Nat, NEW run, NEW closed, IsLoop(run, closed), NEW day \in Nat, NEW left \in 0..MaxDays,
         left # 0
  PROVE  run[<<day, left>>] = run[<<day + 1, IF day + 1 \in closed THEN left ELSE left - 1>>]
<1>1. <<day, left>> \in Loops
  BY DEF Loops
<1>2. run[<<day, left>>] = Round(run, <<day, left>>, closed)
  BY <1>1 DEF IsLoop
<1> QED
  BY <1>2 DEF Round

(* There is such a function.                                               *)
Some(days) == CHOOSE day \in days : TRUE
LEMMA LoopExists == ASSUME MaxDays \in Nat, NEW closed PROVE \E run : IsLoop(run, closed)
<1> DEFINE run == [at \in Loops |-> Some(Ends(at[1], at[2], closed))]
<1>1. ASSUME NEW day \in Nat, NEW left \in 0..MaxDays
      PROVE  Some(Ends(day, left, closed)) = Round(run, <<day, left>>, closed)
  <2>1. CASE left = 0
    <3>1. \A x : Some({x}) = x
      BY DEF Some
    <3> QED
      BY <2>1, <3>1, EndsNow DEF Round
  <2>2. CASE left # 0
    <3> DEFINE rest == IF day + 1 \in closed THEN left ELSE left - 1
    <3>1. rest \in 0..MaxDays /\ day + 1 \in Nat
      BY <2>2
    <3>2. Ends(day, left, closed) = Ends(day + 1, rest, closed)
      BY <2>2, EndsNext
    <3>3. Round(run, <<day, left>>, closed) = run[<<day + 1, rest>>]
      BY <2>2 DEF Round
    <3> HIDE DEF rest
    <3>4. run[<<day + 1, rest>>] = Some(Ends(day + 1, rest, closed))
      BY <3>1 DEF Loops
    <3> QED
      BY <3>2, <3>3, <3>4
  <2> QED
    BY <2>1, <2>2
<1>2. ASSUME NEW at \in Loops PROVE Some(Ends(at[1], at[2], closed)) = Round(run, at, closed)
  <2>1. PICK day \in Nat, left \in 0..MaxDays : at = <<day, left>>
    BY DEF Loops
  <2> HIDE DEF run
  <2> QED
    BY <1>1, <2>1
<1>3. IsLoop(run, closed)
  BY <1>2 DEF IsLoop
<1> QED
  BY <1>3

(* It ends, because some day all holidays are over.                        *)
LEMMA LoopEnds ==
  ASSUME L!CalendarAssumption, NEW closed \in SUBSET (1..LastHoliday), NEW run, IsLoop(run, closed)
  PROVE  \A day \in Nat, left \in 0..MaxDays : run[<<day, left>>] \in Ends(day, left, closed)
<1>1. MaxDays \in Nat /\ LastHoliday \in Nat
  BY DEF L!CalendarAssumption
<1> DEFINE rounds(day, left) == left + (IF day < LastHoliday THEN LastHoliday - day ELSE 0)
           Fails(day, left) == run[<<day, left>>] \notin Ends(day, left, closed)
           failing == {n \in Nat : \E day \in Nat, left \in 0..MaxDays : rounds(day, left) = n /\ Fails(day, left)}
<1>2. \A day \in Nat, left \in 0..MaxDays : rounds(day, left) \in Nat
  BY <1>1
<1>3. SUFFICES ASSUME failing # {} PROVE FALSE
  <2>1. ASSUME NEW day \in Nat, NEW left \in 0..MaxDays, Fails(day, left), failing = {} PROVE FALSE
    <3> HIDE DEF rounds
    <3>1. rounds(day, left) \in failing
      BY <1>2, <2>1
    <3> QED
      BY <2>1, <3>1
  <2> QED
    BY <2>1
<1>4. PICK n \in failing : \A k \in failing : n <= k
  <2>1. failing \in SUBSET Nat
    OBVIOUS
  <2> HIDE DEF failing
  <2> QED
    BY <1>3, <2>1, LeastNumber
<1>5. PICK day \in Nat, left \in 0..MaxDays : rounds(day, left) = n /\ Fails(day, left)
  OBVIOUS
<1>6. left # 0
  <2>1. ASSUME left = 0 PROVE FALSE
    <3>1. run[<<day, left>>] = day
      <4>1. run[<<day, 0>>] = day
        BY <1>1, LoopStops
      <4> QED
        BY <2>1, <4>1
    <3>2. Ends(day, left, closed) = {day}
      BY <2>1, EndsNow
    <3> QED
      BY <1>5, <3>1, <3>2
  <2> QED
    BY <2>1
<1> DEFINE rest == IF day + 1 \in closed THEN left ELSE left - 1
<1>7. Fails(day + 1, rest) /\ day + 1 \in Nat /\ rest \in 0..MaxDays
  <2>1. rest \in 0..MaxDays /\ left \in Nat
    BY <1>1, <1>6
  <2>2. run[<<day, left>>] = run[<<day + 1, rest>>] /\ Ends(day, left, closed) = Ends(day + 1, rest, closed)
    BY <1>1, <1>6, <2>1, LoopGoesOn, EndsNext
  <2> HIDE DEF rest
  <2> QED
    BY <1>5, <2>1, <2>2
<1>8. rounds(day + 1, rest) < rounds(day, left)
  BY <1>1, <1>6
<1>9. rounds(day + 1, rest) \in failing
  <2> HIDE DEF rounds, Fails, rest
  <2> QED
    BY <1>2, <1>7
<1> HIDE DEF failing, rounds, rest
<1> QED
  BY <1>2, <1>4, <1>5, <1>7, <1>8, <1>9

(* A loan ends on an open day, after as many open days as it is given, and *)
(* no later than the holidays can delay it.                                *)
LEMMA DueDateIs ==
  ASSUME L!CalendarAssumption, NEW from \in Nat, NEW days \in 1..MaxDays,
         NEW closed \in SUBSET (1..LastHoliday)
  PROVE  LET end == L!LoanDueDate(from, days, closed)
         IN  /\ end \in Nat /\ end \notin closed
             /\ L!Cardinality((from + 1)..end \ closed) = days
             /\ end <= from + days + L!Cardinality(closed) /\ L!Cardinality(closed) \in Nat
<1> DEFINE run == CHOOSE r : r = [at \in Nat \X (0..MaxDays) |->
                    IF at[2] = 0 THEN at[1] ELSE r[<<at[1] + 1, IF at[1] + 1 \in closed THEN at[2] ELSE at[2] - 1>>]]
           end == L!LoanDueDate(from, days, closed)
<1>1. end = run[<<from, days>>]
  BY DEF L!LoanDueDate
<1>2. MaxDays \in Nat /\ LastHoliday \in Nat
  BY DEF L!CalendarAssumption
<1>3. IsLoop(run, closed)
  <2>1. PICK r : IsLoop(r, closed)
    BY <1>2, LoopExists
  <2> QED
    BY <2>1 DEF IsLoop, Loops, Round
<1> HIDE DEF run, end
<1>4. end \in Ends(from, days, closed)
  BY <1>1, <1>3, LoopEnds
<1>5. /\ end \in Nat /\ from <= end /\ (end = from \/ end \notin closed)
      /\ Cardinality((from + 1)..end \ closed) = days
  BY <1>4 DEF Ends
<1>6. end # from
  <2>1. Cardinality((from + 1)..from \ closed) = 0
    BY DaysAreFinite
  <2>2. ASSUME end = from PROVE Cardinality((from + 1)..from \ closed) = days
    BY <1>5, <2>2
  <2>3. days # 0
    BY <1>2
  <2> QED
    BY <2>1, <2>2, <2>3
<1>7. IsFiniteSet(closed)
  <2>1. IsFiniteSet(1..LastHoliday)
    BY <1>2, FS_Interval
  <2> QED
    BY <2>1, FS_Subset
<1>8. end <= from + days + Cardinality(closed) /\ Cardinality(closed) \in Nat
  <2> DEFINE all == (from + 1)..end
  <2>1. IsFiniteSet(all) /\ Cardinality(all) = end - from
    BY <1>5, FS_Interval
  <2> HIDE DEF all
  <2>2. Cardinality(all \ closed) = Cardinality(all) - Cardinality(all \cap closed)
    BY <2>1, FS_Difference
  <2>3. /\ Cardinality(all \cap closed) <= Cardinality(closed) /\ Cardinality(all \cap closed) \in Nat
        /\ Cardinality(closed) \in Nat
    BY <1>7, <2>1, FS_Intersection, FS_CardinalityType
  <2>4. Cardinality(all \ closed) = days
    BY <1>5 DEF all
  <2> QED
    BY <1>5, <2>1, <2>2, <2>3, <2>4
<1> QED
  BY <1>5, <1>6, <1>8, SameCalendarCounts DEF end

(* What a request saw of the holidays were at most as many days as there   *)
(* are rows; so was what a loan was computed from.                         *)
Closings == {closed \in SUBSET (1..LastHoliday) : L!Cardinality(closed) <= L!Cardinality(Holiday)}
LoanRecords == [from : 0..LastHoliday, days : 0..MaxDays, closed : SUBSET (1..LastHoliday),
                due : 0..(LastHoliday + MaxDays + L!Cardinality(Holiday))]
CalendarTyped ==
  /\ holidays \in [Holiday -> [day : 0..LastHoliday, active : BOOLEAN]]
  /\ \A h \in Holiday : holidays[h] # L!NoHoliday => holidays[h].day \in 1..LastHoliday
  /\ today \in 1..LastHoliday
  /\ due \in [LentItem -> LoanRecords]
  /\ lending \in [Lender -> [open : BOOLEAN, closed : Closings]]
CalendarInv == CalendarTyped /\ L!DaysAreOpen

LEMMA RowsAreFinite ==
  L!CalendarAssumption => /\ IsFiniteSet(Holiday) /\ L!Cardinality(Holiday) \in Nat
                          /\ MaxDays \in Nat /\ LastHoliday \in Nat /\ LastHoliday > 0
  BY SameCalendarCounts, FS_CardinalityType DEF L!CalendarAssumption

LEMMA RestingLoan ==
  ASSUME L!CalendarAssumption
  PROVE  /\ L!NotLent \in LoanRecords /\ L!Idle \in [open : BOOLEAN, closed : Closings]
         /\ L!NoHoliday \in [day : 0..LastHoliday, active : BOOLEAN]
<1>1. {} \in Closings
  BY RowsAreFinite, SameCalendarCounts, FS_EmptySet DEF Closings
<1>2. FALSE \in BOOLEAN
  OBVIOUS
<1> QED
  BY <1>1, <1>2, RowsAreFinite DEF L!NotLent, L!Idle, L!NoHoliday, LoanRecords

LEMMA CalendarStart == ASSUME L!CalendarAssumption, L!Init PROVE CalendarInv
<1>1. CalendarTyped
  BY RestingLoan, RowsAreFinite DEF L!Init, CalendarTyped
<1>2. L!DaysAreOpen
  BY DEF L!Init, L!DaysAreOpen
<1> QED
  BY <1>1, <1>2 DEF CalendarInv

LEMMA ClosingsAreFew == ASSUME L!CalendarAssumption, CalendarInv PROVE L!ClosedDays \in Closings
<1> DEFINE rows == {h \in Holiday : holidays[h].active}
           dayOf == [h \in rows |-> holidays[h].day]
<1>1. \A h \in rows : holidays[h].day \in 1..LastHoliday
  <2>1. L!NoHoliday.active = FALSE
    BY DEF L!NoHoliday
  <2>2. \A h \in rows : holidays[h] # L!NoHoliday
    BY <2>1
  <2> QED
    BY <2>2 DEF CalendarInv, CalendarTyped
<1>2. L!ClosedDays \in SUBSET (1..LastHoliday)
  BY <1>1 DEF L!ClosedDays
<1>3. dayOf \in Surjection(rows, L!ClosedDays)
  BY DEF Surjection, L!ClosedDays
<1>4. IsFiniteSet(rows) /\ Cardinality(rows) <= Cardinality(Holiday)
  BY RowsAreFinite, FS_Subset
<1> HIDE DEF rows, dayOf
<1>5. Cardinality(L!ClosedDays) <= Cardinality(rows) /\ IsFiniteSet(L!ClosedDays)
  BY <1>3, <1>4, FS_Surjection
<1>6. Cardinality(L!ClosedDays) \in Nat /\ Cardinality(rows) \in Nat /\ Cardinality(Holiday) \in Nat
  BY <1>4, <1>5, RowsAreFinite, FS_CardinalityType
<1> QED
  BY <1>2, <1>4, <1>5, <1>6, SameCalendarCounts DEF Closings

LEMMA RequestsKeepCalendar ==
  ASSUME L!CalendarAssumption, CalendarInv, NEW n \in Lender, L!Open(n) \/ L!Abort(n)
  PROVE  CalendarInv'
<1>1. PICK request \in [open : BOOLEAN, closed : Closings] :
        lending' = [lending EXCEPT ![n] = request] /\ UNCHANGED <<holidays, today, due>>
  <2>1. CASE L!Open(n)
    <3>1. [open |-> TRUE, closed |-> L!ClosedDays] \in [open : BOOLEAN, closed : Closings]
      BY ClosingsAreFew
    <3> QED
      BY <2>1, <3>1 DEF L!Open
  <2>2. CASE L!Abort(n)
    BY <2>2, RestingLoan DEF L!Abort
  <2> QED
    BY <2>1, <2>2
<1> QED
  BY <1>1 DEF CalendarInv, CalendarTyped, L!DaysAreOpen

LEMMA LoanIsLent ==
  ASSUME L!CalendarAssumption, CalendarInv, NEW n \in Lender, NEW l \in LentItem, NEW days \in 1..MaxDays,
         L!Lend(n, l, days)
  PROVE  CalendarInv'
<1> DEFINE closed == lending[n].closed
           end == L!LoanDueDate(today, days, closed)
           lent == [from |-> today, days |-> days, closed |-> closed, due |-> end]
<1>1. closed \in SUBSET (1..LastHoliday) /\ L!Cardinality(closed) <= L!Cardinality(Holiday) /\ today \in 1..LastHoliday
  BY DEF CalendarInv, CalendarTyped, Closings
<1>2. due' = [due EXCEPT ![l] = lent] /\ lending' = [lending EXCEPT ![n] = L!Idle] /\ UNCHANGED <<holidays, today>>
  BY DEF L!Lend
<1> HIDE DEF closed
<1>3. /\ end \in Nat /\ end \notin closed /\ L!Cardinality((today + 1)..end \ closed) = days
      /\ end <= today + days + L!Cardinality(closed) /\ L!Cardinality(closed) \in Nat
  <2>1. today \in Nat
    BY <1>1, RowsAreFinite
  <2> QED
    BY <1>1, <2>1, DueDateIs
<1> HIDE DEF end
<1>4. end \in 0..(LastHoliday + MaxDays + L!Cardinality(Holiday))
  BY <1>1, <1>3, RowsAreFinite
<1>5. /\ lent \in LoanRecords /\ lent.from = today /\ lent.days = days
      /\ lent.closed = closed /\ lent.due = end
  BY <1>1, <1>4, RowsAreFinite DEF LoanRecords
<1> HIDE DEF lent
<1>6. CalendarTyped'
  BY <1>2, <1>5, RestingLoan DEF CalendarInv, CalendarTyped
<1>7. L!DaysAreOpen'
  <2>1. ASSUME NEW k \in LentItem, due'[k] # L!NotLent
        PROVE  /\ due'[k].due \notin due'[k].closed
               /\ L!Cardinality((due'[k].from + 1)..due'[k].due \ due'[k].closed) = due'[k].days
    <3>1. CASE k = l
      <4>1. due'[k] = lent
        BY <1>2, <3>1 DEF CalendarInv, CalendarTyped
      <4> QED
        BY <1>3, <1>5, <4>1
    <3>2. CASE k # l
      <4>1. due'[k] = due[k]
        BY <1>2, <3>2 DEF CalendarInv, CalendarTyped
      <4> QED
        BY <2>1, <4>1 DEF CalendarInv, L!DaysAreOpen
    <3> QED
      BY <3>1, <3>2
  <2> QED
    BY <2>1 DEF L!DaysAreOpen
<1> QED
  BY <1>6, <1>7 DEF CalendarInv

LEMMA HolidaysKeep ==
  ASSUME L!CalendarAssumption, CalendarInv, NEW h \in Holiday,
         \/ L!DeleteHoliday(h) \/ L!RestoreHoliday(h)
         \/ \E day \in 1..LastHoliday : L!CreateHoliday(h, day) \/ L!UpdateHoliday(h, day)
  PROVE  CalendarInv' /\ UNCHANGED due
<1>1. holidays[h] \in [day : 0..LastHoliday, active : BOOLEAN]
  BY DEF CalendarInv, CalendarTyped
<1>2. PICK holiday \in [day : 0..LastHoliday, active : BOOLEAN] :
        L!SaveHoliday(h, holiday) /\ holiday.day \in 1..LastHoliday
  <2>1. CASE L!DeleteHoliday(h)
    <3> DEFINE holiday == [holidays[h] EXCEPT !.active = FALSE]
    <3>1. holiday \in [day : 0..LastHoliday, active : BOOLEAN] /\ holiday.day = holidays[h].day
      BY <1>1
    <3>2. holidays[h].day \in 1..LastHoliday
      <4>1. L!NoHoliday.active = FALSE
        BY DEF L!NoHoliday
      <4>2. holidays[h] # L!NoHoliday
        BY <2>1, <4>1 DEF L!DeleteHoliday
      <4> QED
        BY <4>2 DEF CalendarInv, CalendarTyped
    <3> QED
      BY <2>1, <3>1, <3>2 DEF L!DeleteHoliday
  <2>2. CASE L!RestoreHoliday(h)
    <3> DEFINE holiday == [holidays[h] EXCEPT !.active = TRUE]
    <3>1. holiday \in [day : 0..LastHoliday, active : BOOLEAN] /\ holiday.day = holidays[h].day
      BY <1>1
    <3>2. holidays[h].day \in 1..LastHoliday
      BY <2>2 DEF L!RestoreHoliday, CalendarInv, CalendarTyped
    <3> QED
      BY <2>2, <3>1, <3>2 DEF L!RestoreHoliday
  <2>3. ASSUME NEW day \in 1..LastHoliday, L!CreateHoliday(h, day) \/ L!UpdateHoliday(h, day)
        PROVE  \E holiday \in [day : 0..LastHoliday, active : BOOLEAN] :
                 L!SaveHoliday(h, holiday) /\ holiday.day \in 1..LastHoliday
    <3>1. day \in 0..LastHoliday
      BY RowsAreFinite
    <3>2. [day |-> day, active |-> TRUE] \in [day : 0..LastHoliday, active : BOOLEAN]
      BY <3>1
    <3>3. [day |-> day, active |-> TRUE].day \in 1..LastHoliday
      OBVIOUS
    <3>4. L!SaveHoliday(h, [day |-> day, active |-> TRUE])
      BY <2>3 DEF L!CreateHoliday, L!UpdateHoliday
    <3> QED
      BY <3>2, <3>3, <3>4, Zenon
  <2> QED
    BY <2>1, <2>2, <2>3
<1>3. holidays' = [holidays EXCEPT ![h] = holiday] /\ UNCHANGED <<today, due, lending>>
  BY <1>2 DEF L!SaveHoliday
<1>4. CalendarTyped'
  BY <1>2, <1>3 DEF CalendarInv, CalendarTyped
<1>5. L!DaysAreOpen'
  BY <1>3 DEF CalendarInv, L!DaysAreOpen
<1> QED
  BY <1>3, <1>4, <1>5 DEF CalendarInv

LEMMA CalendarKeeps ==
  ASSUME L!CalendarAssumption, CalendarInv, [L!Next]_(L!vars)
  PROVE  CalendarInv' /\ (holidays' # holidays => due' = due)
<1>1. CASE UNCHANGED L!vars
  <2>1. UNCHANGED <<holidays, today, due, lending>>
    BY <1>1 DEF L!vars
  <2> QED
    BY <2>1 DEF CalendarInv, CalendarTyped, L!DaysAreOpen
<1>2. CASE L!Tick
  <2>1. UNCHANGED <<holidays, due, lending>> /\ today' = today + 1 /\ today < LastHoliday
    BY <1>2 DEF L!Tick
  <2>2. today' \in 1..LastHoliday
    BY <2>1, RowsAreFinite DEF CalendarInv, CalendarTyped
  <2> QED
    BY <2>1, <2>2 DEF CalendarInv, CalendarTyped, L!DaysAreOpen
<1>3. ASSUME NEW n \in Lender, L!Open(n) \/ L!Abort(n) PROVE CalendarInv' /\ UNCHANGED holidays
  BY <1>3, RequestsKeepCalendar DEF L!Open, L!Abort
<1>4. ASSUME NEW n \in Lender, NEW l \in LentItem, NEW days \in 1..MaxDays, L!Lend(n, l, days)
      PROVE  CalendarInv' /\ UNCHANGED holidays
  BY <1>4, LoanIsLent DEF L!Lend
<1> QED
  BY <1>1, <1>2, <1>3, <1>4, HolidaysKeep DEF L!Next

(* ------------------------------------------------------------ all the rooms *)

(* A step of the office is a step of one room, in which the others rest.   *)
LEMMA OfficeSteps ==
  ASSUME [OfficeNext]_<<scene, vars, website, premises, records>>
  PROVE  /\ [A!Next]_(A!vars) /\ [M!Next]_(M!vars) /\ [P!Next]_(P!vars) /\ [D!Next]_(D!vars)
         /\ [G!Next]_(G!vars) /\ [C!Next]_(C!vars) /\ [R!Next]_(R!vars) /\ [L!Next]_(L!vars)
<1>1. UNCHANGED accessions \/ A!Next
  BY DEF OfficeNext, premises
<1>2. (UNCHANGED moderation \/ M!Next) /\ (UNCHANGED publishing \/ P!Next)
  BY DEF OfficeNext, website
<1>3. (UNCHANGED desk \/ D!Next) /\ (UNCHANGED attendance \/ G!Next)
  BY DEF OfficeNext, premises
<1>4. (UNCHANGED catalogue \/ C!Next) /\ (UNCHANGED registers \/ R!Next) /\ (UNCHANGED calendar \/ L!Next)
  BY DEF OfficeNext, records
<1>5. UNCHANGED accessions => UNCHANGED A!vars
  BY DEF accessions, A!vars, A!tables, A!registry, A!counts
<1>6. UNCHANGED moderation => UNCHANGED M!vars
  BY DEF moderation, M!vars
<1>7. UNCHANGED publishing => UNCHANGED P!vars
  BY DEF publishing, P!vars
<1>8. UNCHANGED desk => UNCHANGED D!vars
  BY DEF desk, D!vars, D!form, D!found, D!waiting, D!scan, D!desk
<1>9. UNCHANGED attendance => UNCHANGED G!vars
  BY DEF attendance, G!vars
<1>10. UNCHANGED catalogue => UNCHANGED C!vars
  BY DEF catalogue, C!vars
<1>11. UNCHANGED registers => UNCHANGED R!vars
  BY DEF registers, R!vars
<1>12. UNCHANGED calendar => UNCHANGED L!vars
  BY DEF calendar, L!vars
<1> QED
  BY <1>1, <1>2, <1>3, <1>4, <1>5, <1>6, <1>7, <1>8, <1>9, <1>10, <1>11, <1>12

RecordsInv == CatalogueInv /\ RegistersInv /\ CalendarInv /\ VisitsInv
OfficeInv == AccessionsInv /\ ModerationInv /\ PublishingInv /\ DeskInv /\ RecordsInv

LEMMA OfficeStarts == OfficeInit => OfficeInv
<1> SUFFICES ASSUME OfficeInit PROVE OfficeInv
  OBVIOUS
<1>1. AccessionsInv /\ ModerationInv /\ PublishingInv /\ DeskInv
  BY RolesAndBounds, AccessionsStart, ModerationStarts, PublishingStarts, DeskStarts DEF OfficeInit
<1>2. CatalogueInv /\ RegistersInv /\ CalendarInv /\ VisitsInv
  BY RolesAndBounds, CatalogueStart, RegistersStart, CalendarStart, VisitsStart DEF OfficeInit
<1> QED
  BY <1>1, <1>2 DEF OfficeInv, RecordsInv

LEMMA OfficeKeeps == OfficeInv /\ [OfficeNext]_<<scene, vars, website, premises, records>> => OfficeInv'
<1> SUFFICES ASSUME OfficeInv, [OfficeNext]_<<scene, vars, website, premises, records>> PROVE OfficeInv'
  OBVIOUS
<1>1. /\ [A!Next]_(A!vars) /\ [M!Next]_(M!vars) /\ [P!Next]_(P!vars) /\ [D!Next]_(D!vars)
      /\ [G!Next]_(G!vars) /\ [C!Next]_(C!vars) /\ [R!Next]_(R!vars) /\ [L!Next]_(L!vars)
  BY OfficeSteps
<1>2. AccessionsInv'
  BY <1>1, RolesAndBounds, AccessionsKeep DEF OfficeInv
<1>3. ModerationInv'
  BY <1>1, RolesAndBounds, ModerationKeeps DEF OfficeInv
<1>4. PublishingInv'
  BY <1>1, PublishingKeeps DEF OfficeInv
<1>5. DeskInv'
  BY <1>1, DeskKeeps DEF OfficeInv
<1>6. CatalogueInv'
  BY <1>1, RolesAndBounds, CatalogueKeeps DEF OfficeInv, RecordsInv
<1>7. RegistersInv'
  BY <1>1, RolesAndBounds, RegistersKeep DEF OfficeInv, RecordsInv
<1>8. CalendarInv'
  BY <1>1, RolesAndBounds, CalendarKeeps DEF OfficeInv, RecordsInv
<1>9. VisitsInv'
  BY <1>1, RolesAndBounds, VisitsKeep DEF OfficeInv, RecordsInv
<1> QED
  BY <1>2, <1>3, <1>4, <1>5, <1>6, <1>7, <1>8, <1>9 DEF OfficeInv, RecordsInv

(* The invariant of the rooms that the theorems below rest on.             *)
THEOREM OfficeInvariant == OfficeSpec => []OfficeInv
  BY OfficeStarts, OfficeKeeps, PTL DEF OfficeSpec

(* A claim and a void are for good, whatever is assigned, voided, backed   *)
(* up and restored; and while no restore reads the registry during an      *)
(* assignment, holdings and claims say the same and every backup can be    *)
(* restored: for any number of copies, numbers, backups and restores.      *)
THEOREM AccessionsArePermanent == OfficeSpec => AccessionsStand
<1>1. OfficeInv /\ [OfficeNext]_<<scene, vars, website, premises, records>> =>
        [/\ \A n \in A!Number : claims[n] # A!NoQR => claims'[n] = claims[n]
         /\ voids \subseteq voids']_(A!vars)
  BY OfficeSteps, RolesAndBounds, AccessionsKeep DEF OfficeInv, RegistryGrows
<1>2. OfficeInv => A!RegistryHolds
  BY RolesAndBounds, RegistryHeld DEF OfficeInv
<1> QED
  BY <1>1, <1>2, OfficeInvariant, PTL DEF OfficeSpec, AccessionsStand, A!AccessionsStand

(* Whoever waits for a decision about a comment has an open case, whatever *)
(* is reported, hidden, appealed, removed and decided in between.          *)
THEOREM WaitingStaysOpen == OfficeSpec => []WaitingIsOpen
<1>1. OfficeInv => WaitingIsOpen
  BY DEF OfficeInv, ModerationInv, WaitingIsOpen
<1> QED
  BY <1>1, OfficeInvariant, PTL

(* Decisions, publications and confirmations are about what was shown, for *)
(* any number of staff, administrators, patrons and lookups under way.     *)
THEOREM ActedKnowingly == OfficeSpec => ActedOnWhatWasShown
<1>1. OfficeInv /\ [OfficeNext]_<<scene, vars, website, premises, records>> =>
        [case'.reviewer # Nobody /\ case'.resolved # case.resolved =>
           LET read == loaded[case'.reviewer]
           IN  /\ [read.comment EXCEPT !.remover = comment.remover] = comment
               /\ read.case = case /\ read.reports = reports]_(M!vars)
  <2> SUFFICES ASSUME OfficeInv, [OfficeNext]_<<scene, vars, website, premises, records>>,
                      case'.reviewer # Nobody, case'.resolved # case.resolved
               PROVE  LET read == loaded[case'.reviewer]
                      IN  /\ [read.comment EXCEPT !.remover = comment.remover] = comment
                          /\ read.case = case /\ read.reports = reports
    OBVIOUS
  <2>1. M!Next
    BY OfficeSteps DEF M!vars
  <2> QED
    BY <2>1, RolesAndBounds, DecisionsInformed DEF OfficeInv
<1>2. OfficeInv /\ [OfficeNext]_<<scene, vars, website, premises, records>> =>
        [\A e \in Editor :
           publisher' # publisher /\ publisher'[1] = e => live \in {editor[e].version, editor[e].base}]_(P!vars)
  BY OfficeSteps, PublicationsKnowing DEF OfficeInv
<1>3. OfficeInv /\ [OfficeNext]_<<scene, vars, website, premises, records>> =>
        [LET sent == submission'
         IN  submission = D!Idle =>
               /\ sent.kind = "borrow" => (sent.patron = foundUser \/ strayed) /\ sent.copy = foundCopy
               /\ sent.kind = "return" => sent.copy = returnPreview]_(D!vars)
  BY OfficeSteps, ConfirmationsAsShown DEF OfficeInv
<1> QED
  BY <1>1, <1>2, <1>3, OfficeInvariant, PTL
  DEF OfficeSpec, ActedOnWhatWasShown, M!DecisionsAreInformed, P!PublishedKnowingly, D!ConfirmedAsShown

(* Books have active policies, store data of fields that are there and     *)
(* know their copies; terms do not overlap and nothing is lost that refers *)
(* to a register; loans end on the open day that their policy gives, by    *)
(* the holidays their request saw; and arrivals and departures of a        *)
(* visitor alternate: for any number of requests, copies, terms, holidays  *)
(* and desks that scan at once.                                            *)
THEOREM RecordsStayConsistent == OfficeSpec => RecordsStand
<1>1. OfficeInv /\ [OfficeNext]_<<scene, vars, website, premises, records>> =>
        [L!DaysAreOpen' /\ (holidays' # holidays => due' = due)]_(L!vars)
  BY OfficeSteps, RolesAndBounds, CalendarKeeps DEF OfficeInv, RecordsInv, CalendarInv
<1>2. OfficeInv /\ [OfficeNext]_<<scene, vars, website, premises, records>> =>
        [C!PoliciesActive' /\ C!DataHasFields' /\ C!CountsMatch']_(C!vars)
  BY OfficeSteps, RolesAndBounds, CatalogueKeeps DEF OfficeInv, RecordsInv, CatalogueInv
<1>3. OfficeInv /\ [OfficeNext]_<<scene, vars, website, premises, records>> => [G!VisitsAlternate']_(G!vars)
  BY OfficeSteps, RolesAndBounds, VisitsKeep DEF OfficeInv, RecordsInv, VisitsInv
<1>4. OfficeInv => R!TermsInOrder
  BY TermsStayInOrder DEF OfficeInv, RecordsInv
<1>5. OfficeInv /\ [OfficeNext]_<<scene, vars, website, premises, records>> => [R!ReferencesKept]_(R!vars)
  BY OfficeSteps, ReferencesStay DEF OfficeInv, RecordsInv
<1> QED
  BY <1>1, <1>2, <1>3, <1>4, <1>5, OfficeInvariant, PTL
  DEF OfficeSpec, RecordsStand, C!CatalogueStands, R!RegistersStand, L!DueDatesStand, G!VisitsStand

(* ---------------------------------------------------------- what is stored *)

(* Of a comment's case: its revisions stay in the bound.                   *)
RevisionsFit == {case.revision, case.resolved} \subseteq 0..MaxRevision

LEMMA RevisionsStart == ASSUME MaxRevision \in Nat, M!Init PROVE RevisionsFit
  BY DEF RevisionsFit, M!Init, M!NoCase

LEMMA RevisionsStay ==
  ASSUME M!AccountRoles, MaxRevision \in Nat, ModerationInv, RevisionsFit, [M!Next]_(M!vars)
  PROVE  RevisionsFit'
<1>1. case \in Cases /\ case.revision \in 0..MaxRevision /\ case.resolved \in 0..MaxRevision
  BY DEF ModerationInv, RevisionsFit
<1>2. CASE UNCHANGED case
  BY <1>1, <1>2 DEF RevisionsFit
<1>3. CASE ~UNCHANGED case
  <2>1. M!Next /\ case.revision + 1 \in 0..MaxRevision
    BY <1>1, <1>3 DEF M!Next, M!vars
  <2>2. ASSUME NEW source \in {"screening", "report", "staff", "appeal"}, NEW urgent \in BOOLEAN,
               case' = M!Opened(source, urgent) \/ case' = [M!Opened(source, urgent) EXCEPT !.appealed = TRUE]
        PROVE  RevisionsFit'
    <3> DEFINE opened == M!Opened(source, urgent)
    <3>1. opened \in Cases /\ opened.revision = case.revision + 1 /\ opened.resolved = 0
      BY OpenedCase DEF ModerationInv
    <3> HIDE DEF opened
    <3>2. case' = opened \/ case' = [opened EXCEPT !.appealed = TRUE]
      BY <2>2 DEF opened
    <3> QED
      BY <2>1, <3>1, <3>2 DEF RevisionsFit, Cases
  <2>3. ASSUME case'.revision = case.revision + 1, case'.resolved \in {case.resolved, case.revision + 1}
        PROVE  RevisionsFit'
    BY <1>1, <2>1, <2>3 DEF RevisionsFit
  <2>4. ASSUME NEW u \in Member, NEW held \in BOOLEAN, NEW urgent \in BOOLEAN,
               M!AddReply(u, held, urgent) \/ M!Report(u, urgent) \/ M!Hide(u)
        PROVE  RevisionsFit'
    BY <1>3, <2>2, <2>4 DEF M!AddReply, M!Report, M!Hide
  <2>5. CASE M!Reconsider
    <3>1. case' = [M!Opened("appeal", case.urgent) EXCEPT !.appealed = TRUE] /\ case.urgent \in BOOLEAN
      BY <1>1, <2>5 DEF M!Reconsider, Cases
    <3> QED
      BY <2>2, <3>1
  <2>6. ASSUME NEW u \in Member, M!Unhide(u) \/ M!RemoveComment(u) PROVE RevisionsFit'
    BY <1>1, <1>3, <2>3, <2>6 DEF M!Unhide, M!RemoveComment, M!RecordVisibilityChange, M!Withdrawn, Cases
  <2>7. ASSUME NEW a \in Admin, NEW action, M!Decide(a, action) PROVE RevisionsFit'
    BY <1>1, <2>3, <2>7 DEF M!Decide, Cases
  <2>8. ~(M!LockComments \/ M!ArchivePost) /\ \A a \in Admin : ~M!Detail(a)
    BY <1>3 DEF M!LockComments, M!ArchivePost, M!Detail
  <2> QED
    BY <2>1, <2>4, <2>5, <2>6, <2>7, <2>8 DEF M!Next
<1> QED
  BY <1>2, <1>3

(* A draft is there exactly when what it was begun from is.                *)
SectionTyped ==
  /\ live \in P!Section /\ draft \in P!Section \union {NoDraft} /\ base \in P!Section \union {NoDraft}
  /\ (draft = NoDraft) = (base = NoDraft)
  /\ revision \in 0..(MaxRevision + 1)

LEMMA SectionStarts == ASSUME P!PublishingAssumption, P!Init PROVE SectionTyped
  BY DEF P!PublishingAssumption, P!Init, SectionTyped

LEMMA RecordWritten ==
  ASSUME NEW section \in P!Section, NEW r \in Record, NEW content \in Content \union {Absent}
  PROVE  P!With(section, r, content) \in P!Section
  BY DEF P!With, P!Section

LEMMA SectionKeeps == ASSUME P!PublishingAssumption, SectionTyped, [P!Next]_(P!vars) PROVE SectionTyped'
<1>1. /\ MaxRevision \in Nat /\ NoDraft \notin P!Section
      /\ P!Saved \in P!Section /\ P!Base \in P!Section
  BY DEF P!PublishingAssumption, SectionTyped, P!Saved, P!Base
<1>2. ASSUME NEW d \in P!Section, NEW b \in P!Section, NEW count \in {1, 2}, revision < MaxRevision,
             P!SetDraft(d, b, count) \/ P!Clear, live' \in P!Section
      PROVE  SectionTyped'
  <2>1. revision' \in 0..(MaxRevision + 1)
    BY <1>1, <1>2 DEF SectionTyped, P!SetDraft, P!Clear
  <2> QED
    BY <1>1, <1>2, <2>1 DEF SectionTyped, P!SetDraft, P!Clear
<1>3. CASE UNCHANGED P!vars \/ \E e \in Editor : P!Load(e)
  BY <1>3 DEF SectionTyped, P!vars, P!Load
<1>4. ASSUME NEW e \in Editor, P!Discard(e) PROVE SectionTyped'
  BY <1>1, <1>2, <1>4 DEF P!Discard, SectionTyped
<1>5. ASSUME NEW e \in Editor, NEW payload \in P!Section, P!SaveDraft(e, payload) \/ P!Publish(e, payload)
      PROVE  SectionTyped'
  <2>1. revision < MaxRevision /\ live' \in P!Section /\ (P!SetDraft(payload, P!Base, 1) \/ P!Clear)
    BY <1>5 DEF P!SaveDraft, P!Publish, P!Publishable, P!Current, SectionTyped
  <2> QED
    BY <1>1, <1>2, <2>1
<1>6. ASSUME NEW e \in Editor, NEW r \in Record, P!DiscardRecord(e, r) PROVE SectionTyped'
  <2>1. live[r] \in Content \union {Absent}
    BY DEF SectionTyped, P!Section
  <2>2. P!With(P!Saved, r, live[r]) \in P!Section
    BY <1>1, <2>1, RecordWritten
  <2>3. /\ revision < MaxRevision /\ live' = live
        /\ P!SetDraft(P!With(P!Saved, r, live[r]), P!Base, 1) \/ P!Clear
    BY <1>6 DEF P!DiscardRecord
  <2> QED
    BY <1>1, <1>2, <2>2, <2>3 DEF SectionTyped
<1>7. ASSUME NEW e \in Editor, NEW r \in Record, NEW content \in Content \union {Absent},
             P!SaveRecord(e, r, content)
      PROVE  SectionTyped'
  <2>1. /\ revision < MaxRevision /\ live' = live /\ P!SetDraft(P!With(P!Saved, r, content), P!Base, 1)
    BY <1>7 DEF P!SaveRecord, P!Current
  <2> QED
    BY <1>1, <1>2, <2>1, RecordWritten DEF SectionTyped
<1>8. ASSUME NEW e \in Editor, NEW r \in Record, NEW content \in Content \union {Absent},
             P!PublishRecord(e, r, content)
      PROVE  SectionTyped'
  <2>1. /\ revision < MaxRevision /\ live' = P!With(live, r, content)
        /\ P!SetDraft(P!With(P!Saved, r, content), live', 2) \/ P!Clear
    BY <1>8 DEF P!PublishRecord, P!Publishable, P!Current
  <2>2. live' \in P!Section /\ P!With(P!Saved, r, content) \in P!Section
    BY <1>1, <2>1, RecordWritten DEF SectionTyped
  <2> QED
    BY <1>1, <1>2, <2>1, <2>2
<1>9. ASSUME NEW r \in Record, NEW content \in Content, P!ChangeLive(r, content) PROVE SectionTyped'
  BY <1>9, RecordWritten DEF P!ChangeLive, SectionTyped
<1> QED
  BY <1>3, <1>4, <1>5, <1>6, <1>7, <1>8, <1>9 DEF P!Next

(* Patrons are looked up for one field and copies for the other, so each   *)
(* field is filled with what belongs there.                                *)
PatronOrNone == Patron \union {Nobody}
ItemOrNone == Item \union {Nobody}
FieldsTyped ==
  /\ studentId \in PatronOrNone /\ foundUser \in PatronOrNone /\ reservationCheckout \in PatronOrNone
  /\ copyBarcode \in ItemOrNone /\ foundCopy \in ItemOrNone /\ returnPreview \in ItemOrNone
  /\ lastReturnLookup \in ItemOrNone
  /\ lookingUpUser \in BOOLEAN /\ lookingUpCopy \in BOOLEAN /\ timer \in BOOLEAN /\ undoable \in BOOLEAN
  /\ strayed \in BOOLEAN
  /\ submission \in [kind : {"none", "borrow", "return", "undo"}, patron : D!Id, copy : D!Id]
Sought(k) == (k.kind \in {"user", "reserved"} /\ k.id \in Patron) \/ (k.kind \in {"copy", "return"} /\ k.id \in Item)
DeskTyped == FieldsTyped /\ \A k \in lookups : Sought(k)

LEMMA RestingDesk == D!Idle \in [kind : {"none", "borrow", "return", "undo"}, patron : D!Id, copy : D!Id]
  BY DEF D!Idle, D!Id

LEMMA OvertakenSought == ASSUME DeskInv, DeskTyped, NEW kinds, NEW k \in D!Overtaken(kinds) PROVE Sought(k)
  BY OvertakenAre DEF DeskInv, DeskTyped, Sought

LEMMA StartedSought ==
  ASSUME DeskInv, DeskTyped, NEW kind \in {"user", "copy", "return"}, NEW i,
         (kind = "user" /\ i \in Patron) \/ (kind # "user" /\ i \in Item), NEW k \in D!Started(kind, i)
  PROVE  Sought(k)
<1>1. CASE k = [kind |-> kind, id |-> i, current |-> TRUE]
  BY <1>1 DEF Sought
<1>2. CASE k \in D!Overtaken({kind})
  BY <1>2, OvertakenSought
<1> QED
  BY <1>1, <1>2 DEF D!Started

LEMMA DeskTypedFirst == ASSUME D!Init PROVE DeskTyped
<1>1. FieldsTyped
  BY RestingDesk DEF D!Init, FieldsTyped, PatronOrNone, ItemOrNone
<1>2. ASSUME NEW k \in lookups PROVE Sought(k)
  <2>1. CASE \E p \in {reservationCheckout} \ {Nobody} : k = [kind |-> "reserved", id |-> p, current |-> TRUE]
    BY <1>1, <2>1 DEF Sought, FieldsTyped, PatronOrNone
  <2>2. CASE \E c \in {copyBarcode} \ {Nobody} : k = [kind |-> "copy", id |-> c, current |-> TRUE]
    BY <1>1, <2>2 DEF Sought, FieldsTyped, ItemOrNone
  <2> QED
    BY <2>1, <2>2 DEF D!Init
<1> QED
  BY <1>1, <1>2 DEF DeskTyped

LEMMA DeskStaysTyped == ASSUME DeskInv, DeskTyped, [D!Next]_(D!vars) PROVE DeskTyped'
<1> USE DEF PatronOrNone, ItemOrNone
<1>1. CASE UNCHANGED D!vars \/ D!TimerPasses
  BY <1>1 DEF DeskTyped, FieldsTyped, Sought, D!vars, D!form, D!found, D!waiting, D!scan, D!desk, D!TimerPasses
<1>2. ASSUME NEW p \in Patron \union {Nobody}, D!TypePatron(p) PROVE DeskTyped'
  <2>1. FieldsTyped'
    BY <1>2 DEF D!TypePatron, D!scan, D!desk, DeskTyped, FieldsTyped
  <2> QED
    BY <1>2, <2>1, OvertakenSought DEF D!TypePatron, DeskTyped, Sought
<1>3. ASSUME NEW c \in Item \union {Nobody}, D!TypeCopy(c) \/ D!TypeReturn(c) PROVE DeskTyped'
  <2>1. FieldsTyped'
    BY <1>3 DEF D!TypeCopy, D!TypeReturn, D!scan, D!desk, DeskTyped, FieldsTyped
  <2> QED
    BY <1>3, <2>1, OvertakenSought DEF D!TypeCopy, D!TypeReturn, DeskTyped, Sought
<1>4. ASSUME NEW p \in Patron, D!LookupUser(p) PROVE DeskTyped'
  <2>1. FieldsTyped'
    BY <1>4 DEF D!LookupUser, D!form, D!found, D!scan, D!desk, DeskTyped, FieldsTyped
  <2>2. lookups' = D!Started("user", p)
    BY <1>4 DEF D!LookupUser
  <2> QED
    BY <2>1, <2>2, StartedSought DEF DeskTyped, Sought
<1>5. CASE D!LookupCopy \/ \E force \in BOOLEAN : D!LookupReturn(force)
  <2>1. FieldsTyped'
    BY <1>5 DEF D!LookupCopy, D!LookupReturn, D!form, D!found, D!scan, D!desk, DeskTyped, FieldsTyped
  <2>2. copyBarcode \in Item /\ \E kind \in {"copy", "return"} : lookups' = D!Started(kind, copyBarcode)
    BY <1>5 DEF D!LookupCopy, D!LookupReturn, DeskTyped, FieldsTyped
  <2>3. \A k \in lookups' : Sought(k)
    BY <2>2, StartedSought
  <2> QED
    BY <2>1, <2>3 DEF DeskTyped, Sought
<1>6. ASSUME NEW k \in lookups, NEW ok \in BOOLEAN, D!Answer(k, ok) PROVE DeskTyped'
  <2>1. lookups' = lookups \ {k} /\ Sought(k) /\ UNCHANGED <<D!scan, D!desk>>
    BY <1>6 DEF D!Answer, DeskTyped
  <2>2. foundUser' \in PatronOrNone /\ studentId' \in PatronOrNone
    BY <1>6, <2>1 DEF D!Answer, DeskTyped, FieldsTyped, Sought
  <2>3. foundCopy' \in ItemOrNone /\ copyBarcode' \in ItemOrNone /\ returnPreview' \in ItemOrNone
    BY <1>6, <2>1 DEF D!Answer, DeskTyped, FieldsTyped, Sought
  <2>4. lookingUpUser' \in BOOLEAN /\ lookingUpCopy' \in BOOLEAN
    BY <1>6 DEF D!Answer
  <2> QED
    BY <2>1, <2>2, <2>3, <2>4 DEF DeskTyped, FieldsTyped, Sought, D!scan, D!desk
<1>7. CASE D!SwitchMode
  <2>1. FieldsTyped'
    BY <1>7 DEF D!SwitchMode, D!desk, DeskTyped, FieldsTyped
  <2> QED
    BY <1>7, <2>1, OvertakenSought DEF D!SwitchMode, DeskTyped, Sought
<1>8. CASE D!Submit
  <2>1. submission' \in [kind : {"none", "borrow", "return", "undo"}, patron : D!Id, copy : D!Id]
    BY <1>8 DEF D!Submit, DeskTyped, FieldsTyped, D!Id
  <2> QED
    BY <1>8, <2>1 DEF D!Submit, D!form, D!found, D!waiting, D!scan, DeskTyped, FieldsTyped, Sought
<1>9. CASE D!Borrowed \/ D!Undone
  <2>1. FieldsTyped' /\ lookups' = D!Overtaken({"user", "copy", "return"})
    BY <1>9, RestingDesk DEF D!Borrowed, D!Undone, D!ResetForm, D!waiting, DeskTyped, FieldsTyped
  <2> QED
    BY <2>1, OvertakenSought DEF DeskTyped, Sought
<1>10. CASE D!Returned
  <2>1. FieldsTyped'
    BY <1>10, RestingDesk DEF D!Returned, D!waiting, DeskTyped, FieldsTyped
  <2> QED
    BY <1>10, <2>1, OvertakenSought DEF D!Returned, DeskTyped, Sought
<1>11. CASE D!Failed
  BY <1>11, RestingDesk DEF D!Failed, D!form, D!waiting, DeskTyped, FieldsTyped, Sought
<1>12. CASE D!Undo
  <2>1. submission' \in [kind : {"none", "borrow", "return", "undo"}, patron : D!Id, copy : D!Id]
    BY <1>12 DEF D!Undo, D!Idle, D!Id
  <2> QED
    BY <1>12, <2>1 DEF D!Undo, D!form, D!found, D!waiting, D!scan, DeskTyped, FieldsTyped, Sought
<1>13. CASE D!LeaveReservation
  <2>1. strayed' \in BOOLEAN
    BY <1>13 DEF D!LeaveReservation
  <2> QED
    BY <1>13, <2>1 DEF D!LeaveReservation, D!form, D!found, D!waiting, D!scan, DeskTyped, FieldsTyped, Sought
<1> QED
  BY <1>1, <1>2, <1>3, <1>4, <1>5, <1>6, <1>7, <1>8, <1>9, <1>10, <1>11, <1>12, <1>13 DEF D!Next

LEMMA RoomsTyped ==
  ASSUME OfficeInv, RevisionsFit, SectionTyped, DeskTyped
  PROVE  A!TypeOK /\ M!TypeOK /\ P!TypeOK /\ G!TypeOK /\ D!TypeOK /\ C!TypeOK /\ R!TypeOK /\ L!TypeOK
<1>1. A!TypeOK
  BY DEF OfficeInv, AccessionsInv, Fits, A!Committed, BookTables, A!TypeOK
<1>2. M!TypeOK
  <2>1. comment \in Comments /\ case \in Cases
    BY DEF OfficeInv, ModerationInv
  <2> QED
    BY <2>1 DEF OfficeInv, ModerationInv, Comments, Cases, Someone, RevisionsFit, M!TypeOK
<1>3. P!TypeOK
  BY DEF OfficeInv, PublishingInv, SectionTyped, P!TypeOK
<1>4. G!TypeOK
  BY DEF OfficeInv, RecordsInv, VisitsInv, VisitsTyped, LocksAreHeld, Past, G!TypeOK
<1>5. D!TypeOK
  BY DEF OfficeInv, DeskInv, DeskTyped, FieldsTyped, PatronOrNone, ItemOrNone, D!TypeOK
<1>6. C!TypeOK
  <2>1. \A row \in BookRequests :
          row \in [stage : {"idle", "create", "edit", "lookup", "copy"}, book : Title \union {Nobody},
                   policy : Policy \union {Nobody}, copy : Exemplar \union {Nobody},
                   schema : SUBSET Field, seen : SUBSET Exemplar]
    BY DEF BookRequests
  <2> QED
    BY <2>1 DEF OfficeInv, RecordsInv, CatalogueInv, CatalogueTyped, BookRecords, C!TypeOK
<1>7. R!TypeOK
  BY DEF OfficeInv, RecordsInv, RegistersInv, RegistersTyped, R!TypeOK
<1>8. L!TypeOK
  <2>1. Closings \subseteq SUBSET (1..LastHoliday)
    BY DEF Closings
  <2>2. \A row \in [open : BOOLEAN, closed : Closings] : row \in [open : BOOLEAN, closed : SUBSET (1..LastHoliday)]
    BY <2>1
  <2> QED
    BY <2>2 DEF OfficeInv, RecordsInv, CalendarInv, CalendarTyped, LoanRecords, L!TypeOK
<1> QED
  BY <1>1, <1>2, <1>3, <1>4, <1>5, <1>6, <1>7, <1>8

(* Comments, drafts, the desk, accessions, visits, books, registers, due   *)
(* dates and the tables of circulation keep to the values that the code    *)
(* writes: no field of the desk is filled with what another lookup found,  *)
(* and a draft is never without what it was begun from.                    *)
THEOREM OfficeTyped == OfficeSpec => []TypesOK
<1>1. OfficeInit => TypeOK /\ RevisionsFit /\ SectionTyped /\ DeskTyped
  <2>1. Init => TypeOK
    BY RowTypes, BoundsAssumption DEF Init, TypeOK
  <2> QED
    BY <2>1, RolesAndBounds, RevisionsStart, SectionStarts, DeskTypedFirst
    DEF OfficeInit, P!PublishingAssumption
<1>2. /\ OfficeInv /\ TypeOK /\ RevisionsFit /\ SectionTyped /\ DeskTyped
      /\ [OfficeNext]_<<scene, vars, website, premises, records>>
      => (TypeOK /\ RevisionsFit /\ SectionTyped /\ DeskTyped)'
  <2> SUFFICES ASSUME OfficeInv, TypeOK, RevisionsFit, SectionTyped, DeskTyped,
                      [OfficeNext]_<<scene, vars, website, premises, records>>
               PROVE  (TypeOK /\ RevisionsFit /\ SectionTyped /\ DeskTyped)'
    OBVIOUS
  <2>1. [Next]_vars
    BY DEF OfficeNext
  <2>2. UNCHANGED vars => TypeOK'
    BY DEF TypeOK, vars
  <2>3. TypeOK'
    BY <2>1, <2>2, NextKeepsType
  <2>4. RevisionsFit' /\ SectionTyped' /\ DeskTyped'
    BY OfficeSteps, RolesAndBounds, RevisionsStay, SectionKeeps, DeskStaysTyped
    DEF OfficeInv, P!PublishingAssumption
  <2> QED
    BY <2>3, <2>4
<1>3. OfficeInv /\ TypeOK /\ RevisionsFit /\ SectionTyped /\ DeskTyped => TypesOK
  BY RoomsTyped DEF TypesOK
<1> QED
  BY <1>1, <1>2, <1>3, OfficeInvariant, PTL DEF OfficeSpec
=============================================================================
