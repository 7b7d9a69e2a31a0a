----------------------------- MODULE UpkeepProofs -----------------------------
(* Theorems about Restore, Browser, Inbox and Enrichment, and about the    *)
(* scenes of MCUpkeep, for every number of servers, changes, backups,      *)
(* restores, calls, sockets, notices, books, edits and backfills.          *)
EXTENDS MCUpkeep, Sequences, FiniteSetTheorems, TLAPS

(* -------------------------------------------------- the inductive invariant *)

Stages == {"idle", "check", "read", "store", "replace", "finish", "release"}
Tables == [data : SUBSET Change, pending : SUBSET Change]
Backup == [data : SUBSET Change, pending : SUBSET Change, created : Nat]
RestoreRow == [at : Stages, backup : Backup, safety : Tables, underway : SUBSET Change]
Requests == [at : {"new", "admitted", "changing", "logged", "unlogged", "silent"},
             server : Server \union {Nobody}, job : BOOLEAN, occurred : Nat]

(* A request that is over is no server's, so that no stop undoes it.       *)
RequestRow == {r \in Requests : r.at \in {"logged", "silent"} => r.server = Nobody}

RowsTyped ==
  /\ request \in [Change -> RequestRow] /\ restore \in [Server -> RestoreRow]
  /\ now \in Nat /\ unlocked \in BOOLEAN

(* What backups hold was committed or queued when they were made, and is   *)
(* for good.                                                               *)
HoldsCommitted(tables) == tables.data \subseteq Committed /\ tables.pending \subseteq Logged
BackupsFit ==
  /\ backups \subseteq Backup /\ \A b \in backups : HoldsCommitted(b)
  /\ saving # Nobody => saving \in Tables /\ HoldsCommitted(saving)
  /\ \A p \in Server : HoldsCommitted(restore[p].backup) /\ HoldsCommitted(restore[p].safety)

(* While no lock was lost, one restore goes on at a time, in maintenance;  *)
(* whatever is committed after the safety snapshot was under way before,   *)
(* or is a job's.                                                          *)
Meanwhile(p) ==
  /\ restore[p].at # "idle" => lock = <<p, "restore">>
  /\ restore[p].at \in {"read", "store", "replace"} => mode = "restoring" /\ UnderWay \subseteq restore[p].underway \union OfJobs
  /\ restore[p].at \in {"store", "replace"} => data \subseteq restore[p].safety.data \union restore[p].underway \union OfJobs
RestoresApart == ~unlocked => \A p \in Server : Meanwhile(p)

RestoreInv == TypeOK /\ RowsTyped /\ BackupsFit /\ TrailIsKept /\ RestoresApart

(* ---------------------------------------------- requests and the audit trail *)

LEMMA BackupsStillFit ==
  ASSUME BackupsFit, Committed \subseteq Committed', Logged \subseteq Logged', UNCHANGED <<backups, saving, restore>> PROVE BackupsFit'
  BY DEF BackupsFit, HoldsCommitted

(* A request is let in outside of maintenance; a job is always.            *)
LEMMA AdmitKeeps ==
  ASSUME RestoreInv, NEW c \in Change, NEW p \in Server, Admit(c, p) \/ StartJob(c, p) PROVE RestoreInv'
<1> USE DEF RestoreInv, counts, trails
<1>1. PICK r \in RequestRow :
        /\ r.at = "admitted" /\ request' = [request EXCEPT ![c] = r]
        /\ request[c].at = "new" /\ (mode # "restoring" \/ r.job)
  <2>1. /\ [NoRequest EXCEPT !.at = "admitted", !.server = p] \in RequestRow
        /\ [NoRequest EXCEPT !.at = "admitted", !.server = p, !.job = TRUE] \in RequestRow
    BY DEF NoRequest, RequestRow, Requests
  <2>2. CASE Admit(c, p)
    BY <2>1, <2>2 DEF Admit, NoRequest
  <2>3. CASE StartJob(c, p)
    BY <2>1, <2>3 DEF StartJob, NoRequest
  <2> QED
    BY <2>2, <2>3
<1>3. UNCHANGED <<mode, lock, server, restore, data, pending, trail, backups, saving, now, unlocked>>
  BY DEF Admit, StartJob
<1>4. /\ Committed' = Committed /\ Logged' = Logged /\ request' \in [Change -> RequestRow]
      /\ UnderWay' \subseteq UnderWay \union {c} /\ (c \in OfJobs' \/ mode # "restoring")
      /\ \A x \in Change \ {c} : request'[x] = request[x] /\ (x \in OfJobs => x \in OfJobs')
      /\ c \notin Committed
  BY <1>1 DEF Committed, Logged, UnderWay, OfJobs, RowsTyped
<1>5. TypeOK' /\ RowsTyped' /\ TrailIsKept'
  BY <1>3, <1>4 DEF TypeOK, RowsTyped, TrailIsKept, Logged, Committed
<1>6. BackupsFit'
  BY <1>3, <1>4, BackupsStillFit
<1>7. RestoresApart'
  <2>1. c \notin data /\ data \subseteq Change /\ UnderWay \subseteq Change
    BY <1>4 DEF TypeOK, Committed, UnderWay
  <2>2. c \notin UnderWay
    BY <1>1 DEF UnderWay
  <2> QED
    BY <1>3, <1>4, <2>1, <2>2 DEF RestoresApart, Meanwhile
<1> QED
  BY <1>5, <1>6, <1>7

LEMMA WriteKeeps ==
  ASSUME RestoreInv, NEW c \in Change, Write(c) PROVE RestoreInv'
<1> USE DEF RestoreInv, counts, trails
<1> DEFINE r == [request[c] EXCEPT !.at = "changing", !.occurred = now]
<1>1. r \in RequestRow /\ r.at = "changing" /\ r.job = request[c].job
  BY DEF RequestRow, Requests, RowsTyped
<1>2. request' = [request EXCEPT ![c] = r] /\ request[c].at = "admitted"
  BY DEF Write
<1>3. UNCHANGED <<mode, lock, server, restore, data, pending, trail, backups, saving, now, unlocked>>
  BY DEF Write
<1> HIDE DEF r
<1>4. Committed' = Committed /\ Logged' = Logged /\ UnderWay' = UnderWay /\ OfJobs' = OfJobs /\ request' \in [Change -> RequestRow]
  BY <1>1, <1>2 DEF Committed, Logged, UnderWay, OfJobs, RowsTyped
<1>5. TypeOK' /\ RowsTyped' /\ TrailIsKept'
  BY <1>3, <1>4 DEF TypeOK, RowsTyped, TrailIsKept
<1>6. BackupsFit'
  BY <1>3, <1>4, BackupsStillFit
<1>7. RestoresApart'
  BY <1>3, <1>4 DEF RestoresApart, Meanwhile
<1> QED
  BY <1>5, <1>6, <1>7

LEMMA CommitKeeps ==
  ASSUME RestoreInv, NEW c \in Change, NEW event \in {"logged", "unlogged", "silent"}, Commit(c, event) PROVE RestoreInv'
<1> USE DEF RestoreInv, counts, trails
<1>1. PICK r \in RequestRow :
        /\ r.at = event /\ r.job = request[c].job
        /\ request' = [request EXCEPT ![c] = r] /\ request[c].at = "changing"
  <2> DEFINE r == [request[c] EXCEPT !.at = event, !.server = IF event = "unlogged" THEN @ ELSE Nobody]
  <2>1. r \in RequestRow /\ r.at = event /\ r.job = request[c].job
    BY DEF RequestRow, Requests, RowsTyped
  <2>2. request' = [request EXCEPT ![c] = r] /\ request[c].at = "changing"
    BY DEF Commit
  <2> QED
    BY <2>1, <2>2
<1>3. UNCHANGED <<mode, lock, server, restore, trail, backups, saving, now, unlocked>>
      /\ data' = data \union {c} /\ pending' = IF event = "logged" THEN pending \union {c} ELSE pending
  BY DEF Commit
<1>4. /\ Committed' = Committed \union {c} /\ c \notin Committed /\ request' \in [Change -> RequestRow]
      /\ Logged' = IF event = "logged" THEN Logged \union {c} ELSE Logged
      /\ UnderWay' \subseteq UnderWay /\ c \in UnderWay /\ OfJobs' = OfJobs
  BY <1>1 DEF Committed, Logged, UnderWay, OfJobs, RowsTyped
<1>5. TypeOK' /\ RowsTyped' /\ TrailIsKept'
  BY <1>3, <1>4 DEF TypeOK, RowsTyped, TrailIsKept
<1>6. BackupsFit'
  BY <1>3, <1>4, BackupsStillFit
<1>7. RestoresApart'
  BY <1>3, <1>4 DEF RestoresApart, Meanwhile
<1> QED
  BY <1>5, <1>6, <1>7

(* The event of a change that is committed is queued, or is not.           *)
LEMMA EnqueueKeeps ==
  ASSUME RestoreInv, NEW c \in Change, Enqueue(c) \/ EnqueueFails(c) PROVE RestoreInv'
<1> USE DEF RestoreInv, counts, trails
<1>1. PICK r \in RequestRow :
        /\ r.at \in {"logged", "silent"} /\ r.job = request[c].job
        /\ request' = [request EXCEPT ![c] = r] /\ request[c].at = "unlogged"
        /\ pending' = IF r.at = "logged" THEN pending \union {c} ELSE pending
  <2>1. /\ [request[c] EXCEPT !.at = "logged", !.server = Nobody, !.occurred = now] \in RequestRow
        /\ [request[c] EXCEPT !.at = "silent", !.server = Nobody] \in RequestRow
    BY DEF RequestRow, Requests, RowsTyped
  <2>2. CASE Enqueue(c)
    <3> DEFINE r == [request[c] EXCEPT !.at = "logged", !.server = Nobody, !.occurred = now]
    <3>1. r.at = "logged" /\ r.job = request[c].job
      BY DEF RequestRow, Requests, RowsTyped
    <3>2. request' = [request EXCEPT ![c] = r] /\ request[c].at = "unlogged" /\ pending' = pending \union {c}
      BY <2>2 DEF Enqueue
    <3> QED
      BY <2>1, <3>1, <3>2
  <2>3. CASE EnqueueFails(c)
    <3> DEFINE r == [request[c] EXCEPT !.at = "silent", !.server = Nobody]
    <3>1. r.at = "silent" /\ r.job = request[c].job
      BY DEF RequestRow, Requests, RowsTyped
    <3>2. request' = [request EXCEPT ![c] = r] /\ request[c].at = "unlogged" /\ pending' = pending
      BY <2>3 DEF EnqueueFails
    <3> QED
      BY <2>1, <3>1, <3>2
  <2> QED
    BY <2>2, <2>3
<1>3. UNCHANGED <<mode, lock, server, restore, data, trail, backups, saving, now, unlocked>>
  BY DEF Enqueue, EnqueueFails
<1>4. /\ Committed' = Committed /\ request' \in [Change -> RequestRow]
      /\ Logged' = IF r.at = "logged" THEN Logged \union {c} ELSE Logged
      /\ UnderWay' = UnderWay /\ OfJobs' = OfJobs
  BY <1>1 DEF Committed, Logged, UnderWay, OfJobs, RowsTyped
<1>5. TypeOK' /\ RowsTyped' /\ TrailIsKept'
  BY <1>1, <1>3, <1>4 DEF TypeOK, RowsTyped, TrailIsKept
<1>6. BackupsFit'
  BY <1>3, <1>4, BackupsStillFit
<1>7. RestoresApart'
  BY <1>3, <1>4 DEF RestoresApart, Meanwhile
<1> QED
  BY <1>5, <1>6, <1>7

LEMMA RecordAuditKeeps ==
  ASSUME RestoreInv, NEW c \in Change, RecordAudit(c) PROVE RestoreInv'
<1> USE DEF RestoreInv, counts, trails
<1>1. UNCHANGED <<mode, lock, server, restore, request, data, backups, saving, now, unlocked>>
      /\ pending' = pending \ {c}
  BY DEF RecordAudit
<1>2. /\ trail' \in [Change -> {"none", "retained", "reversed"}] /\ trail'[c] # "none"
      /\ \A x \in Change : trail[x] # "none" => trail'[x] # "none"
  BY DEF RecordAudit, Recorded, New, TypeOK
<1>3. Committed' = Committed /\ Logged' = Logged /\ UnderWay' = UnderWay /\ OfJobs' = OfJobs
  BY <1>1 DEF Committed, Logged, UnderWay, OfJobs
<1>4. TypeOK' /\ RowsTyped' /\ TrailIsKept'
  BY <1>1, <1>2, <1>3 DEF TypeOK, RowsTyped, TrailIsKept, Logged
<1>5. BackupsFit'
  BY <1>1, <1>3, BackupsStillFit
<1>6. RestoresApart'
  BY <1>1, <1>3 DEF RestoresApart, Meanwhile
<1> QED
  BY <1>4, <1>5, <1>6

(* ------------------------------------------------------ snapshots and time *)

LEMMA SnapshotKeeps ==
  ASSUME RestoreInv, SnapshotRead \/ SnapshotStore \/ Tick PROVE RestoreInv'
<1> USE DEF RestoreInv, counts, trails
<1>1. UNCHANGED <<mode, lock, server, restore, request, data, pending, trail, unlocked>>
      /\ now' \in Nat
  BY DEF SnapshotRead, SnapshotStore, Tick, RowsTyped
<1>2. Committed' = Committed /\ Logged' = Logged /\ UnderWay' = UnderWay /\ OfJobs' = OfJobs
  BY <1>1 DEF Committed, Logged, UnderWay, OfJobs
<1>3. TypeOK' /\ RowsTyped' /\ TrailIsKept'
  BY <1>1, <1>2 DEF TypeOK, RowsTyped, TrailIsKept
<1>4. BackupsFit'
  <2> USE DEF BackupsFit, HoldsCommitted
  <2>1. CASE SnapshotRead
    BY <1>1, <1>2, <2>1 DEF SnapshotRead, Read, Tables, TypeOK, Committed, Logged
  <2>2. CASE SnapshotStore
    <3>1. Stamped(saving) \in Backup /\ Stamped(saving).data = saving.data /\ Stamped(saving).pending = saving.pending
      BY <2>2 DEF SnapshotStore, Stamped, Tables, Backup, RowsTyped
    <3> QED
      BY <1>1, <1>2, <2>2, <3>1 DEF SnapshotStore
  <2>3. CASE Tick
    BY <1>1, <1>2, <2>3 DEF Tick
  <2> QED
    BY <2>1, <2>2, <2>3
<1>5. RestoresApart'
  BY <1>1, <1>2 DEF RestoresApart, Meanwhile
<1> QED
  BY <1>3, <1>4, <1>5

(* ----------------------------------------------------------------- restores *)

(* A step of the restore of p gives it a row; the others have theirs.      *)
LEMMA RowGiven ==
  ASSUME RestoreInv, NEW p \in Server, NEW row \in RestoreRow, restore' = [restore EXCEPT ![p] = row],
         request' = request, now' = now, unlocked' = unlocked
  PROVE  /\ RowsTyped' /\ Committed' = Committed /\ Logged' = Logged /\ UnderWay' = UnderWay /\ OfJobs' = OfJobs
         /\ restore'[p] = row /\ \A q \in Server \ {p} : restore'[q] = restore[q]
  BY DEF RestoreInv, RowsTyped, Committed, Logged, UnderWay, OfJobs

LEMMA BackupsFitRow ==
  ASSUME RestoreInv, NEW p \in Server, NEW row \in RestoreRow, restore' = [restore EXCEPT ![p] = row],
         request' = request, UNCHANGED <<backups, saving>>,
         HoldsCommitted(row.backup), HoldsCommitted(row.safety)
  PROVE  BackupsFit'
  BY DEF RestoreInv, RowsTyped, Committed, Logged, BackupsFit, HoldsCommitted

LEMMA NoRestoreIsRow ==
  /\ NoRestore \in RestoreRow /\ NoRestore.at = "idle"
  /\ HoldsCommitted(NoRestore.backup) /\ HoldsCommitted(NoRestore.safety)
  BY DEF NoRestore, Nothing, RestoreRow, Backup, Tables, Stages, HoldsCommitted

LEMMA BeginKeeps ==
  ASSUME RestoreInv, NEW p \in Server, NEW b \in backups, Begin(p, b) PROVE RestoreInv'
<1> USE DEF RestoreInv, counts, trails
<1> DEFINE row == [NoRestore EXCEPT !.at = "check", !.backup = b]
<1>1. row \in RestoreRow /\ row.at = "check" /\ row.backup = b /\ row.safety = NoRestore.safety
  BY NoRestoreIsRow DEF RestoreRow, Stages, BackupsFit
<1>2. /\ restore' = [restore EXCEPT ![p] = row] /\ lock' = <<p, "restore">> /\ lock = Free /\ server[p] = "up"
      /\ UNCHANGED <<mode, server, request, data, pending, trail, backups, saving, now, unlocked>>
  BY DEF Begin
<1> HIDE DEF row
<1>3. /\ RowsTyped' /\ Committed' = Committed /\ Logged' = Logged /\ UnderWay' = UnderWay /\ OfJobs' = OfJobs
      /\ restore'[p] = row /\ \A q \in Server \ {p} : restore'[q] = restore[q]
  BY <1>1, <1>2, RowGiven
<1>4. BackupsFit'
  BY <1>1, <1>2, BackupsFitRow, NoRestoreIsRow DEF BackupsFit
<1>5. TypeOK' /\ TrailIsKept'
  BY <1>2, <1>3 DEF TypeOK, TrailIsKept
<1>6. ASSUME ~unlocked PROVE \A q \in Server : Meanwhile(q)'
  <2>1. \A q \in Server : restore[q].at = "idle"
    BY <1>2, <1>6, RestoreAssumption DEF RestoresApart, Meanwhile, Free
  <2> QED
    BY <1>1, <1>2, <1>3, <2>1 DEF Meanwhile
<1> QED
  BY <1>2, <1>3, <1>4, <1>5, <1>6 DEF RestoresApart

(* No other restore is going on while one is, unless a lock was lost.      *)
LEMMA OneAtATime ==
  ASSUME RestoreInv, ~unlocked, NEW p \in Server, restore[p].at # "idle"
  PROVE  lock = <<p, "restore">> /\ \A q \in Server \ {p} : restore[q].at = "idle"
  BY DEF RestoreInv, RestoresApart, Meanwhile

LEMMA StartMaintenanceKeeps ==
  ASSUME RestoreInv, NEW p \in Server, StartMaintenance(p) PROVE RestoreInv'
<1> USE DEF RestoreInv, counts, trails
<1> DEFINE row == [restore[p] EXCEPT !.at = "read", !.underway = UnderWay]
<1>1. row \in RestoreRow /\ row.at = "read" /\ row.underway = UnderWay
      /\ row.backup = restore[p].backup /\ row.safety = restore[p].safety
  BY DEF RestoreRow, Stages, RowsTyped, UnderWay
<1>2. /\ restore' = [restore EXCEPT ![p] = row] /\ mode' = "restoring" /\ restore[p].at = "check"
      /\ UNCHANGED <<lock, server, request, data, pending, trail, backups, saving, now, unlocked>>
  BY DEF StartMaintenance, At
<1> HIDE DEF row
<1>3. /\ RowsTyped' /\ Committed' = Committed /\ Logged' = Logged /\ UnderWay' = UnderWay /\ OfJobs' = OfJobs
      /\ restore'[p] = row /\ \A q \in Server \ {p} : restore'[q] = restore[q]
  BY <1>1, <1>2, RowGiven
<1>4. BackupsFit'
  BY <1>1, <1>2, BackupsFitRow DEF BackupsFit
<1>5. TypeOK' /\ TrailIsKept'
  BY <1>2, <1>3 DEF TypeOK, TrailIsKept
<1>6. ASSUME ~unlocked PROVE \A q \in Server : Meanwhile(q)'
  BY <1>1, <1>2, <1>3, <1>6, OneAtATime DEF Meanwhile
<1> QED
  BY <1>2, <1>3, <1>4, <1>5, <1>6 DEF RestoresApart

LEMMA ReadSafetyKeeps ==
  ASSUME RestoreInv, NEW p \in Server, ReadSafety(p) PROVE RestoreInv'
<1> USE DEF RestoreInv, counts, trails
<1> DEFINE row == [restore[p] EXCEPT !.at = "store", !.safety = Read]
<1>1. row \in RestoreRow /\ row.at = "store" /\ row.safety = Read
      /\ row.backup = restore[p].backup /\ row.underway = restore[p].underway
  <2>1. Read \in Tables
    BY DEF Read, Tables, TypeOK, Committed, Logged
  <2> QED
    BY <2>1 DEF RestoreRow, Stages, RowsTyped
<1>2. /\ restore' = [restore EXCEPT ![p] = row] /\ restore[p].at = "read"
      /\ UNCHANGED <<mode, lock, server, request, data, pending, trail, backups, saving, now, unlocked>>
  BY DEF ReadSafety, At
<1> HIDE DEF row
<1>3. /\ RowsTyped' /\ Committed' = Committed /\ Logged' = Logged /\ UnderWay' = UnderWay /\ OfJobs' = OfJobs
      /\ restore'[p] = row /\ \A q \in Server \ {p} : restore'[q] = restore[q]
  BY <1>1, <1>2, RowGiven
<1>4. BackupsFit'
  <2>1. HoldsCommitted(row.backup) /\ HoldsCommitted(row.safety)
    BY <1>1 DEF BackupsFit, HoldsCommitted, Read, TypeOK
  <2> QED
    BY <1>1, <1>2, <2>1, BackupsFitRow
<1>5. TypeOK' /\ TrailIsKept'
  BY <1>2, <1>3 DEF TypeOK, TrailIsKept
<1>6. RestoresApart'
  BY <1>1, <1>2, <1>3 DEF RestoresApart, Meanwhile, Read
<1> QED
  BY <1>3, <1>4, <1>5, <1>6

(* Steps that take a restore on in nothing but its stage.                  *)
LEMMA StageGiven ==
  ASSUME RestoreInv, NEW p \in Server, NEW at \in Stages, Goto(p, at), request' = request,
         now' = now, unlocked' = unlocked
  PROVE  /\ RowsTyped' /\ Committed' = Committed /\ Logged' = Logged /\ UnderWay' = UnderWay /\ OfJobs' = OfJobs
         /\ \A q \in Server : /\ restore'[q].backup = restore[q].backup /\ restore'[q].safety = restore[q].safety
                               /\ restore'[q].underway = restore[q].underway
         /\ restore'[p].at = at /\ \A q \in Server \ {p} : restore'[q] = restore[q]
<1> DEFINE row == [restore[p] EXCEPT !.at = at]
<1>1. row \in RestoreRow /\ row.at = at /\ row.underway = restore[p].underway
      /\ row.backup = restore[p].backup /\ row.safety = restore[p].safety
  BY DEF RestoreInv, RestoreRow, RowsTyped
<1>2. restore' = [restore EXCEPT ![p] = row]
  BY DEF Goto
<1> HIDE DEF row
<1> QED
  BY <1>1, <1>2, RowGiven

LEMMA StoreSafetyKeeps ==
  ASSUME RestoreInv, NEW p \in Server, StoreSafety(p) PROVE RestoreInv'
<1> USE DEF RestoreInv, counts, trails
<1> DEFINE b == Stamped(restore[p].safety)
<1>1. b \in Backup /\ b.data = restore[p].safety.data /\ b.pending = restore[p].safety.pending
  BY DEF Stamped, Backup, RestoreRow, RowsTyped, Tables
<1>2. /\ Goto(p, "replace") /\ restore[p].at = "store" /\ backups' = backups \union {b}
      /\ UNCHANGED <<mode, lock, server, request, data, pending, trail, saving, now, unlocked>>
  BY DEF StoreSafety, At
<1> HIDE DEF b
<1>3. /\ RowsTyped' /\ Committed' = Committed /\ Logged' = Logged /\ UnderWay' = UnderWay /\ OfJobs' = OfJobs
      /\ \A q \in Server : /\ restore'[q].backup = restore[q].backup /\ restore'[q].safety = restore[q].safety
                            /\ restore'[q].underway = restore[q].underway
      /\ restore'[p].at = "replace" /\ \A q \in Server \ {p} : restore'[q] = restore[q]
  BY <1>2, StageGiven DEF Stages
<1>4. BackupsFit'
  <2>1. b.data \subseteq Committed /\ b.pending \subseteq Logged
    BY <1>1 DEF BackupsFit, HoldsCommitted
  <2>2. backups' \subseteq Backup /\ \A x \in backups' : HoldsCommitted(x)'
    BY <1>1, <1>2, <1>3, <2>1 DEF BackupsFit, HoldsCommitted
  <2> QED
    BY <1>2, <1>3, <2>2 DEF BackupsFit, HoldsCommitted
<1>5. TypeOK' /\ TrailIsKept'
  BY <1>2, <1>3 DEF TypeOK, TrailIsKept
<1>6. RestoresApart'
  BY <1>2, <1>3 DEF RestoresApart, Meanwhile
<1> QED
  BY <1>3, <1>4, <1>5, <1>6

(* The audit events that are pending are recorded before the outbox goes.  *)
LEMMA ReplaceKeeps ==
  ASSUME RestoreInv, NEW p \in Server, Replace(p) PROVE RestoreInv'
<1> USE DEF RestoreInv, counts, trails
<1>1. /\ Goto(p, "finish") /\ restore[p].at = "replace"
      /\ data' = restore[p].backup.data /\ pending' = restore[p].backup.pending
      /\ UNCHANGED <<mode, lock, server, request, backups, saving, now, unlocked>>
  BY DEF Replace, At
<1>2. /\ trail' \in [Change -> {"none", "retained", "reversed"}]
      /\ \A c \in Change : trail[c] # "none" \/ c \in pending => trail'[c] # "none"
  BY DEF Replace, Reversed, Recorded, New, TypeOK
<1>3. /\ RowsTyped' /\ Committed' = Committed /\ Logged' = Logged /\ UnderWay' = UnderWay /\ OfJobs' = OfJobs
      /\ \A q \in Server : /\ restore'[q].backup = restore[q].backup /\ restore'[q].safety = restore[q].safety
                            /\ restore'[q].underway = restore[q].underway
      /\ restore'[p].at = "finish" /\ \A q \in Server \ {p} : restore'[q] = restore[q]
  BY <1>1, StageGiven DEF Stages
<1>4. BackupsFit'
  BY <1>1, <1>3 DEF BackupsFit, HoldsCommitted
<1>5. TypeOK' /\ TrailIsKept'
  BY <1>1, <1>2, <1>3 DEF TypeOK, TrailIsKept, BackupsFit, HoldsCommitted, Logged
<1>6. ASSUME ~unlocked PROVE \A q \in Server : Meanwhile(q)'
  BY <1>1, <1>3, <1>6, OneAtATime DEF Meanwhile, RestoresApart
<1> QED
  BY <1>1, <1>3, <1>4, <1>5, <1>6 DEF RestoresApart

LEMMA EndingKeeps ==
  ASSUME RestoreInv, NEW p \in Server, Fail(p) \/ EndMaintenance(p) \/ EndMaintenanceFails(p) PROVE RestoreInv'
<1> USE DEF RestoreInv, counts, trails
<1>1. PICK at \in {"finish", "release"} :
        /\ Goto(p, at) /\ restore[p].at # "idle" /\ mode' \in {"normal", "restoring"}
        /\ mode' = mode \/ restore[p].at = "finish"
        /\ UNCHANGED <<lock, server, request, data, pending, trail, backups, saving, now, unlocked>>
  BY DEF Fail, EndMaintenance, EndMaintenanceFails, At, TypeOK
<1>2. /\ RowsTyped' /\ Committed' = Committed /\ Logged' = Logged /\ UnderWay' = UnderWay /\ OfJobs' = OfJobs
      /\ \A q \in Server : /\ restore'[q].backup = restore[q].backup /\ restore'[q].safety = restore[q].safety
                            /\ restore'[q].underway = restore[q].underway
      /\ restore'[p].at = at /\ \A q \in Server \ {p} : restore'[q] = restore[q]
  BY <1>1, StageGiven DEF Stages
<1>3. BackupsFit'
  BY <1>1, <1>2 DEF BackupsFit, HoldsCommitted
<1>4. TypeOK' /\ TrailIsKept'
  BY <1>1, <1>2 DEF TypeOK, TrailIsKept
<1>5. ASSUME ~unlocked PROVE \A q \in Server : Meanwhile(q)'
  BY <1>1, <1>2, <1>5, OneAtATime DEF Meanwhile, RestoresApart
<1> QED
  BY <1>1, <1>2, <1>3, <1>4, <1>5 DEF RestoresApart

LEMMA ReleaseKeeps ==
  ASSUME RestoreInv, NEW p \in Server, Release(p) PROVE RestoreInv'
<1> USE DEF RestoreInv, counts, trails
<1>1. /\ restore' = [restore EXCEPT ![p] = NoRestore] /\ restore[p].at # "idle"
      /\ lock' = Released(p, "restore")
      /\ UNCHANGED <<mode, server, request, data, pending, trail, backups, saving, now, unlocked>>
  BY DEF Release, At
<1>2. /\ RowsTyped' /\ Committed' = Committed /\ Logged' = Logged /\ UnderWay' = UnderWay /\ OfJobs' = OfJobs
      /\ restore'[p] = NoRestore /\ \A q \in Server \ {p} : restore'[q] = restore[q]
  BY <1>1, RowGiven, NoRestoreIsRow
<1>3. BackupsFit'
  BY <1>1, BackupsFitRow, NoRestoreIsRow
<1>4. TypeOK' /\ TrailIsKept'
  BY <1>1, <1>2, NoRestoreIsRow DEF TypeOK, TrailIsKept, Released
<1>5. ASSUME ~unlocked PROVE \A q \in Server : Meanwhile(q)'
  BY <1>1, <1>2, <1>5, OneAtATime, NoRestoreIsRow DEF Meanwhile
<1> QED
  BY <1>1, <1>2, <1>3, <1>4, <1>5 DEF RestoresApart

(* ----------------------------------------------------- recovery and faults *)

LEMMA RecoveryKeeps ==
  ASSUME RestoreInv, NEW p \in Server, RecoveryStep(p) \/ Start(p) \/ LoseLock(p) PROVE RestoreInv'
<1> USE DEF RestoreInv, counts, trails
<1>1. /\ UNCHANGED <<restore, request, data, pending, trail, backups, saving, now>>
      /\ unlocked => unlocked'
  BY DEF RecoveryStep, RecoverLock, ListenAnyway, Recover, RecoverFails, Start, LoseLock
<1>2. Committed' = Committed /\ Logged' = Logged /\ UnderWay' = UnderWay /\ OfJobs' = OfJobs
  BY <1>1 DEF Committed, Logged, UnderWay, OfJobs
<1>3. RowsTyped' /\ TrailIsKept' /\ BackupsFit'
  <2>1. unlocked' \in BOOLEAN
    BY DEF RecoveryStep, RecoverLock, ListenAnyway, Recover, RecoverFails, Start, LoseLock, RowsTyped
  <2> QED
    BY <1>1, <1>2, <2>1, BackupsStillFit DEF RowsTyped, TrailIsKept
<1>4. TypeOK'
  BY <1>1, <1>2 DEF TypeOK, RecoveryStep, RecoverLock, ListenAnyway, Recover, RecoverFails, Start, LoseLock
<1>5. ASSUME ~unlocked' PROVE \A q \in Server : Meanwhile(q)'
  <2>1. CASE mode' = mode /\ lock' = lock
    BY <1>1, <1>2, <1>5, <2>1 DEF RestoresApart, Meanwhile
  <2>2. CASE lock = Free \/ lock = <<p, "recovery">>
    <3>1. ~unlocked
      BY <1>1, <1>5
    <3>2. \A q \in Server : restore[q].at = "idle"
      BY <2>2, <3>1, RestoreAssumption DEF RestoresApart, Meanwhile, Free
    <3> QED
      BY <1>1, <3>2 DEF Meanwhile
  <2> QED
    BY <1>5, <2>1, <2>2 DEF RecoveryStep, RecoverLock, ListenAnyway, Recover, RecoverFails, Start, LoseLock
<1> QED
  BY <1>3, <1>4, <1>5 DEF RestoresApart

(* A stop ends the requests of the process, but for those committed.       *)
LEMMA CrashKeeps ==
  ASSUME RestoreInv, NEW p \in Server, Crash(p) PROVE RestoreInv'
<1> USE DEF RestoreInv, counts, trails
<1>1. /\ restore' = [restore EXCEPT ![p] = NoRestore] /\ server' = [server EXCEPT ![p] = "down"]
      /\ lock' = IF lock[1] = p THEN Free ELSE lock
      /\ request' = [c \in Change |-> IF request[c].server = p THEN Stopped(request[c]) ELSE request[c]]
      /\ UNCHANGED <<mode, data, pending, trail, backups, saving, now, unlocked>>
  BY DEF Crash
<1>2. \A c \in Change : /\ Stopped(request[c]) \in RequestRow
                         /\ IF request[c].at = "unlogged"
                            THEN Stopped(request[c]).at = "silent" /\ Stopped(request[c]).job = request[c].job
                            ELSE Stopped(request[c]).at = "new"
  BY DEF NoRequest, RequestRow, Requests, Stopped, RowsTyped
<1>3. /\ request' \in [Change -> RequestRow] /\ UnderWay' \subseteq UnderWay
      /\ Logged' = Logged /\ Committed' = Committed
      /\ \A c \in Committed \union UnderWay' : c \in OfJobs => c \in OfJobs'
  <2>1. ASSUME NEW c \in Change
        PROVE  /\ request'[c] \in RequestRow
               /\ \/ request'[c] = request[c]
                  \/ request[c].at = "unlogged" /\ request'[c].at = "silent" /\ request'[c].job = request[c].job
                  \/ request[c].at \in {"new", "admitted", "changing"} /\ request'[c].at = "new"
    <3>1. CASE request[c].server = p
      <4>1. request[c] \in RequestRow /\ request'[c] = Stopped(request[c])
        BY <1>1, <3>1 DEF RowsTyped
      <4>2. request[c].at \in {"new", "admitted", "changing", "unlogged"}
        BY <3>1, <4>1, RestoreAssumption DEF RequestRow, Requests
      <4> QED
        BY <1>2, <4>1, <4>2
    <3>2. CASE request[c].server # p
      BY <1>1, <3>2 DEF RowsTyped
    <3> QED
      BY <3>1, <3>2
  <2>2. request' \in [Change -> RequestRow]
    BY <1>1, <2>1
  <2> QED
    BY <2>1, <2>2 DEF Committed, Logged, UnderWay, OfJobs
<1>4. restore' \in [Server -> RestoreRow] /\ restore'[p] = NoRestore /\ \A q \in Server \ {p} : restore'[q] = restore[q]
  BY <1>1, NoRestoreIsRow DEF RowsTyped
<1>5. RowsTyped' /\ TrailIsKept'
  BY <1>1, <1>3, <1>4 DEF RowsTyped, TrailIsKept
<1>6. BackupsFit'
  BY <1>1, <1>3, <1>4, NoRestoreIsRow DEF BackupsFit, HoldsCommitted
<1>7. TypeOK'
  BY <1>1, <1>3, <1>4, NoRestoreIsRow DEF TypeOK
<1>8. ASSUME ~unlocked PROVE \A q \in Server : Meanwhile(q)'
  <2>1. data \subseteq Committed
    BY DEF TypeOK
  <2>2. /\ UNCHANGED <<data, mode>> /\ restore'[p].at = "idle"
        /\ \A q \in Server \ {p} : restore'[q] = restore[q] /\ (lock = <<q, "restore">> => lock' = lock)
    BY <1>1, <1>4, NoRestoreIsRow
  <2> QED
    BY <1>3, <1>8, <2>1, <2>2 DEF RestoresApart, Meanwhile
<1> QED
  BY <1>1, <1>5, <1>6, <1>7, <1>8 DEF RestoresApart

(* ------------------------------------------------------------- theorems *)

LEMMA InitKeeps == Init => RestoreInv
<1> SUFFICES ASSUME Init PROVE RestoreInv
  OBVIOUS
<1>1. NoRequest \in RequestRow /\ NoRequest.at = "new"
  BY DEF NoRequest, RequestRow, Requests
<1>2. Committed = {} /\ Logged = {}
  BY <1>1 DEF Init, Committed, Logged
<1>3. RowsTyped
  BY <1>1, <1>2, NoRestoreIsRow DEF Init, RowsTyped
<1>4. TypeOK /\ TrailIsKept /\ BackupsFit /\ RestoresApart
  BY <1>2, NoRestoreIsRow DEF Init, TypeOK, TrailIsKept, BackupsFit, HoldsCommitted, RestoresApart, Meanwhile
<1> QED
  BY <1>3, <1>4 DEF RestoreInv

LEMMA NextKeeps == RestoreInv /\ [Next]_vars => RestoreInv'
<1> SUFFICES ASSUME RestoreInv, [Next]_vars PROVE RestoreInv'
  OBVIOUS
<1>1. CASE \E c \in Change :
              \/ \E p \in Server : Admit(c, p) \/ StartJob(c, p)
              \/ \E event \in {"logged", "unlogged", "silent"} : Commit(c, event)
              \/ Write(c) \/ Enqueue(c) \/ EnqueueFails(c) \/ RecordAudit(c)
  BY <1>1, AdmitKeeps, WriteKeeps, CommitKeeps, EnqueueKeeps, RecordAuditKeeps
<1>2. CASE SnapshotRead \/ SnapshotStore \/ Tick
  BY <1>2, SnapshotKeeps
<1>3. CASE \E p \in Server : (\E b \in backups : Begin(p, b)) \/ RestoreStep(p)
  BY <1>3, BeginKeeps, StartMaintenanceKeeps, ReadSafetyKeeps, StoreSafetyKeeps, ReplaceKeeps, EndingKeeps,
     ReleaseKeeps DEF RestoreStep
<1>4. CASE \E p \in Server : RecoveryStep(p) \/ Crash(p) \/ Start(p) \/ LoseLock(p)
  BY <1>4, RecoveryKeeps, CrashKeeps
<1>5. CASE UNCHANGED vars
  BY <1>5 DEF vars, trails, counts, RestoreInv, TypeOK, RowsTyped, BackupsFit, HoldsCommitted, TrailIsKept,
     RestoresApart, Meanwhile, Committed, Logged, UnderWay, OfJobs
<1> QED
  BY <1>1, <1>2, <1>3, <1>4, <1>5 DEF Next

(* ---------------------------------------------------------- a browser tab *)

Caller == Call \union {Bootstrap}
CallRow(n) == [at : {"unsent", "sent", "refused", "waiting", "queued", "settled"},
               token : 0..n, retried : BOOLEAN, on : Caller \union {Nobody}]
RefreshRow(n) == [at : {"none", "asked", "answered"}, cookie : 0..n, session : 0..n,
                  answer : {"none", "session", "refused", "limited", "lost"}]
VisitRow(n) == [kind : {"none", "login", "logout"}, at : {"none", "asked", "answered"}, session : 0..n]

ServerTyped ==
  /\ issued \in 0..MaxSession /\ expired \in 0..issued
  /\ sessions \subseteq 1..MaxSession /\ ended \subseteq 1..MaxSession
CallsTyped ==
  /\ call \in [Call -> CallRow(issued)] /\ refresh \in [Caller -> RefreshRow(issued)]
  /\ visit \in VisitRow(issued) /\ cookie \in 0..issued /\ token \in 0..issued
FlagsTyped ==
  /\ refreshRequest \in Caller \union {Nobody} /\ failedQueue \subseteq Call
  /\ isRefreshing \in BOOLEAN /\ cooldown \in BOOLEAN /\ disturbed \in BOOLEAN

(* One refresh at a time, whatever is queued behind it, which the call     *)
(* that asked for it awaits.                                               *)
OneRefresh ==
  /\ \A k \in Caller : refresh[k].at # "none" => refreshRequest = k
  /\ \A r \in Call : refreshRequest = r => call[r].at = "waiting"

Known == sessions \union ended
Answered(k, a) == refresh[k].at = "answered" /\ refresh[k].answer = a

(* What is handed out is numbered from 1.                                  *)
TokensNumbered ==
  /\ token # 0 => cookie # 0
  /\ \A k \in Caller : Answered(k, "session") => refresh[k].session # 0
  /\ visit.kind = "login" /\ visit.at = "answered" => visit.session # 0

(* In a tab that is not disturbed, a refresh is under way with the cookie  *)
(* of the tab, whose session is known: it lives, was ended, or was replaced*)
(* by the one in the answer.                                               *)
CookieIsKnown ==
  /\ \A k \in Caller : refresh[k].at # "none" =>
       /\ visit = B!NoVisit
       /\ refresh[k].at = "asked" => refresh[k].cookie = cookie
       /\ refresh[k].at = "answered" => refresh[k].answer \notin {"lost", "none"}
       /\ Answered(k, "refused") => cookie = 0 \/ cookie \in ended
       /\ Answered(k, "session") => refresh[k].session \in Known
  /\ cookie = 0 \/ cookie \in Known \/ \E k \in Caller : Answered(k, "session")
  /\ visit.kind = "login" /\ visit.at = "answered" => visit.session \in Known
TabInv ==
  /\ ServerTyped /\ CallsTyped /\ FlagsTyped
  /\ OneRefresh /\ TokensNumbered /\ (~disturbed => CookieIsKnown)

LEMMA TabConstants ==
  /\ MaxSession \in Nat \ {0} /\ Nobody \notin Caller /\ Bootstrap \notin Call
  /\ B!Caller = Caller /\ B!Session = 1..MaxSession
<1>1. B!BrowserAssumption
  BY UpkeepAssumption
<1> QED
  BY <1>1 DEF B!BrowserAssumption, B!Caller, Caller, B!Session

LEMMA TypedTab == B!TypeOK <=> ServerTyped /\ CallsTyped /\ FlagsTyped
  BY TabConstants DEF B!TypeOK, ServerTyped, CallsTyped, FlagsTyped, CallRow, RefreshRow, VisitRow

LEMMA RowsGrow ==
  ASSUME NEW n \in Nat, NEW m \in Nat, n <= m
  PROVE  CallRow(n) \subseteq CallRow(m) /\ RefreshRow(n) \subseteq RefreshRow(m) /\ VisitRow(n) \subseteq VisitRow(m)
<1>1. 0..n \subseteq 0..m
  OBVIOUS
<1> QED
  BY <1>1 DEF CallRow, RefreshRow, VisitRow

LEMMA FirstRows ==
  ASSUME NEW n \in Nat
  PROVE  /\ B!Unsent \in CallRow(n) /\ B!Settled \in CallRow(n)
         /\ \A q \in CallRow(n), t \in 0..n : B!Sent(q, t) \in CallRow(n)
         /\ B!NoRefresh \in RefreshRow(n) /\ B!NoRefresh.at = "none"
         /\ \A c \in 0..n : B!Asked(c) \in RefreshRow(n) /\ B!Asked(c).at = "asked" /\ B!Asked(c).cookie = c
         /\ B!NoVisit \in VisitRow(n) /\ B!NoVisit.kind = "none"
<1>1. 0 \in 0..n
  OBVIOUS
<1> QED
  BY <1>1 DEF B!Unsent, B!Settled, B!Sent, B!NoRefresh, B!Asked, B!NoVisit, CallRow, RefreshRow, VisitRow

LEMMA TabNumbers ==
  ASSUME TabInv
  PROVE  issued \in Nat /\ issued <= MaxSession /\ expired \in Nat /\ expired <= issued /\ cookie \in Nat /\ token \in Nat
  BY TabConstants DEF TabInv, ServerTyped, CallsTyped

(* Only calls change.                                                      *)
LEMMA CallsMove ==
  ASSUME TabInv, call' \in [Call -> CallRow(issued)],
         UNCHANGED <<issued, sessions, expired, ended, cookie, token, refresh, visit, refreshRequest, disturbed>>,
         failedQueue' \subseteq Call, isRefreshing' \in BOOLEAN, cooldown' \in BOOLEAN,
         \A r \in Call : call[r].at = "waiting" => call'[r].at = "waiting"
  PROVE  TabInv'
  BY DEF TabInv, ServerTyped, CallsTyped, FlagsTyped, OneRefresh, TokensNumbered, CookieIsKnown, Known, Answered

LEMMA CallKeeps == ASSUME TabInv, NEW r \in Call, B!Send(r) \/ B!Check(r) PROVE TabInv'
<1> USE DEF B!server, B!browser, B!tab, B!history
<1>1. issued \in Nat /\ call \in [Call -> CallRow(issued)] /\ token \in 0..issued /\ call[r] \in CallRow(issued)
  BY TabNumbers DEF TabInv, CallsTyped
<1>2. /\ B!Sent(call[r], token) \in CallRow(issued) /\ B!Settled \in CallRow(issued)
      /\ [call[r] EXCEPT !.at = "refused", !.token = 0] \in CallRow(issued)
  <2>1. 0 \in 0..issued
    BY <1>1
  <2> QED
    BY <1>1, <2>1, FirstRows DEF CallRow
<1>3. call' \in [Call -> CallRow(issued)]
  BY <1>1, <1>2 DEF B!Send, B!Check
<1>4. \A x \in Call : call[x].at = "waiting" => call'[x].at = "waiting"
  BY <1>1 DEF B!Send, B!Check
<1> QED
  BY <1>3, <1>4, CallsMove DEF B!Send, B!Check, TabInv, FlagsTyped

LEMMA RefusedKeeps == ASSUME TabInv, NEW r \in Call, B!Refused(r) PROVE TabInv'
<1> USE DEF B!server, B!browser, B!tab, B!history
<1>1. /\ issued \in Nat /\ call \in [Call -> CallRow(issued)] /\ cookie \in 0..issued /\ call[r] \in CallRow(issued)
      /\ refresh \in [Caller -> RefreshRow(issued)] /\ r \in Caller /\ refreshRequest \in Caller \union {Nobody}
      /\ disturbed \in BOOLEAN
  BY TabNumbers DEF TabInv, CallsTyped, Caller, FlagsTyped
<1>2. UNCHANGED <<issued, sessions, expired, ended, cookie, token, visit>> /\ call[r].at = "refused"
  BY DEF B!Refused
<1>3. ASSUME UNCHANGED <<refresh, refreshRequest, disturbed>>,
             call' = [call EXCEPT ![r] = B!Settled] \/ call' = [call EXCEPT ![r].at = "queued"],
             failedQueue' \subseteq Call, isRefreshing' \in BOOLEAN, cooldown' \in BOOLEAN
      PROVE  TabInv'
  <2>1. [call[r] EXCEPT !.at = "queued"] \in CallRow(issued) /\ B!Settled \in CallRow(issued)
    BY <1>1, FirstRows DEF CallRow
  <2>2. call' \in [Call -> CallRow(issued)]
    BY <1>1, <1>3, <2>1
  <2>3. \A x \in Call : call[x].at = "waiting" => call'[x].at = "waiting"
    BY <1>1, <1>2, <1>3
  <2> QED
    BY <1>2, <1>3, <2>2, <2>3, CallsMove
<1>4. ASSUME NEW k, k = B!SharedRefresh(r),
             call' = [call EXCEPT ![r].at = "waiting", ![r].retried = TRUE, ![r].on = k],
             refresh' = IF k = r THEN [refresh EXCEPT ![r] = B!Asked(cookie)] ELSE refresh,
             refreshRequest' = k, disturbed' = (disturbed \/ (k = r /\ visit # B!NoVisit)),
             isRefreshing' = TRUE, UNCHANGED <<failedQueue, cooldown>>
      PROVE  TabInv'
  <2>1. k \in Caller /\ ((k # r /\ k = refreshRequest) \/ (k = r /\ refreshRequest = Nobody))
    <3>1. refreshRequest # r
      BY <1>2 DEF TabInv, OneRefresh
    <3>2. r \in Caller /\ refreshRequest \in Caller \union {Nobody}
      BY <1>1
    <3>3. k = IF refreshRequest # Nobody THEN refreshRequest ELSE r
      BY <1>4 DEF B!SharedRefresh
    <3> QED
      BY ONLY <3>1, <3>2, <3>3
  <2>2. [call[r] EXCEPT !.at = "waiting", !.retried = TRUE, !.on = k] \in CallRow(issued)
    BY <1>1, <2>1 DEF CallRow
  <2>3. call' \in [Call -> CallRow(issued)]
    BY <1>1, <1>4, <2>2
  <2>4. CASE k # r
    <3>1. UNCHANGED <<refresh, refreshRequest>> /\ disturbed' = disturbed
      BY <1>1, <1>4, <2>1, <2>4
    <3>2. \A x \in Call : call[x].at = "waiting" => call'[x].at = "waiting"
      BY <1>1, <1>2, <1>4
    <3> QED
      BY <1>2, <1>4, <2>3, <3>1, <3>2, CallsMove DEF TabInv, FlagsTyped
  <2>5. CASE k = r
    <3>1. \A x \in Caller : refresh[x].at = "none"
      BY <2>1, <2>5, TabConstants DEF TabInv, OneRefresh
    <3>2. B!Asked(cookie) \in RefreshRow(issued) /\ B!Asked(cookie).at = "asked" /\ B!Asked(cookie).cookie = cookie
      BY <1>1, FirstRows
    <3>3. \A x \in Caller : refresh'[x] = IF x = r THEN B!Asked(cookie) ELSE refresh[x]
      BY <1>1, <1>4, <2>5
    <3>4. ServerTyped' /\ CallsTyped' /\ FlagsTyped'
      BY <1>1, <1>2, <1>4, <2>1, <2>3, <2>5, <3>2 DEF TabInv, ServerTyped, CallsTyped, FlagsTyped
    <3>5. OneRefresh'
      BY <1>1, <1>4, <2>5, <3>1, <3>3 DEF OneRefresh
    <3>6. TokensNumbered'
      BY <1>2, <3>2, <3>3 DEF TabInv, TokensNumbered, Answered
    <3>7. ASSUME ~disturbed' PROVE CookieIsKnown'
      <4>1. ~disturbed /\ visit = B!NoVisit /\ CookieIsKnown
        BY <1>1, <1>4, <2>5, <3>7 DEF TabInv
      <4>2. cookie = 0 \/ cookie \in Known
        BY <3>1, <4>1 DEF CookieIsKnown, Answered
      <4> QED
        BY <1>2, <3>1, <3>2, <3>3, <4>1, <4>2 DEF CookieIsKnown, Answered, Known
    <3> QED
      BY <3>4, <3>5, <3>6, <3>7 DEF TabInv
  <2> QED
    BY <2>4, <2>5
<1> QED
  BY <1>1, <1>3, <1>4 DEF B!Refused, TabInv, FlagsTyped

(* Answers to refreshes.                                                   *)
LEMMA RefreshKeeps == ASSUME TabInv, NEW k \in Caller, B!Refresh(k) PROVE TabInv'
<1> USE DEF B!server, B!browser, B!tab, B!history
<1>1. /\ issued \in Nat /\ issued <= MaxSession /\ MaxSession \in Nat /\ refresh \in [Caller -> RefreshRow(issued)]
      /\ refresh[k].cookie \in 0..issued /\ disturbed \in BOOLEAN /\ expired \in 0..issued
  BY TabNumbers, TabConstants DEF TabInv, CallsTyped, RefreshRow, FlagsTyped, ServerTyped
<1>2. /\ UNCHANGED <<expired, cookie, token, call, visit, ended, refreshRequest, isRefreshing, failedQueue, cooldown>>
      /\ refresh[k].at = "asked"
  BY DEF B!Refresh
<1>3. PICK a \in {"session", "refused", "limited", "lost"}, n \in 0..issued' :
        /\ refresh' = [refresh EXCEPT ![k].at = "answered", ![k].answer = a, ![k].session = n]
        /\ \/ /\ issued' = issued /\ sessions' = sessions /\ n = 0 /\ a # "session"
              /\ \/ a = "limited" /\ disturbed' = disturbed
                 \/ a = "refused" /\ refresh[k].cookie \notin sessions /\ disturbed' = disturbed
                 \/ disturbed' = TRUE
           \/ /\ issued' = issued + 1 /\ issued < MaxSession /\ sessions' = (sessions \ {refresh[k].cookie}) \union {issued + 1}
              /\ \/ a = "session" /\ n = issued + 1 /\ disturbed' = disturbed
                 \/ a # "session" /\ disturbed' = TRUE
  <2>1. 0 \in 0..issued /\ 0 \in 0..(issued + 1) /\ issued + 1 \in 0..(issued + 1)
    BY <1>1
  <2> QED
    BY <2>1 DEF B!Refresh
<1>4. issued' \in Nat /\ issued <= issued' /\ issued' <= MaxSession
  BY <1>1, <1>3
<1>5. CallRow(issued) \subseteq CallRow(issued') /\ RefreshRow(issued) \subseteq RefreshRow(issued')
      /\ VisitRow(issued) \subseteq VisitRow(issued') /\ 0..issued \subseteq 0..issued'
  BY <1>1, <1>4, RowsGrow
<1> DEFINE m == [refresh[k] EXCEPT !.at = "answered", !.answer = a, !.session = n]
<1>6. m \in RefreshRow(issued') /\ m.at = "answered" /\ m.answer = a /\ m.session = n
  BY <1>1, <1>3, <1>5 DEF RefreshRow
<1>7. refresh' = [refresh EXCEPT ![k] = m]
  BY <1>3
<1> HIDE DEF m
<1>8. \A x \in Caller : refresh'[x] = IF x = k THEN m ELSE refresh[x]
  BY <1>1, <1>7
<1>9. ServerTyped'
  <2>1. sessions' \subseteq 1..MaxSession
    BY <1>1, <1>3, <1>4 DEF TabInv, ServerTyped
  <2> QED
    BY <1>1, <1>2, <1>4, <1>5, <2>1 DEF TabInv, ServerTyped
<1>10. CallsTyped'
  BY <1>1, <1>2, <1>5, <1>6, <1>7 DEF TabInv, CallsTyped
<1>11. FlagsTyped' /\ disturbed' \in BOOLEAN /\ (~disturbed' => ~disturbed)
  BY <1>1, <1>2, <1>3 DEF TabInv, FlagsTyped
<1>12. \A x \in Caller : x # k => refresh[x].at = "none"
  BY <1>2 DEF TabInv, OneRefresh
<1>13. OneRefresh'
  BY <1>2, <1>8, <1>12 DEF TabInv, OneRefresh
<1>14. TokensNumbered'
  BY <1>1, <1>2, <1>3, <1>6, <1>8, <1>12 DEF TabInv, TokensNumbered, Answered
<1>15. ASSUME ~disturbed' PROVE CookieIsKnown'
  <2>1. CookieIsKnown /\ visit = B!NoVisit /\ refresh[k].cookie = cookie
    BY <1>2, <1>11, <1>15 DEF TabInv, CookieIsKnown
  <2>2. cookie = 0 \/ cookie \in Known
    BY <1>2, <1>12, <2>1 DEF CookieIsKnown, Answered
  <2>3. visit'.kind # "login"
    BY <1>2, <2>1 DEF B!NoVisit
  <2>4. CASE a = "session"
    <3>1. n \in sessions'
      BY <1>3, <1>15, <2>4
    <3> QED
      BY <1>2, <1>6, <1>8, <1>12, <2>1, <2>3, <2>4, <3>1 DEF CookieIsKnown, Answered, Known
  <2>5. CASE a # "session"
    <3>1. UNCHANGED sessions /\ a # "lost" /\ (a = "refused" => cookie \notin sessions)
      BY <1>3, <1>15, <2>1, <2>5
    <3> QED
      BY <1>2, <1>6, <1>8, <1>12, <2>1, <2>2, <2>3, <2>5, <3>1 DEF CookieIsKnown, Answered, Known
  <2> QED
    BY <2>4, <2>5
<1> QED
  BY <1>9, <1>10, <1>11, <1>13, <1>14, <1>15 DEF TabInv

LEMMA ArrivalKeeps == ASSUME TabInv, NEW k \in Caller, B!RefreshArrives(k) PROVE TabInv'
<1> USE DEF B!server, B!browser, B!tab, B!history
<1>1. /\ issued \in Nat /\ refresh \in [Caller -> RefreshRow(issued)] /\ call \in [Call -> CallRow(issued)]
      /\ refresh[k].session \in 0..issued /\ token \in 0..issued /\ cookie \in 0..issued /\ 0 \in 0..issued
      /\ refresh[k].answer \in {"none", "session", "refused", "limited", "lost"}
      /\ failedQueue \subseteq Call /\ isRefreshing \in BOOLEAN /\ cooldown \in BOOLEAN
  BY TabNumbers DEF TabInv, CallsTyped, RefreshRow, FlagsTyped
<1>2. /\ UNCHANGED <<issued, sessions, expired, visit, ended, disturbed>>
      /\ refresh[k].at = "answered" /\ refreshRequest' = Nobody
      /\ refresh' = [refresh EXCEPT ![k] = B!NoRefresh]
  BY DEF B!RefreshArrives
<1>3. B!NoRefresh \in RefreshRow(issued) /\ B!NoRefresh.at = "none" /\ B!Settled \in CallRow(issued)
      /\ \A r \in Call : B!Sent(call[r], refresh[k].session) \in CallRow(issued)
  BY <1>1, FirstRows
<1>4. \A x \in Caller : refresh'[x].at = "none"
  BY <1>1, <1>2, <1>3 DEF TabInv, OneRefresh
<1>5. /\ \/ refresh[k].answer = "session" /\ token' = refresh[k].session /\ cookie' = refresh[k].session
         \/ refresh[k].answer = "limited" /\ token' = token /\ cookie' = cookie
         \/ refresh[k].answer = "refused" /\ token' = 0 /\ cookie' = 0
         \/ refresh[k].answer \in {"lost", "none"} /\ token' = 0 /\ cookie' = cookie
  BY <1>1 DEF B!RefreshArrives
<1>6. ServerTyped'
  BY <1>2 DEF TabInv, ServerTyped
<1>7. CallsTyped'
  <2>1. call' \in [Call -> CallRow(issued)]
    BY <1>1, <1>3 DEF B!RefreshArrives
  <2>2. token' \in 0..issued /\ cookie' \in 0..issued
    BY <1>1, <1>5
  <2> QED
    BY <1>1, <1>2, <1>3, <2>1, <2>2 DEF TabInv, CallsTyped
<1>8. FlagsTyped'
  <2>1. failedQueue' \subseteq Call /\ isRefreshing' \in BOOLEAN
    BY <1>1 DEF B!RefreshArrives
  <2>2. cooldown' \in BOOLEAN
    BY <1>1 DEF B!RefreshArrives
  <2> QED
    BY <1>2, <2>1, <2>2 DEF TabInv, FlagsTyped
<1>9. OneRefresh'
  BY <1>2, <1>4, TabConstants DEF OneRefresh, Caller
<1>10. TokensNumbered'
  BY <1>2, <1>4, <1>5 DEF TabInv, TokensNumbered, Answered
<1>11. ASSUME ~disturbed' PROVE CookieIsKnown'
  <2>1. CookieIsKnown /\ \A x \in Caller : x # k => refresh[x].at = "none"
    BY <1>2, <1>11 DEF TabInv, OneRefresh
  <2>2. cookie' = 0 \/ cookie' \in Known
    BY <1>2, <1>5, <2>1 DEF CookieIsKnown, Answered
  <2> QED
    BY <1>2, <1>4, <2>1, <2>2 DEF CookieIsKnown, Answered, Known
<1> QED
  BY <1>2, <1>6, <1>7, <1>8, <1>9, <1>10, <1>11 DEF TabInv

(* Signing in and out.                                                     *)
LEMMA VisitMoves ==
  ASSUME TabInv, UNCHANGED <<expired, call, refresh, refreshRequest, isRefreshing, failedQueue, cooldown>>,
         issued' \in Nat, issued <= issued', issued' <= MaxSession,
         sessions' \subseteq 1..MaxSession, ended' \subseteq 1..MaxSession,
         visit' \in VisitRow(issued'), cookie' \in 0..issued', token' \in 0..issued', disturbed' \in BOOLEAN
  PROVE  ServerTyped' /\ CallsTyped' /\ FlagsTyped' /\ OneRefresh'
<1>1. issued \in Nat /\ CallRow(issued) \subseteq CallRow(issued') /\ RefreshRow(issued) \subseteq RefreshRow(issued')
  BY TabNumbers, RowsGrow
<1>2. issued' \in 0..MaxSession /\ expired' \in 0..issued'
  BY TabNumbers, TabConstants DEF TabInv, ServerTyped
<1> QED
  BY <1>1, <1>2 DEF TabInv, ServerTyped, CallsTyped, FlagsTyped, OneRefresh

LEMMA VisitKeeps ==
  ASSUME TabInv, B!Login \/ B!Logout \/ B!Visit \/ B!VisitArrives \/ B!VisitFails PROVE TabInv'
<1> USE DEF B!server, B!browser, B!tab, B!history
<1>t. /\ issued \in Nat /\ issued <= MaxSession /\ MaxSession \in Nat /\ token \in 0..issued /\ cookie \in 0..issued
      /\ visit \in VisitRow(issued) /\ visit.session \in 0..issued /\ disturbed \in BOOLEAN /\ 0 \in 0..issued
      /\ sessions \subseteq 1..MaxSession /\ ended \subseteq 1..MaxSession
  BY TabNumbers, TabConstants DEF TabInv, ServerTyped, CallsTyped, FlagsTyped, VisitRow
<1>n. B!NoVisit \in VisitRow(issued) /\ B!NoVisit.kind = "none"
  BY <1>t, FirstRows
<1>1. ASSUME NEW kind \in {"login", "logout"}, NEW s \in 0..issued, visit = B!NoVisit,
             visit' = [kind |-> kind, at |-> "asked", session |-> s],
             disturbed' = (disturbed \/ B!RefreshUnderWay),
             UNCHANGED <<issued, sessions, expired, ended, cookie, token, call, refresh, refreshRequest,
                         isRefreshing, failedQueue, cooldown>>
      PROVE  TabInv'
  <2>1. visit' \in VisitRow(issued) /\ visit'.at = "asked"
    BY <1>1 DEF VisitRow
  <2>2. ServerTyped' /\ CallsTyped' /\ FlagsTyped' /\ OneRefresh'
    BY <1>1, <1>t, <2>1, VisitMoves
  <2>3. TokensNumbered'
    BY <1>1, <2>1 DEF TabInv, TokensNumbered, Answered
  <2>4. ASSUME ~disturbed' PROVE CookieIsKnown'
    <3>1. CookieIsKnown /\ \A k \in Caller : refresh[k].at = "none"
      BY <1>1, <1>t, <2>4, TabConstants DEF TabInv, B!RefreshUnderWay
    <3> QED
      BY <1>1, <2>1, <3>1 DEF CookieIsKnown, Answered, Known
  <2> QED
    BY <2>2, <2>3, <2>4 DEF TabInv
<1>2. ASSUME B!Login \/ B!Logout PROVE TabInv'
  BY <1>1, <1>2, <1>t DEF B!Login, B!Logout
<1>3. ASSUME B!Visit PROVE TabInv'
  <2>1. /\ visit.at = "asked" /\ visit # B!NoVisit
        /\ UNCHANGED <<expired, cookie, token, call, refresh, refreshRequest, isRefreshing, failedQueue, cooldown,
                       disturbed>>
    BY <1>3 DEF B!Visit, B!NoVisit
  <2>2. ASSUME ~disturbed PROVE CookieIsKnown /\ \A k \in Caller : refresh[k].at = "none"
    BY <2>1, <2>2 DEF TabInv, CookieIsKnown
  <2>3. CASE visit.kind = "login"
    <3> DEFINE v == [visit EXCEPT !.at = "answered", !.session = issued + 1]
    <3>1. /\ issued' = issued + 1 /\ issued < MaxSession /\ sessions' = sessions \union {issued + 1} /\ ended' = ended
          /\ visit' = v
      BY <1>3, <2>3 DEF B!Visit
    <3>2. issued' \in Nat /\ issued <= issued' /\ issued' <= MaxSession /\ 0..issued \subseteq 0..issued'
          /\ issued' \in 1..MaxSession /\ issued + 1 \in 0..issued'
      BY <1>t, <3>1
    <3>3. v \in VisitRow(issued') /\ v.session = issued' /\ v.kind = "login"
      BY <1>t, <2>3, <3>1, <3>2 DEF VisitRow
    <3> HIDE DEF v
    <3>4. ServerTyped' /\ CallsTyped' /\ FlagsTyped' /\ OneRefresh'
      BY <1>t, <2>1, <3>1, <3>2, <3>3, VisitMoves
    <3>5. TokensNumbered'
      BY <2>1, <3>1, <3>2, <3>3 DEF TabInv, TokensNumbered, Answered
    <3>6. ASSUME ~disturbed' PROVE CookieIsKnown'
      BY <2>1, <2>2, <3>1, <3>3, <3>6 DEF CookieIsKnown, Answered, Known
    <3> QED
      BY <3>4, <3>5, <3>6 DEF TabInv
  <2>4. CASE visit.kind # "login"
    <3> DEFINE v == [visit EXCEPT !.at = "answered"]
    <3>1. /\ issued' = issued /\ sessions' = sessions \ {visit.session} /\ ended' = ended \union ({visit.session} \ {0})
          /\ visit' = v
      BY <1>3, <2>4 DEF B!Visit
    <3>2. v \in VisitRow(issued) /\ v.kind = visit.kind
      BY <1>t DEF VisitRow
    <3> HIDE DEF v
    <3>3. sessions' \subseteq 1..MaxSession /\ ended' \subseteq 1..MaxSession
      <4>1. visit.session = 0 \/ visit.session \in 1..MaxSession
        BY <1>t
      <4> QED
        BY <1>t, <3>1, <4>1
    <3>4. ServerTyped' /\ CallsTyped' /\ FlagsTyped' /\ OneRefresh'
      BY <1>t, <2>1, <3>1, <3>2, <3>3, VisitMoves
    <3>5. TokensNumbered'
      BY <2>1, <2>4, <3>1, <3>2 DEF TabInv, TokensNumbered, Answered
    <3>6. ASSUME ~disturbed' PROVE CookieIsKnown'
      BY <2>1, <2>2, <2>4, <3>1, <3>2, <3>6 DEF CookieIsKnown, Answered, Known
    <3> QED
      BY <3>4, <3>5, <3>6 DEF TabInv
  <2> QED
    BY <2>3, <2>4
<1>4. ASSUME B!VisitArrives \/ B!VisitFails PROVE TabInv'
  <2>1. /\ visit # B!NoVisit /\ visit' = B!NoVisit
        /\ UNCHANGED <<issued, sessions, expired, ended, call, refresh, refreshRequest, isRefreshing, failedQueue,
                       cooldown, disturbed>>
        /\ \/ visit.at = "answered" /\ visit.kind = "login" /\ cookie' = visit.session /\ token' = visit.session
           \/ cookie' = 0 /\ token' = 0
           \/ cookie' = cookie /\ token' \in {0, token}
    BY <1>4 DEF B!VisitArrives, B!VisitFails, B!NoVisit
  <2>2. cookie' \in 0..issued /\ token' \in 0..issued
    BY <1>t, <2>1
  <2>3. ServerTyped' /\ CallsTyped' /\ FlagsTyped' /\ OneRefresh'
    BY <1>t, <1>n, <2>1, <2>2, VisitMoves
  <2>4. TokensNumbered'
    BY <1>n, <2>1 DEF TabInv, TokensNumbered, Answered
  <2>5. ASSUME ~disturbed' PROVE CookieIsKnown'
    <3>1. CookieIsKnown /\ \A k \in Caller : refresh[k].at = "none"
      BY <2>1, <2>5 DEF TabInv, CookieIsKnown
    <3> QED
      BY <1>n, <2>1, <3>1 DEF CookieIsKnown, Answered, Known
  <2> QED
    BY <2>3, <2>4, <2>5 DEF TabInv
<1> QED
  BY <1>2, <1>3, <1>4

LEMMA EndsKeep == ASSUME TabInv, B!CooldownEnds \/ B!TokensExpire \/ B!Revoke PROVE TabInv'
<1> USE DEF B!server, B!browser, B!tab, B!history
<1>1. ASSUME B!CooldownEnds PROVE TabInv'
  BY <1>1, CallsMove DEF B!CooldownEnds, TabInv, CallsTyped, FlagsTyped
<1>2. ASSUME B!TokensExpire \/ B!Revoke PROVE TabInv'
  <2>1. /\ UNCHANGED <<issued, cookie, token, call, refresh, refreshRequest, isRefreshing, failedQueue, cooldown, visit,
                       disturbed>>
        /\ expired' \in 0..issued
        /\ UNCHANGED <<sessions, ended>> \/ (sessions' = {} /\ ended' = ended \union sessions)
    <3>1. issued \in Nat /\ expired \in Nat /\ expired <= issued
      BY TabNumbers
    <3>2. ASSUME B!TokensExpire PROVE expired' \in 0..issued
      BY <3>1, <3>2 DEF B!TokensExpire
    <3>3. ASSUME B!Revoke PROVE expired' \in 0..issued
      BY <3>1, <3>3 DEF B!Revoke
    <3> QED
      BY <1>2, <3>2, <3>3 DEF B!TokensExpire, B!Revoke
  <2>2. Known' = Known /\ ended \subseteq ended'
    BY <2>1 DEF Known
  <2> QED
    BY <2>1, <2>2 DEF TabInv, ServerTyped, CallsTyped, FlagsTyped, OneRefresh, TokensNumbered, CookieIsKnown, Answered
<1> QED
  BY <1>1, <1>2

LEMMA TabStepKeeps == ASSUME TabInv, [B!Next]_tab PROVE TabInv'
<1>1. ASSUME UNCHANGED tab PROVE TabInv'
  BY <1>1 DEF tab, TabInv, ServerTyped, CallsTyped, FlagsTyped, OneRefresh, TokensNumbered, CookieIsKnown, Answered,
              Known
<1> QED
  BY <1>1, CallKeeps, RefusedKeeps, RefreshKeeps, ArrivalKeeps, VisitKeeps, EndsKeep, TabConstants
     DEF B!Next, B!CallStep, B!RefreshStep

LEMMA TabInit == ASSUME B!Init PROVE TabInv
<1>1. /\ issued \in 0..1 /\ expired = issued /\ cookie = issued /\ token = 0
      /\ sessions \in SUBSET (1..issued) /\ ended = (1..issued) \ sessions
      /\ call = [r \in Call |-> B!Unsent]
      /\ refresh = [k \in Caller |-> IF k = Bootstrap THEN B!Asked(cookie) ELSE B!NoRefresh]
      /\ refreshRequest = Bootstrap /\ isRefreshing = FALSE /\ failedQueue = {} /\ cooldown = FALSE
      /\ visit = B!NoVisit /\ disturbed = FALSE
  BY TabConstants DEF B!Init
<1>2. issued \in Nat /\ issued \in 0..MaxSession /\ 0 \in 0..issued /\ cookie \in 0..issued
      /\ 1..issued \subseteq 1..MaxSession
  BY <1>1, TabConstants
<1>3. /\ B!Unsent \in CallRow(issued) /\ B!NoRefresh \in RefreshRow(issued) /\ B!NoRefresh.at = "none"
      /\ B!Asked(cookie) \in RefreshRow(issued) /\ B!Asked(cookie).at = "asked" /\ B!Asked(cookie).cookie = cookie
      /\ B!NoVisit \in VisitRow(issued) /\ B!NoVisit.kind = "none"
  BY <1>2, FirstRows
<1>4. ServerTyped /\ CallsTyped /\ FlagsTyped
  BY <1>1, <1>2, <1>3 DEF ServerTyped, CallsTyped, FlagsTyped, Caller
<1>5. OneRefresh /\ TokensNumbered
  BY <1>1, <1>3, TabConstants DEF OneRefresh, TokensNumbered, Answered
<1>6. cookie = 0 \/ cookie \in Known
  BY <1>1 DEF Known
<1>7. CookieIsKnown
  BY <1>1, <1>3, <1>6 DEF CookieIsKnown, Answered
<1> QED
  BY <1>4, <1>5, <1>7 DEF TabInv

(* Only the answer to a refresh signs a tab out by itself.                 *)
LEMMA StaysSignedIn ==
  ASSUME TabInv, B!Next, token # 0, token' = 0, ~disturbed, visit.kind # "logout" PROVE cookie \in ended
<1> USE DEF B!server, B!browser, B!tab, B!history
<1>1. TokensNumbered /\ CookieIsKnown
  BY DEF TabInv
<1>2. PICK k \in Caller : B!RefreshArrives(k)
  <2>1. /\ \A r \in Call : B!Send(r) \/ B!Check(r) \/ B!Refused(r) => token' = token
        /\ \A k \in Caller : B!Refresh(k) => token' = token
        /\ B!CooldownEnds \/ B!Login \/ B!Logout \/ B!Visit \/ B!TokensExpire \/ B!Revoke => token' = token
    BY DEF B!Send, B!Check, B!Refused, B!Refresh, B!CooldownEnds, B!Login, B!Logout, B!Visit, B!TokensExpire, B!Revoke
  <2>2. ~B!VisitFails
    BY DEF B!VisitFails
  <2>3. ~B!VisitArrives
    BY <1>1 DEF B!VisitArrives, TokensNumbered
  <2> QED
    BY <2>1, <2>2, <2>3, TabConstants DEF B!Next, B!CallStep, B!RefreshStep
<1>3. refresh[k].at = "answered" /\ refresh[k].answer \in {"none", "session", "refused", "limited", "lost"}
  BY <1>2 DEF B!RefreshArrives, TabInv, CallsTyped, RefreshRow
<1>4. refresh[k].answer = "refused"
  BY <1>1, <1>2, <1>3 DEF B!RefreshArrives, TokensNumbered, CookieIsKnown, Answered
<1> QED
  BY <1>1, <1>3, <1>4 DEF TokensNumbered, CookieIsKnown, Answered

(* -------------------------------------------------- the sockets of a tab *)

MessageRow(v) == [kind : {"created", "audience_changed", "open", "bootstrap", "close"}, notice : SUBSET Notice, asOf : 0..v]
SocketStages == {"none", "connecting", "checking", "checked", "counting", "ready", "closed"}
SocketRow(v, n) == [stage : SocketStages, token : 0..n, mail : Seq(MessageRow(v))]
Row(v) == [notice : Notice, asOf : 0..v]
Lists(v) == {list \in Seq(Row(v)) : Len(list) <= Limit}
AskRow(v) == [at : {"none", "sent", "answered"}, items : Lists(v), asOf : 0..v]
PageRow(v, n) == [token : 0..n, socket : Socket \union {NoSocket}, list : Lists(v)]

LEMMA SeqGrows == ASSUME NEW S, NEW T, S \subseteq T PROVE Seq(S) \subseteq Seq(T)
  OBVIOUS


InboxTyped ==
  /\ version \in Nat /\ minted \in Nat /\ outdated \in 0..minted /\ needed \in 0..version
  /\ session \in BOOLEAN
  /\ current \subseteq Row(version) /\ pushing \subseteq MessageRow(version)
  /\ socket \in [Socket -> SocketRow(version, minted)]
  /\ page \in PageRow(version, minted)
  /\ ask \in [Ask -> AskRow(version)]

(* Only the connection of the tab is anything but closing.                 *)
OneConnection == \A k \in Socket : socket[k].stage \notin {"none", "closed"} => page.socket = k
InboxInv == InboxTyped /\ OneConnection

LEMMA TypedInbox == InboxInv => I!TypeOK
<1> SUFFICES ASSUME InboxInv PROVE I!TypeOK
  OBVIOUS
<1>1. page \in PageRow(version, minted) /\ version \in Nat /\ minted \in Nat /\ outdated \in 0..minted
      /\ needed \in 0..version /\ current \subseteq Row(version) /\ ask \in [Ask -> AskRow(version)]
  BY DEF InboxInv, InboxTyped
<1>2. /\ Len(page.list) <= Limit /\ page.token <= minted /\ page.socket \in Socket \union {NoSocket}
      /\ \A row \in current : row.notice \in Notice /\ row.asOf <= version
  BY <1>1 DEF PageRow, Row, Lists
<1>3. \A a \in Ask : ask[a].at \in {"none", "sent", "answered"}
  BY <1>1 DEF AskRow
<1>4. needed <= version /\ outdated <= minted
  BY <1>1
<1> QED
  BY <1>1, <1>2, <1>3, <1>4 DEF I!TypeOK, InboxInv, OneConnection

LEMMA LimitIs == Limit \in Nat \ {0}
  BY UpkeepAssumption DEF I!InboxAssumption

LEMMA NoSocketIsNone == NoSocket \notin Socket
  BY UpkeepAssumption DEF I!InboxAssumption

LEMMA InboxRowsGrow ==
  ASSUME NEW v \in Nat, NEW w \in Nat, NEW n \in Nat, NEW m \in Nat, v <= w, n <= m
  PROVE  /\ MessageRow(v) \subseteq MessageRow(w) /\ SocketRow(v, n) \subseteq SocketRow(w, m)
         /\ AskRow(v) \subseteq AskRow(w) /\ PageRow(v, n) \subseteq PageRow(w, m) /\ Row(v) \subseteq Row(w)
<1>1. 0..v \subseteq 0..w /\ 0..n \subseteq 0..m
  OBVIOUS
<1>2. MessageRow(v) \subseteq MessageRow(w)
  BY <1>1 DEF MessageRow
<1>3. Seq(MessageRow(v)) \subseteq Seq(MessageRow(w))
  BY <1>2, SeqGrows
<1>4. Row(v) \subseteq Row(w)
  BY <1>1 DEF Row
<1>5. Lists(v) \subseteq Lists(w)
  BY <1>4, SeqGrows DEF Lists
<1> QED
  BY <1>1, <1>2, <1>3, <1>4, <1>5 DEF SocketRow, AskRow, PageRow

LEMMA SignalIsMessage ==
  ASSUME NEW v \in Nat, NEW kind \in {"created", "audience_changed", "open", "bootstrap", "close"}
  PROVE  I!Signal(kind) \in MessageRow(v) /\ I!Signal(kind).kind = kind
<1>1. 0 \in 0..v
  OBVIOUS
<1> QED
  BY <1>1 DEF I!Signal, I!Message, MessageRow

LEMMA Posted ==
  ASSUME NEW v \in Nat, NEW n \in Nat, NEW c \in SocketRow(v, n), NEW m \in MessageRow(v), NEW s \in SocketStages
  PROVE  /\ [c EXCEPT !.mail = Append(@, m)] \in SocketRow(v, n)
         /\ [c EXCEPT !.stage = s, !.mail = Append(@, m)] \in SocketRow(v, n)
         /\ [c EXCEPT !.stage = s, !.mail = <<m>>] \in SocketRow(v, n)
         /\ [c EXCEPT !.stage = s] \in SocketRow(v, n) /\ [c EXCEPT !.mail = <<>>] \in SocketRow(v, n)
<1>1. c.mail \in Seq(MessageRow(v))
  BY DEF SocketRow
<1>2. /\ Append(c.mail, m) \in Seq(MessageRow(v)) /\ <<m>> \in Seq(MessageRow(v))
      /\ <<>> \in Seq(MessageRow(v))
  BY <1>1
<1> QED
  BY <1>2 DEF SocketRow

LEMMA ClosedRow ==
  ASSUME NEW v \in Nat, NEW n \in Nat, NEW c \in SocketRow(v, n)
  PROVE  I!Closed(c) \in SocketRow(v, n) /\ I!Closed(c).stage = "closed"
<1>1. I!Signal("close") \in MessageRow(v)
  BY SignalIsMessage
<1>2. [c EXCEPT !.stage = "closed", !.mail = Append(@, I!Signal("close"))] \in SocketRow(v, n)
  BY <1>1, Posted DEF SocketStages
<1> QED
  BY <1>2 DEF I!Closed, SocketRow

LEMMA EmptyIsList == ASSUME NEW v PROVE <<>> \in Lists(v)
  BY LimitIs DEF Lists

(* A row put in front of a list leaves it within its limit.                *)
LEMMA PutIsList ==
  ASSUME NEW v \in Nat, NEW list \in Lists(v), NEW row \in Row(v) PROVE I!Put(list, row) \in Lists(v)
<1> DEFINE at == {i \in DOMAIN list : list[i].notice = row.notice}
           moved == IF at = {} THEN Len(list) + 1 ELSE CHOOSE i \in at : TRUE
           length == I!Smaller(Limit, I!Greater(moved, Len(list)))
           it == [i \in 1..length |-> IF i = 1 THEN row ELSE IF i <= moved THEN list[i - 1] ELSE list[i]]
<1>1. PICK size \in Nat : size = Len(list) /\ DOMAIN list = 1..size /\ size <= Limit
  BY DEF Lists
<1>2. moved \in 1..(size + 1)
  <2>1. CASE at = {}
    BY <1>1, <2>1
  <2>2. CASE at # {}
    <3>1. moved \in at
      BY <2>2
    <3> QED
      BY <1>1, <3>1
  <2> QED
    BY <2>1, <2>2
<1>3. I!Put(list, row) = it
  BY DEF I!Put
<1> HIDE DEF moved
<1>4. /\ length \in Nat /\ length <= Limit /\ (length <= moved \/ length <= size) /\ length <= size + 1
  BY <1>1, <1>2, LimitIs DEF I!Smaller, I!Greater
<1> HIDE DEF length
<1>5. \A i \in DOMAIN list : list[i] \in Row(v)
  BY DEF Lists
<1>6. ASSUME NEW i \in 1..length, i # 1
      PROVE  (i <= moved => i - 1 \in DOMAIN list) /\ (~(i <= moved) => i \in DOMAIN list)
  <2>1. (i <= moved => i - 1 \in 1..size) /\ (~(i <= moved) => i \in 1..size)
    BY <1>1, <1>2, <1>4, <1>6
  <2> QED
    BY <1>1, <2>1
<1>7. \A i \in 1..length : it[i] \in Row(v)
  BY <1>5, <1>6
<1>8. it \in Seq(Row(v)) /\ Len(it) = length
  BY <1>4, <1>7
<1> HIDE DEF it
<1> QED
  BY <1>3, <1>4, <1>8 DEF Lists

LEMMA EmptyInboxRows ==
  ASSUME NEW v \in Nat, NEW n \in Nat
  PROVE  /\ I!NoConnection \in SocketRow(v, n) /\ I!NoConnection.stage = "none"
         /\ I!NoAsk \in AskRow(v) /\ I!Sent \in AskRow(v)
<1>1. 0 \in 0..v /\ 0 \in 0..n /\ <<>> \in Seq(MessageRow(v)) /\ <<>> \in Lists(v)
  BY EmptyIsList
<1> QED
  BY <1>1 DEF I!NoConnection, I!NoAsk, I!Sent, SocketRow, AskRow, SocketStages

LEMMA InboxTypes ==
  ASSUME InboxInv
  PROVE  /\ version \in Nat /\ minted \in Nat /\ outdated \in 0..minted /\ needed \in 0..version
         /\ session \in BOOLEAN
         /\ socket \in [Socket -> SocketRow(version, minted)] /\ page \in PageRow(version, minted)
         /\ ask \in [Ask -> AskRow(version)] /\ pushing \subseteq MessageRow(version) /\ current \subseteq Row(version)
         /\ OneConnection
  BY DEF InboxInv, InboxTyped

(* Sockets change, while what they carry stays typed.                      *)
LEMMA SocketsMove ==
  ASSUME InboxInv, socket' \in [Socket -> SocketRow(version, minted)],
         \A k \in Socket : socket'[k].stage \notin {"none", "closed"} => socket[k].stage \notin {"none", "closed"},
         UNCHANGED <<current, version, minted, outdated, page>>, session' \in BOOLEAN,
         ask' \in [Ask -> AskRow(version)], pushing' \subseteq MessageRow(version), needed' \in 0..version
  PROVE  InboxInv'
  BY DEF InboxInv, InboxTyped, OneConnection

LEMMA WritesKeep ==
  ASSUME InboxInv, NEW n \in Notice,
         I!Expire(n) \/ \E kind \in {"created", "audience_changed"} : I!Write(n, kind)
  PROVE  InboxInv'
<1> USE DEF I!rows, I!access, I!shown
<1>1. /\ version' = version + 1 /\ UNCHANGED <<session, closing, minted, outdated, socket, page, ask, needed>>
      /\ current' \subseteq current \union {[notice |-> n, asOf |-> version']}
  BY DEF I!Expire, I!Write, I!Others
<1>2. version' \in Nat /\ needed \in 0..version' /\ version' \in 0..version' /\ version <= version'
  BY <1>1, InboxTypes
<1>3. /\ MessageRow(version) \subseteq MessageRow(version') /\ SocketRow(version, minted) \subseteq SocketRow(version', minted)
      /\ AskRow(version) \subseteq AskRow(version') /\ PageRow(version, minted) \subseteq PageRow(version', minted)
      /\ Row(version) \subseteq Row(version')
  BY <1>2, InboxTypes, InboxRowsGrow
<1>4. pushing' \subseteq MessageRow(version')
  <2>1. PICK kind \in {"created", "audience_changed"}, N \in SUBSET Notice :
          pushing' = pushing \union {I!Message(kind, N, version')}
    BY DEF I!Expire, I!Write
  <2>2. I!Message(kind, N, version') \in MessageRow(version')
    BY <1>2 DEF I!Message, MessageRow
  <2> QED
    BY <1>3, <2>1, <2>2, InboxTypes
<1>5. page' \in PageRow(version', minted') /\ ask' \in [Ask -> AskRow(version')]
      /\ socket' \in [Socket -> SocketRow(version', minted')]
  BY <1>1, <1>3, InboxTypes
<1>6. current' \subseteq Row(version')
  <2>1. [notice |-> n, asOf |-> version'] \in Row(version')
    BY <1>2 DEF Row
  <2> QED
    BY <1>1, <1>3, <2>1, InboxTypes
<1> QED
  BY <1>1, <1>2, <1>4, <1>5, <1>6, InboxTypes DEF InboxInv, InboxTyped, OneConnection

LEMMA LapseKeeps == ASSUME InboxInv, NEW n \in Notice, I!Lapse(n) PROVE InboxInv'
<1>1. /\ current' \subseteq current
      /\ UNCHANGED <<version, session, minted, outdated, socket, page, ask, needed, pushing>>
  BY DEF I!Lapse, I!Others, I!access, I!shown
<1> QED
  BY <1>1 DEF InboxInv, InboxTyped, OneConnection

LEMMA DropKeeps == ASSUME InboxInv, NEW message \in pushing, I!DropPush(message) PROVE InboxInv'
<1>1. message \in MessageRow(version) /\ needed \in 0..version /\ version \in Nat
  BY InboxTypes
<1>2. /\ pushing' \subseteq pushing /\ needed' = I!Greater(needed, message.asOf)
      /\ UNCHANGED <<current, version, session, minted, outdated, socket, page, ask>>
  BY DEF I!DropPush, I!rows, I!access
<1>3. needed' \in 0..version
  BY <1>1, <1>2 DEF MessageRow, I!Greater
<1> QED
  BY <1>2, <1>3 DEF InboxInv, InboxTyped, OneConnection

LEMMA PushKeeps == ASSUME InboxInv, NEW message \in pushing, I!Push(message) PROVE InboxInv'
<1> USE DEF I!rows, I!access, I!shown
<1>1. message \in MessageRow(version) /\ pushing' \subseteq pushing
      /\ UNCHANGED <<current, version, session, closing, minted, outdated, page, ask, needed>>
  BY InboxTypes DEF I!Push
<1>2. ASSUME NEW k \in Socket
      PROVE  [socket[k] EXCEPT !.mail = Append(@, message)] \in SocketRow(version, minted)
             /\ [socket[k] EXCEPT !.mail = Append(@, message)].stage = socket[k].stage
  <2>1. socket[k] \in SocketRow(version, minted) /\ "none" \in SocketStages
    BY InboxTypes DEF SocketStages
  <2> QED
    BY <1>1, <2>1, InboxTypes, Posted DEF SocketRow
<1>3. socket' \in [Socket -> SocketRow(version, minted)] /\ \A k \in Socket : socket'[k].stage = socket[k].stage
  BY <1>2, InboxTypes DEF I!Push
<1> QED
  BY <1>1, <1>3, InboxTypes, SocketsMove

LEMMA ClosingKeeps ==
  ASSUME InboxInv, NEW K, K \subseteq Socket,
         \/ I!Close(K)
         \/ I!Lost(K)
  PROVE  /\ socket' \in [Socket -> SocketRow(version, minted)]
         /\ \A k \in Socket : socket'[k].stage \notin {"none", "closed"} => socket[k].stage \notin {"none", "closed"}
<1>1. ASSUME NEW k \in Socket
      PROVE  /\ socket[k] \in SocketRow(version, minted) /\ I!Closed(socket[k]) \in SocketRow(version, minted)
             /\ I!Closed([socket[k] EXCEPT !.mail = <<>>]) \in SocketRow(version, minted)
             /\ I!Closed(socket[k]).stage = "closed" /\ I!Closed([socket[k] EXCEPT !.mail = <<>>]).stage = "closed"
  <2>1. socket[k] \in SocketRow(version, minted) /\ version \in Nat /\ minted \in Nat
    BY InboxTypes
  <2>2. [socket[k] EXCEPT !.mail = <<>>] \in SocketRow(version, minted)
    BY <2>1, Posted, SignalIsMessage DEF SocketStages
  <2> QED
    BY <2>1, <2>2, ClosedRow
<1>2. \A k \in Socket : socket'[k] \in {socket[k], I!Closed(socket[k]), I!Closed([socket[k] EXCEPT !.mail = <<>>])}
  BY DEF I!Close, I!Lost
<1>3. socket' \in [Socket -> SocketRow(version, minted)]
  BY <1>1 DEF I!Close, I!Lost
<1> QED
  BY <1>1, <1>2, <1>3

LEMMA ServerKeeps ==
  ASSUME InboxInv, NEW k \in Socket, I!ServerStep(k) \/ I!SessionCheck(k) \/ I!LoseSocket(k) PROVE InboxInv'
<1> USE DEF I!rows, I!access, I!shown
<1>t. /\ socket \in [Socket -> SocketRow(version, minted)] /\ socket[k] \in SocketRow(version, minted)
      /\ version \in Nat /\ minted \in Nat
  BY InboxTypes
<1>1. ASSUME NEW c \in SocketRow(version, minted), socket[k].stage \notin {"none", "closed"},
             socket' = [socket EXCEPT ![k] = c],
             UNCHANGED <<current, version, session, closing, minted, outdated, page, pushing, ask, needed>>
      PROVE  InboxInv'
  <2>1. /\ socket' \in [Socket -> SocketRow(version, minted)]
        /\ \A x \in Socket : socket'[x].stage \notin {"none", "closed"} => socket[x].stage \notin {"none", "closed"}
    BY <1>t, <1>1
  <2> QED
    BY <1>1, <2>1, InboxTypes, SocketsMove
<1>2. ASSUME I!Arrive(k) PROVE InboxInv'
  <2> DEFINE opened == [socket[k] EXCEPT !.stage = "checking", !.mail = <<I!Signal("open")>>]
             c == IF socket[k].token <= outdated THEN I!Closed(opened) ELSE opened
  <2>1. opened \in SocketRow(version, minted)
    BY <1>t, SignalIsMessage, Posted DEF SocketStages
  <2>2. c \in SocketRow(version, minted)
    BY <1>t, <2>1, ClosedRow
  <2>3. socket' = [socket EXCEPT ![k] = c] /\ socket[k].stage = "connecting"
        /\ UNCHANGED <<current, version, session, closing, minted, outdated, page, pushing, ask, needed>>
    BY <1>2 DEF I!Arrive
  <2> HIDE DEF c
  <2> QED
    BY <1>1, <2>2, <2>3
<1>3. ASSUME NEW from \in SocketStages \ {"none", "closed"}, NEW to \in SocketStages, I!Stage(k, from, to),
             UNCHANGED <<current, version, session, closing, minted, outdated, page, pushing, ask, needed>>
      PROVE  InboxInv'
  <2>1. [socket[k] EXCEPT !.stage = to] \in SocketRow(version, minted)
    BY <1>t DEF SocketRow
  <2>2. socket' = [socket EXCEPT ![k] = [socket[k] EXCEPT !.stage = to]] /\ socket[k].stage \notin {"none", "closed"}
    BY <1>3 DEF I!Stage
  <2> QED
    BY <1>1, <1>3, <2>1, <2>2
<1>4. ASSUME I!CheckSession(k) PROVE InboxInv'
  <2>1. CASE session
    <3>1. I!Stage(k, "checking", "checked")
          /\ UNCHANGED <<current, version, session, closing, minted, outdated, page, pushing, ask, needed>>
      BY <1>4, <2>1 DEF I!CheckSession
    <3> QED
      BY <1>3, <3>1 DEF SocketStages
  <2>2. CASE ~session
    <3>1. I!Close({k})
          /\ UNCHANGED <<current, version, session, closing, minted, outdated, page, pushing, ask, needed>>
      BY <1>4, <2>2 DEF I!CheckSession
    <3>2. {k} \subseteq Socket
      OBVIOUS
    <3> QED
      BY <3>1, <3>2, InboxTypes, ClosingKeeps, SocketsMove
  <2> QED
    BY <2>1, <2>2
<1>5. ASSUME I!SessionCheck(k) \/ I!LoseSocket(k) PROVE InboxInv'
  <2>1. /\ I!Close({k}) \/ I!Lost({k})
        /\ UNCHANGED <<current, version, session, closing, minted, outdated, page, pushing, ask, needed>>
    BY <1>5 DEF I!SessionCheck, I!LoseSocket
  <2>2. {k} \subseteq Socket
    OBVIOUS
  <2> QED
    BY <2>1, <2>2, InboxTypes, ClosingKeeps, SocketsMove
<1>6. ASSUME I!Register(k) PROVE InboxInv'
  BY <1>3, <1>6 DEF I!Register, SocketStages
<1>7. ASSUME I!SendBootstrap(k) PROVE InboxInv'
  <2> DEFINE c == [socket[k] EXCEPT !.stage = "ready", !.mail = Append(@, I!Signal("bootstrap"))]
  <2>1. c \in SocketRow(version, minted)
    BY <1>t, SignalIsMessage, Posted DEF SocketStages
  <2>2. socket' = [socket EXCEPT ![k] = c] /\ socket[k].stage = "counting"
        /\ UNCHANGED <<current, version, session, closing, minted, outdated, page, pushing, ask, needed>>
    BY <1>7 DEF I!SendBootstrap
  <2> HIDE DEF c
  <2> QED
    BY <1>1, <2>1, <2>2
<1> QED
  BY <1>2, <1>4, <1>5, <1>6, <1>7 DEF I!ServerStep

LEMMA SessionKeeps ==
  ASSUME InboxInv, I!EndSession \/ I!CloseUserConnections \/ I!TokenExpires \/ I!Stop PROVE InboxInv'
<1> USE DEF I!rows, I!access, I!shown
<1>1. ASSUME I!EndSession PROVE InboxInv'
  BY <1>1 DEF I!EndSession, InboxInv, InboxTyped, OneConnection
<1>2. ASSUME I!TokenExpires PROVE InboxInv'
  <2>1. outdated' \in 0..minted /\ UNCHANGED <<current, version, pushing, session, minted, socket, page, ask, needed>>
    BY <1>2, InboxTypes DEF I!TokenExpires
  <2> QED
    BY <2>1 DEF InboxInv, InboxTyped, OneConnection
<1>3. ASSUME I!CloseUserConnections \/ I!Stop PROVE InboxInv'
  <2>1. /\ I!Close(I!Registered) \/ I!Lost(I!Open)
        /\ UNCHANGED <<current, version, session, minted, outdated, page, ask, needed>> /\ pushing' \subseteq pushing
    BY <1>3 DEF I!CloseUserConnections, I!Stop
  <2>2. I!Registered \subseteq Socket /\ I!Open \subseteq Socket
    BY DEF I!Registered, I!Open
  <2> QED
    BY <2>1, <2>2, InboxTypes, ClosingKeeps, SocketsMove
<1> QED
  BY <1>1, <1>2, <1>3

LEMMA HeardMessage ==
  ASSUME InboxInv, NEW k \in Socket, NEW kind, I!Heard(k, kind)
  PROVE  /\ page.socket = k /\ Head(socket[k].mail) \in MessageRow(version) /\ Head(socket[k].mail).kind = kind
         /\ I!Read(k) \in [Socket -> SocketRow(version, minted)]
         /\ \A x \in Socket : I!Read(k)[x].stage = socket[x].stage
<1>1. socket \in [Socket -> SocketRow(version, minted)] /\ socket[k] \in SocketRow(version, minted)
  BY InboxTypes
<1>2. socket[k].mail \in Seq(MessageRow(version)) /\ socket[k].mail # <<>>
  BY <1>1 DEF SocketRow, I!Heard
<1>3. Head(socket[k].mail) \in MessageRow(version) /\ Tail(socket[k].mail) \in Seq(MessageRow(version))
  BY <1>2
<1>4. [socket[k] EXCEPT !.mail = Tail(@)] \in SocketRow(version, minted)
      /\ [socket[k] EXCEPT !.mail = Tail(@)].stage = socket[k].stage
  BY <1>1, <1>3 DEF SocketRow
<1> QED
  BY <1>1, <1>3, <1>4 DEF I!Heard, I!Read

LEMMA TabKeeps == ASSUME InboxInv, NEW k \in Socket, I!Connect(k) \/ I!Receive(k) PROVE InboxInv'
<1> USE DEF I!rows, I!access, I!shown
<1>t. /\ socket \in [Socket -> SocketRow(version, minted)] /\ socket[k] \in SocketRow(version, minted)
      /\ version \in Nat /\ minted \in Nat /\ page \in PageRow(version, minted) /\ ask \in [Ask -> AskRow(version)]
      /\ needed \in 0..version
  BY InboxTypes
<1>1. ASSUME I!Connect(k) PROVE InboxInv'
  <2> DEFINE c == [socket[k] EXCEPT !.stage = "connecting", !.token = page.token]
  <2>1. c \in SocketRow(version, minted)
    BY <1>t DEF SocketRow, PageRow, SocketStages
  <2>2. /\ socket' = [socket EXCEPT ![k] = c] /\ page' = [page EXCEPT !.socket = k] /\ page.socket = NoSocket
        /\ UNCHANGED <<current, version, session, closing, minted, outdated, pushing, ask, needed>>
    BY <1>1 DEF I!Connect
  <2> HIDE DEF c
  <2>3. page' \in PageRow(version, minted) /\ page'.socket = k /\ socket' \in [Socket -> SocketRow(version, minted)]
    BY <1>t, <2>1, <2>2 DEF PageRow
  <2>4. \A x \in Socket : x # k => socket'[x].stage \in {"none", "closed"}
    BY <1>t, <2>2, NoSocketIsNone, InboxTypes DEF OneConnection
  <2> QED
    BY <2>2, <2>3, <2>4 DEF InboxInv, InboxTyped, OneConnection
<1>2. ASSUME I!OnCreated(k) PROVE InboxInv'
  <2>1. I!Heard(k, "created") /\ socket' = I!Read(k)
    BY <1>2 DEF I!OnCreated
  <2> DEFINE message == Head(socket[k].mail)
  <2>2. /\ message \in MessageRow(version)
        /\ I!Read(k) \in [Socket -> SocketRow(version, minted)] /\ \A x \in Socket : I!Read(k)[x].stage = socket[x].stage
    BY <2>1, HeardMessage
  <2>3. /\ \E n \in message.notice : page' = [page EXCEPT !.list = I!Put(@, [notice |-> n, asOf |-> message.asOf])]
        /\ needed' = I!Greater(needed, message.asOf)
        /\ UNCHANGED <<current, version, session, closing, minted, outdated, pushing, ask>>
    BY <1>2 DEF I!OnCreated
  <2> HIDE DEF message
  <2>4. page' \in PageRow(version, minted) /\ page'.socket = page.socket
    <3>1. PICK n \in message.notice : page' = [page EXCEPT !.list = I!Put(@, [notice |-> n, asOf |-> message.asOf])]
      BY <2>3
    <3>2. [notice |-> n, asOf |-> message.asOf] \in Row(version)
      BY <2>2, <3>1 DEF MessageRow, Row
    <3>3. I!Put(page.list, [notice |-> n, asOf |-> message.asOf]) \in Lists(version)
      BY <1>t, <3>2, PutIsList DEF PageRow
    <3> QED
      BY <1>t, <3>1, <3>3 DEF PageRow
  <2>5. needed' \in 0..version
    BY <1>t, <2>2, <2>3 DEF MessageRow, I!Greater
  <2> QED
    BY <2>1, <2>2, <2>3, <2>4, <2>5 DEF InboxInv, InboxTyped, OneConnection
<1>3. ASSUME I!OnClose(k) PROVE InboxInv'
  <2>1. /\ page.socket = k /\ socket' = [socket EXCEPT ![k] = I!NoConnection] /\ page' = [page EXCEPT !.socket = NoSocket]
        /\ UNCHANGED <<current, version, session, closing, minted, outdated, pushing, ask, needed>>
    BY <1>3 DEF I!OnClose, I!Heard
  <2>2. I!NoConnection \in SocketRow(version, minted) /\ I!NoConnection.stage = "none"
    BY <1>t, EmptyInboxRows
  <2>3. page' \in PageRow(version, minted) /\ socket' \in [Socket -> SocketRow(version, minted)]
    BY <1>t, <2>1, <2>2 DEF PageRow
  <2>4. \A x \in Socket : socket'[x].stage \in {"none", "closed"}
    BY <1>t, <2>1, <2>2, InboxTypes DEF OneConnection
  <2> QED
    BY <2>1, <2>3, <2>4 DEF InboxInv, InboxTyped, OneConnection
<1>4. ASSUME NEW a \in Ask, NEW kind, I!OnSignal(k, a, kind) PROVE InboxInv'
  <2>1. /\ I!Heard(k, kind) /\ socket' = I!Read(k) /\ ask' = [ask EXCEPT ![a] = I!Sent]
        /\ UNCHANGED <<current, version, session, closing, minted, outdated, pushing, page, needed>>
    BY <1>4 DEF I!OnSignal, I!Refresh
  <2>2. ask' \in [Ask -> AskRow(version)]
    BY <1>t, <2>1, EmptyInboxRows
  <2>3. I!Read(k) \in [Socket -> SocketRow(version, minted)] /\ \A x \in Socket : I!Read(k)[x].stage = socket[x].stage
    BY <2>1, HeardMessage
  <2> QED
    BY <2>1, <2>2, <2>3, InboxTypes, SocketsMove
<1> QED
  BY <1>1, <1>2, <1>3, <1>4 DEF I!Receive

LEMMA AskKeeps == ASSUME InboxInv, NEW a \in Ask, I!Focus(a) \/ I!AskStep(a) \/ I!AskFails(a) PROVE InboxInv'
<1> USE DEF I!rows, I!access, I!shown
<1>t. /\ socket \in [Socket -> SocketRow(version, minted)] /\ ask[a] \in AskRow(version)
      /\ version \in Nat /\ minted \in Nat /\ page \in PageRow(version, minted) /\ ask \in [Ask -> AskRow(version)]
      /\ needed \in 0..version /\ version \in 0..version /\ 0 \in 0..minted /\ current \subseteq Row(version)
  BY InboxTypes
<1>n. I!NoAsk \in AskRow(version) /\ I!Sent \in AskRow(version) /\ I!NoConnection \in SocketRow(version, minted)
      /\ I!NoConnection.stage = "none"
  BY <1>t, EmptyInboxRows
<1>1. ASSUME NEW q \in AskRow(version), ask' = [ask EXCEPT ![a] = q], needed' \in {needed, version},
             UNCHANGED <<current, version, session, closing, minted, outdated, pushing, page, socket>>
      PROVE  InboxInv'
  <2>1. ask' \in [Ask -> AskRow(version)]
    BY <1>t, <1>1
  <2> QED
    BY <1>1, <1>t, <2>1, InboxTypes, SocketsMove
<1>2. ASSUME I!Focus(a) \/ I!AskFails(a) PROVE InboxInv'
  BY <1>1, <1>2, <1>n DEF I!Focus, I!AskFails, I!Refresh
<1>6. ASSUME I!FetchList(a) PROVE InboxInv'
  <2>0. PICK m \in 0..Limit : \E list \in [1..m -> current] :
          ask' = [ask EXCEPT ![a] = [at |-> "answered", items |-> list, asOf |-> version]]
    BY <1>6 DEF I!FetchList
  <2>1. PICK list \in [1..m -> current] :
          ask' = [ask EXCEPT ![a] = [at |-> "answered", items |-> list, asOf |-> version]]
    BY <2>0
  <2>2. m \in Nat /\ m <= Limit
    BY <2>1, LimitIs
  <2>3. list \in Seq(Row(version)) /\ Len(list) = m
    BY <1>t, <2>1, <2>2
  <2>4. list \in Lists(version)
    BY <2>2, <2>3 DEF Lists
  <2>5. [at |-> "answered", items |-> list, asOf |-> version] \in AskRow(version)
    BY <1>t, <2>4 DEF AskRow
  <2>6. UNCHANGED <<current, version, session, closing, minted, outdated, pushing, page, socket>> /\ needed' = needed
    BY <1>6 DEF I!FetchList
  <2> QED
    BY <1>1, <2>1, <2>5, <2>6
<1>3. ASSUME I!Renew(a) PROVE InboxInv'
  <2>1. /\ minted' = minted + 1 /\ page' = [page EXCEPT !.token = minted']
        /\ UNCHANGED <<current, version, pushing, session, closing, outdated, socket, ask, needed>>
    BY <1>3 DEF I!Renew
  <2>2. minted' \in Nat /\ outdated \in 0..minted' /\ minted' \in 0..minted' /\ minted <= minted'
    BY <1>t, <2>1, InboxTypes
  <2>3. SocketRow(version, minted) \subseteq SocketRow(version, minted') /\ PageRow(version, minted) \subseteq PageRow(version, minted')
    BY <1>t, <2>2, InboxRowsGrow
  <2>4. page' \in PageRow(version, minted') /\ page'.socket = page.socket
    BY <1>t, <2>1, <2>2, <2>3 DEF PageRow
  <2> QED
    BY <1>t, <2>1, <2>2, <2>3, <2>4, InboxTypes DEF InboxInv, InboxTyped, OneConnection
<1>4. ASSUME I!SignedOut(a) PROVE InboxInv'
  <2>1. /\ ask' = [ask EXCEPT ![a] = I!NoAsk] /\ page' = [page EXCEPT !.token = 0, !.socket = NoSocket, !.list = <<>>]
        /\ socket' = [k \in Socket |-> IF k = page.socket THEN I!NoConnection ELSE socket[k]]
        /\ UNCHANGED <<current, version, pushing, session, closing, minted, outdated, needed>>
    BY <1>4 DEF I!SignedOut
  <2>2. ask' \in [Ask -> AskRow(version)] /\ socket' \in [Socket -> SocketRow(version, minted)]
    BY <1>t, <1>n, <2>1
  <2>3. page' \in PageRow(version, minted)
    BY <1>t, <2>1, EmptyIsList DEF PageRow
  <2>4. \A x \in Socket : socket'[x].stage \in {"none", "closed"}
    BY <1>n, <2>1, InboxTypes DEF OneConnection
  <2> QED
    BY <2>1, <2>2, <2>3, <2>4 DEF InboxInv, InboxTyped, OneConnection
<1>5. ASSUME I!ShowList(a) PROVE InboxInv'
  <2>1. /\ page' = [page EXCEPT !.list = ask[a].items] /\ needed' = I!Greater(needed, ask[a].asOf)
        /\ ask' = [ask EXCEPT ![a] = I!NoAsk]
        /\ UNCHANGED <<current, version, pushing, session, closing, minted, outdated, socket>>
    BY <1>5 DEF I!ShowList
  <2>2. ask' \in [Ask -> AskRow(version)]
    BY <1>t, <1>n, <2>1
  <2>3. page' \in PageRow(version, minted) /\ page'.socket = page.socket
    BY <1>t, <2>1 DEF PageRow, AskRow
  <2>4. needed' \in 0..version
    BY <1>t, <2>1 DEF AskRow, I!Greater
  <2> QED
    BY <2>1, <2>2, <2>3, <2>4 DEF InboxInv, InboxTyped, OneConnection
<1> QED
  BY <1>2, <1>3, <1>4, <1>5, <1>6 DEF I!AskStep

LEMMA InboxStepKeeps == ASSUME InboxInv, [I!Next]_inbox PROVE InboxInv'
<1>1. ASSUME UNCHANGED inbox PROVE InboxInv'
  BY <1>1 DEF inbox, InboxInv, InboxTyped, OneConnection
<1> QED
  BY <1>1, WritesKeep, LapseKeeps, PushKeeps, DropKeeps, ServerKeeps, SessionKeeps, TabKeeps, AskKeeps DEF I!Next

LEMMA InboxInit == ASSUME I!Init PROVE InboxInv
<1>1. /\ current = {} /\ version = 0 /\ pushing = {} /\ session \in BOOLEAN /\ minted = 1 /\ outdated = 0
      /\ socket = [k \in Socket |-> I!NoConnection]
      /\ page = [token |-> 1, socket |-> NoSocket, list |-> <<>>]
      /\ ask \in [Ask -> {I!Sent, I!NoAsk}] /\ needed = 0
  BY DEF I!Init
<1>2. /\ I!NoConnection \in SocketRow(0, 1) /\ I!NoConnection.stage = "none"
      /\ I!NoAsk \in AskRow(0) /\ I!Sent \in AskRow(0)
  BY EmptyInboxRows
<1>3. page \in PageRow(version, minted)
  BY <1>1, EmptyIsList DEF PageRow
<1> QED
  BY <1>1, <1>2, <1>3 DEF InboxInv, InboxTyped, OneConnection

(* ------------------------------------------------------ details of a book *)

(* The instance counts as this module does.                                *)
LEMMA SameCounts == \A S : E!Cardinality(S) = Cardinality(S) /\ (E!IsFiniteSet(S) <=> IsFiniteSet(S))
  BY DEF Cardinality, E!Cardinality, IsFiniteSet, E!IsFiniteSet

LEMMA EditsAreFinite ==
  /\ IsFiniteSet(Edit) /\ Cardinality(Edit) \in Nat /\ E!Cardinality(Edit) = Cardinality(Edit)
  /\ MaxRuns \in Nat /\ E!Run = 1..MaxRuns /\ (Queued \union Edit) \intersect E!Run = {}
  /\ (CHOOSE b \in Book : TRUE) \in Book
<1>1. E!EnrichmentAssumption
  BY UpkeepAssumption
<1>2. IsFiniteSet(Edit) /\ E!Cardinality(Edit) = Cardinality(Edit)
  BY <1>1, SameCounts DEF E!EnrichmentAssumption
<1>3. Cardinality(Edit) \in Nat
  BY <1>2, FS_CardinalityType
<1>4. (CHOOSE b \in Book : TRUE) \in Book
  BY <1>1 DEF E!EnrichmentAssumption
<1> QED
  BY <1>1, <1>2, <1>3, <1>4 DEF E!EnrichmentAssumption, E!Run

(* A run that is said to be running is the one of activeBackfill, and the  *)
(* run that its failing start would bring back is over.                    *)
RunsApart ==
  /\ \A r \in E!Run : run[r].status = "running" <=> r \in E!Working
  /\ E!Working \subseteq {backfill}
  /\ backfill # 0 => run[backfill].stage # "none"
  /\ \A r \in E!Run : run[r].previous # r /\ (run[r].previous # 0 => run[run[r].previous].stage # "none")

(* Every edit is counted at most once, so that the number in the details   *)
(* is at most that of the edits that have saved or given up.               *)
Edited == {w \in Edit : job[w].at \in {"stale", "embed", "ended"}}
EditsCounted ==
  /\ \A b \in Book : details[b].edit <= Cardinality(Edited)
  /\ \A w \in E!Worker : job[w].saw.edit <= Cardinality(Edited)

JobRow == [at : {"idle", "read", "look", "save", "stale", "embed", "ended"}, book : Book, saw : E!Details]
RunRow == [status : E!RunStatus, stage : {"none", "list", "record", "work", "report", "ended"},
           todo : SUBSET Book, cancelRequested : BOOLEAN, limited : BOOLEAN, previous : 0..MaxRuns]
DetailsTyped ==
  /\ details \in [Book -> E!Details] /\ job \in [E!Worker -> JobRow]
  /\ embedding \in [Book -> {"none", "stale", "ready", "failed"}]
RunsTyped == backfill \in 0..MaxRuns /\ run \in [E!Run -> RunRow] /\ log \in E!RunStatus
BookInv == DetailsTyped /\ RunsTyped /\ EditsCounted /\ RunsApart

LEMMA TypedDetails == E!TypeOK <=> DetailsTyped /\ RunsTyped
  BY DEF E!TypeOK, DetailsTyped, RunsTyped, JobRow, RunRow

LEMMA EmptyRows ==
  /\ E!NoDetails \in E!Details /\ E!NoJob \in JobRow /\ E!NoRun \in RunRow
  /\ E!NoJob.at = "idle" /\ E!NoJob.saw.edit = 0 /\ E!NoDetails.edit = 0
  /\ E!NoRun.status = "none" /\ E!NoRun.stage = "none" /\ E!NoRun.previous = 0
<1>1. (CHOOSE b \in Book : TRUE) \in Book
  BY EditsAreFinite
<1>2. 0 \in 0..E!Cardinality(Edit) /\ 0 \in 0..MaxRuns
  BY EditsAreFinite
<1>3. E!NoDetails \in E!Details /\ E!NoDetails.edit = 0
  BY <1>2 DEF E!NoDetails, E!Details
<1>4. E!NoJob \in JobRow /\ E!NoJob.at = "idle" /\ E!NoJob.saw = E!NoDetails
  BY <1>1, <1>3 DEF E!NoJob, JobRow
<1>5. E!NoRun \in RunRow /\ E!NoRun.status = "none" /\ E!NoRun.stage = "none" /\ E!NoRun.previous = 0
  BY <1>2 DEF E!NoRun, RunRow, E!RunStatus
<1> QED
  BY <1>3, <1>4, <1>5

(* The count of edits never falls.                                         *)
LEMMA MoreEdited ==
  ASSUME Edited \subseteq Edited'
  PROVE  /\ Cardinality(Edited) \in Nat /\ Cardinality(Edited') \in 0..Cardinality(Edit)
         /\ Cardinality(Edited) <= Cardinality(Edited')
         /\ \A w \in Edited' \ Edited : Cardinality(Edited) + 1 <= Cardinality(Edited')
<1>1. IsFiniteSet(Edited') /\ Cardinality(Edited') \in Nat /\ Cardinality(Edited') <= Cardinality(Edit)
      /\ Cardinality(Edit) \in Nat
  BY EditsAreFinite, FS_Subset, FS_CardinalityType DEF Edited
<1>2. IsFiniteSet(Edited) /\ Cardinality(Edited) \in Nat /\ Cardinality(Edited) <= Cardinality(Edited')
  BY <1>1, FS_Subset, FS_CardinalityType
<1>3. ASSUME NEW w \in Edited' \ Edited PROVE Cardinality(Edited) + 1 <= Cardinality(Edited')
  <2>1. Cardinality(Edited \union {w}) = Cardinality(Edited) + 1
    BY <1>2, <1>3, FS_AddElement
  <2>2. Edited \union {w} \subseteq Edited'
    BY <1>3
  <2> QED
    BY <1>1, <2>1, <2>2, FS_Subset
<1> QED
  BY <1>1, <1>2, <1>3

(* One job moves on, and no edit is forgotten.                             *)
GoesOn(w, j) ==
  /\ job' = [job EXCEPT ![w] = j]
  /\ w \in Edited => j.at \in {"stale", "embed", "ended"}
  /\ j.saw.edit <= Cardinality(Edited)
  /\ details' \in [Book -> E!Details]
  /\ \A b \in Book :
       details'[b].edit <= Cardinality(Edited)
       \/ (w \in Edited' \ Edited /\ details'[b].edit <= Cardinality(Edited) + 1)
  /\ embedding' \in [Book -> {"none", "stale", "ready", "failed"}]

LEMMA JobMoves ==
  ASSUME BookInv, NEW w \in E!Worker, NEW j \in JobRow, GoesOn(w, j) PROVE DetailsTyped' /\ EditsCounted'
<1> USE DEF GoesOn
<1>1. job \in [E!Worker -> JobRow] /\ DetailsTyped'
  BY DEF BookInv, DetailsTyped
<1>2. \A x \in E!Worker : job'[x] = IF x = w THEN j ELSE job[x]
  BY <1>1
<1>3. Edited \subseteq Edited'
  BY <1>2 DEF Edited, E!Worker
<1>4. /\ Cardinality(Edited) \in Nat /\ Cardinality(Edited') \in 0..Cardinality(Edit)
      /\ Cardinality(Edited) <= Cardinality(Edited')
      /\ \A x \in Edited' \ Edited : Cardinality(Edited) + 1 <= Cardinality(Edited')
  BY <1>3, MoreEdited
<1>5. \A b \in Book : details'[b].edit \in Nat
  BY EditsAreFinite DEF E!Details
<1>6. \A x \in E!Worker : job[x].saw.edit \in Nat /\ j.saw.edit \in Nat
  BY <1>1, EditsAreFinite DEF JobRow, E!Details
<1>7. \A x \in E!Worker : job[x].saw.edit <= Cardinality(Edited)
  BY DEF BookInv, EditsCounted
<1>8. ASSUME NEW b \in Book PROVE details'[b].edit <= Cardinality(Edited')
  BY <1>4, <1>5
<1>9. ASSUME NEW x \in E!Worker PROVE job'[x].saw.edit <= Cardinality(Edited')
  <2>1. job[x].saw.edit <= Cardinality(Edited')
    BY <1>4, <1>6, <1>7, EditsAreFinite
  <2>2. j.saw.edit <= Cardinality(Edited')
    BY <1>4, <1>6, EditsAreFinite
  <2> QED
    BY <1>2, <2>1, <2>2
<1> QED
  BY <1>1, <1>8, <1>9 DEF EditsCounted

LEMMA JobTyped ==
  ASSUME BookInv, NEW w \in E!Worker
  PROVE  /\ job[w] \in JobRow /\ job[w].saw \in E!Details /\ job[w].saw.edit <= Cardinality(Edited)
         /\ Cardinality(Edited) \in Nat /\ job[w].book \in Book
         /\ details[job[w].book] \in E!Details /\ details[job[w].book].edit <= Cardinality(Edited)
<1>1. Cardinality(Edited) \in Nat
  BY EditsAreFinite, FS_Subset, FS_CardinalityType DEF Edited
<1> QED
  BY <1>1 DEF BookInv, DetailsTyped, EditsCounted, JobRow

LEMMA RunsStay ==
  ASSUME BookInv, run' \in [E!Run -> RunRow], UNCHANGED <<backfill, log>>,
         \A r \in E!Run : run'[r].status = run[r].status /\ run'[r].stage = run[r].stage
                         /\ run'[r].previous = run[r].previous
  PROVE  RunsTyped' /\ RunsApart'
<1>1. E!Working' = E!Working
  BY DEF E!Working
<1>2. backfill # 0 => backfill \in E!Run
  BY EditsAreFinite DEF BookInv, RunsTyped
<1>3. \A r \in E!Run : run[r].previous # 0 => run[r].previous \in E!Run
  BY EditsAreFinite DEF BookInv, RunsTyped, RunRow
<1> QED
  BY <1>1, <1>2, <1>3 DEF BookInv, RunsTyped, RunsApart

LEMMA LookupsKeep ==
  ASSUME BookInv, NEW w \in E!Worker,
         \/ w \in Queued \union Edit /\ \E b \in Book : E!QueueRefresh(w, b)
         \/ E!Read(w) \/ E!SaveLookup(w) \/ E!MarkStale(w) \/ E!EmbedBook(w)
         \/ \E level \in {"failed", "bare", "described"} : E!LookUp(w, level)
  PROVE  BookInv'
<1> DEFINE Levels == {"failed", "bare", "described"}
<1>t. /\ job[w] \in JobRow /\ job[w].saw \in E!Details /\ job[w].saw.edit <= Cardinality(Edited)
      /\ Cardinality(Edited) \in Nat /\ job[w].book \in Book
      /\ details[job[w].book] \in E!Details /\ details[job[w].book].edit <= Cardinality(Edited)
  BY JobTyped
<1>d. details \in [Book -> E!Details] /\ (\A b \in Book : details[b].edit <= Cardinality(Edited))
      /\ embedding \in [Book -> {"none", "stale", "ready", "failed"}] /\ run \in [E!Run -> RunRow]
  BY DEF BookInv, DetailsTyped, EditsCounted, RunsTyped
<1>0. w \in Edited <=> w \in Edit /\ job[w].at \in {"stale", "embed", "ended"}
  BY DEF Edited
<1>1. ASSUME w \in Queued \union Edit, NEW b \in Book, E!QueueRefresh(w, b) PROVE BookInv'
  <2> DEFINE j == [job[w] EXCEPT !.at = "read", !.book = b]
  <2>1. j \in JobRow /\ j.saw = job[w].saw /\ job' = [job EXCEPT ![w] = j] /\ job[w].at = "idle"
        /\ UNCHANGED <<details, embedding, backfill, run, log>>
    BY <1>1, <1>t DEF E!QueueRefresh, JobRow
  <2> HIDE DEF j
  <2>2. DetailsTyped' /\ EditsCounted'
    <3>1. GoesOn(w, j)
      BY <1>t, <1>d, <1>0, <2>1 DEF GoesOn
    <3> QED
      BY <2>1, <3>1, JobMoves
  <2> QED
    BY <2>1, <2>2, <1>d, RunsStay DEF BookInv
<1>2. ASSUME E!Read(w) PROVE BookInv'
  <2>1. PICK j \in JobRow : /\ job' = [job EXCEPT ![w] = j]
                            /\ j.saw \in {job[w].saw, details[job[w].book]}
    <3> DEFINE Seen(at) == [job[w] EXCEPT !.at = at, !.saw = details[job[w].book]]
               Passed(at) == [job[w] EXCEPT !.at = at]
    <3>1. \A at \in {"save", "look", "embed", "stale"} : Seen(at) \in JobRow /\ Passed(at) \in JobRow
             /\ Seen(at).saw = details[job[w].book] /\ Passed(at).saw = job[w].saw
      BY <1>t DEF JobRow
    <3>2. \/ job' = [job EXCEPT ![w] = Seen("save")]
          \/ job' = [job EXCEPT ![w] = Seen("look")]
          \/ job' = [job EXCEPT ![w] = Passed("embed")]
          \/ job' = [job EXCEPT ![w] = Passed("stale")]
      BY <1>2 DEF E!Read, E!To, E!AfterLookup
    <3> QED
      BY <3>1, <3>2
  <2>2. job[w].at = "read" /\ UNCHANGED <<details, embedding, backfill, run, log>>
    BY <1>2 DEF E!Read
  <2>3. DetailsTyped' /\ EditsCounted'
    <3>1. GoesOn(w, j)
      BY <1>t, <1>d, <1>0, <2>1, <2>2 DEF GoesOn
    <3> QED
      BY <3>1, JobMoves
  <2> QED
    BY <2>2, <2>3, <1>d, RunsStay DEF BookInv
<1>3. ASSUME E!SaveLookup(w) PROVE BookInv'
  <2> DEFINE j(at) == [job[w] EXCEPT !.at = at, !.saw = E!NoDetails]
  <2>1. PICK at \in {"embed", "stale"} : job' = [job EXCEPT ![w] = j(at)]
    BY <1>3 DEF E!SaveLookup, E!AfterLookup
  <2>2. j(at) \in JobRow /\ j(at).saw = E!NoDetails /\ j(at).saw.edit = 0
    BY <1>t, EmptyRows DEF JobRow
  <2> HIDE DEF j
  <2>3. /\ job[w].at = "save" /\ w \notin Edit /\ UNCHANGED <<embedding, backfill, run, log>>
        /\ details' = [details EXCEPT ![job[w].book] = E!Saved(@, job[w].saw)]
    BY <1>3 DEF E!SaveLookup
  <2>4. E!Saved(details[job[w].book], job[w].saw) \in {details[job[w].book], job[w].saw}
    BY DEF E!Saved
  <2>5. details' \in [Book -> E!Details] /\ \A b \in Book : details'[b].edit <= Cardinality(Edited)
    BY <1>t, <1>d, <2>3, <2>4
  <2>6. DetailsTyped' /\ EditsCounted'
    <3>1. GoesOn(w, j(at))
      BY <1>t, <1>d, <1>0, <2>1, <2>2, <2>3, <2>5 DEF GoesOn
    <3> QED
      BY <2>2, <3>1, JobMoves
  <2> QED
    BY <2>3, <2>6, <1>d, RunsStay DEF BookInv
<1>4. ASSUME E!MarkStale(w) PROVE BookInv'
  <2> DEFINE j == [job[w] EXCEPT !.at = "embed"]
  <2>1. j \in JobRow /\ j.at = "embed" /\ j.saw = job[w].saw /\ job' = [job EXCEPT ![w] = j]
        /\ UNCHANGED <<details, backfill, run, log>> /\ embedding' \in [Book -> {"none", "stale", "ready", "failed"}]
    BY <1>4, <1>t, <1>d DEF E!MarkStale, E!To, JobRow
  <2> HIDE DEF j
  <2>2. DetailsTyped' /\ EditsCounted'
    <3>1. GoesOn(w, j)
      BY <1>t, <1>d, <2>1 DEF GoesOn
    <3> QED
      BY <2>1, <3>1, JobMoves
  <2> QED
    BY <2>1, <2>2, <1>d, RunsStay DEF BookInv
<1>5. ASSUME E!EmbedBook(w) PROVE BookInv'
  <2>1. E!Over(w) \in JobRow /\ E!Over(w).saw.edit = 0 /\ (w \in Edit => E!Over(w).at = "ended")
    BY EmptyRows, EditsAreFinite DEF E!Over, JobRow
  <2>2. job' = [job EXCEPT ![w] = E!Over(w)] /\ UNCHANGED <<details, backfill, run, log>>
        /\ embedding' \in [Book -> {"none", "stale", "ready", "failed"}]
    BY <1>5, <1>t, <1>d DEF E!EmbedBook
  <2>3. DetailsTyped' /\ EditsCounted'
    <3>1. GoesOn(w, E!Over(w))
      BY <1>t, <1>d, <1>0, <2>1, <2>2 DEF GoesOn
    <3> QED
      BY <2>1, <3>1, JobMoves
  <2> QED
    BY <2>2, <2>3, <1>d, RunsStay DEF BookInv
<1>6. ASSUME NEW level \in Levels, E!LookUp(w, level) PROVE BookInv'
  <2> DEFINE j == [job[w] EXCEPT !.at = "save", !.saw = [job[w].saw EXCEPT !.source = "found", !.level = level]]
  <2>1. j \in JobRow /\ j.saw.edit = job[w].saw.edit /\ job' = [job EXCEPT ![w] = j] /\ job[w].at = "look"
        /\ UNCHANGED <<details, embedding, backfill, log>>
    BY <1>6, <1>t DEF E!LookUp, JobRow, E!Details
  <2> HIDE DEF j
  <2>2. DetailsTyped' /\ EditsCounted'
    <3>1. GoesOn(w, j)
      BY <1>t, <1>d, <1>0, <2>1 DEF GoesOn
    <3> QED
      BY <2>1, <3>1, JobMoves
  <2>3. PICK limited \in BOOLEAN : run' = IF w \in E!Run THEN [run EXCEPT ![w].limited = limited] ELSE run
    BY <1>6 DEF E!LookUp
  <2>4. run' \in [E!Run -> RunRow]
        /\ \A r \in E!Run : run'[r].status = run[r].status /\ run'[r].stage = run[r].stage
                            /\ run'[r].previous = run[r].previous
    BY <1>d, <2>3 DEF RunRow
  <2> QED
    BY <2>1, <2>2, <2>4, RunsStay DEF BookInv
<1> QED
  BY <1>1, <1>2, <1>3, <1>4, <1>5, <1>6

LEMMA SavesKeep ==
  ASSUME BookInv, NEW w \in E!Worker,
         E!Fails(w) \/ \E level \in {"bare", "described"} : E!SaveManual(w, level)
  PROVE  BookInv'
<1>t. /\ job[w] \in JobRow /\ job[w].saw \in E!Details /\ job[w].saw.edit <= Cardinality(Edited)
      /\ Cardinality(Edited) \in Nat /\ job[w].book \in Book
      /\ details[job[w].book] \in E!Details /\ details[job[w].book].edit <= Cardinality(Edited)
  BY JobTyped
<1>d. details \in [Book -> E!Details] /\ (\A b \in Book : details[b].edit <= Cardinality(Edited))
      /\ embedding \in [Book -> {"none", "stale", "ready", "failed"}] /\ run \in [E!Run -> RunRow]
  BY DEF BookInv, DetailsTyped, EditsCounted, RunsTyped
<1>0. w \in Edited <=> w \in Edit /\ job[w].at \in {"stale", "embed", "ended"}
  BY DEF Edited
<1>1. ASSUME E!Fails(w) PROVE BookInv'
  <2> DEFINE j == [job[w] EXCEPT !.at = "embed", !.saw = E!NoDetails]
  <2>1. E!Over(w) \in JobRow /\ E!Over(w).saw.edit = 0 /\ (w \in Edit => E!Over(w).at = "ended")
    BY EmptyRows, EditsAreFinite DEF E!Over, JobRow
  <2>2. j \in JobRow /\ j.at = "embed" /\ j.saw.edit = 0
    BY <1>t, EmptyRows DEF JobRow
  <2>3. \/ job' = [job EXCEPT ![w] = E!Over(w)]
        \/ job' = [job EXCEPT ![w] = j]
    BY <1>1 DEF E!Fails
  <2> HIDE DEF j
  <2>4. UNCHANGED <<details, backfill, run, log>> /\ embedding' \in [Book -> {"none", "stale", "ready", "failed"}]
    BY <1>1, <1>t, <1>d DEF E!Fails
  <2>5. PICK k \in JobRow : job' = [job EXCEPT ![w] = k] /\ k.saw.edit = 0 /\ (w \in Edit => k.at \in {"ended", "embed"})
    BY <2>1, <2>2, <2>3
  <2>6. DetailsTyped' /\ EditsCounted'
    <3>1. GoesOn(w, k)
      BY <1>t, <1>d, <1>0, <2>5, <2>4 DEF GoesOn
    <3> QED
      BY <3>1, JobMoves
  <2> QED
    BY <2>4, <2>6, <1>d, RunsStay DEF BookInv
<1>2. ASSUME NEW level \in {"bare", "described"}, E!SaveManual(w, level) PROVE BookInv'
  <2> DEFINE j == [job[w] EXCEPT !.at = "stale", !.saw = E!NoDetails]
             d == [source |-> "manual", level |-> level, edit |-> details[job[w].book].edit + 1]
  <2>1. j \in JobRow /\ j.at = "stale" /\ j.saw.edit = 0
    BY <1>t, EmptyRows DEF JobRow
  <2>2. /\ job[w].at = "save" /\ w \in Edit /\ UNCHANGED <<embedding, backfill, run, log>>
        /\ job' = [job EXCEPT ![w] = j] /\ details' = [details EXCEPT ![job[w].book] = d]
    BY <1>2 DEF E!SaveManual
  <2> HIDE DEF j
  <2>3. Edited' = Edited \union {w} /\ w \notin Edited
    <3>1. job \in [E!Worker -> JobRow] /\ w \in E!Worker
      BY DEF BookInv, DetailsTyped
    <3>2. \A x \in E!Worker : job'[x] = IF x = w THEN j ELSE job[x]
      BY <2>2, <3>1
    <3> QED
      BY <2>1, <2>2, <3>2, <1>0 DEF Edited, E!Worker
  <2>4. Cardinality(Edited) + 1 <= Cardinality(Edit)
    <3>1. Edited \subseteq Edited' /\ w \in Edited' \ Edited
      BY <2>3
    <3>2. Cardinality(Edited') \in 0..Cardinality(Edit) /\ Cardinality(Edited) + 1 <= Cardinality(Edited')
      BY <3>1, MoreEdited
    <3> QED
      BY <1>t, <3>2, EditsAreFinite
  <2>5. details[job[w].book].edit \in Nat /\ details[job[w].book].edit + 1 <= Cardinality(Edited) + 1
    BY <1>t, EditsAreFinite DEF E!Details
  <2>6. d \in E!Details /\ d.edit <= Cardinality(Edited) + 1
    BY <1>t, <2>4, <2>5, EditsAreFinite DEF E!Details
  <2> HIDE DEF d
  <2>7. details' \in [Book -> E!Details]
        /\ \A b \in Book : details'[b].edit <= Cardinality(Edited) \/ details'[b].edit <= Cardinality(Edited) + 1
    BY <1>t, <1>d, <2>2, <2>6
  <2>8. DetailsTyped' /\ EditsCounted'
    <3>1. GoesOn(w, j)
      BY <1>t, <1>d, <1>0, <2>1, <2>2, <2>3, <2>7 DEF GoesOn
    <3> QED
      BY <2>1, <3>1, JobMoves
  <2> QED
    BY <2>2, <2>8, <1>d, RunsStay DEF BookInv
<1> QED
  BY <1>1, <1>2

(* ----------------------------------------------------------- the backfill *)

LEMMA RunsTypes ==
  ASSUME BookInv
  PROVE  /\ \A r \in E!Run : run[r] \in RunRow /\ r \in 1..MaxRuns
         /\ \A r \in E!Run : run[r].previous = 0 \/ run[r].previous \in E!Run
         /\ backfill = 0 \/ backfill \in E!Run
         /\ 0 \notin E!Run /\ 0 \in 0..MaxRuns /\ E!Run \subseteq 0..MaxRuns
  BY EditsAreFinite DEF BookInv, RunsTyped, RunRow

LEMMA JobsStay == ASSUME BookInv, UNCHANGED <<details, embedding, job>> PROVE DetailsTyped' /\ EditsCounted'
<1>1. Edited' = Edited
  BY DEF Edited
<1> QED
  BY <1>1 DEF BookInv, DetailsTyped, EditsCounted

(* One run moves on; m is what becomes of its row.                         *)
RunGoesOn(r, m) ==
  /\ run' = [run EXCEPT ![r] = m]
  /\ m.status = "running" <=> m.stage \in {"list", "record", "work"}
  /\ m.stage \in {"list", "record", "work"} => backfill' = r
  /\ m.stage # "none"
  /\ m.previous # r /\ (m.previous # 0 => run[m.previous].stage # "none")
  /\ \/ backfill' = backfill /\ (r \notin E!Working => m.stage \notin {"list", "record", "work"})
     \/ backfill' = r /\ E!Working = {}
     \/ r \in E!Working /\ m.stage \notin {"list", "record", "work"} /\ backfill' = run[r].previous

LEMMA RunMoves ==
  ASSUME BookInv, NEW r \in E!Run, NEW m \in RunRow, RunGoesOn(r, m), log' \in E!RunStatus
  PROVE  RunsTyped' /\ RunsApart'
<1> USE DEF RunGoesOn
<1>t. /\ \A q \in E!Run : run[q] \in RunRow /\ q \in 1..MaxRuns
      /\ \A q \in E!Run : run[q].previous = 0 \/ run[q].previous \in E!Run
      /\ backfill = 0 \/ backfill \in E!Run
      /\ 0 \notin E!Run /\ 0 \in 0..MaxRuns /\ E!Run \subseteq 0..MaxRuns
  BY RunsTypes
<1>1. run' \in [E!Run -> RunRow] /\ \A q \in E!Run : run'[q] = IF q = r THEN m ELSE run[q]
  BY DEF BookInv, RunsTyped
<1>2. backfill' = 0 \/ backfill' \in E!Run
  BY <1>t
<1>3. RunsTyped'
  BY <1>t, <1>1, <1>2 DEF RunsTyped
<1>4. \A q \in E!Run : q \in E!Working <=> run[q].stage \in {"list", "record", "work"}
  BY DEF E!Working
<1>5. \A q \in E!Run : q \in E!Working' <=> IF q = r THEN m.stage \in {"list", "record", "work"} ELSE q \in E!Working
  BY <1>1, <1>4 DEF E!Working
<1>6. \A q \in E!Run : run'[q].status = "running" <=> q \in E!Working'
  BY <1>1, <1>5 DEF BookInv, RunsApart
<1>7. E!Working' \subseteq {backfill'}
  <2>1. E!Working \subseteq {backfill} /\ E!Working' \subseteq E!Run
    BY DEF BookInv, RunsApart, E!Working
  <2> QED
    BY <1>5, <2>1
<1>8. \A q \in E!Run : run[q].stage # "none" => run'[q].stage # "none"
  BY <1>1
<1>9. backfill' # 0 => run'[backfill'].stage # "none"
  <2>1. backfill # 0 => run[backfill].stage # "none"
    BY DEF BookInv, RunsApart
  <2>2. run[r].previous # 0 => run[run[r].previous].stage # "none"
    BY DEF BookInv, RunsApart
  <2>3. run'[r].stage # "none"
    BY <1>1
  <2> QED
    BY <1>t, <1>8, <2>1, <2>2, <2>3
<1>10. ASSUME NEW q \in E!Run
       PROVE  run'[q].previous # q /\ (run'[q].previous # 0 => run'[run'[q].previous].stage # "none")
  <2>1. run[q].previous # q /\ (run[q].previous # 0 => run[run[q].previous].stage # "none")
    BY DEF BookInv, RunsApart
  <2>2. m.previous = 0 \/ m.previous \in E!Run
    BY EditsAreFinite DEF RunRow
  <2> QED
    BY <1>t, <1>1, <1>8, <2>1, <2>2
<1> QED
  BY <1>3, <1>6, <1>7, <1>9, <1>10 DEF RunsApart

LEMMA NoRunChanged ==
  /\ \A s \in E!RunStatus, stage \in {"report", "ended"} :
       LET m == [E!NoRun EXCEPT !.stage = stage, !.status = s]
       IN  m \in RunRow /\ m.stage = stage /\ m.status = s /\ m.previous = 0
  /\ LET m == [E!NoRun EXCEPT !.stage = "ended"]
     IN  m \in RunRow /\ m.stage = "ended" /\ m.status = "none" /\ m.previous = 0
  BY EmptyRows DEF RunRow

LEMMA StartKeeps == ASSUME BookInv, NEW r \in E!Run, E!StartBackfill(r) PROVE BookInv'
<1> DEFINE m == [run[r] EXCEPT !.status = "running", !.stage = "list", !.previous = backfill]
<1>1. run' = [run EXCEPT ![r] = m] /\ backfill' = r /\ UNCHANGED <<details, embedding, job, log>>
      /\ run[r].stage = "none" /\ E!Status(backfill) # "running"
  BY DEF E!StartBackfill, E!Reserved
<1>2. run[r] \in RunRow /\ backfill \in 0..MaxRuns /\ log \in E!RunStatus
  BY DEF BookInv, RunsTyped
<1>3. m \in RunRow /\ m.status = "running" /\ m.stage = "list" /\ m.previous = backfill
  BY <1>2 DEF RunRow, E!RunStatus
<1> HIDE DEF m
<1>4. backfill # r /\ (backfill # 0 => run[backfill].stage # "none")
  BY <1>1, RunsTypes DEF BookInv, RunsApart
<1>5. E!Working = {}
  <2>1. E!Working \subseteq {backfill} /\ E!Working \subseteq E!Run
    BY DEF BookInv, RunsApart, E!Working
  <2>2. \A q \in E!Working : run[q].status = "running" /\ q # 0
    BY <2>1, RunsTypes DEF BookInv, RunsApart
  <2> QED
    BY <1>1, <2>1, <2>2 DEF E!Status
<1>6. RunGoesOn(r, m)
  BY <1>1, <1>3, <1>4, <1>5 DEF RunGoesOn
<1>7. RunsTyped' /\ RunsApart'
  BY <1>1, <1>2, <1>3, <1>6, RunMoves
<1>8. DetailsTyped' /\ EditsCounted'
  BY <1>1, JobsStay
<1> QED
  BY <1>7, <1>8 DEF BookInv

LEMMA RunStepKeeps == ASSUME BookInv, NEW r \in E!Run, E!RunStep(r) PROVE BookInv'
<1>t. /\ run[r] \in RunRow /\ backfill \in 0..MaxRuns /\ log \in E!RunStatus /\ "running" \in E!RunStatus
      /\ run[r].status \in E!RunStatus
  BY DEF BookInv, RunsTyped, E!RunStatus, RunRow
<1>w. /\ run[r].status = "running" <=> r \in E!Working
      /\ r \in E!Working <=> run[r].stage \in {"list", "record", "work"}
      /\ r \in E!Working => backfill = r
      /\ run[r].previous # r /\ (run[r].previous # 0 => run[run[r].previous].stage # "none")
  BY DEF BookInv, RunsApart, E!Working
<1>1. ASSUME NEW books \in SUBSET Book, E!ListBooks(r, books) PROVE BookInv'
  <2> DEFINE m == [run[r] EXCEPT !.stage = "record", !.todo = books]
  <2>1. /\ run' = [run EXCEPT ![r] = m] /\ run[r].stage = "list"
        /\ UNCHANGED <<details, embedding, job, backfill, log>>
    BY <1>1 DEF E!ListBooks
  <2>2. m \in RunRow /\ m.stage = "record" /\ m.status = run[r].status /\ m.previous = run[r].previous
    BY <1>t DEF RunRow
  <2> HIDE DEF m
  <2>3. RunGoesOn(r, m)
    BY <1>w, <2>1, <2>2 DEF RunGoesOn
  <2> QED
    BY <1>t, <2>1, <2>2, <2>3, RunMoves, JobsStay DEF BookInv
<1>2. ASSUME E!RecordStart(r) PROVE BookInv'
  <2> DEFINE m == IF run[r].todo = {} THEN [E!NoRun EXCEPT !.stage = "report", !.status = "completed"]
                  ELSE [run[r] EXCEPT !.stage = "work", !.previous = 0]
  <2>1. /\ run' = [run EXCEPT ![r] = m] /\ run[r].stage = "record" /\ log' = "running"
        /\ UNCHANGED <<details, embedding, job, backfill>>
    BY <1>2 DEF E!RecordStart
  <2>2. /\ m \in RunRow /\ m.previous = 0
        /\ \/ m.stage = "report" /\ m.status = "completed"
           \/ m.stage = "work" /\ m.status = run[r].status
    <3>1. "completed" \in E!RunStatus /\ 0 \in 0..MaxRuns
      BY EditsAreFinite DEF E!RunStatus
    <3> QED
      BY <1>t, <3>1, NoRunChanged DEF RunRow
  <2> HIDE DEF m
  <2>3. RunGoesOn(r, m)
    BY <1>w, <2>1, <2>2, RunsTypes DEF RunGoesOn
  <2> QED
    BY <1>t, <2>1, <2>2, <2>3, RunMoves, JobsStay DEF BookInv
<1>3. ASSUME E!StartFails(r) PROVE BookInv'
  <2> DEFINE m == [E!NoRun EXCEPT !.stage = "ended"]
  <2>1. /\ run' = [run EXCEPT ![r] = m] /\ run[r].stage \in {"list", "record"} /\ log' \in {log, "running"}
        /\ UNCHANGED <<details, embedding, job>> /\ backfill' = run[r].previous
    BY <1>3 DEF E!StartFails
  <2>2. m \in RunRow /\ m.stage = "ended" /\ m.status = "none" /\ m.previous = 0
    BY NoRunChanged
  <2> HIDE DEF m
  <2>3. RunGoesOn(r, m)
    BY <1>w, <2>1, <2>2, RunsTypes DEF RunGoesOn
  <2> QED
    BY <1>t, <2>1, <2>2, <2>3, RunMoves, JobsStay DEF BookInv
<1>4. ASSUME NEW b \in Book, E!NextBook(r, b) PROVE BookInv'
  <2> DEFINE m == [run[r] EXCEPT !.todo = @ \ {b}]
  <2>1. /\ run' = [run EXCEPT ![r] = m] /\ run[r].stage = "work" /\ job[r].at = "idle"
        /\ UNCHANGED <<details, embedding, backfill, log>>
    BY <1>4 DEF E!NextBook
  <2>2. m \in RunRow /\ m.stage = run[r].stage /\ m.status = run[r].status /\ m.previous = run[r].previous
    BY <1>t DEF RunRow
  <2> HIDE DEF m
  <2>3. RunGoesOn(r, m)
    BY <1>w, <2>1, <2>2 DEF RunGoesOn
  <2>4. r \in E!Worker /\ r \notin Edit
    BY EditsAreFinite DEF E!Worker
  <2>5. PICK at \in {"read", "embed"} : job' = [job EXCEPT ![r] = [job[r] EXCEPT !.at = at, !.book = b]]
    BY <1>4 DEF E!NextBook
  <2> DEFINE j == [job[r] EXCEPT !.at = at, !.book = b]
  <2>6. job[r] \in JobRow /\ job[r].saw.edit <= Cardinality(Edited)
    BY <2>4, JobTyped
  <2>7. j \in JobRow /\ j.saw = job[r].saw
    BY <2>6 DEF JobRow
  <2> HIDE DEF j
  <2>8. GoesOn(r, j)
    BY <2>1, <2>4, <2>5, <2>6, <2>7 DEF GoesOn, Edited, BookInv, DetailsTyped, EditsCounted, j
  <2>9. DetailsTyped' /\ EditsCounted'
    BY <2>4, <2>7, <2>8, JobMoves
  <2> QED
    BY <1>t, <2>1, <2>2, <2>3, <2>9, RunMoves DEF BookInv
<1>5. ASSUME E!Finish(r) PROVE BookInv'
  <2>1. PICK s \in {"paused", "cancelled", "completed"} :
          run' = [run EXCEPT ![r] = [E!NoRun EXCEPT !.stage = "report", !.status = s]]
    BY <1>5 DEF E!Finish
  <2> DEFINE m == [E!NoRun EXCEPT !.stage = "report", !.status = s]
  <2>2. run[r].stage = "work" /\ UNCHANGED <<details, embedding, job, backfill, log>>
    BY <1>5 DEF E!Finish
  <2>3. s \in E!RunStatus /\ s # "running"
    BY DEF E!RunStatus
  <2>4. m \in RunRow /\ m.stage = "report" /\ m.status = s /\ m.previous = 0
    BY <2>3, NoRunChanged
  <2>5. run' = [run EXCEPT ![r] = m]
    BY <2>1
  <2> HIDE DEF m
  <2>6. RunGoesOn(r, m)
    BY <1>w, <2>2, <2>3, <2>4, <2>5, RunsTypes DEF RunGoesOn
  <2> QED
    BY <1>t, <2>2, <2>4, <2>6, RunMoves, JobsStay DEF BookInv
<1>6. ASSUME E!RecordEnd(r) PROVE BookInv'
  <2> DEFINE m == [run[r] EXCEPT !.stage = "ended"]
  <2>1. /\ run' = [run EXCEPT ![r] = m] /\ run[r].stage = "report" /\ log' \in {log, run[r].status}
        /\ UNCHANGED <<details, embedding, job, backfill>>
    BY <1>6 DEF E!RecordEnd
  <2>2. m \in RunRow /\ m.stage = "ended" /\ m.status = run[r].status /\ m.previous = run[r].previous
    BY <1>t DEF RunRow
  <2> HIDE DEF m
  <2>3. RunGoesOn(r, m)
    BY <1>w, <2>1, <2>2 DEF RunGoesOn
  <2> QED
    BY <1>t, <2>1, <2>2, <2>3, RunMoves, JobsStay DEF BookInv
<1> QED
  BY <1>1, <1>2, <1>3, <1>4, <1>5, <1>6 DEF E!RunStep

LEMMA CancelKeeps == ASSUME BookInv, E!CancelBackfill PROVE BookInv'
<1>1. backfill \in E!Run /\ run' = [run EXCEPT ![backfill].cancelRequested = TRUE]
      /\ UNCHANGED <<details, embedding, job, backfill, log>>
  BY RunsTypes DEF E!CancelBackfill, E!Status
<1>2. run \in [E!Run -> RunRow]
  BY DEF BookInv, RunsTyped
<1>3. run' \in [E!Run -> RunRow]
      /\ \A r \in E!Run : run'[r].status = run[r].status /\ run'[r].stage = run[r].stage
                          /\ run'[r].previous = run[r].previous
  BY <1>1, <1>2 DEF RunRow
<1> QED
  BY <1>1, <1>3, RunsStay, JobsStay DEF BookInv

LEMMA StopKeeps == ASSUME BookInv, E!Stop PROVE BookInv'
<1> DEFINE Gone == [E!NoRun EXCEPT !.stage = "ended"]
           Left(r) == IF run[r].stage = "none" THEN E!NoRun ELSE Gone
<1>1. /\ backfill' = 0 /\ run' = [r \in E!Run |-> Left(r)]
      /\ job' = [w \in E!Worker |-> IF job[w].at = "idle" THEN E!NoJob ELSE E!Over(w)]
      /\ UNCHANGED <<details, embedding, log>>
  BY DEF E!Stop
<1>2. Gone \in RunRow /\ Gone.stage = "ended" /\ Gone.status = "none" /\ Gone.previous = 0
  BY NoRunChanged
<1> HIDE DEF Gone
<1>3. run' \in [E!Run -> RunRow] /\ \A r \in E!Run : run'[r].status = "none" /\ run'[r].previous = 0
        /\ run'[r].stage \in {"none", "ended"}
  BY <1>1, <1>2, EmptyRows
<1>4. RunsTyped' /\ RunsApart'
  <2>1. E!Working' = {}
    BY <1>3 DEF E!Working
  <2> QED
    BY <1>1, <1>3, <2>1, RunsTypes DEF BookInv, RunsTyped, RunsApart
<1>5. \A w \in E!Worker : E!Over(w) \in JobRow /\ E!Over(w).saw.edit = 0 /\ (w \in Edit => E!Over(w).at = "ended")
  BY EmptyRows, EditsAreFinite DEF E!Over, JobRow
<1>6. DetailsTyped' /\ \A w \in E!Worker : job'[w].saw.edit = 0
  BY <1>1, <1>5, EmptyRows DEF BookInv, DetailsTyped
<1>7. Edited \subseteq Edited'
  BY <1>1, <1>5 DEF Edited, E!Worker
<1>8. Cardinality(Edited) \in Nat /\ Cardinality(Edited') \in Nat /\ Cardinality(Edited) <= Cardinality(Edited')
  BY <1>7, MoreEdited, EditsAreFinite
<1>9. \A b \in Book : details'[b].edit \in Nat /\ details'[b].edit <= Cardinality(Edited)
  BY <1>1, <1>6, EditsAreFinite DEF BookInv, DetailsTyped, E!Details, EditsCounted
<1> QED
  BY <1>4, <1>6, <1>8, <1>9 DEF BookInv, EditsCounted

LEMMA BookStepKeeps == ASSUME BookInv, [E!Next]_bookDetails PROVE BookInv'
<1>1. ASSUME NEW w \in Queued \union Edit, NEW b \in Book, E!QueueRefresh(w, b) PROVE BookInv'
  BY <1>1, LookupsKeep DEF E!Worker
<1>2. ASSUME NEW w \in E!Worker, E!JobStep(w) PROVE BookInv'
  BY <1>2, LookupsKeep, SavesKeep DEF E!JobStep
<1>3. ASSUME NEW r \in E!Run, E!StartBackfill(r) \/ E!RunStep(r) PROVE BookInv'
  BY <1>3, StartKeeps, RunStepKeeps
<1>4. ASSUME UNCHANGED bookDetails PROVE BookInv'
  BY <1>4, JobsStay, RunsStay DEF bookDetails, BookInv, RunsTyped
<1> QED
  BY <1>1, <1>2, <1>3, <1>4, CancelKeeps, StopKeeps DEF E!Next

LEMMA BookInit == ASSUME E!Init PROVE BookInv
<1>1. \A S : Cardinality({}) = 0 /\ (S \subseteq {} => S = {})
  BY FS_EmptySet
<1>2. DetailsTyped /\ RunsTyped
  BY EmptyRows, EditsAreFinite DEF E!Init, DetailsTyped, RunsTyped, E!RunStatus
<1>3. Edited = {}
  BY EmptyRows DEF E!Init, Edited, E!Worker
<1>4. EditsCounted
  BY <1>1, <1>3, EmptyRows DEF E!Init, EditsCounted
<1>5. RunsApart
  BY EmptyRows, RunsTypes, EditsAreFinite DEF E!Init, RunsApart, E!Working
<1> QED
  BY <1>2, <1>4, <1>5 DEF BookInv

LEMMA TruthFollows == ASSUME BookInv PROVE ProgressIsTrue
<1>1. E!Working \subseteq {backfill} /\ E!Working \subseteq E!Run /\ log # "interrupted"
  BY DEF BookInv, RunsApart, E!Working, RunsTyped, E!RunStatus
<1>2. ASSUME E!Working = {} PROVE E!Progress # "running"
  BY <1>2, RunsTypes DEF E!Progress, BookInv, RunsApart
<1>3. ASSUME E!Working # {} PROVE E!Progress = "running" /\ E!Working = {backfill}
  <2>1. E!Working = {backfill} /\ backfill \in E!Run /\ backfill # 0
    BY <1>1, <1>3, RunsTypes
  <2> QED
    BY <2>1 DEF E!Progress, BookInv, RunsApart
<1>4. Cardinality({}) = 0 /\ Cardinality({backfill}) = 1
  BY FS_EmptySet, FS_Singleton
<1> QED
  BY <1>2, <1>3, <1>4, SameCounts DEF ProgressIsTrue, E!ProgressIsTrue

(* Only a save of details by hand replaces details by hand.                *)
LEMMA ManualStands ==
  ASSUME BookInv, E!Next, NEW b \in Book, details[b].source = "manual", details'[b] # details[b]
  PROVE  \E w \in Edit : job[w].at = "save" /\ job[w].book = b /\ job'[w].at # "save"
<1>1. \E w \in E!Worker : E!SaveLookup(w) \/ \E level \in {"bare", "described"} : E!SaveManual(w, level)
  <2>1. ASSUME NEW w \in Queued \union Edit, NEW x \in Book, E!QueueRefresh(w, x) PROVE FALSE
    BY <2>1 DEF E!QueueRefresh
  <2>2. ASSUME NEW w \in E!Worker, NEW level,
               E!Read(w) \/ E!Fails(w) \/ E!MarkStale(w) \/ E!EmbedBook(w) \/ E!LookUp(w, level)
        PROVE  FALSE
    BY <2>2 DEF E!Read, E!Fails, E!MarkStale, E!EmbedBook, E!LookUp
  <2>3. ASSUME NEW r \in E!Run, E!StartBackfill(r) \/ E!RunStep(r) PROVE FALSE
    BY <2>3 DEF E!StartBackfill, E!RunStep, E!ListBooks, E!RecordStart, E!StartFails, E!NextBook, E!Finish, E!RecordEnd
  <2>4. ~E!CancelBackfill /\ ~E!Stop
    BY DEF E!CancelBackfill, E!Stop
  <2> QED
    BY <2>1, <2>2, <2>3, <2>4 DEF E!Next, E!JobStep
<1>2. details \in [Book -> E!Details] /\ job \in [E!Worker -> JobRow]
  BY DEF BookInv, DetailsTyped
<1>3. ASSUME NEW w \in E!Worker, E!SaveLookup(w) PROVE FALSE
  BY <1>2, <1>3 DEF E!SaveLookup, E!Saved
<1>4. ASSUME NEW w \in E!Worker, NEW level, E!SaveManual(w, level)
      PROVE  w \in Edit /\ job[w].at = "save" /\ job[w].book = b /\ job'[w].at # "save"
  <2>1. w \in Edit /\ job[w].at = "save" /\ details' = [details EXCEPT ![job[w].book] =
                                                       [source |-> "manual", level |-> level, edit |-> @.edit + 1]]
    BY <1>4 DEF E!SaveManual
  <2>2. job'[w].at = "stale"
    BY <1>2, <1>4 DEF E!SaveManual, JobRow
  <2> QED
    BY <1>2, <2>1, <2>2
<1> QED
  BY <1>1, <1>3, <1>4

(* ---------------------------------------------------- restores on their own *)

(* Tables, trail and backups, and what a restore that has its lock may     *)
(* rely on.                                                                *)
THEOREM RestoreInvariant == Spec => []RestoreInv
  BY InitKeeps, NextKeeps, PTL DEF Spec

(* An audit event that was queued, with its change or after it, is         *)
(* recorded or pending, however restores overlap, stop, lose their lock    *)
(* and undo each other.                                                    *)
THEOREM TrailStays == Spec => []TrailIsKept
<1>1. RestoreInv => TrailIsKept
  BY DEF RestoreInv
<1> QED
  BY <1>1, RestoreInvariant, PTL

(* While no restore lost its lock, whatever one takes out of the data is   *)
(* in its safety snapshot, but for the changes of jobs and of requests     *)
(* under way when it began.                                                *)
THEOREM UndoneStaysSaved == Spec => UndoneIsSaved
<1>1. RestoreInv /\ [Next]_vars =>
        [\A p \in Server : At(p, "replace") /\ restore'[p].at = "finish" /\ ~unlocked =>
           data \ data' \subseteq restore[p].safety.data \union restore[p].underway \union OfJobs]_vars
  BY DEF RestoreInv, RestoresApart, Meanwhile, At
<1> QED
  BY <1>1, RestoreInvariant, PTL DEF Spec, UndoneIsSaved

(* ---------------------------------------------------- the scenes together *)

UpkeepInv == RestoreInv /\ TabInv /\ InboxInv /\ BookInv

LEMMA UpkeepStarts == ASSUME UpkeepInit PROVE UpkeepInv
  BY InitKeeps, TabInit, InboxInit, BookInit DEF UpkeepInit, UpkeepInv

(* A step is one of a component, or leaves it alone.                       *)
LEMMA UpkeepSteps ==
  ASSUME [UpkeepNext]_all PROVE [Next]_vars /\ [B!Next]_tab /\ [I!Next]_inbox /\ [E!Next]_bookDetails
  BY DEF UpkeepNext, all

LEMMA UpkeepKeeps == UpkeepInv /\ [UpkeepNext]_all => UpkeepInv'
<1> SUFFICES ASSUME UpkeepInv, [UpkeepNext]_all PROVE UpkeepInv'
  OBVIOUS
<1>1. [Next]_vars /\ [B!Next]_tab /\ [I!Next]_inbox /\ [E!Next]_bookDetails
  BY UpkeepSteps
<1> QED
  BY <1>1, NextKeeps, TabStepKeeps, InboxStepKeeps, BookStepKeeps DEF UpkeepInv

THEOREM UpkeepInvariant == UpkeepSpec => []UpkeepInv
  BY UpkeepStarts, UpkeepKeeps, PTL DEF UpkeepSpec

(* Restores, tabs, sockets and book details keep to the values that the    *)
(* code writes, in every scene of MCUpkeep.                                *)
THEOREM UpkeepTyped == UpkeepSpec => []TypesOK
<1>1. UpkeepInv => TypesOK
  BY TypedTab, TypedInbox, TypedDetails DEF UpkeepInv, RestoreInv, TabInv, BookInv, TypesOK
<1> QED
  BY <1>1, UpkeepInvariant, PTL

(* The page says that a backfill is running exactly while one is, however  *)
(* starts fail, overlap the end of another, or are cut off by a stop.      *)
THEOREM ProgressStaysTrue == UpkeepSpec => []ProgressIsTrue
<1>1. UpkeepInv => ProgressIsTrue
  BY TruthFollows DEF UpkeepInv
<1> QED
  BY <1>1, UpkeepInvariant, PTL

(* Details that staff wrote outlast every lookup that was under way, for   *)
(* any number of books, refreshes, edits and backfills.                    *)
THEOREM EditsStand == UpkeepSpec => ManualDetailsStand
<1>1. UpkeepInv /\ [UpkeepNext]_all =>
        [\A b \in Book : details[b].source = "manual" /\ details'[b] # details[b] =>
           \E w \in Edit : job[w].at = "save" /\ job[w].book = b /\ job'[w].at # "save"]_(E!vars)
  <2> SUFFICES ASSUME UpkeepInv, [UpkeepNext]_all, NEW b \in Book,
                      details[b].source = "manual", details'[b] # details[b]
               PROVE  \E w \in Edit : job[w].at = "save" /\ job[w].book = b /\ job'[w].at # "save"
    OBVIOUS
  <2>1. E!Next
    BY UpkeepSteps DEF bookDetails
  <2> QED
    BY <2>1, ManualStands DEF UpkeepInv
<1> QED
  BY <1>1, UpkeepInvariant, PTL DEF UpkeepSpec, ManualDetailsStand, E!ManualDetailsStand

(* A tab that nobody signs out stays signed in while its session lasts,    *)
(* however many calls are refused together, late, or while it loads.       *)
THEOREM TabStaysSignedIn == UpkeepSpec => SignInLasts
<1>1. UpkeepInv /\ [UpkeepNext]_all =>
        [token # 0 /\ token' = 0 /\ ~disturbed /\ visit.kind # "logout" => cookie \in ended]_(B!vars)
  <2> SUFFICES ASSUME UpkeepInv, [UpkeepNext]_all, token # 0, token' = 0, ~disturbed, visit.kind # "logout"
               PROVE  cookie \in ended
    OBVIOUS
  <2>1. B!Next
    BY UpkeepSteps DEF tab
  <2> QED
    BY <2>1, StaysSignedIn DEF UpkeepInv
<1> QED
  BY <1>1, UpkeepInvariant, PTL DEF UpkeepSpec, SignInLasts, B!SignInLasts

===============================================================================
