------------------------------- MODULE Restore -------------------------------
(***************************************************************************)
(* Restoring the library from a backup: the maintenance mode that keeps    *)
(* requests out meanwhile, the lock that keeps restores and the recovery   *)
(* of interrupted ones apart, the safety snapshot taken first, and what    *)
(* becomes of the changes and of their audit trail.  The jobs of a process *)
(* (the sweep of overdue loans, the expiry of reservations, the outbox)    *)
(* change the same data and do not look at the mode.                       *)
(*                                                                         *)
(* A server process may stop at any point, may lose the connection that    *)
(* holds its lock, and may fail to end the maintenance; these are counted  *)
(* against MaxFaults.  A statement of a restore may fail as often as not.  *)
(***************************************************************************)
EXTENDS Naturals, FiniteSets

CONSTANTS
  Server,       \* backend processes
  Change,       \* changes of the application data, each made by one request or job
  Nobody,       \* no holder of the lock, no process
  MaxTime,      \* bound of the clock
  MaxRestores,  \* bound on restores begun
  MaxBackups,   \* bound on the backups made
  MaxFaults     \* bound on faults

ASSUME RestoreAssumption ==
  /\ Nobody \notin Server
  /\ MaxTime \in Nat /\ MaxRestores \in Nat /\ MaxBackups \in Nat /\ MaxFaults \in Nat

VARIABLES
  mode,      \* mode of system_maintenance_state
  lock,      \* who holds 'euc-library-restore', and for what
  server,    \* whether each process is down, starting or up
  restore,   \* the restore that each process carries out
  request,   \* the request or job that makes each change
  data,      \* the changes in the application tables
  pending,   \* those whose audit event is pending in delivery_outbox
  trail,     \* restore_status of the audit event of each change
  dated,     \* its occurred_at
  backups,   \* the backups ever stored or downloaded
  saving,    \* what a snapshot being made has read
  now,       \* the clock
  begun,     \* not in the code: restores begun
  faults,    \* not in the code: faults so far
  unlocked   \* not in the code: whether a lock was lost

trails == <<data, pending, trail, dated>>
counts == <<now, begun, faults, unlocked>>
vars == <<mode, lock, server, restore, request, trails, backups, saving, counts>>

Nothing == [data |-> {}, pending |-> {}]
NoRestore == [at |-> "idle", backup |-> [data |-> {}, pending |-> {}, created |-> 0],
              safety |-> Nothing, underway |-> {}]
NoRequest == [at |-> "new", server |-> Nobody, job |-> FALSE, occurred |-> 0]
Free == <<Nobody, "none">>

Init ==
  /\ mode = "normal" /\ lock = Free
  /\ server = [p \in Server |-> "up"]
  /\ restore = [p \in Server |-> NoRestore]
  /\ request = [c \in Change |-> NoRequest]
  /\ data = {} /\ pending = {}
  /\ trail = [c \in Change |-> "none"] /\ dated = [c \in Change |-> 0]
  /\ backups = {} /\ saving = Nobody
  /\ now = 0 /\ begun = 0 /\ faults = 0 /\ unlocked = FALSE

At(p, stage) == restore[p].at = stage
Goto(p, stage) == restore' = [restore EXCEPT ![p].at = stage]
Fault == faults < MaxFaults /\ faults' = faults + 1

(* -------------------------------------------------- requests and changes *)

(* Mutant: a request is not asked to wait.                                 *)
AdmitAlways(c, p) ==
  /\ server[p] = "up" /\ request[c].at = "new"
  /\ request' = [request EXCEPT ![c] = [NoRequest EXCEPT !.at = "admitted", !.server = p]]
  /\ UNCHANGED <<mode, lock, server, restore, trails, backups, saving, counts>>

(* maintenanceMode reads the mode once, before the request does anything.  *)
Admit(c, p) ==
  /\ server[p] = "up" /\ request[c].at = "new" /\ mode # "restoring"
  /\ request' = [request EXCEPT ![c] = [NoRequest EXCEPT !.at = "admitted", !.server = p]]
  /\ UNCHANGED <<mode, lock, server, restore, trails, backups, saving, counts>>

(* A job of the process starts; it is no request, and is let in always.    *)
StartJob(c, p) ==
  /\ server[p] = "up" /\ request[c].at = "new"
  /\ request' = [request EXCEPT ![c] = [NoRequest EXCEPT !.at = "admitted", !.server = p, !.job = TRUE]]
  /\ UNCHANGED <<mode, lock, server, restore, trails, backups, saving, counts>>

(* Mutant: the audit event is queued outside the transaction.              *)
WriteEventAtOnce(c) ==
  /\ request[c].at = "admitted"
  /\ request' = [request EXCEPT ![c].at = "changing", ![c].occurred = now]
  /\ pending' = pending \union {c}
  /\ UNCHANGED <<mode, lock, server, restore, data, trail, dated, backups, saving, counts>>

(* The transaction of the change; a row that it queues is dated by now.    *)
Write(c) ==
  /\ request[c].at = "admitted"
  /\ request' = [request EXCEPT ![c].at = "changing", ![c].occurred = now]
  /\ UNCHANGED <<mode, lock, server, restore, trails, backups, saving, counts>>

(* It has queued its audit event ("logged"), has none ("silent"), or is of *)
(* a handler that leaves it to the auditLogger ("unlogged").               *)
Commit(c, event) ==
  /\ request[c].at = "changing" /\ (event = "unlogged" => ~request[c].job)
  /\ request' = [request EXCEPT ![c].at = event, ![c].server = IF event = "unlogged" THEN @ ELSE Nobody]
  /\ data' = data \union {c}
  /\ pending' = IF event = "logged" THEN pending \union {c} ELSE pending
  /\ UNCHANGED <<mode, lock, server, restore, trail, dated, backups, saving, counts>>

(* auditLogger queues the event on its own, before the request is answered.*)
Enqueue(c) ==
  /\ request[c].at = "unlogged"
  /\ request' = [request EXCEPT ![c].at = "logged", ![c].server = Nobody, ![c].occurred = now]
  /\ pending' = pending \union {c}
  /\ UNCHANGED <<mode, lock, server, restore, data, trail, dated, backups, saving, counts>>

(* Three attempts fail: the answer says that the event could not be saved. *)
EnqueueFails(c) ==
  /\ request[c].at = "unlogged"
  /\ request' = [request EXCEPT ![c].at = "silent", ![c].server = Nobody]
  /\ UNCHANGED <<mode, lock, server, restore, trails, backups, saving, counts>>

UnderWay == {c \in Change : request[c].at \in {"admitted", "changing"}}
Committed == {c \in Change : request[c].at \in {"logged", "unlogged", "silent"}}
Logged == {c \in Change : request[c].at = "logged"}
OfJobs == {c \in Change : request[c].job}

(* INSERT IGNORE of an audit event under its event key.                    *)
New(changes) == {c \in changes : trail[c] = "none"}
Recorded(changes) == [c \in Change |-> IF c \in New(changes) THEN "retained" ELSE trail[c]]

(* The outbox delivers an audit event, which is dated then.                *)
RecordAudit(c) ==
  /\ c \in pending /\ \E p \in Server : server[p] = "up"
  /\ trail' = Recorded({c})
  /\ dated' = [x \in Change |-> IF x \in New({c}) THEN now ELSE dated[x]]
  /\ pending' = pending \ {c}
  /\ UNCHANGED <<mode, lock, server, restore, request, data, backups, saving, counts>>

(* ------------------------------------------------------------- snapshots *)

(* createBackupPayload reads every table in one consistent snapshot.       *)
Read == [data |-> data, pending |-> pending]
Stamped(tables) == [data |-> tables.data, pending |-> tables.pending, created |-> now]

(* saveSnapshot, exportBackup and the scheduled snapshot.                  *)
SnapshotRead ==
  /\ saving = Nobody /\ Cardinality(backups) < MaxBackups
  /\ saving' = Read
  /\ UNCHANGED <<mode, lock, server, restore, request, trails, backups, counts>>

(* Reading takes a while: createdAt is set after it.                       *)
SnapshotStore ==
  /\ saving # Nobody
  /\ backups' = backups \union {Stamped(saving)}
  /\ saving' = Nobody
  /\ UNCHANGED <<mode, lock, server, restore, request, trails, counts>>

(* --------------------------------------------------------------- restore *)

(* acquireRestoreLock, with a backup that was read before it.              *)
Begin(p, b) ==
  /\ server[p] = "up" /\ At(p, "idle") /\ lock = Free /\ begun < MaxRestores
  /\ lock' = <<p, "restore">>
  /\ restore' = [restore EXCEPT ![p] = [NoRestore EXCEPT !.at = "check", !.backup = b]]
  /\ begun' = begun + 1
  /\ UNCHANGED <<mode, server, request, trails, backups, saving, now, faults, unlocked>>

(* setMaintenance("restoring"), once the backup is found to be sound.      *)
StartMaintenance(p) ==
  /\ At(p, "check")
  /\ mode' = "restoring"
  /\ restore' = [restore EXCEPT ![p].at = "read", ![p].underway = UnderWay]
  /\ UNCHANGED <<lock, server, request, trails, backups, saving, counts>>

(* The safety snapshot, stored, read back and verified.                    *)
ReadSafety(p) ==
  /\ At(p, "read")
  /\ restore' = [restore EXCEPT ![p].at = "store", ![p].safety = Read]
  /\ UNCHANGED <<mode, lock, server, request, trails, backups, saving, counts>>

StoreSafety(p) ==
  /\ At(p, "store")
  /\ backups' = backups \union {Stamped(restore[p].safety)}
  /\ Goto(p, "replace")
  /\ UNCHANGED <<mode, lock, server, request, trails, saving, counts>>

(* The audit events later than the backup are called reversed.             *)
Reversed(table, dates, created) ==
  [c \in Change |-> IF table[c] = "retained" /\ dates[c] > created THEN "reversed" ELSE table[c]]

(* Mutant: audit events that are still in the outbox go with it.           *)
ReplaceOutboxToo(p) ==
  LET b == restore[p].backup
  IN  /\ At(p, "replace") /\ \A c \in Change : request[c].at # "changing"
      /\ data' = b.data /\ pending' = b.pending
      /\ trail' = Reversed(trail, dated, b.created) /\ dated' = dated
      /\ Goto(p, "finish")
      /\ UNCHANGED <<mode, lock, server, request, backups, saving, counts>>

(* The transaction of replaceApplicationData.  It locks the outbox and     *)
(* deletes every row, so it waits for the changes that are not committed.  *)
(* Audit events that are pending are recorded before the outbox is         *)
(* replaced, and dated by when they were queued.                           *)
Replace(p) ==
  LET b == restore[p].backup
  IN  /\ At(p, "replace") /\ \A c \in Change : request[c].at # "changing"
      /\ data' = b.data /\ pending' = b.pending
      /\ dated' = [c \in Change |-> IF c \in New(pending) THEN request[c].occurred ELSE dated[c]]
      /\ trail' = Reversed(Recorded(pending), dated', b.created)
      /\ Goto(p, "finish")
      /\ UNCHANGED <<mode, lock, server, request, backups, saving, counts>>

(* A check or a statement before the commit fails, or waits for too long.  *)
Fail(p) ==
  /\ restore[p].at \in {"check", "read", "store", "replace"}
  /\ Goto(p, "finish")
  /\ UNCHANGED <<mode, lock, server, request, trails, backups, saving, counts>>

(* setMaintenance("normal"), in the finally block.                         *)
EndMaintenance(p) ==
  /\ At(p, "finish")
  /\ mode' = "normal"
  /\ Goto(p, "release")
  /\ UNCHANGED <<lock, server, request, trails, backups, saving, counts>>

(* It fails; the failure is logged and left to the recovery.               *)
EndMaintenanceFails(p) ==
  /\ At(p, "finish") /\ Fault
  /\ Goto(p, "release")
  /\ UNCHANGED <<mode, lock, server, request, trails, backups, saving, now, begun, unlocked>>

Released(p, purpose) == IF lock = <<p, purpose>> THEN Free ELSE lock

(* RELEASE_LOCK, or the loss of the connection when that fails.            *)
Release(p) ==
  /\ At(p, "release")
  /\ lock' = Released(p, "restore")
  /\ restore' = [restore EXCEPT ![p] = NoRestore]
  /\ UNCHANGED <<mode, server, request, trails, backups, saving, counts>>

(* -------------------------------------------------------------- recovery *)

(* Mutant: only a process that starts looks for an interrupted restore.    *)
RecoverLockOnStart(p) ==
  /\ server[p] = "starting" /\ lock = Free
  /\ lock' = <<p, "recovery">>
  /\ UNCHANGED <<mode, server, restore, request, trails, backups, saving, counts>>

(* recoverInterruptedRestore, on start before the server listens and every *)
(* minute from then on, does nothing while the lock is another's.          *)
RecoverLock(p) ==
  /\ server[p] \in {"starting", "up"} /\ lock = Free
  /\ lock' = <<p, "recovery">>
  /\ UNCHANGED <<mode, server, restore, request, trails, backups, saving, counts>>

ListenAnyway(p) ==
  /\ server[p] = "starting" /\ lock # Free /\ lock # <<p, "recovery">>
  /\ server' = [server EXCEPT ![p] = "up"]
  /\ UNCHANGED <<mode, lock, restore, request, trails, backups, saving, counts>>

(* Its transaction and RELEASE_LOCK.  The sessions it ends are not         *)
(* modelled here.                                                          *)
Recover(p) ==
  /\ lock = <<p, "recovery">>
  /\ mode' = "normal"
  /\ lock' = Free
  /\ server' = [server EXCEPT ![p] = "up"]
  /\ UNCHANGED <<restore, request, trails, backups, saving, counts>>

(* The recovery fails; a process that is starting stops then.              *)
RecoverFails(p) ==
  /\ lock = <<p, "recovery">> /\ Fault
  /\ lock' = Free
  /\ server' = [server EXCEPT ![p] = IF @ = "starting" THEN "down" ELSE @]
  /\ UNCHANGED <<mode, restore, request, trails, backups, saving, now, begun, unlocked>>

(* ---------------------------------------------------------------- faults *)

(* A change that is not committed never is; one that is keeps no event but *)
(* the one that was queued.                                                *)
Stopped(r) == IF r.at = "unlogged" THEN [r EXCEPT !.at = "silent", !.server = Nobody] ELSE NoRequest

(* What a process was doing is over, and its connections are closed.       *)
Crash(p) ==
  /\ server[p] # "down" /\ Fault
  /\ server' = [server EXCEPT ![p] = "down"]
  /\ restore' = [restore EXCEPT ![p] = NoRestore]
  /\ lock' = IF lock[1] = p THEN Free ELSE lock
  /\ request' = [c \in Change |-> IF request[c].server = p THEN Stopped(request[c]) ELSE request[c]]
  /\ UNCHANGED <<mode, trails, backups, saving, now, begun, unlocked>>

Start(p) ==
  /\ server[p] = "down"
  /\ server' = [server EXCEPT ![p] = "starting"]
  /\ UNCHANGED <<mode, lock, restore, request, trails, backups, saving, counts>>

(* The connection of a lock is closed while its restore goes on.           *)
LoseLock(p) ==
  /\ lock = <<p, "restore">> /\ Fault
  /\ lock' = Free /\ unlocked' = TRUE
  /\ UNCHANGED <<mode, server, restore, request, trails, backups, saving, now, begun>>

Tick ==
  /\ now < MaxTime
  /\ now' = now + 1
  /\ UNCHANGED <<mode, lock, server, restore, request, trails, backups, saving, begun, faults, unlocked>>

RestoreStep(p) ==
  \/ StartMaintenance(p) \/ ReadSafety(p) \/ StoreSafety(p) \/ Replace(p) \/ Fail(p)
  \/ EndMaintenance(p) \/ EndMaintenanceFails(p) \/ Release(p)
RecoveryStep(p) == RecoverLock(p) \/ ListenAnyway(p) \/ Recover(p) \/ RecoverFails(p)

Next ==
  \/ \E c \in Change :
       \/ \E p \in Server : Admit(c, p) \/ StartJob(c, p)
       \/ \E event \in {"logged", "unlogged", "silent"} : Commit(c, event)
       \/ Write(c) \/ Enqueue(c) \/ EnqueueFails(c) \/ RecordAudit(c)
  \/ SnapshotRead \/ SnapshotStore
  \/ \E p \in Server : \/ \E b \in backups : Begin(p, b)
                       \/ RestoreStep(p) \/ RecoveryStep(p) \/ Crash(p) \/ Start(p) \/ LoseLock(p)
  \/ Tick

Spec == Init /\ [][Next]_vars

(* A restore goes on by itself, the recovery has its timer, and a process  *)
(* that stopped is started again.                                          *)
Fairness == \A p \in Server : WF_vars(RestoreStep(p)) /\ WF_vars(RecoveryStep(p)) /\ WF_vars(Start(p))

FairSpec == Spec /\ Fairness

(* ------------------------------------------------------------ properties *)

(* What is read and written stays within its kind; only a process that is  *)
(* up restores, only what was committed is in the tables, and only what    *)
(* was queued in the outbox.                                               *)
TypeOK ==
  /\ mode \in {"normal", "restoring"}
  /\ lock \in {Free} \union (Server \X {"restore", "recovery"})
  /\ server \in [Server -> {"down", "starting", "up"}]
  /\ \A p \in Server : restore[p].at # "idle" => server[p] = "up"
  /\ data \subseteq Committed /\ pending \subseteq Logged
  /\ trail \in [Change -> {"none", "retained", "reversed"}]

(* An audit event that was once queued is never lost, whether it was       *)
(* queued with its change or after it, and however restores are timed and  *)
(* wherever they stop: it is recorded, or still pending in the outbox.     *)
(* (A change of a handler that leaves its event to the auditLogger may     *)
(* come to have none: Logged does not count it.)                           *)
TrailIsKept == \A c \in Logged : trail[c] # "none" \/ c \in pending

(* What a restore takes out of the data is in its safety snapshot, unless  *)
(* it was made by a request that was already under way when maintenance    *)
(* began, or by a job, which does not look at the mode.  (This is so while *)
(* no restore loses the lock.)                                             *)
UndoneIsSaved ==
  [][\A p \in Server :
       At(p, "replace") /\ restore'[p].at = "finish" /\ ~unlocked =>
         data \ data' \subseteq restore[p].safety.data \union restore[p].underway \union OfJobs]_vars

(* Maintenance ends, whatever process stops or loses its lock.             *)
MaintenanceEnds == mode = "restoring" ~> mode = "normal"

(* A change that a restore brings back is not one that the audit log calls *)
(* reversed by a restore.                                                  *)
ReversedIsUndone == [][\A c \in data' \ data : trail'[c] # "reversed"]_vars
=============================================================================
