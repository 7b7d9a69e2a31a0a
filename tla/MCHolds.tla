------------------------------- MODULE MCHolds -------------------------------
(* Three scenes that share no state.  In "holds": checkouts, reservations,  *)
(* the hold shelf and copies that are retired or given up, without the      *)
(* overdue sweep, the reversals and the archive; two requests at a time     *)
(* over two copies of one title.  In "covers": the cover of a book while    *)
(* snapshots are stored, pruned, pinned, removed and restored.  In          *)
(* "notices": the notices of a tab whose session stays.                     *)
EXTENDS MCCirculation

CONSTANTS
  Title, Task, MaxImages, MaxRecords, MaxSnapshots, MaxExports,
  Notice, Socket, Ask, NoSocket, Limit, MaxChanges, MaxTokens, MaxFaults

VARIABLES
  scene,
  cover, uploaded, present, stored, created, exported, job, adrift,
  current, version, pushing, session, closing, issued, expired, socket, tab, ask, needed, behind, faults

covers == <<cover, uploaded, present, stored, created, exported, job, adrift>>
inbox == <<current, version, pushing, session, closing, issued, expired, socket, tab, ask, needed, behind, faults>>

V == INSTANCE Covers WITH Book <- Title, Job <- Task
I == INSTANCE Inbox

ASSUME SnapshotBound == V!CoversAssumption
ASSUME NoticeBound == I!InboxAssumption

HoldsBegin(n) ==
  \/ \E u \in User, kind \in {"borrow", "reserve"} : SyncOpen(n, kind, u)
  \/ SweepForPrepare(n)
  \/ OpenCopyChange(n, "retire")

HoldsNext ==
  \/ ReservationExpiryJob \/ Tick
  \/ \E l \in Loan : ReturnBook(l)
  \/ \E r \in Resv : CancelReservation(r)
  \/ \E b \in Book, D \in SUBSET Copy : ReduceCopies(b, D)
  \/ \E n \in Conn : HoldsBegin(n) \/ Continue(n)

InSession == session /\ expired = 0

SceneInit ==
  /\ Init /\ V!Init /\ I!Init /\ InSession
  /\ scene \in {"holds", "covers", "notices"}
  /\ scene # "covers" => created = 0

SceneNext ==
  /\ UNCHANGED scene
  /\ \/ scene = "holds" /\ HoldsNext /\ UNCHANGED <<covers, inbox>>
     \/ scene = "covers" /\ V!Next /\ UNCHANGED <<vars, inbox>>
     \/ scene = "notices" /\ I!Next /\ InSession' /\ UNCHANGED <<vars, covers>>

SceneSpec == SceneInit /\ [][SceneNext]_<<scene, vars, covers, inbox>>

(* Covers last and stored snapshots are kept; and a tab shows the notices  *)
(* that were written, connected or not at the time, as far as it has room. *)
CoversAndNoticesStand == V!CoversStand /\ I!NoticesStand

(* Each swap moves rows of two scenes, of which a state has used one at    *)
(* most: three swaps do for six sets of two.                               *)
Swap(S) == [x \in S |-> CHOOSE y \in S : y # x]
Swaps == {Swap(Copy) @@ Swap(Notice)} \union {Swap(User) @@ Swap(Socket), Swap(Conn) @@ Swap(Task)}
=============================================================================
