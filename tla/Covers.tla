-------------------------------- MODULE Covers --------------------------------
(***************************************************************************)
(* The cover images of books and the stored snapshots that list them.  An  *)
(* image is kept outside the database, and destroyed when nothing in the   *)
(* database refers to it any more: a book, or a stored snapshot that a     *)
(* restore could bring back.                                               *)
(*                                                                         *)
(* A request locks the book it works on and is one step in the database;   *)
(* the check of the references, the destruction of an image, and each part *)
(* of storing a snapshot and of a restore are steps of their own.  That    *)
(* the storage may fail is a choice of every step that uses it.            *)
(***************************************************************************)
EXTENDS Naturals, FiniteSets

CONSTANTS
  Book,
  Job,           \* requests and the snapshot timer
  MaxImages,     \* bound on the images uploaded
  MaxRecords,    \* bound on the snapshots stored
  MaxSnapshots,  \* MAX_SNAPSHOTS: unpinned snapshots that are kept
  MaxExports     \* bound on the files that administrators keep

VARIABLES
  cover,      \* books.image_public_id
  uploaded,   \* images ever uploaded, numbered in order
  present,    \* images in the storage
  stored,     \* backup_snapshots with the books of their files
  created,    \* snapshots ever stored, numbered in order of created_at
  exported,   \* covers in the files that administrators keep
  job,
  adrift      \* not in the code: see Adrift

vars == <<cover, uploaded, present, stored, created, exported, job, adrift>>

CoversAssumption == MaxSnapshots \in Nat

Image == 1..MaxImages
NoImage == 0
Covers == [Book -> Image \union {NoImage}]
Unindexed == {NoImage}       \* book_image_public_ids IS NULL
NoPayload == [b \in Book |-> NoImage]

Idle == [at |-> "idle", restores |-> FALSE, source |-> NoPayload, payload |-> NoPayload,
         own |-> 0, excluded |-> {}, check |-> {}, doomed |-> {}]

(* getBookImagePublicIds.                                                  *)
ImagesOf(payload) == {payload[b] : b \in Book} \ {NoImage}

(* The database may hold a snapshot of an older release, not yet indexed.  *)
Init ==
  \E old \in BOOLEAN :
    /\ uploaded = 1 /\ present = {1}
    /\ cover = [b \in Book |-> IF b = CHOOSE x \in Book : TRUE THEN 1 ELSE NoImage]
    /\ stored = IF old THEN [id \in {1} |-> [covers |-> cover, images |-> Unindexed, pinned |-> FALSE]]
                       ELSE [id \in {} |-> [covers |-> cover, images |-> {}, pinned |-> FALSE]]
    /\ created = IF old THEN 1 ELSE 0
    /\ exported = {} /\ adrift = {}
    /\ job = [j \in Job |-> Idle]

At(j, stage) == job[j].at = stage
Become(j, next) == job' = [job EXCEPT ![j] = next]
Goto(j, stage) == job' = [job EXCEPT ![j].at = stage]

Maintenance == \E j \in Job : job[j].restores /\ job[j].at \notin {"idle", "fetched"}

(* A request that changes anything, and the timer, look at the mode once,  *)
(* before they do anything: the routes of backups have a check of their    *)
(* own, which lets status and downloads pass.                              *)
Admit(j) ==
  /\ At(j, "idle") /\ ~Maintenance
  /\ Goto(j, "admitted")
  /\ UNCHANGED <<cover, uploaded, present, stored, created, exported, adrift>>

(* ------------------------------------------------------- covers of books *)

(* A task that has yet to look whether images can be destroyed.            *)
CleanUp(j, images) ==
  Become(j, [job[j] EXCEPT !.at = "clean", !.check = images, !.excluded = {}, !.payload = NoPayload])

(* uploadBookImage: a new image, under the lock of the book; the one that  *)
(* it replaces is looked at after the commit.                              *)
UploadImage(j, b) ==
  /\ At(j, "admitted") /\ uploaded < MaxImages
  /\ uploaded' = uploaded + 1
  /\ present' = present \union {uploaded'}
  /\ cover' = [cover EXCEPT ![b] = uploaded']
  /\ CleanUp(j, {cover[b]} \ {NoImage})
  /\ UNCHANGED <<stored, created, exported, adrift>>

RemoveImage(j, b) ==
  /\ At(j, "admitted") /\ cover[b] # NoImage
  /\ cover' = [cover EXCEPT ![b] = NoImage]
  /\ CleanUp(j, {cover[b]})
  /\ UNCHANGED <<uploaded, present, stored, created, exported, adrift>>

(* Mutant: a snapshot that is not indexed is not counted.                  *)
ReferencedWhereIndexed(i) ==
  \/ \E b \in Book : cover[b] = i
  \/ \E id \in DOMAIN stored : i \in stored[id].images

(* isBookImageReferenced, one statement.                                   *)
Referenced(i) ==
  \/ \E b \in Book : cover[b] = i
  \/ \E id \in DOMAIN stored : stored[id].images = Unindexed \/ i \in stored[id].images

(* An image that no row refers to, but a snapshot that is being stored, a  *)
(* restore that is under way, or a file that an administrator keeps.       *)
Adrift(i) ==
  \/ \E j \in Job : i \in ImagesOf(job[j].payload) \union ImagesOf(job[j].source)
  \/ \E file \in exported : i \in ImagesOf(file)

CheckImage(j, i) ==
  /\ At(j, "clean") /\ i \in job[j].check
  /\ IF Referenced(i)
     THEN Become(j, [job[j] EXCEPT !.check = @ \ {i}]) /\ UNCHANGED adrift
     ELSE /\ Become(j, [job[j] EXCEPT !.check = @ \ {i}, !.doomed = @ \union {i}])
          /\ adrift' = adrift \union {x \in {i} : Adrift(x)}
  /\ UNCHANGED <<cover, uploaded, present, stored, created, exported>>

(* The reference check fails: the image is preserved.                      *)
CheckFails(j, i) ==
  /\ At(j, "clean") /\ i \in job[j].check
  /\ Become(j, [job[j] EXCEPT !.check = @ \ {i}])
  /\ UNCHANGED <<cover, uploaded, present, stored, created, exported, adrift>>

(* The image is destroyed; a failure is logged and the image stays.        *)
DestroyImage(j, i) ==
  /\ At(j, "clean") /\ i \in job[j].doomed
  /\ present' \in {present, present \ {i}}
  /\ Become(j, [job[j] EXCEPT !.doomed = @ \ {i}])
  /\ UNCHANGED <<cover, uploaded, stored, created, exported, adrift>>

CleanedUp(j) ==
  /\ At(j, "clean") /\ job[j].check = {} /\ job[j].doomed = {}
  /\ IF job[j].restores THEN Goto(j, "verify") ELSE Become(j, Idle)
  /\ UNCHANGED <<cover, uploaded, present, stored, created, exported, adrift>>

(* ------------------------------------------------------------- snapshots *)

(* createBackupPayload, one consistent snapshot of the database.           *)
ReadTables(j) ==
  /\ \/ At(j, "admitted") \/ At(j, "safety")
  /\ created < MaxRecords
  /\ Become(j, [job[j] EXCEPT !.at = "record", !.payload = cover])
  /\ UNCHANGED <<cover, uploaded, present, stored, created, exported, adrift>>

(* The file is in the storage, and createSnapshotRecord commits.           *)
InsertRecord(j) ==
  LET record == [covers |-> job[j].payload, images |-> ImagesOf(job[j].payload), pinned |-> FALSE]
  IN  /\ At(j, "record") /\ created < MaxRecords
      /\ created' = created + 1
      /\ stored' = [id \in DOMAIN stored \union {created'} |-> IF id = created' THEN record ELSE stored[id]]
      /\ Become(j, [job[j] EXCEPT !.at = "index", !.own = IF job[j].restores THEN created' ELSE 0, !.payload = NoPayload])
      /\ UNCHANGED <<cover, uploaded, present, exported, adrift>>

Missing == {id \in DOMAIN stored : stored[id].images = Unindexed}

(* A snapshot of an older release is read to list its images; unless that  *)
(* fails, and nothing that could be pruned now is pruned by this job.      *)
IndexMissing(j) ==
  /\ At(j, "index")
  /\ \E failed \in SUBSET Missing :
       /\ stored' = [id \in DOMAIN stored |->
                       IF id \in Missing \ failed THEN [stored[id] EXCEPT !.images = ImagesOf(stored[id].covers)]
                       ELSE stored[id]]
       /\ Goto(j, IF failed = {} THEN "prune" ELSE "list")
  /\ UNCHANGED <<cover, uploaded, present, created, exported, adrift>>

Unpinned == {id \in DOMAIN stored : ~stored[id].pinned}

(* Mutant: pins are not looked at when the rows are deleted.               *)
BeyondThePinned == {id \in DOMAIN stored : Cardinality({k \in Unpinned : k > id}) >= MaxSnapshots}

(* Unpinned snapshots but for the newest (OFFSET MAX_SNAPSHOTS).           *)
Beyond == {id \in Unpinned : Cardinality({k \in Unpinned : k > id}) >= MaxSnapshots}

(* getSnapshotsToPrune, to exclude what it lists.                          *)
ListCandidates(j) ==
  /\ At(j, "list")
  /\ Become(j, [job[j] EXCEPT !.at = "prune", !.excluded = Beyond])
  /\ UNCHANGED <<cover, uploaded, present, stored, created, exported, adrift>>

Without(ids) == [id \in DOMAIN stored \ ids |-> stored[id]]
Listed(ids) == (UNION {stored[id].images : id \in ids}) \ {NoImage}

(* pruneSnapshots, one transaction under the locks of the rows, and the    *)
(* files that go with them.                                                *)
Prune(j) ==
  LET expired == Beyond \ job[j].excluded
  IN  /\ At(j, "prune")
      /\ stored' = Without(expired)
      /\ CleanUp(j, Listed(expired))
      /\ UNCHANGED <<cover, uploaded, present, created, exported, adrift>>

(* update, under the lock of the row.                                      *)
Pin(j, id) ==
  /\ At(j, "admitted") /\ id \in DOMAIN stored
  /\ stored' = [stored EXCEPT ![id].pinned = ~@]
  /\ Become(j, Idle)
  /\ UNCHANGED <<cover, uploaded, present, created, exported, adrift>>

(* Mutant: a removal that destroys the images of the snapshot unasked.     *)
RemoveSnapshotAndImages(j, id) ==
  /\ At(j, "admitted") /\ id \in Unpinned
  /\ stored' = Without({id})
  /\ present' = present \ Listed({id})
  /\ Become(j, Idle)
  /\ UNCHANGED <<cover, uploaded, created, exported, adrift>>

(* remove: the row goes under its lock, then its file and its images.      *)
RemoveSnapshot(j, id) ==
  /\ At(j, "admitted") /\ id \in Unpinned
  /\ stored' = Without({id})
  /\ CleanUp(j, Listed({id}))
  /\ UNCHANGED <<cover, uploaded, present, created, exported, adrift>>

(* exportBackup, or downloadSnapshot.                                      *)
Export(file) ==
  /\ Cardinality(exported) < MaxExports
  /\ exported' = exported \union {file}
  /\ UNCHANGED <<cover, uploaded, present, stored, created, job, adrift>>

(* --------------------------------------------------------------- restore *)

(* restoreSavedSnapshot finds a snapshot and reads its file, before any    *)
(* lock; restoreUploadedSnapshot comes with one.                           *)
Fetch(j) ==
  /\ At(j, "admitted")
  /\ \E file \in exported \union {stored[id].covers : id \in DOMAIN stored} :
       Become(j, [job[j] EXCEPT !.at = "fetched", !.restores = TRUE, !.source = file])
  /\ UNCHANGED <<cover, uploaded, present, stored, created, exported, adrift>>

(* acquireRestoreLock and setMaintenance("restoring").                     *)
Lock(j) ==
  /\ At(j, "fetched") /\ ~Maintenance
  /\ Goto(j, "safety")
  /\ UNCHANGED <<cover, uploaded, present, stored, created, exported, adrift>>

(* verifyStoredSnapshot, of a safety snapshot that is still there.         *)
VerifySafety(j) ==
  /\ At(j, "verify") /\ job[j].own \in DOMAIN stored
  /\ Goto(j, "replace")
  /\ UNCHANGED <<cover, uploaded, present, stored, created, exported, adrift>>

(* replaceApplicationData, and the end of the maintenance.                 *)
Replace(j) ==
  /\ At(j, "replace")
  /\ cover' = job[j].source
  /\ Become(j, Idle)
  /\ UNCHANGED <<uploaded, present, stored, created, exported, adrift>>

(* A request is refused, the storage fails, or a check before the commit.  *)
GiveUp(j) ==
  /\ job[j].at \in {"admitted", "record", "index", "list", "prune", "fetched", "safety", "verify", "replace"}
  /\ Become(j, Idle)
  /\ UNCHANGED <<cover, uploaded, present, stored, created, exported, adrift>>

Next ==
  \/ \E j \in Job :
       \/ Admit(j) \/ CleanedUp(j) \/ GiveUp(j)
       \/ \E b \in Book : UploadImage(j, b) \/ RemoveImage(j, b)
       \/ \E i \in Image : CheckImage(j, i) \/ CheckFails(j, i) \/ DestroyImage(j, i)
       \/ ReadTables(j) \/ InsertRecord(j) \/ IndexMissing(j) \/ ListCandidates(j) \/ Prune(j)
       \/ \E id \in DOMAIN stored : Pin(j, id) \/ RemoveSnapshot(j, id)
       \/ Fetch(j) \/ Lock(j) \/ VerifySafety(j) \/ Replace(j)
  \/ \E file \in {cover} \union {stored[id].covers : id \in DOMAIN stored} : Export(file)

Spec == Init /\ [][Next]_vars

(* ------------------------------------------------------------ properties *)

(* Covers and lists are of images that were uploaded, and a snapshot that  *)
(* is listed has its number.                                               *)
TypeOK ==
  /\ cover \in Covers /\ \A b \in Book : cover[b] <= uploaded
  /\ present \subseteq 1..uploaded /\ adrift \subseteq 1..uploaded
  /\ DOMAIN stored \subseteq 1..created
  /\ \A id \in DOMAIN stored : stored[id].images \in {Unindexed, ImagesOf(stored[id].covers)}
  /\ exported \subseteq Covers

(* An image that a book shows, or that a stored snapshot would bring back, *)
(* is in the storage; unless it was given up while no row, but a snapshot  *)
(* on its way, a restore under way or a file outside referred to it.       *)
ImagesLast ==
  \A i \in {cover[b] : b \in Book} \union UNION {ImagesOf(stored[id].covers) : id \in DOMAIN stored} :
    i \in present \union adrift \union {NoImage}

(* A snapshot goes when an administrator removes it, or makes room for as  *)
(* many newer ones; never while it is pinned.                              *)
SnapshotsKept ==
  \A id \in DOMAIN stored \ DOMAIN stored' :
    /\ ~stored[id].pinned
    /\ \/ \E j \in Job : At(j, "admitted") /\ job'[j].at = "clean"
       \/ Cardinality({k \in DOMAIN stored' : k > id /\ ~stored'[k].pinned}) >= MaxSnapshots

(* Covers last and snapshots are kept, through every overlap of uploads,   *)
(* removals, snapshots and restores.                                       *)
CoversStand == [][ImagesLast' /\ SnapshotsKept]_vars
===============================================================================
