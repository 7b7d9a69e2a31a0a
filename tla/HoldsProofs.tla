----------------------------- MODULE HoldsProofs -----------------------------
(* Theorems about the scenes of MCHolds: covers of books while snapshots   *)
(* are stored, pruned, removed and restored, and the notices of a tab, for *)
(* every number of books, jobs, images, snapshots, notices and sockets.    *)
EXTENDS MCHolds, Sequences, FiniteSetTheorems, WellFoundedInduction, TLAPS

(* ----------------------------------------------------------------- covers *)

LEMMA SameCoverCounts == \A S : V!Cardinality(S) = Cardinality(S)
  BY DEF Cardinality, V!Cardinality, IsFiniteSet, V!IsFiniteSet

JobStages == {"idle", "admitted", "clean", "verify", "safety", "record", "index", "prune", "list", "fetched", "replace"}
Payloads == [Title -> Nat]
Records == [covers : Payloads, images : SUBSET Nat, pinned : BOOLEAN]
JobRecords == [at : JobStages, restores : BOOLEAN, source : Payloads, payload : Payloads, own : Nat,
               excluded : SUBSET Nat, check : SUBSET Nat, doomed : SUBSET Nat]
CoversTyped ==
  /\ uploaded \in Nat /\ created \in Nat /\ cover \in Payloads
  /\ exported \subseteq Payloads
  /\ DOMAIN stored \subseteq 1..created /\ stored \in [DOMAIN stored -> Records]
  /\ job \in [Task -> JobRecords]

(* What a stored snapshot lists is what it would bring back, once it is    *)
(* listed.                                                                 *)
Listings == \A id \in DOMAIN stored : stored[id].images \in {V!Unindexed, V!ImagesOf(stored[id].covers)}

(* The images that a book shows, or that a snapshot, a restore or a file   *)
(* could bring back.                                                       *)
InJob(row) == V!ImagesOf(row.payload) \union V!ImagesOf(row.source)
Reached ==
  UNION ({V!ImagesOf(cover)} \union {V!ImagesOf(stored[id].covers) : id \in DOMAIN stored}
          \union {InJob(job[j]) : j \in Task} \union {V!ImagesOf(file) : file \in exported})

(* What can be reached was uploaded, and is there and not about to be      *)
(* destroyed, unless it was given up while it was adrift.                  *)
OnlyUploaded ==
  /\ Reached \subseteq 1..uploaded
  /\ \A j \in Task : job[j].check \subseteq 1..uploaded /\ job[j].doomed \subseteq 1..uploaded
NotDoomed == \A i \in Reached \ adrift : i \in present /\ \A j \in Task : i \notin job[j].doomed

CoversInv == CoversTyped /\ Listings /\ OnlyUploaded /\ NotDoomed

LEMMA ImagesAre ==
  \A payload \in Payloads : \A i : i \in V!ImagesOf(payload) <=> i # 0 /\ \E b \in Title : payload[b] = i
  BY DEF V!ImagesOf, V!NoImage

LEMMA NoImages == V!NoPayload \in Payloads /\ V!ImagesOf(V!NoPayload) = {}
  BY DEF V!ImagesOf, V!NoPayload, V!NoImage, Payloads

LEMMA RestingJob == V!Idle \in JobRecords /\ InJob(V!Idle) = {} /\ V!Idle.check = {} /\ V!Idle.doomed = {}
<1>1. V!NoPayload \in Payloads /\ 0 \in Nat /\ {} \in SUBSET Nat /\ FALSE \in BOOLEAN /\ "idle" \in JobStages
  BY NoImages DEF JobStages
<1>2. V!Idle \in JobRecords
  BY <1>1 DEF V!Idle, JobRecords
<1>3. InJob(V!Idle) = V!ImagesOf(V!NoPayload) \union V!ImagesOf(V!NoPayload)
  BY DEF V!Idle, InJob
<1> QED
  BY <1>2, <1>3, NoImages DEF V!Idle

LEMMA CoversStart == ASSUME V!Init PROVE CoversInv
<1> DEFINE first == [b \in Title |-> IF b = CHOOSE x \in Title : TRUE THEN 1 ELSE V!NoImage]
<1>1. PICK old \in BOOLEAN :
        /\ uploaded = 1 /\ present = {1} /\ cover = first
        /\ stored = IF old THEN [id \in {1} |-> [covers |-> cover, images |-> V!Unindexed, pinned |-> FALSE]]
                           ELSE [id \in {} |-> [covers |-> cover, images |-> {}, pinned |-> FALSE]]
        /\ created = IF old THEN 1 ELSE 0
        /\ exported = {} /\ adrift = {} /\ job = [j \in Task |-> V!Idle]
  BY Zenon DEF V!Init
<1>2. first \in Payloads /\ V!ImagesOf(first) \subseteq {1}
  <2>1. \A b \in Title : first[b] \in {0, 1}
    BY DEF V!NoImage
  <2>2. first \in Payloads
    BY <2>1 DEF Payloads
  <2> HIDE DEF first
  <2> QED
    BY <2>1, <2>2, ImagesAre
<1> HIDE DEF first
<1>3. \A id \in DOMAIN stored : id = 1 /\ stored[id] = [covers |-> cover, images |-> V!Unindexed, pinned |-> FALSE]
  BY <1>1
<1>4. \A j \in Task : job[j] = V!Idle
  BY <1>1
<1>5. CoversTyped
  <2>1. /\ uploaded \in Nat /\ created \in Nat /\ cover \in Payloads /\ exported \subseteq Payloads
        /\ DOMAIN stored \subseteq 1..created
    BY <1>1, <1>2
  <2>2. ASSUME NEW id \in DOMAIN stored PROVE stored[id] \in Records
    <3>1. V!Unindexed \in SUBSET Nat /\ FALSE \in BOOLEAN
      BY DEF V!Unindexed, V!NoImage
    <3>2. [covers |-> cover, images |-> V!Unindexed, pinned |-> FALSE] \in Records
      BY <2>1, <3>1 DEF Records
    <3> QED
      BY <1>3, <3>2
  <2>3. stored \in [DOMAIN stored -> Records]
    <3>1. stored = [id \in DOMAIN stored |-> stored[id]]
      BY <1>1, Zenon
    <3> QED
      BY <2>2, <3>1
  <2>4. job \in [Task -> JobRecords]
    BY <1>1, RestingJob
  <2> QED
    BY <2>1, <2>3, <2>4 DEF CoversTyped
<1>6. Listings
  BY <1>3 DEF Listings
<1>7. Reached \subseteq {1}
  BY <1>1, <1>2, <1>3, <1>4, RestingJob DEF Reached
<1>8. OnlyUploaded
  <2>1. 1..uploaded = {1} /\ \A j \in Task : job[j].check = {} /\ job[j].doomed = {}
    BY <1>1, <1>4, RestingJob
  <2> QED
    BY <1>7, <2>1 DEF OnlyUploaded
<1>9. NotDoomed
  BY <1>1, <1>4, <1>7, RestingJob DEF NotDoomed
<1> QED
  BY <1>5, <1>6, <1>8, <1>9 DEF CoversInv

(* ------------------------------------------------- steps that reach no more *)

LEMMA ReachedIs ==
  \A i : i \in Reached <=> \/ i \in V!ImagesOf(cover)
                           \/ \E id \in DOMAIN stored : i \in V!ImagesOf(stored[id].covers)
                           \/ \E j \in Task : i \in InJob(job[j])
                           \/ \E file \in exported : i \in V!ImagesOf(file)
  BY DEF Reached

LEMMA ReachedWillBe ==
  \A i : i \in Reached' <=> \/ i \in V!ImagesOf(cover')
                            \/ \E id \in DOMAIN stored' : i \in V!ImagesOf(stored'[id].covers)
                            \/ \E j \in Task : i \in InJob(job'[j])
                            \/ \E file \in exported' : i \in V!ImagesOf(file)
<1>1. /\ V!ImagesOf(cover)' = V!ImagesOf(cover')
      /\ \A id \in DOMAIN stored' : V!ImagesOf(stored[id].covers)' = V!ImagesOf(stored'[id].covers)
      /\ \A j \in Task : InJob(job[j])' = InJob(job'[j])
  BY DEF V!ImagesOf, InJob
<1> QED
  BY <1>1 DEF Reached

LEMMA CoverTypes ==
  ASSUME CoversInv
  PROVE  /\ uploaded \in Nat /\ created \in Nat /\ cover \in Payloads /\ exported \subseteq Payloads
         /\ DOMAIN stored \subseteq 1..created /\ stored \in [DOMAIN stored -> Records]
         /\ job \in [Task -> JobRecords]
         /\ \A j \in Task : job[j] \in JobRecords
         /\ \A id \in DOMAIN stored : stored[id] \in Records /\ stored[id].covers \in Payloads
  BY DEF CoversInv, CoversTyped, Records

LEMMA CoversMove ==
  ASSUME CoversInv, CoversTyped', Listings', UNCHANGED <<uploaded, present>>, adrift \subseteq adrift',
         Reached' \subseteq Reached,
         \A j \in Task : job'[j].check \subseteq 1..uploaded /\ job'[j].doomed \subseteq job[j].doomed
  PROVE  CoversInv'
<1>1. OnlyUploaded'
  <2>1. \A j \in Task : job[j].doomed \subseteq 1..uploaded
    BY DEF CoversInv, OnlyUploaded
  <2> QED
    BY <2>1 DEF CoversInv, OnlyUploaded
<1>2. NotDoomed'
  <2>1. ASSUME NEW i \in Reached' \ adrift'
        PROVE  i \in present' /\ \A j \in Task : i \notin job'[j].doomed
    <3>1. i \in Reached \ adrift
      BY <2>1
    <3> QED
      BY <3>1 DEF CoversInv, NotDoomed
  <2> QED
    BY <2>1 DEF NotDoomed
<1> QED
  BY <1>1, <1>2 DEF CoversInv

(* One job goes on.                                                        *)
LEMMA JobMoves ==
  ASSUME CoversInv, NEW j \in Task, NEW row \in JobRecords, job' = [job EXCEPT ![j] = row],
         InJob(row) \subseteq Reached, row.check \subseteq 1..uploaded, row.doomed \subseteq job[j].doomed
  PROVE  /\ job' \in [Task -> JobRecords]
         /\ \A n \in Task : InJob(job'[n]) \subseteq Reached
         /\ \A n \in Task : job'[n].check \subseteq 1..uploaded /\ job'[n].doomed \subseteq job[n].doomed
<1>1. \A n \in Task : job'[n] = IF n = j THEN row ELSE job[n]
  BY CoverTypes
<1>2. job' \in [Task -> JobRecords]
  BY CoverTypes
<1>3. \A n \in Task : InJob(job[n]) \subseteq Reached /\ job[n].check \subseteq 1..uploaded
  BY DEF CoversInv, OnlyUploaded, Reached
<1> QED
  BY <1>1, <1>2, <1>3

LEMMA JobStep ==
  ASSUME CoversInv, NEW j \in Task, NEW row \in JobRecords, V!Become(j, row),
         InJob(row) \subseteq Reached, row.check \subseteq 1..uploaded, row.doomed \subseteq job[j].doomed,
         UNCHANGED <<cover, uploaded, present, stored, created, exported>>, adrift \subseteq adrift'
  PROVE  CoversInv'
<1>1. /\ job' \in [Task -> JobRecords] /\ \A n \in Task : InJob(job'[n]) \subseteq Reached
      /\ \A n \in Task : job'[n].check \subseteq 1..uploaded /\ job'[n].doomed \subseteq job[n].doomed
  BY JobMoves DEF V!Become
<1>2. Reached' \subseteq Reached
  BY <1>1, ReachedIs, ReachedWillBe
<1>3. CoversTyped' /\ Listings'
  BY <1>1 DEF CoversInv, CoversTyped, Listings
<1> QED
  BY <1>1, <1>2, <1>3, CoversMove

LEMMA RowWith ==
  ASSUME NEW row \in JobRecords
  PROVE  /\ \A at \in JobStages : [row EXCEPT !.at = at] \in JobRecords
         /\ \A at \in JobStages, payload \in Payloads : [row EXCEPT !.at = at, !.payload = payload] \in JobRecords
         /\ \A at \in JobStages, source \in Payloads :
              [row EXCEPT !.at = at, !.restores = TRUE, !.source = source] \in JobRecords
         /\ \A at \in JobStages, ids \in SUBSET Nat : [row EXCEPT !.at = at, !.excluded = ids] \in JobRecords
         /\ \A images \in SUBSET Nat : [row EXCEPT !.check = images] \in JobRecords
<1>1. TRUE \in BOOLEAN
  OBVIOUS
<1> QED
  BY <1>1 DEF JobRecords

(* A job takes a stage, or rests.                                          *)
LEMMA StageStep ==
  ASSUME CoversInv, NEW j \in Task, NEW stage \in JobStages,
         V!Goto(j, stage) \/ V!Become(j, V!Idle),
         UNCHANGED <<cover, uploaded, present, stored, created, exported, adrift>>
  PROVE  CoversInv'
<1>1. job[j] \in JobRecords /\ InJob(job[j]) \subseteq Reached /\ job[j].check \subseteq 1..uploaded
  BY CoverTypes DEF CoversInv, OnlyUploaded, Reached
<1>2. CASE V!Goto(j, stage)
  <2> DEFINE row == [job[j] EXCEPT !.at = stage]
  <2>1. V!Become(j, row)
    BY <1>2, CoverTypes DEF V!Goto, V!Become
  <2>2. row \in JobRecords /\ InJob(row) = InJob(job[j]) /\ row.check = job[j].check /\ row.doomed = job[j].doomed
    <3>1. row \in JobRecords
      BY <1>1, RowWith
    <3> QED
      BY <1>1, <3>1 DEF InJob, JobRecords
  <2> HIDE DEF row
  <2> QED
    BY <1>1, <2>1, <2>2, JobStep
<1>3. CASE V!Become(j, V!Idle)
  BY <1>3, RestingJob, JobStep
<1> QED
  BY <1>2, <1>3

LEMMA CoverIsReached == V!ImagesOf(cover) \subseteq Reached /\ \A file \in exported : V!ImagesOf(file) \subseteq Reached
  BY ReachedIs

LEMMA StoredIsReached == \A id \in DOMAIN stored : V!ImagesOf(stored[id].covers) \subseteq Reached
  BY ReachedIs

LEMMA JobIsReached == \A j \in Task : InJob(job[j]) \subseteq Reached
  BY ReachedIs

(* The steps of a job that write nothing but what it knows.                *)
LEMMA KnowledgeKeeps ==
  ASSUME CoversInv, NEW j \in Task,
         V!ReadTables(j) \/ V!ListCandidates(j) \/ V!Fetch(j) \/ \E i \in V!Image : V!CheckFails(j, i)
  PROVE  CoversInv'
<1>1. /\ job[j] \in JobRecords /\ InJob(job[j]) \subseteq Reached
      /\ job[j].check \subseteq 1..uploaded /\ job[j].check \subseteq Nat
      /\ V!ImagesOf(job[j].payload) \subseteq Reached /\ V!ImagesOf(job[j].source) \subseteq Reached
  BY CoverTypes, JobIsReached DEF CoversInv, OnlyUploaded, InJob, JobRecords
<1> USE DEF JobStages
<1>2. CASE V!ReadTables(j)
  <2> DEFINE row == [job[j] EXCEPT !.at = "record", !.payload = cover]
  <2>1. row \in JobRecords
    BY <1>1, CoverTypes, RowWith
  <2>2. row.payload = cover /\ row.source = job[j].source /\ row.check = job[j].check /\ row.doomed = job[j].doomed
    BY <1>1 DEF JobRecords
  <2>3. V!Become(j, row) /\ UNCHANGED <<cover, uploaded, present, stored, created, exported, adrift>>
    BY <1>2 DEF V!ReadTables
  <2> HIDE DEF row
  <2> QED
    BY <1>1, <2>1, <2>2, <2>3, CoverIsReached, JobStep DEF InJob
<1>3. CASE V!ListCandidates(j)
  <2> DEFINE row == [job[j] EXCEPT !.at = "prune", !.excluded = V!Beyond]
  <2>1. V!Beyond \in SUBSET Nat
    BY CoverTypes DEF V!Beyond, V!Unpinned
  <2>2. row \in JobRecords
    BY <1>1, <2>1, RowWith
  <2>3. row.payload = job[j].payload /\ row.source = job[j].source /\ row.check = job[j].check /\ row.doomed = job[j].doomed
    BY <1>1 DEF JobRecords
  <2>4. V!Become(j, row) /\ UNCHANGED <<cover, uploaded, present, stored, created, exported, adrift>>
    BY <1>3 DEF V!ListCandidates
  <2> HIDE DEF row
  <2> QED
    BY <1>1, <2>2, <2>3, <2>4, JobStep DEF InJob
<1>4. CASE V!Fetch(j)
  <2>1. PICK file \in exported \union {stored[id].covers : id \in DOMAIN stored} :
          V!Become(j, [job[j] EXCEPT !.at = "fetched", !.restores = TRUE, !.source = file])
    BY <1>4 DEF V!Fetch
  <2> DEFINE row == [job[j] EXCEPT !.at = "fetched", !.restores = TRUE, !.source = file]
  <2>2. file \in Payloads /\ V!ImagesOf(file) \subseteq Reached
    BY CoverTypes, CoverIsReached, StoredIsReached
  <2>3. row \in JobRecords
    BY <1>1, <2>2, RowWith
  <2>4. row.source = file /\ row.payload = job[j].payload /\ row.check = job[j].check /\ row.doomed = job[j].doomed
    BY <1>1 DEF JobRecords
  <2>5. V!Become(j, row) /\ UNCHANGED <<cover, uploaded, present, stored, created, exported, adrift>>
    BY <1>4, <2>1 DEF V!Fetch
  <2> HIDE DEF row
  <2> QED
    BY <1>1, <2>2, <2>3, <2>4, <2>5, JobStep DEF InJob
<1>5. ASSUME NEW i \in V!Image, V!CheckFails(j, i) PROVE CoversInv'
  <2> DEFINE row == [job[j] EXCEPT !.check = @ \ {i}]
  <2>1. row \in JobRecords
    BY <1>1, RowWith
  <2>2. /\ row.payload = job[j].payload /\ row.source = job[j].source
        /\ row.check \subseteq job[j].check /\ row.doomed = job[j].doomed
    BY <1>1 DEF JobRecords
  <2>3. V!Become(j, row) /\ UNCHANGED <<cover, uploaded, present, stored, created, exported, adrift>>
    BY <1>5 DEF V!CheckFails
  <2> HIDE DEF row
  <2> QED
    BY <1>1, <2>1, <2>2, <2>3, JobStep DEF InJob
<1> QED
  BY <1>2, <1>3, <1>4, <1>5

LEMMA StagesKeep ==
  ASSUME CoversInv, NEW j \in Task,
         V!Admit(j) \/ V!CleanedUp(j) \/ V!GiveUp(j) \/ V!Lock(j) \/ V!VerifySafety(j)
  PROVE  CoversInv'
<1>1. /\ \E stage \in JobStages : V!Goto(j, stage) \/ V!Become(j, V!Idle)
      /\ UNCHANGED <<cover, uploaded, present, stored, created, exported, adrift>>
  BY DEF V!Admit, V!CleanedUp, V!GiveUp, V!Lock, V!VerifySafety, JobStages
<1> QED
  BY <1>1, StageStep

(* ------------------------------------------------------ stored snapshots *)

(* Snapshots of what can be reached are written, listed, pinned or deleted.*)
LEMMA StoredMove ==
  ASSUME CoversInv, NEW j \in Task, NEW row \in JobRecords, V!Become(j, row),
         InJob(row) \subseteq Reached, row.check \subseteq 1..uploaded, row.doomed \subseteq job[j].doomed,
         UNCHANGED <<cover, uploaded, present, exported, adrift>>,
         created' \in Nat, DOMAIN stored' \subseteq 1..created', stored' = [id \in DOMAIN stored' |-> stored'[id]],
         \A id \in DOMAIN stored' :
           /\ stored'[id] \in Records /\ V!ImagesOf(stored'[id].covers) \subseteq Reached
           /\ stored'[id].images \in {V!Unindexed, V!ImagesOf(stored'[id].covers)}
  PROVE  CoversInv'
<1>1. /\ job' \in [Task -> JobRecords] /\ \A n \in Task : InJob(job'[n]) \subseteq Reached
      /\ \A n \in Task : job'[n].check \subseteq 1..uploaded /\ job'[n].doomed \subseteq job[n].doomed
  BY JobMoves DEF V!Become
<1>2. Reached' \subseteq Reached
  BY <1>1, ReachedIs, ReachedWillBe
<1>3. stored' \in [DOMAIN stored' -> Records]
  OBVIOUS
<1>4. CoversTyped'
  BY <1>1, <1>3 DEF CoversInv, CoversTyped
<1>5. Listings'
  <2>1. \A id \in DOMAIN stored' : V!ImagesOf(stored[id].covers)' = V!ImagesOf(stored'[id].covers)
    BY DEF V!ImagesOf
  <2> QED
    BY <2>1 DEF Listings, V!Unindexed, V!NoImage
<1> QED
  BY <1>1, <1>2, <1>4, <1>5, CoversMove

(* A job begins to look whether images can be destroyed.                   *)
LEMMA CleaningRow ==
  ASSUME CoversInv, NEW j \in Task, NEW images \in SUBSET (1..uploaded)
  PROVE  LET row == [job[j] EXCEPT !.at = "clean", !.check = images, !.excluded = {}, !.payload = V!NoPayload]
         IN  /\ row \in JobRecords /\ row.check = images /\ row.doomed = job[j].doomed /\ InJob(row) \subseteq Reached
             /\ V!CleanUp(j, images) <=> V!Become(j, row)
<1> DEFINE row == [job[j] EXCEPT !.at = "clean", !.check = images, !.excluded = {}, !.payload = V!NoPayload]
<1>1. job[j] \in JobRecords /\ uploaded \in Nat /\ images \in SUBSET Nat /\ "clean" \in JobStages /\ {} \in SUBSET Nat
  BY CoverTypes DEF JobStages
<1>2. row \in JobRecords /\ row.check = images /\ row.doomed = job[j].doomed
      /\ row.payload = V!NoPayload /\ row.source = job[j].source
  BY <1>1, NoImages DEF JobRecords
<1>3. InJob(row) \subseteq Reached
  <2> HIDE DEF row
  <2>1. InJob(row) \subseteq InJob(job[j])
    BY <1>2, NoImages DEF InJob
  <2> QED
    BY <2>1, JobIsReached
<1> QED
  BY <1>2, <1>3 DEF V!CleanUp

(* What a job is about to destroy was uploaded: what snapshots listed.     *)
LEMMA ListedIsUploaded ==
  ASSUME CoversInv, NEW ids \in SUBSET DOMAIN stored
  PROVE  V!Listed(ids) \in SUBSET (1..uploaded)
<1>1. ASSUME NEW id \in ids PROVE stored[id].images \ {0} \subseteq Reached
  <2>1. stored[id].images \in {{0}, V!ImagesOf(stored[id].covers)}
    BY DEF CoversInv, Listings, V!Unindexed, V!NoImage
  <2> QED
    BY <2>1, StoredIsReached
<1>2. V!Listed(ids) \subseteq Reached
  BY <1>1 DEF V!Listed, V!NoImage
<1> QED
  BY <1>2 DEF CoversInv, OnlyUploaded

LEMMA InsertKeeps == ASSUME CoversInv, NEW j \in Task, V!InsertRecord(j) PROVE CoversInv'
<1> DEFINE record == [covers |-> job[j].payload, images |-> V!ImagesOf(job[j].payload), pinned |-> FALSE]
           own == IF job[j].restores THEN created' ELSE 0
           row == [job[j] EXCEPT !.at = "index", !.own = own, !.payload = V!NoPayload]
<1>1. /\ created' = created + 1 /\ V!Become(j, row)
      /\ stored' = [id \in DOMAIN stored \union {created'} |-> IF id = created' THEN record ELSE stored[id]]
      /\ UNCHANGED <<cover, uploaded, present, exported, adrift>>
  BY DEF V!InsertRecord
<1>2. /\ job[j] \in JobRecords /\ job[j].payload \in Payloads /\ created \in Nat /\ own \in Nat
      /\ V!ImagesOf(job[j].payload) \subseteq Reached /\ job[j].check \subseteq 1..uploaded
  BY <1>1, CoverTypes, JobIsReached DEF JobRecords, InJob, CoversInv, OnlyUploaded
<1>3. row \in JobRecords /\ row.check = job[j].check /\ row.doomed = job[j].doomed
      /\ row.payload = V!NoPayload /\ row.source = job[j].source
  <2> HIDE DEF own
  <2>1. "index" \in JobStages
    BY DEF JobStages
  <2> QED
    BY <1>2, <2>1, NoImages DEF JobRecords
<1>4. record \in Records /\ record.covers = job[j].payload /\ record.images = V!ImagesOf(job[j].payload)
  <2>1. V!ImagesOf(job[j].payload) \in SUBSET Nat /\ FALSE \in BOOLEAN
    BY <1>2, CoverTypes DEF CoversInv, OnlyUploaded
  <2> QED
    BY <1>2, <2>1 DEF Records
<1> HIDE DEF record, row
<1>5. InJob(row) \subseteq Reached
  <2>1. InJob(row) \subseteq InJob(job[j])
    BY <1>3, NoImages DEF InJob
  <2> QED
    BY <2>1, JobIsReached
<1>6. DOMAIN stored' = DOMAIN stored \union {created'} /\ DOMAIN stored' \subseteq 1..created' /\ created' \in Nat
  BY <1>1, <1>2, CoverTypes
<1>7. ASSUME NEW id \in DOMAIN stored'
      PROVE  /\ stored'[id] \in Records /\ V!ImagesOf(stored'[id].covers) \subseteq Reached
             /\ stored'[id].images \in {V!Unindexed, V!ImagesOf(stored'[id].covers)}
  <2>1. CASE id = created'
    BY <1>1, <1>2, <1>4, <2>1
  <2>2. CASE id # created'
    <3>1. id \in DOMAIN stored /\ stored'[id] = stored[id]
      BY <1>1, <1>6, <2>2
    <3> QED
      BY <3>1, CoverTypes, StoredIsReached DEF CoversInv, Listings
  <2> QED
    BY <2>1, <2>2
<1>8. stored' = [id \in DOMAIN stored' |-> stored'[id]]
  BY <1>1
<1> QED
  BY <1>1, <1>2, <1>3, <1>5, <1>6, <1>7, <1>8, StoredMove

LEMMA IndexKeeps == ASSUME CoversInv, NEW j \in Task, V!IndexMissing(j) PROVE CoversInv'
<1>1. PICK failed \in SUBSET V!Missing :
        /\ stored' = [id \in DOMAIN stored |->
                        IF id \in V!Missing \ failed THEN [stored[id] EXCEPT !.images = V!ImagesOf(stored[id].covers)]
                        ELSE stored[id]]
        /\ V!Goto(j, IF failed = {} THEN "prune" ELSE "list")
  BY DEF V!IndexMissing
<1> DEFINE stage == IF failed = {} THEN "prune" ELSE "list"
           row == [job[j] EXCEPT !.at = stage]
<1>2. UNCHANGED <<cover, uploaded, present, created, exported, adrift>>
  BY DEF V!IndexMissing
<1>3. stage \in JobStages /\ job[j] \in JobRecords
  BY CoverTypes DEF JobStages
<1> HIDE DEF stage
<1>4. row \in JobRecords /\ row.check = job[j].check /\ row.doomed = job[j].doomed
      /\ row.payload = job[j].payload /\ row.source = job[j].source
  <2>1. row \in JobRecords
    BY <1>3, RowWith
  <2> QED
    BY <1>3, <2>1 DEF JobRecords
<1>5. V!Become(j, row)
  BY <1>1, CoverTypes DEF V!Goto, V!Become, stage
<1> HIDE DEF row
<1>6. InJob(row) \subseteq Reached /\ row.check \subseteq 1..uploaded
  BY <1>4, JobIsReached DEF InJob, CoversInv, OnlyUploaded
<1>7. DOMAIN stored' = DOMAIN stored /\ stored' = [id \in DOMAIN stored' |-> stored'[id]]
  BY <1>1
<1>8. ASSUME NEW id \in DOMAIN stored'
      PROVE  /\ stored'[id] \in Records /\ V!ImagesOf(stored'[id].covers) \subseteq Reached
             /\ stored'[id].images \in {V!Unindexed, V!ImagesOf(stored'[id].covers)}
  <2>1. id \in DOMAIN stored /\ stored[id] \in Records /\ V!ImagesOf(stored[id].covers) \subseteq Reached
        /\ stored[id].images \in {V!Unindexed, V!ImagesOf(stored[id].covers)}
    BY <1>7, CoverTypes, StoredIsReached DEF CoversInv, Listings
  <2>2. V!ImagesOf(stored[id].covers) \in SUBSET Nat
    BY <2>1, CoverTypes DEF CoversInv, OnlyUploaded
  <2> DEFINE indexed == [stored[id] EXCEPT !.images = V!ImagesOf(stored[id].covers)]
  <2>3. indexed \in Records /\ indexed.covers = stored[id].covers /\ indexed.images = V!ImagesOf(stored[id].covers)
    BY <2>1, <2>2 DEF Records
  <2>4. stored'[id] \in {stored[id], indexed}
    BY <1>1, <2>1
  <2> HIDE DEF indexed
  <2> QED
    BY <2>1, <2>3, <2>4
<1>9. created' \in Nat /\ DOMAIN stored' \subseteq 1..created'
  BY <1>2, <1>7, CoverTypes
<1> QED
  BY <1>2, <1>4, <1>5, <1>6, <1>7, <1>8, <1>9, StoredMove

(* Snapshots that stay are what they were, or are pinned or no more.       *)
LEMMA FewerStored ==
  ASSUME CoversInv, stored' = [id \in DOMAIN stored' |-> stored'[id]], DOMAIN stored' \subseteq DOMAIN stored,
         \A id \in DOMAIN stored' : \E pin \in BOOLEAN : stored'[id] \in {stored[id], [stored[id] EXCEPT !.pinned = pin]}
  PROVE  \A id \in DOMAIN stored' :
           /\ stored'[id] \in Records /\ V!ImagesOf(stored'[id].covers) \subseteq Reached
           /\ stored'[id].images \in {V!Unindexed, V!ImagesOf(stored'[id].covers)}
<1> SUFFICES ASSUME NEW id \in DOMAIN stored'
             PROVE  /\ stored'[id] \in Records /\ V!ImagesOf(stored'[id].covers) \subseteq Reached
                    /\ stored'[id].images \in {V!Unindexed, V!ImagesOf(stored'[id].covers)}
  OBVIOUS
<1>1. PICK pin \in BOOLEAN : stored'[id] \in {stored[id], [stored[id] EXCEPT !.pinned = pin]}
  OBVIOUS
<1> DEFINE row == [stored[id] EXCEPT !.pinned = pin]
<1>2. id \in DOMAIN stored /\ stored[id] \in Records /\ V!ImagesOf(stored[id].covers) \subseteq Reached
      /\ stored[id].images \in {V!Unindexed, V!ImagesOf(stored[id].covers)}
  BY CoverTypes, StoredIsReached DEF CoversInv, Listings
<1>3. row \in Records /\ row.covers = stored[id].covers /\ row.images = stored[id].images
  BY <1>2 DEF Records
<1> HIDE DEF row
<1>4. stored'[id] \in {stored[id], row}
  BY <1>1 DEF row
<1> QED
  BY <1>2, <1>3, <1>4

LEMMA RemovalKeeps ==
  ASSUME CoversInv, NEW j \in Task, V!Prune(j) \/ \E id \in DOMAIN stored : V!RemoveSnapshot(j, id)
  PROVE  CoversInv'
<1>1. PICK ids \in SUBSET DOMAIN stored : stored' = V!Without(ids) /\ V!CleanUp(j, V!Listed(ids))
  <2>1. CASE V!Prune(j)
    <3>1. V!Beyond \ job[j].excluded \in SUBSET DOMAIN stored
      BY DEF V!Beyond, V!Unpinned
    <3> QED
      BY <2>1, <3>1 DEF V!Prune
  <2>2. ASSUME NEW id \in DOMAIN stored, V!RemoveSnapshot(j, id)
        PROVE  \E ids \in SUBSET DOMAIN stored : stored' = V!Without(ids) /\ V!CleanUp(j, V!Listed(ids))
    <3>1. {id} \in SUBSET DOMAIN stored
      OBVIOUS
    <3> QED
      BY <2>2, <3>1 DEF V!RemoveSnapshot
  <2> QED
    BY <2>1, <2>2
<1>2. UNCHANGED <<cover, uploaded, present, created, exported, adrift>>
  BY DEF V!Prune, V!RemoveSnapshot
<1>3. V!Listed(ids) \in SUBSET (1..uploaded)
  BY ListedIsUploaded
<1>4. PICK row \in JobRecords :
        /\ V!Become(j, row) /\ row.check = V!Listed(ids) /\ row.doomed = job[j].doomed
        /\ InJob(row) \subseteq Reached
  <2> DEFINE row == [job[j] EXCEPT !.at = "clean", !.check = V!Listed(ids), !.excluded = {}, !.payload = V!NoPayload]
  <2>1. /\ row \in JobRecords /\ row.check = V!Listed(ids) /\ row.doomed = job[j].doomed /\ InJob(row) \subseteq Reached
        /\ V!CleanUp(j, V!Listed(ids)) <=> V!Become(j, row)
    BY <1>3, CleaningRow
  <2> HIDE DEF row
  <2> QED
    BY <1>1, <2>1
<1>5. DOMAIN stored' = DOMAIN stored \ ids /\ stored' = [id \in DOMAIN stored' |-> stored'[id]]
      /\ \A id \in DOMAIN stored' : stored'[id] = stored[id]
  BY <1>1 DEF V!Without
<1>6. \A id \in DOMAIN stored' : \E pin \in BOOLEAN : stored'[id] \in {stored[id], [stored[id] EXCEPT !.pinned = pin]}
  BY <1>5
<1>7. created' \in Nat /\ DOMAIN stored' \subseteq 1..created' /\ DOMAIN stored' \subseteq DOMAIN stored
  BY <1>2, <1>5, CoverTypes
<1>8. \A id \in DOMAIN stored' :
        /\ stored'[id] \in Records /\ V!ImagesOf(stored'[id].covers) \subseteq Reached
        /\ stored'[id].images \in {V!Unindexed, V!ImagesOf(stored'[id].covers)}
  BY <1>5, <1>6, <1>7, FewerStored
<1> QED
  BY <1>2, <1>3, <1>4, <1>5, <1>7, <1>8, StoredMove

LEMMA PinKeeps == ASSUME CoversInv, NEW j \in Task, NEW id \in DOMAIN stored, V!Pin(j, id) PROVE CoversInv'
<1>1. /\ stored' = [stored EXCEPT ![id].pinned = ~@] /\ V!Become(j, V!Idle)
      /\ UNCHANGED <<cover, uploaded, present, created, exported, adrift>>
  BY DEF V!Pin
<1>2. DOMAIN stored' = DOMAIN stored /\ stored' = [k \in DOMAIN stored' |-> stored'[k]]
  <2>1. stored = [k \in DOMAIN stored |-> stored[k]]
    BY CoverTypes
  <2> QED
    BY <1>1, <2>1
<1>3. \A k \in DOMAIN stored' : \E pin \in BOOLEAN : stored'[k] \in {stored[k], [stored[k] EXCEPT !.pinned = pin]}
  <2> SUFFICES ASSUME NEW k \in DOMAIN stored'
               PROVE  \E pin \in BOOLEAN : stored'[k] \in {stored[k], [stored[k] EXCEPT !.pinned = pin]}
    OBVIOUS
  <2> DEFINE pin == ~stored[id].pinned
  <2>1. pin \in BOOLEAN
    OBVIOUS
  <2>2. stored'[k] = IF k = id THEN [stored[k] EXCEPT !.pinned = pin] ELSE stored[k]
    BY <1>1, <1>2
  <2> HIDE DEF pin
  <2> WITNESS pin \in BOOLEAN
  <2> QED
    BY <2>2
<1>4. created' \in Nat /\ DOMAIN stored' \subseteq 1..created' /\ DOMAIN stored' \subseteq DOMAIN stored
  BY <1>1, <1>2, CoverTypes
<1>5. \A k \in DOMAIN stored' :
        /\ stored'[k] \in Records /\ V!ImagesOf(stored'[k].covers) \subseteq Reached
        /\ stored'[k].images \in {V!Unindexed, V!ImagesOf(stored'[k].covers)}
  BY <1>2, <1>3, <1>4, FewerStored
<1> QED
  BY <1>1, <1>2, <1>4, <1>5, RestingJob, StoredMove

(* ------------------------------------------------------------ the images *)

(* A cover goes, or comes back from a snapshot.                            *)
LEMMA CoverMove ==
  ASSUME CoversInv, NEW j \in Task, NEW row \in JobRecords, V!Become(j, row),
         InJob(row) \subseteq Reached, row.check \subseteq 1..uploaded, row.doomed \subseteq job[j].doomed,
         UNCHANGED <<uploaded, present, stored, created, exported, adrift>>,
         cover' \in Payloads, V!ImagesOf(cover') \subseteq Reached
  PROVE  CoversInv'
<1>1. /\ job' \in [Task -> JobRecords] /\ \A n \in Task : InJob(job'[n]) \subseteq Reached
      /\ \A n \in Task : job'[n].check \subseteq 1..uploaded /\ job'[n].doomed \subseteq job[n].doomed
  BY JobMoves DEF V!Become
<1>2. Reached' \subseteq Reached
  BY <1>1, ReachedIs, ReachedWillBe
<1>3. CoversTyped' /\ Listings'
  BY <1>1 DEF CoversInv, CoversTyped, Listings
<1> QED
  BY <1>1, <1>2, <1>3, CoversMove

LEMMA ReplacementKeeps ==
  ASSUME CoversInv, NEW j \in Task, V!Replace(j) \/ \E b \in Title : V!RemoveImage(j, b)
  PROVE  CoversInv'
<1>1. /\ job[j] \in JobRecords /\ job[j].source \in Payloads /\ cover \in Payloads /\ uploaded \in Nat
      /\ V!ImagesOf(job[j].source) \subseteq Reached /\ V!ImagesOf(cover) \subseteq Reached
  BY CoverTypes, CoverIsReached, JobIsReached DEF JobRecords, InJob
<1>2. CASE V!Replace(j)
  <2>1. cover' = job[j].source /\ V!Become(j, V!Idle)
        /\ UNCHANGED <<uploaded, present, stored, created, exported, adrift>>
    BY <1>2 DEF V!Replace
  <2> QED
    BY <1>1, <2>1, RestingJob, CoverMove
<1>3. ASSUME NEW b \in Title, V!RemoveImage(j, b) PROVE CoversInv'
  <2>1. /\ cover' = [cover EXCEPT ![b] = 0] /\ cover[b] # 0 /\ V!CleanUp(j, {cover[b]})
        /\ UNCHANGED <<uploaded, present, stored, created, exported, adrift>>
    BY <1>3 DEF V!RemoveImage, V!NoImage
  <2>2. cover' \in Payloads /\ V!ImagesOf(cover') \subseteq Reached
    <3>1. cover' \in Payloads
      BY <1>1, <2>1 DEF Payloads
    <3>2. V!ImagesOf(cover') \subseteq V!ImagesOf(cover)
      BY <1>1, <2>1, <3>1, ImagesAre DEF Payloads
    <3> QED
      BY <1>1, <3>1, <3>2
  <2>3. {cover[b]} \in SUBSET (1..uploaded)
    BY <1>1, <2>1, ImagesAre DEF CoversInv, OnlyUploaded
  <2> DEFINE row == [job[j] EXCEPT !.at = "clean", !.check = {cover[b]}, !.excluded = {}, !.payload = V!NoPayload]
  <2>4. /\ row \in JobRecords /\ row.check = {cover[b]} /\ row.doomed = job[j].doomed /\ InJob(row) \subseteq Reached
        /\ V!CleanUp(j, {cover[b]}) <=> V!Become(j, row)
    BY <2>3, CleaningRow
  <2> HIDE DEF row
  <2> QED
    BY <2>1, <2>2, <2>3, <2>4, CoverMove
<1> QED
  BY <1>2, <1>3

(* The new image is there, and nobody has looked at it yet.                *)
LEMMA UploadKeeps == ASSUME CoversInv, NEW j \in Task, NEW b \in Title, V!UploadImage(j, b) PROVE CoversInv'
<1>1. /\ uploaded' = uploaded + 1 /\ present' = present \union {uploaded'}
      /\ cover' = [cover EXCEPT ![b] = uploaded'] /\ V!CleanUp(j, {cover[b]} \ {0})
      /\ UNCHANGED <<stored, created, exported, adrift>>
  BY DEF V!UploadImage, V!NoImage
<1>2. /\ cover \in Payloads /\ uploaded \in Nat /\ V!ImagesOf(cover) \subseteq Reached /\ Reached \subseteq 1..uploaded
      /\ \A n \in Task : job[n].doomed \subseteq 1..uploaded
  BY CoverTypes, CoverIsReached DEF CoversInv, OnlyUploaded
<1>3. {cover[b]} \ {0} \in SUBSET (1..uploaded)
  BY <1>2, ImagesAre
<1> DEFINE row == [job[j] EXCEPT !.at = "clean", !.check = {cover[b]} \ {0}, !.excluded = {}, !.payload = V!NoPayload]
<1>4. /\ row \in JobRecords /\ row.check = {cover[b]} \ {0} /\ row.doomed = job[j].doomed /\ InJob(row) \subseteq Reached
      /\ V!CleanUp(j, {cover[b]} \ {0}) <=> V!Become(j, row)
  BY <1>3, CleaningRow
<1> HIDE DEF row
<1>5. /\ job' \in [Task -> JobRecords] /\ \A n \in Task : InJob(job'[n]) \subseteq Reached
      /\ \A n \in Task : job'[n].check \subseteq 1..uploaded /\ job'[n].doomed \subseteq job[n].doomed
  BY <1>1, <1>3, <1>4, JobMoves DEF V!Become
<1>6. cover' \in Payloads /\ V!ImagesOf(cover') \subseteq V!ImagesOf(cover) \union {uploaded'}
  <2>1. cover' \in Payloads
    BY <1>1, <1>2 DEF Payloads
  <2> QED
    BY <1>1, <1>2, <2>1, ImagesAre DEF Payloads
<1>7. Reached' \subseteq Reached \union {uploaded'}
  BY <1>1, <1>2, <1>5, <1>6, ReachedIs, ReachedWillBe
<1>8. CoversTyped' /\ Listings'
  BY <1>1, <1>2, <1>5, <1>6 DEF CoversInv, CoversTyped, Listings
<1>9. OnlyUploaded'
  <2>1. 1..uploaded \subseteq 1..uploaded' /\ uploaded' \in 1..uploaded'
    BY <1>1, <1>2
  <2>2. \A n \in Task : job'[n].check \subseteq 1..uploaded' /\ job'[n].doomed \subseteq 1..uploaded'
    BY <1>2, <1>5, <2>1
  <2>3. Reached' \subseteq 1..uploaded'
    BY <1>2, <1>7, <2>1
  <2> QED
    BY <2>2, <2>3 DEF OnlyUploaded
<1>10. NotDoomed'
  <2>1. ASSUME NEW i \in Reached' \ adrift'
        PROVE  i \in present' /\ \A n \in Task : i \notin job'[n].doomed
    <3>1. CASE i = uploaded'
      <4>1. i \notin 1..uploaded
        BY <1>1, <1>2, <3>1
      <4> QED
        BY <1>1, <1>2, <1>5, <3>1, <4>1
    <3>2. CASE i # uploaded'
      <4>1. i \in Reached \ adrift
        BY <1>1, <1>7, <2>1, <3>2
      <4> QED
        BY <1>1, <1>5, <4>1 DEF CoversInv, NotDoomed
    <3> QED
      BY <3>1, <3>2
  <2> QED
    BY <2>1 DEF NotDoomed
<1> QED
  BY <1>8, <1>9, <1>10 DEF CoversInv

LEMMA ExportKeeps ==
  ASSUME CoversInv, NEW file \in {cover} \union {stored[id].covers : id \in DOMAIN stored}, V!Export(file)
  PROVE  CoversInv'
<1>1. exported' = exported \union {file} /\ UNCHANGED <<cover, uploaded, present, stored, created, job, adrift>>
  BY DEF V!Export
<1>2. file \in Payloads /\ V!ImagesOf(file) \subseteq Reached
  BY CoverTypes, CoverIsReached, StoredIsReached
<1>3. Reached' \subseteq Reached
  BY <1>1, <1>2, ReachedIs, ReachedWillBe
<1>4. CoversTyped' /\ Listings'
  BY <1>1, <1>2 DEF CoversInv, CoversTyped, Listings
<1>5. \A j \in Task : job'[j].check \subseteq 1..uploaded /\ job'[j].doomed \subseteq job[j].doomed
  BY <1>1 DEF CoversInv, OnlyUploaded
<1> QED
  BY <1>1, <1>3, <1>4, <1>5, CoversMove

(* What no row refers to can be reached only from what is adrift.          *)
LEMMA ReachedOrAdrift ==
  ASSUME CoversInv, NEW i \in Reached, ~V!Referenced(i) PROVE V!Adrift(i)
<1>1. i \in 1..uploaded /\ uploaded \in Nat
  BY CoverTypes DEF CoversInv, OnlyUploaded
<1>2. i \notin V!ImagesOf(cover)
  BY <1>1, CoverTypes, ImagesAre DEF V!Referenced
<1>3. ASSUME NEW id \in DOMAIN stored PROVE i \notin V!ImagesOf(stored[id].covers)
  <2>1. stored[id].images # V!Unindexed /\ i \notin stored[id].images
    BY DEF V!Referenced
  <2> QED
    BY <2>1 DEF CoversInv, Listings
<1>4. \/ \E j \in Task : i \in InJob(job[j])
      \/ \E file \in exported : i \in V!ImagesOf(file)
  BY <1>2, <1>3, ReachedIs
<1> QED
  BY <1>4 DEF V!Adrift, InJob

LEMMA CheckKeeps == ASSUME CoversInv, NEW j \in Task, NEW i \in V!Image, V!CheckImage(j, i) PROVE CoversInv'
<1>1. /\ job[j] \in JobRecords /\ i \in job[j].check
      /\ job[j].check \subseteq 1..uploaded /\ job[j].doomed \subseteq 1..uploaded
      /\ uploaded \in Nat /\ InJob(job[j]) \subseteq Reached
      /\ UNCHANGED <<cover, uploaded, present, stored, created, exported>>
  BY CoverTypes, JobIsReached DEF CoversInv, OnlyUploaded, V!CheckImage
<1>2. CASE V!Referenced(i)
  <2> DEFINE row == [job[j] EXCEPT !.check = @ \ {i}]
  <2>1. row \in JobRecords /\ row.payload = job[j].payload /\ row.source = job[j].source
        /\ row.check \subseteq job[j].check /\ row.doomed = job[j].doomed
    BY <1>1 DEF JobRecords
  <2>2. V!Become(j, row) /\ adrift' = adrift
    BY <1>2 DEF V!CheckImage
  <2> HIDE DEF row
  <2> QED
    BY <1>1, <2>1, <2>2, JobStep DEF InJob
<1>3. CASE ~V!Referenced(i)
  <2> DEFINE row == [job[j] EXCEPT !.check = @ \ {i}, !.doomed = @ \union {i}]
  <2>1. row \in JobRecords /\ row.payload = job[j].payload /\ row.source = job[j].source
        /\ row.check = job[j].check \ {i} /\ row.doomed = job[j].doomed \union {i}
    <3>1. job[j].check \ {i} \in SUBSET Nat /\ job[j].doomed \union {i} \in SUBSET Nat
      BY <1>1
    <3> QED
      BY <1>1, <3>1 DEF JobRecords
  <2>2. V!Become(j, row) /\ adrift' = adrift \union {x \in {i} : V!Adrift(x)}
    BY <1>3 DEF V!CheckImage
  <2> HIDE DEF row
  <2>3. \A n \in Task : job'[n] = IF n = j THEN row ELSE job[n]
    BY <2>2, CoverTypes DEF V!Become
  <2>4. job' \in [Task -> JobRecords]
    BY <2>1, <2>2, CoverTypes DEF V!Become
  <2>5. CoversTyped' /\ Listings'
    BY <1>1, <2>4 DEF CoversInv, CoversTyped, Listings
  <2>6. Reached' \subseteq Reached
    <3>1. \A n \in Task : InJob(job'[n]) \subseteq Reached
      BY <2>1, <2>3, JobIsReached DEF InJob
    <3> QED
      BY <1>1, <3>1, ReachedIs, ReachedWillBe
  <2>7. OnlyUploaded'
    <3>1. \A n \in Task : job[n].check \subseteq 1..uploaded /\ job[n].doomed \subseteq 1..uploaded
      BY DEF CoversInv, OnlyUploaded
    <3>2. \A n \in Task : job'[n].check \subseteq 1..uploaded /\ job'[n].doomed \subseteq 1..uploaded
      BY <1>1, <2>1, <2>3, <3>1
    <3> QED
      BY <1>1, <2>6, <3>2 DEF CoversInv, OnlyUploaded
  <2>8. NotDoomed'
    <3>1. ASSUME NEW x \in Reached' \ adrift'
          PROVE  x \in present' /\ \A n \in Task : x \notin job'[n].doomed
      <4>1. x \in Reached \ adrift
        BY <2>2, <2>6, <3>1
      <4>2. x # i
        BY <1>3, <2>2, <3>1, <4>1, ReachedOrAdrift
      <4> QED
        BY <1>1, <2>1, <2>3, <4>1, <4>2 DEF CoversInv, NotDoomed
    <3> QED
      BY <3>1 DEF NotDoomed
  <2> QED
    BY <2>5, <2>7, <2>8 DEF CoversInv
<1> QED
  BY <1>2, <1>3

LEMMA DestructionKeeps == ASSUME CoversInv, NEW j \in Task, NEW i \in V!Image, V!DestroyImage(j, i) PROVE CoversInv'
<1> DEFINE row == [job[j] EXCEPT !.doomed = @ \ {i}]
<1>1. /\ i \in job[j].doomed /\ V!Become(j, row) /\ present \ {i} \subseteq present'
      /\ UNCHANGED <<cover, uploaded, stored, created, exported, adrift>>
  BY DEF V!DestroyImage
<1>2. job[j] \in JobRecords
  BY CoverTypes
<1>3. row \in JobRecords /\ row.payload = job[j].payload /\ row.source = job[j].source
      /\ row.check = job[j].check /\ row.doomed = job[j].doomed \ {i}
  BY <1>2 DEF JobRecords
<1> HIDE DEF row
<1>4. InJob(row) \subseteq Reached /\ row.check \subseteq 1..uploaded
  BY <1>3, JobIsReached DEF InJob, CoversInv, OnlyUploaded
<1>5. /\ job' \in [Task -> JobRecords] /\ \A n \in Task : InJob(job'[n]) \subseteq Reached
      /\ \A n \in Task : job'[n].check \subseteq 1..uploaded /\ job'[n].doomed \subseteq job[n].doomed
  BY <1>1, <1>3, <1>4, JobMoves DEF V!Become
<1>6. Reached' \subseteq Reached
  BY <1>1, <1>5, ReachedIs, ReachedWillBe
<1>7. CoversTyped' /\ Listings'
  BY <1>1, <1>5 DEF CoversInv, CoversTyped, Listings
<1>8. OnlyUploaded'
  <2>1. \A n \in Task : job[n].doomed \subseteq 1..uploaded
    BY DEF CoversInv, OnlyUploaded
  <2> QED
    BY <1>1, <1>5, <1>6, <2>1 DEF CoversInv, OnlyUploaded
<1>9. NotDoomed'
  <2>1. ASSUME NEW x \in Reached' \ adrift'
        PROVE  x \in present' /\ \A n \in Task : x \notin job'[n].doomed
    <3>1. x \in Reached \ adrift
      BY <1>1, <1>6, <2>1
    <3>2. x \in present /\ \A n \in Task : x \notin job[n].doomed
      BY <3>1 DEF CoversInv, NotDoomed
    <3> QED
      BY <1>1, <1>5, <3>2
  <2> QED
    BY <2>1 DEF NotDoomed
<1> QED
  BY <1>7, <1>8, <1>9 DEF CoversInv

LEMMA CoversKeep == ASSUME CoversInv, [V!Next]_(V!vars) PROVE CoversInv'
<1>1. CASE UNCHANGED V!vars
  <2>1. UNCHANGED <<cover, uploaded, present, stored, created, exported, job, adrift>>
    BY <1>1 DEF V!vars
  <2>2. Reached' = Reached
    BY <2>1, ReachedIs, ReachedWillBe
  <2> QED
    BY <2>1, <2>2 DEF CoversInv, CoversTyped, Listings, OnlyUploaded, NotDoomed
<1>2. CASE V!Next
  BY <1>2, StagesKeep, KnowledgeKeeps, ReplacementKeeps, UploadKeeps, CheckKeeps, DestructionKeeps, InsertKeeps,
     IndexKeeps, RemovalKeeps, PinKeeps, ExportKeeps DEF V!Next
<1> QED
  BY <1>1, <1>2

LEMMA ShownImagesLast == ASSUME CoversInv PROVE V!ImagesLast
<1>1. ASSUME NEW i \in {cover[b] : b \in Title} \union UNION {V!ImagesOf(stored[id].covers) : id \in DOMAIN stored}, i # 0
      PROVE  i \in Reached
  <2>1. CASE i \in {cover[b] : b \in Title}
    BY <1>1, <2>1, CoverTypes, CoverIsReached, ImagesAre
  <2>2. CASE i \notin {cover[b] : b \in Title}
    BY <1>1, <2>2, StoredIsReached
  <2> QED
    BY <2>1, <2>2
<1> QED
  BY <1>1 DEF V!ImagesLast, V!NoImage, CoversInv, NotDoomed

(* Numbers up to a bound have a greatest one: the least distance to it.    *)
LEMMA Greatest ==
  ASSUME NEW bound \in Nat, NEW some \in SUBSET (0..bound), some # {}
  PROVE  \E m \in some : \A k \in some : k <= m
<1> DEFINE gaps == {bound - k : k \in some}
<1>1. gaps \in SUBSET Nat /\ gaps # {}
  OBVIOUS
<1>2. PICK least \in gaps : \A k \in gaps : <<k, least>> \notin OpToRel(<, Nat)
  <2> HIDE DEF gaps
  <2> QED
    BY <1>1, WFMin, NatLessThanWellFounded, Zenon
<1>3. \A k \in gaps : ~(k < least)
  BY <1>1, <1>2, Zenon DEF OpToRel
<1>4. PICK m \in some : least = bound - m
  OBVIOUS
<1>5. ASSUME NEW k \in some PROVE k <= m
  <2>1. bound - k \in gaps
    OBVIOUS
  <2>2. ~(bound - k < bound - m)
    BY <1>3, <1>4, <2>1
  <2> QED
    BY <2>2
<1> QED
  BY <1>5

(* The newest snapshots that are not pinned stay: after the last one that  *)
(* goes there are as many as there were.                                   *)
LEMMA NewestStay ==
  ASSUME V!CoversAssumption, CoversInv, NEW id \in V!Beyond, NEW going \in SUBSET V!Beyond, id \in going
  PROVE  Cardinality({k \in V!Unpinned \ going : k > id}) >= MaxSnapshots
<1>1. V!Unpinned \subseteq 1..created /\ created \in Nat /\ IsFiniteSet(V!Unpinned) /\ going \subseteq V!Unpinned
  <2>1. V!Unpinned \subseteq 1..created /\ created \in Nat /\ going \subseteq V!Unpinned
    BY CoverTypes DEF V!Unpinned, V!Beyond
  <2>2. IsFiniteSet(1..created)
    BY <2>1, FS_Interval
  <2> QED
    BY <2>1, <2>2, FS_Subset
<1>2. PICK last \in going : \A k \in going : k <= last
  <2>1. going \in SUBSET (0..created) /\ going # {}
    BY <1>1
  <2> QED
    BY <1>1, <2>1, Greatest
<1> DEFINE after == {k \in V!Unpinned : k > last}
           left == {k \in V!Unpinned \ going : k > id}
<1>3. Cardinality(after) >= MaxSnapshots
  BY <1>2, SameCoverCounts DEF V!Beyond
<1>4. after \subseteq left
  <2>1. ASSUME NEW k \in V!Unpinned, k > last PROVE k \notin going /\ k > id
    <3>1. k \in Nat /\ last \in Nat /\ id \in Nat /\ id <= last
      BY <1>1, <1>2
    <3>2. ~(k <= last)
      BY <2>1, <3>1
    <3> QED
      BY <1>2, <2>1, <3>1, <3>2
  <2> QED
    BY <2>1
<1>5. IsFiniteSet(left)
  BY <1>1, FS_Subset
<1> HIDE DEF after, left
<1>6. Cardinality(after) \in Nat /\ Cardinality(left) \in Nat /\ Cardinality(after) <= Cardinality(left)
  BY <1>4, <1>5, FS_Subset, FS_CardinalityType
<1> QED
  BY <1>3, <1>6 DEF left, V!CoversAssumption

LEMMA SnapshotsStay == ASSUME V!CoversAssumption, CoversInv, [V!Next]_(V!vars) PROVE V!SnapshotsKept
<1> SUFFICES ASSUME NEW id \in DOMAIN stored \ DOMAIN stored'
             PROVE  /\ ~stored[id].pinned
                    /\ \/ \E j \in Task : V!At(j, "admitted") /\ job'[j].at = "clean"
                       \/ V!Cardinality({k \in DOMAIN stored' : k > id /\ ~stored'[k].pinned}) >= MaxSnapshots
  BY DEF V!SnapshotsKept
<1>1. \/ \E j \in Task : V!Prune(j)
      \/ \E j \in Task, gone \in DOMAIN stored : V!RemoveSnapshot(j, gone)
  <2>1. DOMAIN stored' # DOMAIN stored
    OBVIOUS
  <2>2. stored' # stored
    BY <2>1
  <2>3. ASSUME NEW j \in Task PROVE ~V!InsertRecord(j) /\ ~V!IndexMissing(j) /\ \A k \in DOMAIN stored : ~V!Pin(j, k)
    <3>1. V!InsertRecord(j) => DOMAIN stored \subseteq DOMAIN stored'
      BY DEF V!InsertRecord
    <3>2. V!IndexMissing(j) => DOMAIN stored' = DOMAIN stored
      BY DEF V!IndexMissing
    <3>3. ASSUME NEW k \in DOMAIN stored, V!Pin(j, k) PROVE FALSE
      BY <2>1, <3>3 DEF V!Pin
    <3> QED
      BY <2>1, <3>1, <3>2, <3>3
  <2>4. ~UNCHANGED V!vars
    BY <2>2 DEF V!vars
  <2> QED
    BY <2>2, <2>3, <2>4
    DEF V!Next, V!Admit, V!CleanedUp, V!GiveUp, V!UploadImage, V!RemoveImage, V!CheckImage, V!CheckFails,
        V!DestroyImage, V!ReadTables, V!ListCandidates, V!Fetch, V!Lock, V!VerifySafety, V!Replace, V!Export
<1>2. ASSUME NEW j \in Task, NEW gone \in DOMAIN stored, V!RemoveSnapshot(j, gone)
      PROVE  ~stored[id].pinned /\ V!At(j, "admitted") /\ job'[j].at = "clean"
  <2>1. gone \in V!Unpinned /\ stored' = V!Without({gone}) /\ V!At(j, "admitted") /\ V!CleanUp(j, V!Listed({gone}))
    BY <1>2 DEF V!RemoveSnapshot
  <2>2. id = gone
    BY <2>1 DEF V!Without
  <2>3. V!Listed({gone}) \in SUBSET (1..uploaded)
    BY ListedIsUploaded
  <2> DEFINE row == [job[j] EXCEPT !.at = "clean", !.check = V!Listed({gone}), !.excluded = {}, !.payload = V!NoPayload]
  <2>4. V!Become(j, row) /\ row.at = "clean"
    BY <2>1, <2>3, CleaningRow, CoverTypes DEF JobRecords
  <2> HIDE DEF row
  <2> QED
    BY <2>1, <2>2, <2>4, CoverTypes DEF V!Unpinned, V!Become
<1>3. ASSUME NEW j \in Task, V!Prune(j)
      PROVE  /\ ~stored[id].pinned
             /\ V!Cardinality({k \in DOMAIN stored' : k > id /\ ~stored'[k].pinned}) >= MaxSnapshots
  <2> DEFINE going == V!Beyond \ job[j].excluded
  <2>1. stored' = V!Without(going) /\ going \in SUBSET V!Beyond
    BY <1>3 DEF V!Prune
  <2>2. id \in going /\ DOMAIN stored' = DOMAIN stored \ going /\ \A k \in DOMAIN stored' : stored'[k] = stored[k]
    BY <2>1 DEF V!Without
  <2> HIDE DEF going
  <2>3. {k \in DOMAIN stored' : k > id /\ ~stored'[k].pinned} = {k \in V!Unpinned \ going : k > id}
    BY <2>2 DEF V!Unpinned
  <2>4. id \in V!Beyond /\ ~stored[id].pinned
    BY <2>1, <2>2 DEF V!Beyond, V!Unpinned
  <2>5. Cardinality({k \in V!Unpinned \ going : k > id}) >= MaxSnapshots
    BY <2>1, <2>2, <2>4, NewestStay
  <2> QED
    BY <2>3, <2>4, <2>5, SameCoverCounts
<1> QED
  BY <1>1, <1>2, <1>3

(* ---------------------------------------------------------------- notices *)

LEMMA LimitBound == Limit \in Nat \ {0}
  BY NoticeBound DEF I!InboxAssumption

Dated(v) == [notice : Notice, asOf : 0..v]
Lists(v) == {list \in Seq(Dated(v)) : Len(list) <= Limit}
Bounded(list, v) == \A i \in DOMAIN list : list[i].asOf <= v
InOrder(list) == \A i, j \in DOMAIN list : i < j => list[j].asOf <= list[i].asOf

(* What was pushed of a notice is no newer than its row.                   *)
Messages(S, v) ==
  {message \in [kind : {"created", "audience_changed", "open", "bootstrap", "close"}, notice : SUBSET Notice, asOf : 0..v] :
     message.kind = "created" =>
       \E n \in Notice : message.notice = {n} /\ \A row \in S : row.notice = n => message.asOf <= row.asOf}
Sockets(S, v) ==
  [stage : {"none", "connecting", "checking", "checked", "counting", "ready", "closed"},
   token : Nat, mail : Seq(Messages(S, v))]
Asks(v) ==
  {call \in [at : {"none", "sent", "answered"}, items : Lists(v), asOf : 0..v] :
     InOrder(call.items) /\ Bounded(call.items, call.asOf)}
Pages(v) == [token : Nat, socket : Socket \union {NoSocket}, list : Lists(v)]
NoticesTyped ==
  /\ version \in Nat /\ needed \in 0..version /\ behind \in BOOLEAN /\ issued \in Nat
  /\ current \subseteq Dated(version) /\ pushing \subseteq Messages(current, version)
  /\ socket \in [Socket -> Sockets(current, version)] /\ tab \in Pages(version) /\ ask \in [Ask -> Asks(version)]
  /\ tab.socket # NoSocket => tab.token # 0

(* A row that is there: lists that are not too old for it have it, and the *)
(* tab has it, or it is behind, or something brings it.                    *)
Brings(message, row) == message.kind # "created" \/ (row.notice \in message.notice /\ row.asOf <= message.asOf)
OnItsWay(row) ==
  \/ ~I!Connected
  \/ \E message \in pushing : Brings(message, row)
  \/ \E i \in DOMAIN socket[tab.socket].mail : Brings(socket[tab.socket].mail[i], row)
  \/ \E a \in Ask : ask[a].at = "sent" \/ (ask[a].at = "answered" /\ row.asOf <= ask[a].asOf)
Fetched(row) == \A a \in Ask : ask[a].at = "answered" /\ row.asOf <= ask[a].asOf => I!Covers(ask[a].items, row)
InPlace(row) == row.asOf <= needed /\ (behind \/ I!Covers(tab.list, row))
Follows(row) == Fetched(row) /\ (OnItsWay(row) \/ InPlace(row))
TabInOrder == Bounded(tab.list, needed) /\ (behind \/ InOrder(tab.list))
NoticesInv == NoticesTyped /\ TabInOrder /\ \A row \in current : Follows(row)

LEMMA NoticesShow == ASSUME NoticesInv PROVE I!NoticesAreShown
<1> SUFFICES ASSUME I!Quiet, ~behind, NEW row \in current PROVE I!Covers(tab.list, row)
  BY DEF I!NoticesAreShown
<1>1. ~OnItsWay(row)
  <2>1. DOMAIN socket[tab.socket].mail = {}
    BY DEF I!Quiet
  <2>2. \A a \in Ask : ask[a].at = "none"
    BY DEF I!Quiet, I!NoAsk
  <2>3. I!Connected /\ pushing = {}
    BY DEF I!Quiet
  <2> QED
    BY <2>1, <2>2, <2>3 DEF OnItsWay
<1> QED
  BY <1>1 DEF NoticesInv, Follows, InPlace

(* The list with a row put in front.                                       *)
LEMMA PutIs ==
  ASSUME NEW v \in Nat, NEW list \in Lists(v), NEW row \in Dated(v)
  PROVE  /\ I!Put(list, row) \in Lists(v)
         /\ \E size, moved, length \in Nat :
              /\ Len(list) = size /\ DOMAIN list = 1..size /\ size <= Limit /\ moved \in 1..(size + 1)
              /\ moved # size + 1 => list[moved].notice = row.notice
              /\ length = IF moved = size + 1 /\ size < Limit THEN size + 1 ELSE size
              /\ Len(I!Put(list, row)) = length /\ DOMAIN I!Put(list, row) = 1..length /\ 1 <= length
              /\ \A i \in 1..length :
                   I!Put(list, row)[i] = IF i = 1 THEN row ELSE IF i <= moved THEN list[i - 1] ELSE list[i]
<1> DEFINE at == {i \in DOMAIN list : list[i].notice = row.notice}
           moved == IF at = {} THEN Len(list) + 1 ELSE CHOOSE i \in at : TRUE
           length == I!Smaller(Limit, I!Greater(moved, Len(list)))
           it == [i \in 1..length |-> IF i = 1 THEN row ELSE IF i <= moved THEN list[i - 1] ELSE list[i]]
<1>1. I!Put(list, row) = it
  BY DEF I!Put
<1>2. list \in Seq(Dated(v)) /\ Len(list) <= Limit
  BY DEF Lists
<1>3. PICK size \in Nat : size = Len(list) /\ DOMAIN list = 1..size
  BY <1>2
<1>4. Limit \in Nat /\ 1 <= Limit /\ size <= Limit
  BY <1>2, <1>3, LimitBound
<1>5. moved \in 1..(size + 1) /\ (moved # size + 1 => list[moved].notice = row.notice)
  <2>1. CASE at = {}
    <3>1. moved = size + 1
      BY <1>3, <2>1
    <3> QED
      BY <3>1
  <2>2. CASE at # {}
    <3>1. moved \in at
      BY <2>2
    <3>2. moved \in 1..size /\ list[moved].notice = row.notice
      BY <1>3, <3>1
    <3> QED
      BY <3>2
  <2> QED
    BY <2>1, <2>2
<1> HIDE DEF moved
<1>6. length = IF moved = size + 1 /\ size < Limit THEN size + 1 ELSE size
  BY <1>3, <1>4, <1>5 DEF I!Smaller, I!Greater
<1> HIDE DEF length
<1>7. length \in Nat /\ 1 <= length /\ length <= Limit
  BY <1>4, <1>5, <1>6
<1>8. ASSUME NEW i \in 1..length, i # 1
      PROVE  (i <= moved => i - 1 \in DOMAIN list) /\ (~(i <= moved) => i \in DOMAIN list)
  <2>1. (i <= moved => i - 1 \in 1..size) /\ (~(i <= moved) => i \in 1..size)
    BY <1>4, <1>5, <1>6, <1>8
  <2> QED
    BY <1>3, <2>1
<1>9. \A i \in DOMAIN list : list[i] \in Dated(v)
  BY <1>2
<1>10. \A i \in 1..length : it[i] \in Dated(v)
  BY <1>8, <1>9
<1>11. it \in Seq(Dated(v)) /\ Len(it) = length /\ DOMAIN it = 1..length
  BY <1>7, <1>10
<1>12. it \in Lists(v)
  BY <1>7, <1>11 DEF Lists
<1>13. \A i \in 1..length : it[i] = IF i = 1 THEN row ELSE IF i <= moved THEN list[i - 1] ELSE list[i]
  OBVIOUS
<1> HIDE DEF it
<1>14. moved \in Nat
  BY <1>5
<1> QED
  BY <1>1, <1>3, <1>4, <1>5, <1>6, <1>7, <1>11, <1>12, <1>13, <1>14

LEMMA PutInOrder ==
  ASSUME NEW v \in Nat, NEW list \in Lists(v), NEW row \in Dated(v), NEW n \in Nat, Bounded(list, n)
  PROVE  /\ \E i \in DOMAIN I!Put(list, row) : I!Put(list, row)[i] = row
         /\ Bounded(I!Put(list, row), I!Greater(n, row.asOf))
         /\ InOrder(list) /\ n <= row.asOf => InOrder(I!Put(list, row))
         /\ \A other \in Dated(v) :
              /\ I!Covers(list, other) /\ InOrder(list) /\ n <= row.asOf
              /\ other.notice = row.notice => row.asOf <= other.asOf
              => I!Covers(I!Put(list, row), other)
<1> DEFINE it == I!Put(list, row)
<1>1. PICK size, moved, length \in Nat :
        /\ Len(list) = size /\ DOMAIN list = 1..size /\ size <= Limit /\ moved \in 1..(size + 1)
        /\ moved # size + 1 => list[moved].notice = row.notice
        /\ length = IF moved = size + 1 /\ size < Limit THEN size + 1 ELSE size
        /\ Len(it) = length /\ DOMAIN it = 1..length /\ 1 <= length
        /\ \A i \in 1..length : it[i] = IF i = 1 THEN row ELSE IF i <= moved THEN list[i - 1] ELSE list[i]
  BY PutIs
<1> HIDE DEF it
<1>2. Limit \in Nat /\ 1 <= Limit
  BY LimitBound
<1>3. \A i \in 1..size : list[i] \in Dated(v)
  <2>1. list \in Seq(Dated(v))
    BY DEF Lists
  <2> QED
    BY <1>1, <2>1
<1>4. row.asOf \in Nat /\ \A i \in 1..size : list[i].asOf \in Nat /\ list[i].asOf <= n
  BY <1>1, <1>3 DEF Bounded, Dated
<1>5. it[1] = row /\ 1 \in DOMAIN it
  BY <1>1
<1>6. ASSUME NEW i \in 1..length, i # 1
      PROVE  \E x \in 1..size : it[i] = list[x] /\ (x = i - 1 \/ (x = i /\ moved < i)) /\ (i <= moved => x = i - 1)
  <2>1. CASE i <= moved
    <3>1. i - 1 \in 1..size
      BY <1>1, <1>6, <2>1
    <3> QED
      BY <1>1, <1>6, <2>1, <3>1
  <2>2. CASE ~(i <= moved)
    <3>1. i \in 1..size /\ moved < i
      BY <1>1, <1>6, <2>2
    <3> QED
      BY <1>1, <1>6, <2>2, <3>1
  <2> QED
    BY <2>1, <2>2
<1>7. Bounded(it, I!Greater(n, row.asOf))
  <2> SUFFICES ASSUME NEW i \in 1..length PROVE it[i].asOf <= I!Greater(n, row.asOf)
    BY <1>1 DEF Bounded
  <2> QED
    BY <1>4, <1>5, <1>6 DEF I!Greater
<1>8. ASSUME InOrder(list), n <= row.asOf PROVE InOrder(it)
  <2> SUFFICES ASSUME NEW i \in 1..length, NEW j \in 1..length, i < j PROVE it[j].asOf <= it[i].asOf
    BY <1>1 DEF InOrder
  <2>1. j # 1
    OBVIOUS
  <2>2. PICK y \in 1..size : it[j] = list[y] /\ (y = j - 1 \/ (y = j /\ moved < j)) /\ (j <= moved => y = j - 1)
    BY <1>6, <2>1
  <2>3. CASE i = 1
    BY <1>4, <1>5, <1>8, <2>2, <2>3
  <2>4. CASE i # 1
    <3>1. PICK x \in 1..size : it[i] = list[x] /\ (x = i - 1 \/ (x = i /\ moved < i)) /\ (i <= moved => x = i - 1)
      BY <1>6, <2>4
    <3>2. x < y \/ x = y
      BY <2>1, <2>2, <3>1
    <3>3. CASE x = y
      BY <1>4, <2>2, <3>1, <3>3
    <3>4. CASE x < y
      BY <1>1, <1>8, <2>2, <3>1, <3>4 DEF InOrder
    <3> QED
      BY <3>2, <3>3, <3>4
  <2> QED
    BY <2>3, <2>4
<1>9. ASSUME NEW other \in Dated(v), I!Covers(list, other), InOrder(list), n <= row.asOf,
             other.notice = row.notice => row.asOf <= other.asOf
      PROVE  I!Covers(it, other)
  <2>1. other.asOf \in Nat
    BY DEF Dated
  <2>2. ASSUME size = Limit, \A i \in 1..size : other.asOf <= list[i].asOf PROVE I!Covers(it, other)
    <3>1. length = Limit /\ 1 \in 1..size
      BY <1>1, <1>2, <2>2
    <3>2. other.asOf <= row.asOf
      BY <1>4, <1>9, <2>1, <2>2, <3>1
    <3>3. ASSUME NEW i \in 1..length PROVE other.asOf <= it[i].asOf
      BY <1>5, <1>6, <2>2, <3>2
    <3> QED
      BY <1>1, <3>1, <3>3 DEF I!Covers
  <2>3. ASSUME NEW x \in 1..size, list[x] = other PROVE I!Covers(it, other)
    <3>1. CASE other.notice = row.notice
      <4>1. other.asOf = row.asOf
        BY <1>4, <1>9, <2>1, <2>3, <3>1
      <4>2. other = row
        BY <3>1, <4>1 DEF Dated
      <4>3. 1 \in DOMAIN it
        BY <1>1
      <4> QED
        BY <1>5, <4>2, <4>3 DEF I!Covers
    <3>2. CASE other.notice # row.notice
      <4>1. x # moved
        BY <1>1, <2>3, <3>2
      <4>2. CASE moved < x
        <5>1. x \in 1..length /\ x # 1 /\ ~(x <= moved)
          BY <1>1, <4>2
        <5>2. it[x] = list[x]
          BY <1>1, <5>1
        <5> QED
          BY <1>1, <2>3, <5>1, <5>2 DEF I!Covers
      <4>3. CASE x < moved /\ x + 1 \in 1..length
        <5>1. x + 1 # 1 /\ x + 1 <= moved /\ (x + 1) - 1 = x
          BY <1>1, <4>3
        <5>2. it[x + 1] = list[x]
          BY <1>1, <4>3, <5>1
        <5> QED
          BY <1>1, <2>3, <4>3, <5>2 DEF I!Covers
      <4>4. CASE x < moved /\ x + 1 \notin 1..length
        <5>1. size = Limit /\ x = size
          BY <1>1, <1>2, <4>4
        <5>2. ASSUME NEW i \in 1..size PROVE other.asOf <= list[i].asOf
          <6>1. CASE i = x
            BY <2>1, <2>3, <6>1
          <6>2. CASE i < x
            BY <1>1, <1>9, <2>3, <6>2 DEF InOrder
          <6> QED
            BY <5>1, <6>1, <6>2
        <5> QED
          BY <2>2, <5>1, <5>2
      <4> QED
        BY <1>1, <4>1, <4>2, <4>3, <4>4
    <3> QED
      BY <3>1, <3>2
  <2> QED
    BY <1>1, <1>9, <2>2, <2>3 DEF I!Covers
<1>10. \E i \in DOMAIN it : it[i] = row
  BY <1>5
<1> QED
  BY <1>7, <1>8, <1>9, <1>10 DEF it

LEMMA EmptyList == \A v \in Nat : <<>> \in Lists(v) /\ InOrder(<<>>) /\ Bounded(<<>>, v)
<1> SUFFICES ASSUME NEW v \in Nat PROVE <<>> \in Lists(v) /\ InOrder(<<>>) /\ Bounded(<<>>, v)
  OBVIOUS
<1>1. <<>> \in Seq(Dated(v)) /\ Len(<<>>) = 0 /\ DOMAIN <<>> = {}
  OBVIOUS
<1>2. 0 <= Limit
  BY LimitBound
<1> QED
  BY <1>1, <1>2 DEF Lists, InOrder, Bounded

LEMMA DatesAre == ASSUME NEW v \in Nat, NEW list \in Lists(v) PROVE \A i \in DOMAIN list : list[i].asOf \in Nat
<1>1. list \in Seq(Dated(v))
  BY DEF Lists
<1>2. \A i \in DOMAIN list : list[i] \in Dated(v)
  BY <1>1
<1> QED
  BY <1>2 DEF Dated

LEMMA NoticesStart == ASSUME I!Init PROVE NoticesInv
<1> USE DEF I!NoConnection, I!NoAsk, I!Sent
<1>1. /\ current = {} /\ version = 0 /\ pushing = {} /\ issued = 1 /\ needed = 0 /\ behind = FALSE
      /\ socket = [k \in Socket |-> I!NoConnection]
      /\ tab = [token |-> 1, socket |-> NoSocket, list |-> <<>>]
      /\ \A a \in Ask : ask[a] \in {I!Sent, I!NoAsk}
      /\ ask = [a \in Ask |-> ask[a]]
  BY DEF I!Init
<1>2. I!NoConnection \in Sockets({}, 0)
  <2>1. <<>> \in Seq(Messages({}, 0))
    OBVIOUS
  <2> QED
    BY <2>1 DEF Sockets
<1>3. 0 \in Nat /\ 0 \in 0..0 /\ <<>> \in Lists(0) /\ InOrder(<<>>) /\ Bounded(<<>>, 0)
  BY EmptyList
<1>4. tab \in Pages(0)
  BY <1>1, <1>3 DEF Pages
<1>5. I!NoAsk \in Asks(0) /\ I!Sent \in Asks(0)
  BY <1>3 DEF Asks
<1>6. NoticesTyped
  <2>1. socket \in [Socket -> Sockets(current, version)]
    BY <1>1, <1>2
  <2>2. ask \in [Ask -> Asks(version)]
    BY <1>1, <1>5
  <2> QED
    BY <1>1, <1>3, <1>4, <2>1, <2>2 DEF NoticesTyped
<1> QED
  BY <1>1, <1>3, <1>6 DEF NoticesInv, TabInOrder

LEMMA NoticeTypes ==
  ASSUME NoticesInv
  PROVE  /\ version \in Nat /\ needed \in 0..version /\ needed \in Nat /\ behind \in BOOLEAN /\ issued \in Nat
         /\ current \subseteq Dated(version) /\ pushing \subseteq Messages(current, version)
         /\ socket \in [Socket -> Sockets(current, version)]
         /\ \A k \in Socket : socket[k] \in Sockets(current, version) /\ socket[k].mail \in Seq(Messages(current, version))
         /\ tab \in Pages(version) /\ tab.list \in Lists(version) /\ tab.token \in Nat /\ tab.socket \in Socket \union {NoSocket}
         /\ ask \in [Ask -> Asks(version)] /\ \A a \in Ask : ask[a] \in Asks(version) /\ ask[a].asOf \in 0..version
         /\ tab.socket # NoSocket => tab.token # 0
  BY DEF NoticesInv, NoticesTyped, Sockets, Pages, Asks

(* Nothing new is written.                                                 *)
LEMMA NoticesMove ==
  ASSUME NoticesInv, NoticesTyped', TabInOrder', current' \subseteq current,
         \A row \in current' : /\ Fetched(row) => Fetched(row)'
                               /\ OnItsWay(row) \/ InPlace(row) => OnItsWay(row)' \/ InPlace(row)'
  PROVE  NoticesInv'
  BY DEF NoticesInv, Follows

(* Sockets change on the side of the server.  One that becomes ready was   *)
(* sent its bootstrap; one that stays so keeps what it was sent.           *)
LEMMA SocketsMove ==
  ASSUME NoticesInv, socket' \in [Socket -> Sockets(current, version)], pushing' \subseteq pushing,
         UNCHANGED <<current, version, issued, tab, ask, needed, behind>>,
         \A k \in Socket : socket'[k].stage = "ready" =>
           \/ socket[k].stage = "ready" /\ socket'[k].mail = socket[k].mail /\ pushing' = pushing
           \/ \E i \in DOMAIN socket'[k].mail : socket'[k].mail[i].kind = "bootstrap"
  PROVE  NoticesInv'
<1>1. NoticesTyped'
  BY NoticeTypes DEF NoticesTyped
<1>2. ASSUME NEW row, OnItsWay(row) PROVE OnItsWay(row)'
  <2>1. CASE ~I!Connected'
    BY <2>1 DEF OnItsWay
  <2>2. CASE I!Connected'
    <3>1. tab.socket \in Socket /\ tab' = tab /\ socket'[tab.socket].stage = "ready"
      BY <2>2, NoticeTypes DEF I!Connected
    <3>2. CASE \E i \in DOMAIN socket'[tab.socket].mail : socket'[tab.socket].mail[i].kind = "bootstrap"
      BY <3>1, <3>2 DEF OnItsWay, Brings
    <3>3. CASE socket[tab.socket].stage = "ready" /\ socket'[tab.socket].mail = socket[tab.socket].mail /\ pushing' = pushing
      <4>1. I!Connected
        BY <2>2, <3>1, <3>3 DEF I!Connected
      <4> QED
        BY <1>2, <3>1, <3>3, <4>1 DEF OnItsWay, Brings
    <3> QED
      BY <3>1, <3>2, <3>3
  <2> QED
    BY <2>1, <2>2
<1> QED
  <2>1. TabInOrder' /\ \A row : (Fetched(row) => Fetched(row)') /\ (InPlace(row) => InPlace(row)')
    BY DEF NoticesInv, TabInOrder, Fetched, InPlace
  <2> QED
    BY <1>1, <1>2, <2>1, NoticesMove

LEMMA MailGrows ==
  ASSUME version \in Nat, NEW connection \in Sockets(current, version), NEW message \in Messages(current, version)
  PROVE  LET mail == Append(connection.mail, message)
         IN  /\ mail \in Seq(Messages(current, version)) /\ mail[Len(connection.mail) + 1] = message
             /\ Len(connection.mail) + 1 \in DOMAIN mail
             /\ \A i \in DOMAIN connection.mail : i \in DOMAIN mail /\ mail[i] = connection.mail[i]
             /\ [connection EXCEPT !.mail = mail] \in Sockets(current, version)
  BY DEF Sockets

LEMMA SignalsAre ==
  ASSUME version \in Nat, NEW kind \in {"audience_changed", "open", "bootstrap", "close"}
  PROVE  I!Signal(kind) \in Messages(current, version) /\ I!Signal(kind).kind = kind
  BY DEF I!Signal, I!Message, Messages

LEMMA ClosedIs ==
  ASSUME version \in Nat, NEW connection \in Sockets(current, version)
  PROVE  /\ I!Closed(connection) \in Sockets(current, version) /\ I!Closed(connection).stage = "closed"
         /\ [connection EXCEPT !.mail = <<>>] \in Sockets(current, version)
<1> DEFINE mail == Append(connection.mail, I!Signal("close"))
<1>1. mail \in Seq(Messages(current, version)) /\ <<>> \in Seq(Messages(current, version))
  <2>1. I!Signal("close") \in Messages(current, version) /\ <<>> \in Seq(Messages(current, version))
    BY SignalsAre
  <2> QED
    BY <2>1, MailGrows
<1> HIDE DEF mail
<1>2. [connection EXCEPT !.stage = "closed", !.mail = mail] \in Sockets(current, version)
      /\ [connection EXCEPT !.stage = "closed", !.mail = mail].stage = "closed"
      /\ [connection EXCEPT !.mail = <<>>] \in Sockets(current, version)
  BY <1>1 DEF Sockets
<1> QED
  BY <1>2 DEF I!Closed, mail

LEMMA ServerSteps ==
  ASSUME NoticesInv, NEW k \in Socket, I!ServerStep(k) \/ I!SessionCheck(k) \/ I!LoseSocket(k)
  PROVE  NoticesInv'
<1> USE DEF I!rows, I!access, I!shown
<1>1. UNCHANGED <<current, version, pushing, issued, tab, ask, needed, behind>>
  BY DEF I!ServerStep, I!Arrive, I!CheckSession, I!Register, I!SendBootstrap, I!SessionCheck, I!LoseSocket
<1>2. version \in Nat /\ socket \in [Socket -> Sockets(current, version)] /\ socket[k] \in Sockets(current, version)
  BY NoticeTypes
<1>3. ASSUME NEW row \in Sockets(current, version), socket' = [socket EXCEPT ![k] = row],
             row.stage = "ready" => \E i \in DOMAIN row.mail : row.mail[i].kind = "bootstrap"
      PROVE  NoticesInv'
  <2>1. socket' \in [Socket -> Sockets(current, version)] /\ \A x \in Socket : socket'[x] = IF x = k THEN row ELSE socket[x]
    BY <1>2, <1>3
  <2> QED
    BY <1>1, <1>3, <2>1, SocketsMove
<1>4. ASSUME I!Close({k}) \/ I!Lost({k}) PROVE NoticesInv'
  <2>1. PICK row \in {I!Closed(socket[k]), I!Closed([socket[k] EXCEPT !.mail = <<>>])} : socket' = [socket EXCEPT ![k] = row]
    BY <1>2, <1>4 DEF I!Close, I!Lost
  <2>2. row \in Sockets(current, version) /\ row.stage = "closed"
    BY <1>2, ClosedIs
  <2> QED
    BY <1>3, <2>1, <2>2
<1>5. CASE I!Arrive(k)
  <2> DEFINE opened == [socket[k] EXCEPT !.stage = "checking", !.mail = <<I!Signal("open")>>]
             row == IF socket[k].token <= expired THEN I!Closed(opened) ELSE opened
  <2>1. opened \in Sockets(current, version) /\ opened.stage = "checking"
    <3>1. <<I!Signal("open")>> \in Seq(Messages(current, version))
      BY <1>2, SignalsAre
    <3> QED
      BY <1>2, <3>1 DEF Sockets
  <2> HIDE DEF opened
  <2>2. row \in Sockets(current, version) /\ row.stage # "ready"
    BY <1>2, <2>1, ClosedIs
  <2>3. socket' = [socket EXCEPT ![k] = row]
    BY <1>5 DEF I!Arrive, opened
  <2> HIDE DEF row
  <2> QED
    BY <1>3, <2>2, <2>3
<1>6. ASSUME NEW from, NEW to \in {"checked", "counting"}, I!Stage(k, from, to) PROVE NoticesInv'
  <2> DEFINE row == [socket[k] EXCEPT !.stage = to]
  <2>1. row \in Sockets(current, version) /\ row.stage = to
    BY <1>2 DEF Sockets
  <2>2. socket' = [socket EXCEPT ![k] = row]
    BY <1>6 DEF I!Stage
  <2> HIDE DEF row
  <2> QED
    BY <1>3, <2>1, <2>2
<1>7. CASE I!SendBootstrap(k)
  <2> DEFINE mail == Append(socket[k].mail, I!Signal("bootstrap"))
             row == [socket[k] EXCEPT !.stage = "ready", !.mail = mail]
  <2>1. /\ mail \in Seq(Messages(current, version)) /\ Len(socket[k].mail) + 1 \in DOMAIN mail
        /\ mail[Len(socket[k].mail) + 1].kind = "bootstrap"
    <3>1. I!Signal("bootstrap") \in Messages(current, version) /\ I!Signal("bootstrap").kind = "bootstrap"
      BY <1>2, SignalsAre
    <3> QED
      BY <1>2, <3>1, MailGrows
  <2>2. socket' = [socket EXCEPT ![k] = row]
    BY <1>7 DEF I!SendBootstrap
  <2> HIDE DEF mail
  <2>3. row \in Sockets(current, version) /\ row.mail = mail
    BY <1>2, <2>1 DEF Sockets
  <2> HIDE DEF row
  <2> QED
    BY <1>3, <2>1, <2>2, <2>3
<1> QED
  BY <1>4, <1>5, <1>6, <1>7
  DEF I!ServerStep, I!CheckSession, I!Register, I!SessionCheck, I!LoseSocket

LEMMA ServerEnds ==
  ASSUME NoticesInv, I!EndSession \/ I!CloseUserConnections \/ I!TokenExpires \/ I!Stop
  PROVE  NoticesInv'
<1> USE DEF I!rows, I!access, I!shown
<1>1. version \in Nat /\ socket \in [Socket -> Sockets(current, version)]
  BY NoticeTypes
<1>2. CASE I!EndSession \/ I!TokenExpires
  <2>1. UNCHANGED <<current, version, pushing, issued, socket, tab, ask, needed, behind>>
    BY <1>2 DEF I!EndSession, I!TokenExpires
  <2> QED
    BY <1>1, <2>1, SocketsMove
<1>3. ASSUME NEW K, K \subseteq Socket, I!Close(K) \/ I!Lost(K)
      PROVE  /\ socket' \in [Socket -> Sockets(current, version)]
             /\ \A k \in Socket : socket'[k].stage = "closed" \/ (k \notin K /\ socket'[k] = socket[k])
  <2>1. \A k \in Socket : /\ socket[k] \in Sockets(current, version) /\ I!Closed(socket[k]) \in Sockets(current, version)
                          /\ I!Closed([socket[k] EXCEPT !.mail = <<>>]) \in Sockets(current, version)
                          /\ I!Closed(socket[k]).stage = "closed"
                          /\ I!Closed([socket[k] EXCEPT !.mail = <<>>]).stage = "closed"
    BY <1>1, ClosedIs
  <2> QED
    BY <1>1, <1>3, <2>1 DEF I!Close, I!Lost
<1>4. CASE I!CloseUserConnections
  <2>1. /\ I!Close(I!Registered) /\ I!Registered \subseteq Socket
        /\ UNCHANGED <<current, version, pushing, issued, tab, ask, needed, behind>>
    BY <1>4 DEF I!CloseUserConnections, I!Registered
  <2> QED
    BY <1>1, <1>3, <2>1, SocketsMove
<1>5. CASE I!Stop
  <2>1. /\ I!Lost(I!Open) /\ I!Open \subseteq Socket /\ pushing' \subseteq pushing
        /\ UNCHANGED <<current, version, issued, tab, ask, needed, behind>>
    BY <1>5 DEF I!Stop, I!Open
  <2>2. \A k \in Socket : socket'[k].stage # "ready"
    <3>1. \A k \in Socket \ I!Open : socket[k].stage # "ready"
      BY DEF I!Open
    <3> QED
      BY <1>3, <2>1, <3>1
  <2> QED
    BY <1>1, <1>3, <2>1, <2>2, SocketsMove
<1> QED
  BY <1>2, <1>4, <1>5

LEMMA PushKeeps == ASSUME NoticesInv, NEW message \in pushing, I!Push(message) PROVE NoticesInv'
<1> USE DEF I!rows, I!access, I!shown
<1>1. /\ pushing' = pushing \ {message} /\ UNCHANGED <<current, version, issued, tab, ask, needed, behind>>
      /\ socket' = [k \in Socket |-> IF k \in I!Registered THEN [socket[k] EXCEPT !.mail = Append(@, message)]
                                     ELSE socket[k]]
  BY DEF I!Push
<1>2. version \in Nat /\ message \in Messages(current, version) /\ \A k \in Socket : socket[k] \in Sockets(current, version)
  BY NoticeTypes
<1>3. ASSUME NEW k \in Socket
      PROVE  /\ socket'[k] \in Sockets(current, version) /\ socket'[k].stage = socket[k].stage
             /\ \A i \in DOMAIN socket[k].mail : i \in DOMAIN socket'[k].mail /\ socket'[k].mail[i] = socket[k].mail[i]
             /\ socket[k].stage = "ready" => \E i \in DOMAIN socket'[k].mail : socket'[k].mail[i] = message
  <2> DEFINE mail == Append(socket[k].mail, message)
             row == [socket[k] EXCEPT !.mail = mail]
  <2>1. /\ mail[Len(socket[k].mail) + 1] = message /\ Len(socket[k].mail) + 1 \in DOMAIN mail
        /\ \A i \in DOMAIN socket[k].mail : i \in DOMAIN mail /\ mail[i] = socket[k].mail[i]
        /\ row \in Sockets(current, version)
    BY <1>2, MailGrows
  <2>2. socket'[k] = IF k \in I!Registered THEN row ELSE socket[k]
    BY <1>1
  <2>3. socket[k].stage = "ready" => k \in I!Registered
    BY DEF I!Registered
  <2> HIDE DEF mail
  <2>4. row.mail = mail /\ row.stage = socket[k].stage
    BY <1>2 DEF Sockets
  <2> HIDE DEF row
  <2> QED
    BY <1>2, <2>1, <2>2, <2>3, <2>4
<1>4. socket' \in [Socket -> Sockets(current, version)]
  <2>1. socket' = [k \in Socket |-> socket'[k]]
    BY <1>1
  <2> QED
    BY <1>3, <2>1
<1>5. NoticesTyped'
  BY <1>1, <1>4, NoticeTypes DEF NoticesTyped
<1>6. ASSUME NEW one, OnItsWay(one) PROVE OnItsWay(one)'
  <2>1. CASE ~I!Connected
    <3>1. ~I!Connected'
      BY <1>1, <1>3, <2>1, NoticeTypes DEF I!Connected
    <3> QED
      BY <3>1 DEF OnItsWay
  <2>2. CASE I!Connected
    <3>1. tab.socket \in Socket /\ socket[tab.socket].stage = "ready" /\ tab' = tab
      BY <1>1, <2>2, NoticeTypes DEF I!Connected
    <3>2. CASE Brings(message, one)
      BY <1>3, <3>1, <3>2 DEF OnItsWay, Brings
    <3>3. CASE ~Brings(message, one)
      <4>1. CASE \E m \in pushing : Brings(m, one)
        <5>1. PICK m \in pushing' : Brings(m, one)
          BY <1>1, <3>3, <4>1
        <5> QED
          BY <5>1 DEF OnItsWay, Brings
      <4>2. CASE \E i \in DOMAIN socket[tab.socket].mail : Brings(socket[tab.socket].mail[i], one)
        <5>1. PICK i \in DOMAIN socket'[tab.socket].mail : Brings(socket'[tab.socket].mail[i], one)
          BY <1>3, <3>1, <4>2
        <5> QED
          BY <3>1, <5>1 DEF OnItsWay, Brings
      <4>3. CASE \E a \in Ask : ask[a].at = "sent" \/ (ask[a].at = "answered" /\ one.asOf <= ask[a].asOf)
        BY <1>1, <4>3 DEF OnItsWay
      <4> QED
        BY <1>6, <2>2, <4>1, <4>2, <4>3 DEF OnItsWay
    <3> QED
      BY <3>2, <3>3
  <2> QED
    BY <2>1, <2>2
<1> QED
  <2>1. TabInOrder' /\ \A one : (Fetched(one) => Fetched(one)') /\ (InPlace(one) => InPlace(one)')
    BY <1>1 DEF NoticesInv, TabInOrder, Fetched, InPlace
  <2> QED
    BY <1>1, <1>5, <1>6, <2>1, NoticesMove

(* A push that is dropped leaves the tab behind.                           *)
LEMMA DropKeeps == ASSUME NoticesInv, NEW message \in pushing, I!DropPush(message) PROVE NoticesInv'
<1> USE DEF I!rows, I!access, I!shown
<1>1. /\ pushing' = pushing \ {message} /\ UNCHANGED <<current, version, issued, socket, tab, ask>>
      /\ behind' = TRUE /\ needed' = I!Greater(needed, message.asOf)
  BY DEF I!DropPush
<1>2. version \in Nat /\ needed \in 0..version /\ message.asOf \in 0..version
  BY NoticeTypes DEF Messages
<1>3. needed' \in 0..version /\ needed <= needed' /\ message.asOf <= needed'
  BY <1>1, <1>2 DEF I!Greater
<1>4. NoticesTyped'
  BY <1>1, <1>3, NoticeTypes DEF NoticesTyped
<1>5. TabInOrder'
  <2>1. \A i \in DOMAIN tab.list : tab.list[i].asOf \in Nat
    BY NoticeTypes, DatesAre
  <2> QED
    BY <1>1, <1>2, <1>3, <2>1 DEF NoticesInv, TabInOrder, Bounded
<1>6. ASSUME NEW one \in current, OnItsWay(one) \/ InPlace(one) PROVE OnItsWay(one)' \/ InPlace(one)'
  <2>1. one.asOf \in Nat
    BY NoticeTypes DEF Dated
  <2>2. CASE one.asOf <= needed'
    BY <1>1, <2>2 DEF InPlace
  <2>3. CASE ~(one.asOf <= needed')
    <3>1. ~InPlace(one) /\ ~(one.asOf <= message.asOf)
      BY <1>2, <1>3, <2>1, <2>3 DEF InPlace
    <3>2. message.kind = "created"
      BY DEF I!DropPush
    <3>3. ~Brings(message, one)
      BY <3>1, <3>2 DEF Brings
    <3> QED
      BY <1>1, <1>6, <3>1, <3>3 DEF OnItsWay, Brings, I!Connected
  <2> QED
    BY <2>2, <2>3
<1>7. \A one : Fetched(one) => Fetched(one)'
  BY <1>1 DEF Fetched
<1> QED
  BY <1>1, <1>4, <1>5, <1>6, <1>7, NoticesMove

(* ------------------------------------------------------- what the tab does *)

(* A message is taken out: what brought a notice was it, or is still there.*)
LEMMA Hearing ==
  ASSUME NoticesInv, NEW k \in Socket, NEW kind, I!Heard(k, kind), socket' = I!Read(k)
  PROVE  /\ tab.socket = k /\ Head(socket[k].mail) \in Messages(current, version) /\ Head(socket[k].mail).kind = kind
         /\ socket' \in [Socket -> Sockets(current, version)] /\ \A x \in Socket : socket'[x].stage = socket[x].stage
         /\ \A one : (\E i \in DOMAIN socket[k].mail : Brings(socket[k].mail[i], one)) =>
              \/ Brings(Head(socket[k].mail), one)
              \/ \E i \in DOMAIN socket'[k].mail : Brings(socket'[k].mail[i], one)
<1> DEFINE mail == socket[k].mail
           row == [socket[k] EXCEPT !.mail = Tail(mail)]
<1>1. socket \in [Socket -> Sockets(current, version)] /\ socket[k] \in Sockets(current, version) /\ mail \in Seq(Messages(current, version))
  BY NoticeTypes
<1>2. tab.socket = k /\ mail # <<>> /\ Head(mail).kind = kind
  BY DEF I!Heard
<1>3. socket' = [socket EXCEPT ![k] = row]
  BY DEF I!Read
<1> HIDE DEF mail
<1>4. Tail(mail) \in Seq(Messages(current, version)) /\ Head(mail) \in Messages(current, version)
  BY <1>1, <1>2
<1>5. row \in Sockets(current, version) /\ row.mail = Tail(mail) /\ row.stage = socket[k].stage
  BY <1>1, <1>4 DEF Sockets
<1> HIDE DEF row
<1>6. socket'[k].mail = Tail(mail)
  BY <1>1, <1>3, <1>5
<1>7. \A i \in DOMAIN mail : mail[i] = Head(mail) \/ (i - 1 \in DOMAIN Tail(mail) /\ mail[i] = Tail(mail)[i - 1])
  BY <1>1, <1>2
<1>8. ASSUME NEW one, NEW i \in DOMAIN mail, Brings(mail[i], one)
      PROVE  Brings(Head(mail), one) \/ \E x \in DOMAIN Tail(mail) : Brings(Tail(mail)[x], one)
  BY <1>7, <1>8
<1> QED
  BY <1>1, <1>2, <1>3, <1>4, <1>5, <1>6, <1>8 DEF mail

LEMMA Asking ==
  ASSUME NoticesInv, NEW a \in Ask, NEW row \in Asks(version), ask' = [ask EXCEPT ![a] = row]
  PROVE  ask' \in [Ask -> Asks(version)] /\ \A b \in Ask : ask'[b] = IF b = a THEN row ELSE ask[b]
  BY NoticeTypes

LEMMA AsksAre == ASSUME NoticesInv PROVE I!Sent \in Asks(version) /\ I!NoAsk \in Asks(version)
<1>1. version \in Nat /\ 0 \in 0..version /\ <<>> \in Lists(version) /\ InOrder(<<>>) /\ Bounded(<<>>, 0)
  BY NoticeTypes, EmptyList
<1> QED
  BY <1>1 DEF I!Sent, I!NoAsk, Asks

(* The list is asked for: whatever is to be shown will be in the answer.   *)
LEMMA RefreshKeeps ==
  ASSUME NoticesInv, NEW a \in Ask, I!Refresh(a), socket' \in [Socket -> Sockets(current, version)],
         UNCHANGED <<current, version, pushing, issued, tab, needed, behind>>
  PROVE  NoticesInv'
<1>1. ask' = [ask EXCEPT ![a] = I!Sent] /\ I!Sent.at = "sent"
  BY DEF I!Refresh, I!Sent, I!NoAsk
<1>2. ask' \in [Ask -> Asks(version)] /\ \A b \in Ask : ask'[b] = IF b = a THEN I!Sent ELSE ask[b]
  BY <1>1, Asking, AsksAre
<1>3. NoticesTyped'
  BY <1>2, NoticeTypes DEF NoticesTyped
<1>4. \A one : OnItsWay(one)'
  BY <1>1, <1>2 DEF OnItsWay
<1>5. ASSUME NEW one, Fetched(one) PROVE Fetched(one)'
  BY <1>1, <1>2, <1>5 DEF Fetched
<1>6. TabInOrder'
  BY DEF NoticesInv, TabInOrder
<1> QED
  BY <1>3, <1>4, <1>5, <1>6, NoticesMove

LEMMA ListeningKeeps == ASSUME NoticesInv, NEW k \in Socket, I!Receive(k) \/ I!Connect(k) PROVE NoticesInv'
<1> USE DEF I!rows, I!access, I!shown
<1>1. ASSUME NEW a \in Ask, NEW kind, I!OnSignal(k, a, kind) PROVE NoticesInv'
  <2>1. /\ I!Heard(k, kind) /\ I!Refresh(a) /\ socket' = I!Read(k)
        /\ UNCHANGED <<current, version, pushing, issued, tab, needed, behind>>
    BY <1>1 DEF I!OnSignal
  <2> QED
    BY <2>1, Hearing, RefreshKeeps
<1>2. ASSUME ~I!Connected', socket' \in [Socket -> Sockets(current, version)], tab' \in Pages(version),
             tab'.list = tab.list, tab'.token = tab.token,
             tab'.socket # NoSocket => tab.token # 0,
             UNCHANGED <<current, version, pushing, issued, ask, needed, behind>>
      PROVE  NoticesInv'
  <2>1. NoticesTyped'
    BY <1>2, NoticeTypes DEF NoticesTyped
  <2>2. \A one : OnItsWay(one)'
    BY <1>2 DEF OnItsWay
  <2>3. TabInOrder' /\ \A one : Fetched(one) => Fetched(one)'
    BY <1>2 DEF NoticesInv, TabInOrder, Fetched
  <2> QED
    BY <1>2, <2>1, <2>2, <2>3, NoticesMove
<1>3. CASE I!OnClose(k)
  <2>1. /\ socket' = [socket EXCEPT ![k] = I!NoConnection] /\ tab' = [tab EXCEPT !.socket = NoSocket]
        /\ UNCHANGED <<current, version, pushing, issued, ask, needed, behind>>
    BY <1>3 DEF I!OnClose
  <2>2. I!NoConnection \in Sockets(current, version)
    <3>1. <<>> \in Seq(Messages(current, version))
      OBVIOUS
    <3> QED
      BY <3>1 DEF I!NoConnection, Sockets
  <2>3. socket' \in [Socket -> Sockets(current, version)]
    BY <2>1, <2>2, NoticeTypes
  <2>4. /\ tab' \in Pages(version) /\ tab'.list = tab.list /\ tab'.token = tab.token
        /\ tab'.socket = NoSocket
    BY <2>1, NoticeTypes DEF Pages
  <2> QED
    BY <1>2, <2>1, <2>3, <2>4 DEF I!Connected
<1>4. CASE I!Connect(k)
  <2> DEFINE row == [socket[k] EXCEPT !.stage = "connecting", !.token = tab.token]
  <2>1. /\ socket' = [socket EXCEPT ![k] = row] /\ tab' = [tab EXCEPT !.socket = k] /\ tab.token # 0
        /\ UNCHANGED <<current, version, pushing, issued, ask, needed, behind>>
    BY <1>4 DEF I!Connect
  <2>2. row \in Sockets(current, version) /\ row.stage = "connecting"
    BY NoticeTypes DEF Sockets
  <2> HIDE DEF row
  <2>3. socket' \in [Socket -> Sockets(current, version)] /\ socket'[k].stage = "connecting"
    BY <2>1, <2>2, NoticeTypes
  <2>4. /\ tab' \in Pages(version) /\ tab'.list = tab.list /\ tab'.token = tab.token
        /\ tab'.socket = k
    BY <2>1, NoticeTypes DEF Pages
  <2> QED
    BY <1>2, <2>1, <2>3, <2>4 DEF I!Connected
<1>5. CASE I!OnCreated(k)
  <2> DEFINE message == Head(socket[k].mail)
  <2>1. PICK n \in message.notice :
          /\ I!Heard(k, "created") /\ socket' = I!Read(k)
          /\ tab' = [tab EXCEPT !.list = I!Put(tab.list, [notice |-> n, asOf |-> message.asOf])]
          /\ needed' = I!Greater(needed, message.asOf) /\ behind' = (behind \/ message.asOf < needed)
          /\ UNCHANGED <<current, version, pushing, issued, ask>>
    BY <1>5 DEF I!OnCreated
  <2>2. /\ tab.socket = k /\ message \in Messages(current, version) /\ message.kind = "created"
        /\ socket' \in [Socket -> Sockets(current, version)] /\ \A x \in Socket : socket'[x].stage = socket[x].stage
        /\ \A one : (\E i \in DOMAIN socket[k].mail : Brings(socket[k].mail[i], one)) =>
             Brings(message, one) \/ \E i \in DOMAIN socket'[k].mail : Brings(socket'[k].mail[i], one)
    BY <2>1, Hearing
  <2> HIDE DEF message
  <2>3. /\ message.notice = {n} /\ n \in Notice /\ message.asOf \in 0..version
        /\ \A one \in current : one.notice = n => message.asOf <= one.asOf
    BY <2>1, <2>2 DEF Messages
  <2> DEFINE row == [notice |-> n, asOf |-> message.asOf]
             list == I!Put(tab.list, row)
  <2>4. row \in Dated(version) /\ row.notice = n /\ row.asOf = message.asOf
    BY <2>3 DEF Dated
  <2>5. tab' = [tab EXCEPT !.list = list]
    BY <2>1
  <2>6. version \in Nat /\ needed \in 0..version /\ needed \in Nat /\ tab.list \in Lists(version) /\ behind \in BOOLEAN
    BY NoticeTypes
  <2>7. Bounded(tab.list, needed) /\ (behind \/ InOrder(tab.list))
    BY DEF NoticesInv, TabInOrder
  <2> HIDE DEF row
  <2>8. list \in Lists(version)
    BY <2>4, <2>6, PutIs
  <2>9. /\ Bounded(list, I!Greater(needed, row.asOf))
        /\ InOrder(tab.list) /\ needed <= row.asOf => InOrder(list)
        /\ \A other \in Dated(version) :
             /\ I!Covers(tab.list, other) /\ InOrder(tab.list) /\ needed <= row.asOf
             /\ other.notice = row.notice => row.asOf <= other.asOf
             => I!Covers(list, other)
    BY <2>4, <2>6, <2>7, PutInOrder
  <2>10. \E i \in DOMAIN list : list[i] = row
    BY <2>4, <2>6, <2>7, PutInOrder
  <2> HIDE DEF list
  <2>11. needed' \in 0..version /\ needed <= needed' /\ message.asOf <= needed' /\ behind' \in BOOLEAN
         /\ (~behind' => ~behind /\ needed <= message.asOf)
    <3>1. behind' \in BOOLEAN
      BY <2>1
    <3>2. needed' \in 0..version /\ needed <= needed' /\ message.asOf <= needed'
      BY <2>1, <2>3, <2>6 DEF I!Greater
    <3>3. ~behind' => ~behind /\ ~(message.asOf < needed)
      BY <2>1, Zenon
    <3>4. message.asOf < needed \/ needed <= message.asOf
      BY <2>3, <2>6
    <3> QED
      BY <3>1, <3>2, <3>3, <3>4
  <2>12. /\ tab' \in Pages(version) /\ tab'.list = list /\ tab'.token = tab.token /\ tab'.socket = tab.socket
    BY <2>5, <2>8, NoticeTypes DEF Pages
  <2>13. NoticesTyped'
    BY <2>1, <2>2, <2>11, <2>12, NoticeTypes DEF NoticesTyped
  <2>14. TabInOrder'
    BY <2>1, <2>4, <2>7, <2>9, <2>11, <2>12 DEF TabInOrder
  <2>15. ASSUME NEW one \in current, OnItsWay(one) \/ InPlace(one) PROVE OnItsWay(one)' \/ InPlace(one)'
    <3>1. one \in Dated(version) /\ one.asOf \in Nat
      BY NoticeTypes DEF Dated
    <3>2. CASE ~I!Connected
      <4>1. ~I!Connected'
        BY <2>2, <2>12, <3>2 DEF I!Connected
      <4> QED
        BY <4>1 DEF OnItsWay
    <3>3. CASE InPlace(one)
      <4>1. one.asOf <= needed'
        BY <2>6, <2>11, <3>1, <3>3 DEF InPlace
      <4>2. behind' \/ I!Covers(list, one)
        BY <2>3, <2>4, <2>7, <2>9, <2>11, <3>1, <3>3 DEF InPlace
      <4> QED
        BY <2>12, <4>1, <4>2 DEF InPlace
    <3>4. CASE Brings(message, one)
      <4>1. one.notice = n /\ one.asOf = message.asOf
        BY <2>2, <2>3, <3>1, <3>4 DEF Brings
      <4>2. one = row
        BY <2>4, <3>1, <4>1 DEF Dated
      <4>3. I!Covers(list, one)
        BY <2>10, <4>2 DEF I!Covers
      <4> QED
        BY <2>11, <2>12, <4>1, <4>3 DEF InPlace
    <3>5. CASE \E i \in DOMAIN socket'[k].mail : Brings(socket'[k].mail[i], one)
      BY <2>2, <2>12, <3>5 DEF OnItsWay, Brings
    <3>6. CASE \/ \E m \in pushing : Brings(m, one)
               \/ \E a \in Ask : ask[a].at = "sent" \/ (ask[a].at = "answered" /\ one.asOf <= ask[a].asOf)
      BY <2>1, <3>6 DEF OnItsWay, Brings
    <3> QED
      BY <2>2, <2>15, <3>2, <3>3, <3>4, <3>5, <3>6 DEF OnItsWay
  <2>16. \A one : Fetched(one) => Fetched(one)'
    BY <2>1 DEF Fetched
  <2> QED
    BY <2>1, <2>13, <2>14, <2>15, <2>16, NoticesMove
<1> QED
  BY <1>1, <1>3, <1>4, <1>5 DEF I!Receive

LEMMA AsksKeep ==
  ASSUME NoticesInv, NEW a \in Ask, I!Focus(a) \/ I!AskStep(a) \/ I!AskFails(a) PROVE NoticesInv'
<1> USE DEF I!rows, I!access, I!shown
<1>1. /\ version \in Nat /\ needed \in 0..version /\ issued \in Nat /\ tab \in Pages(version)
      /\ socket \in [Socket -> Sockets(current, version)] /\ current \subseteq Dated(version) /\ behind \in BOOLEAN
      /\ ask[a] \in Asks(version) /\ ask[a].asOf \in 0..version /\ ask[a].items \in Lists(version)
      /\ InOrder(ask[a].items) /\ Bounded(ask[a].items, ask[a].asOf)
      /\ Bounded(tab.list, needed) /\ (behind \/ InOrder(tab.list))
  BY NoticeTypes DEF Asks, NoticesInv, TabInOrder
<1>2. \A one \in current : one.asOf \in 0..version /\ Fetched(one) /\ (OnItsWay(one) \/ InPlace(one))
  BY <1>1 DEF NoticesInv, Follows, Dated
<1>3. CASE I!Focus(a)
  BY <1>3, RefreshKeeps, NoticeTypes DEF I!Focus
<1>4. CASE I!FetchList(a)
  <2>0. PICK m \in 0..Limit : \E list \in [1..m -> current] :
          /\ I!Newest(list, current)
          /\ ask' = [ask EXCEPT ![a] = [at |-> "answered", items |-> list, asOf |-> version]]
          /\ UNCHANGED <<current, version, pushing, issued, socket, tab, needed, behind>>
    BY <1>4 DEF I!FetchList
  <2>1. PICK list \in [1..m -> current] :
          /\ I!Newest(list, current)
          /\ ask' = [ask EXCEPT ![a] = [at |-> "answered", items |-> list, asOf |-> version]]
          /\ UNCHANGED <<current, version, pushing, issued, socket, tab, needed, behind>>
    BY <2>0
  <2> DEFINE row == [at |-> "answered", items |-> list, asOf |-> version]
  <2>2. row.at = "answered" /\ row.items = list /\ row.asOf = version /\ ask' = [ask EXCEPT ![a] = row]
    BY <2>1
  <2>3. row \in Asks(version)
    <3>1. m \in Nat /\ m <= Limit /\ DOMAIN list = 1..m /\ \A i \in 1..m : list[i] \in current
      BY LimitBound
    <3>2. \A i \in 1..m : list[i] \in Dated(version) /\ list[i].asOf \in Nat /\ list[i].asOf <= version
      BY <1>1, <1>2, <3>1
    <3>3. list \in Seq(Dated(version)) /\ Len(list) = m
      <4>1. list \in [1..m -> Dated(version)]
        BY <1>1
      <4> QED
        BY <3>1, <4>1
    <3>4. list \in Lists(version)
      BY <3>1, <3>3 DEF Lists
    <3>5. Bounded(list, version)
      BY <3>1, <3>2 DEF Bounded
    <3>6. InOrder(list)
      <4> SUFFICES ASSUME NEW i \in 1..m, NEW j \in 1..m, i < j PROVE list[j].asOf <= list[i].asOf
        BY <3>1 DEF InOrder
      <4>1. list[j].asOf < list[i].asOf
        BY <2>1, <3>1 DEF I!Newest
      <4> QED
        BY <3>2, <4>1
    <3>7. version \in 0..version
      BY <1>1
    <3> QED
      BY <2>2, <3>4, <3>5, <3>6, <3>7 DEF Asks
  <2> HIDE DEF row
  <2>4. ask' \in [Ask -> Asks(version)] /\ \A b \in Ask : ask'[b] = IF b = a THEN row ELSE ask[b]
    BY <2>2, <2>3, Asking
  <2>5. NoticesTyped'
    BY <2>1, <2>4, NoticeTypes DEF NoticesTyped
  <2>6. TabInOrder'
    BY <1>1, <2>1 DEF TabInOrder
  <2>7. ASSUME NEW one \in current PROVE OnItsWay(one)' /\ Fetched(one)'
    <3>1. OnItsWay(one)'
      BY <1>2, <2>2, <2>4 DEF OnItsWay
    <3>2. I!Covers(list, one)
      BY <2>1 DEF I!Newest
    <3>3. Fetched(one)'
      BY <1>2, <2>2, <2>4, <3>2 DEF Fetched
    <3> QED
      BY <3>1, <3>3
  <2> QED
    BY <2>1, <2>5, <2>6, <2>7, NoticesMove
<1>5. CASE I!Renew(a)
  <2>1. /\ issued' = issued + 1 /\ tab' = [tab EXCEPT !.token = issued'] /\ tab.token # 0
        /\ UNCHANGED <<current, version, pushing, socket, ask, needed, behind>>
    BY <1>5 DEF I!Renew
  <2>2. /\ tab' \in Pages(version) /\ tab'.token = issued + 1 /\ tab'.list = tab.list
        /\ tab'.socket = tab.socket /\ issued + 1 \in Nat /\ issued + 1 # 0
    BY <1>1, <2>1 DEF Pages
  <2>3. NoticesTyped'
    BY <2>1, <2>2, NoticeTypes DEF NoticesTyped
  <2>4. TabInOrder' /\ \A one : /\ (Fetched(one) => Fetched(one)')
                                /\ (OnItsWay(one) => OnItsWay(one)')
                                /\ (InPlace(one) => InPlace(one)')
    BY <1>1, <2>1, <2>2 DEF TabInOrder, InPlace, Fetched, OnItsWay, Brings, I!Connected
  <2> QED
    BY <2>1, <2>3, <2>4, NoticesMove
<1>6. CASE I!SignedOut(a)
  <2>1. /\ ask' = [ask EXCEPT ![a] = I!NoAsk]
        /\ tab' = [tab EXCEPT !.token = 0, !.socket = NoSocket, !.list = <<>>]
        /\ socket' = [k \in Socket |-> IF k = tab.socket THEN I!NoConnection ELSE socket[k]]
        /\ UNCHANGED <<current, version, pushing, issued, needed, behind>>
    BY <1>6 DEF I!SignedOut
  <2>2. <<>> \in Lists(version) /\ InOrder(<<>>) /\ Bounded(<<>>, needed)
    BY <1>1, EmptyList
  <2>3. tab' \in Pages(version) /\ tab'.token = 0 /\ tab'.socket = NoSocket /\ tab'.list = <<>>
    BY <1>1, <2>1, <2>2 DEF Pages
  <2>4. socket' \in [Socket -> Sockets(current, version)]
    <3>1. I!NoConnection \in Sockets(current, version)
      <4>1. <<>> \in Seq(Messages(current, version))
        OBVIOUS
      <4> QED
        BY <4>1 DEF I!NoConnection, Sockets
    <3> QED
      BY <1>1, <2>1, <3>1
  <2>5. ask' \in [Ask -> Asks(version)] /\ \A b \in Ask : ask'[b] = IF b = a THEN I!NoAsk ELSE ask[b]
    BY <2>1, Asking, AsksAre
  <2>6. NoticesTyped'
    BY <2>1, <2>3, <2>4, <2>5, NoticeTypes DEF NoticesTyped
  <2>7. \A one : OnItsWay(one)' /\ (Fetched(one) => Fetched(one)')
    BY <2>3, <2>5 DEF Fetched, OnItsWay, I!Connected, I!NoAsk
  <2>8. TabInOrder'
    BY <2>1, <2>2, <2>3 DEF TabInOrder
  <2> QED
    BY <2>1, <2>6, <2>7, <2>8, NoticesMove
<1>7. CASE I!ShowList(a)
  <2>1. /\ ask[a].at = "answered" /\ tab' = [tab EXCEPT !.list = ask[a].items]
        /\ needed' = I!Greater(needed, ask[a].asOf) /\ behind' = (ask[a].asOf < needed)
        /\ ask' = [ask EXCEPT ![a] = I!NoAsk]
        /\ UNCHANGED <<current, version, pushing, issued, socket>>
    BY <1>7 DEF I!ShowList
  <2>2. tab' \in Pages(version) /\ tab'.list = ask[a].items /\ tab'.token = tab.token /\ tab'.socket = tab.socket
    BY <1>1, <2>1 DEF Pages
  <2>3. /\ needed' \in 0..version /\ needed <= needed' /\ ask[a].asOf <= needed' /\ behind' \in BOOLEAN
        /\ ~behind' => needed <= ask[a].asOf
    <3>1. behind' \in BOOLEAN
      BY <2>1
    <3>2. needed' \in 0..version /\ needed <= needed' /\ ask[a].asOf <= needed'
      BY <1>1, <2>1 DEF I!Greater
    <3>3. ~behind' => ~(ask[a].asOf < needed)
      BY <2>1, Zenon
    <3>4. ask[a].asOf < needed \/ needed <= ask[a].asOf
      BY <1>1
    <3> QED
      BY <3>1, <3>2, <3>3, <3>4
  <2>4. ask' \in [Ask -> Asks(version)] /\ \A b \in Ask : ask'[b] = IF b = a THEN I!NoAsk ELSE ask[b]
    BY <2>1, Asking, AsksAre
  <2>5. NoticesTyped'
    BY <2>1, <2>2, <2>3, <2>4, NoticeTypes DEF NoticesTyped
  <2>6. TabInOrder'
    <3>1. \A i \in DOMAIN ask[a].items : ask[a].items[i].asOf \in Nat
      BY <1>1, DatesAre
    <3>2. Bounded(ask[a].items, needed')
      BY <1>1, <2>3, <3>1 DEF Bounded
    <3> QED
      BY <1>1, <2>2, <3>2 DEF TabInOrder
  <2>7. ASSUME NEW one \in current PROVE Fetched(one)' /\ (OnItsWay(one)' \/ InPlace(one)')
    <3>1. Fetched(one)' /\ one.asOf \in Nat
      BY <1>2, <2>4 DEF Fetched, I!NoAsk
    <3>2. CASE one.asOf <= ask[a].asOf
      <4>1. one.asOf <= needed' /\ I!Covers(tab'.list, one)
        BY <1>1, <1>2, <2>1, <2>2, <2>3, <3>1, <3>2 DEF Fetched
      <4> QED
        BY <3>1, <4>1 DEF InPlace
    <3>3. CASE InPlace(one) /\ ~(one.asOf <= ask[a].asOf)
      <4>1. behind' /\ one.asOf <= needed'
        BY <1>1, <2>3, <3>1, <3>3 DEF InPlace
      <4> QED
        BY <3>1, <4>1 DEF InPlace
    <3>4. CASE OnItsWay(one) /\ ~(one.asOf <= ask[a].asOf)
      <4>1. OnItsWay(one)'
        BY <2>1, <2>2, <2>4, <3>4 DEF OnItsWay, Brings, I!Connected
      <4> QED
        BY <3>1, <4>1
    <3> QED
      BY <1>2, <3>2, <3>3, <3>4
  <2> QED
    BY <2>1, <2>5, <2>6, <2>7, NoticesMove
<1>8. CASE I!AskFails(a)
  <2>1. /\ ask' = [ask EXCEPT ![a] = I!NoAsk] /\ needed' = version /\ behind' = TRUE
        /\ UNCHANGED <<current, version, pushing, issued, socket, tab>>
    BY <1>8 DEF I!AskFails
  <2>2. ask' \in [Ask -> Asks(version)] /\ \A b \in Ask : ask'[b] = IF b = a THEN I!NoAsk ELSE ask[b]
    BY <2>1, Asking, AsksAre
  <2>3. needed' \in 0..version /\ behind' \in BOOLEAN
    BY <1>1, <2>1
  <2>4. NoticesTyped'
    BY <2>1, <2>2, <2>3, NoticeTypes DEF NoticesTyped
  <2>5. TabInOrder'
    <3>1. \A i \in DOMAIN tab.list : tab.list[i].asOf \in Nat
      BY NoticeTypes, DatesAre
    <3> QED
      BY <1>1, <2>1, <3>1 DEF TabInOrder, Bounded
  <2>6. ASSUME NEW one \in current PROVE Fetched(one)' /\ InPlace(one)'
    BY <1>1, <1>2, <2>1, <2>2 DEF Fetched, InPlace, I!NoAsk
  <2> QED
    BY <2>1, <2>4, <2>5, <2>6, NoticesMove
<1> QED
  BY <1>3, <1>4, <1>5, <1>6, <1>7, <1>8 DEF I!AskStep

(* A notice that is written has a message of that number on its way.       *)
LEMMA WritesKeep ==
  ASSUME NoticesInv, NEW n \in Notice,
         I!Expire(n) \/ I!Lapse(n) \/ \E kind \in {"created", "audience_changed"} : I!Write(n, kind)
  PROVE  NoticesInv'
<1> USE DEF I!rows, I!access, I!shown
<1>1. /\ UNCHANGED <<issued, socket, tab, ask, needed, behind>> /\ version \in Nat
      /\ I!Others(n) \subseteq current
  BY NoticeTypes DEF I!Expire, I!Lapse, I!Write, I!Others
<1>2. PICK kind \in {"created", "audience_changed"}, what \in {{}, {n}}, new \in SUBSET {[notice |-> n, asOf |-> version + 1]} :
        /\ version' \in {version, version + 1}
        /\ new # {} => version' = version + 1
        /\ pushing' \in {pushing, pushing \union {I!Message(kind, what, version')}}
        /\ new # {} => what = {n} /\ I!Message(kind, what, version') \in pushing'
        /\ pushing' # pushing => version' = version + 1 /\ (kind = "created" => what = {n})
        /\ current' = I!Others(n) \union new
  <2>1. CASE I!Lapse(n)
    <3>1. current' = I!Others(n) \union {} /\ UNCHANGED <<version, pushing>>
      BY <2>1 DEF I!Lapse
    <3>2. PICK kind \in {"created", "audience_changed"}, what \in {{}, {n}} : TRUE
      OBVIOUS
    <3> QED
      BY <3>1, <3>2
  <2>2. CASE I!Expire(n)
    <3>1. /\ current' = I!Others(n) \union {} /\ version' = version + 1
          /\ pushing' = pushing \union {I!Message("audience_changed", {}, version')}
      BY <2>2 DEF I!Expire
    <3> QED
      BY <3>1
  <2>3. CASE \E kind \in {"created", "audience_changed"} : I!Write(n, kind)
    <3>1. PICK kind \in {"created", "audience_changed"} : I!Write(n, kind)
      BY <2>3
    <3>2. /\ current' = I!Others(n) \union {[notice |-> n, asOf |-> version + 1]} /\ version' = version + 1
          /\ pushing' = pushing \union {I!Message(kind, {n}, version')}
      BY <3>1 DEF I!Write
    <3> QED
      BY <3>2
  <2> QED
    BY <2>1, <2>2, <2>3
<1>3. version' \in Nat /\ version <= version' /\ 0..version \subseteq 0..version'
  <2>1. version' = version \/ version' = version + 1
    BY <1>2
  <2> QED
    BY <1>1, <2>1
<1>4. Dated(version) \subseteq Dated(version') /\ Lists(version) \subseteq Lists(version')
  <2>1. Dated(version) \subseteq Dated(version')
    BY <1>3 DEF Dated
  <2>2. ASSUME NEW list \in Lists(version) PROVE list \in Lists(version')
    <3>1. list \in Seq(Dated(version)) /\ Len(list) <= Limit
      BY DEF Lists
    <3>2. list \in Seq(Dated(version'))
      BY <2>1, <3>1
    <3> QED
      BY <3>1, <3>2 DEF Lists
  <2> QED
    BY <2>1, <2>2
<1>5. Pages(version) \subseteq Pages(version') /\ Asks(version) \subseteq Asks(version')
  BY <1>3, <1>4 DEF Pages, Asks
<1>6. ASSUME NEW row \in current' PROVE row \in Dated(version') /\ (row \in current \/ row \in new)
  <2>1. CASE row \in new
    <3>1. row = [notice |-> n, asOf |-> version + 1] /\ version' = version + 1
      <4>1. new # {} /\ row \in {[notice |-> n, asOf |-> version + 1]}
        BY <2>1
      <4> QED
        BY <1>2, <4>1
    <3>2. version' \in 0..version'
      BY <1>3
    <3> QED
      BY <2>1, <3>1, <3>2 DEF Dated
  <2>2. CASE row \notin new
    BY <1>1, <1>2, <1>4, <2>2, NoticeTypes
  <2> QED
    BY <2>1, <2>2
<1>7. ASSUME NEW row \in new PROVE row.notice = n /\ row.asOf = version + 1 /\ version' = version + 1
  <2>1. new # {} /\ row \in {[notice |-> n, asOf |-> version + 1]}
    BY <1>7
  <2> QED
    BY <1>2, <2>1
<1>8. ASSUME NEW message \in Messages(current, version) PROVE message \in Messages(current', version')
  <2>1. message.asOf \in 0..version
    BY DEF Messages
  <2>2. \A row \in new : message.asOf <= row.asOf
    BY <1>1, <1>7, <2>1
  <2>3. /\ message \in [kind : {"created", "audience_changed", "open", "bootstrap", "close"}, notice : SUBSET Notice, asOf : 0..version']
        /\ message.kind = "created" =>
             \E m \in Notice : message.notice = {m} /\ \A row \in current : row.notice = m => message.asOf <= row.asOf
    BY <1>3 DEF Messages
  <2>4. message.kind = "created" =>
          \E m \in Notice : message.notice = {m} /\ \A row \in current' : row.notice = m => message.asOf <= row.asOf
    BY <1>6, <2>2, <2>3
  <2> QED
    BY <2>3, <2>4 DEF Messages
<1>9. Sockets(current, version) \subseteq Sockets(current', version')
  <2>1. ASSUME NEW mail \in Seq(Messages(current, version)) PROVE mail \in Seq(Messages(current', version'))
    BY <1>8
  <2> QED
    BY <2>1 DEF Sockets
<1> DEFINE message == I!Message(kind, what, version')
<1>10. message.kind = kind /\ message.notice = what /\ message.asOf = version'
  BY DEF I!Message
<1>11. ASSUME pushing' # pushing PROVE message \in Messages(current', version')
  <2>1. message \in [kind : {"created", "audience_changed", "open", "bootstrap", "close"}, notice : SUBSET Notice, asOf : 0..version']
    BY <1>3 DEF I!Message
  <2>2. \A row \in current' : row.notice = n => version' <= row.asOf
    <3>1. \A row \in I!Others(n) : row.notice # n
      BY DEF I!Others
    <3> QED
      BY <1>2, <1>3, <1>7, <3>1
  <2>3. message.kind = "created" =>
          \E m \in Notice : message.notice = {m} /\ \A row \in current' : row.notice = m => message.asOf <= row.asOf
    BY <1>2, <1>10, <1>11, <2>2
  <2> QED
    BY <2>1, <2>3 DEF Messages
<1> HIDE DEF message
<1>12. NoticesTyped'
  <2>1. pushing' \subseteq Messages(current', version')
    BY <1>2, <1>8, <1>11, NoticeTypes DEF message
  <2>2. current' \subseteq Dated(version')
    BY <1>6
  <2>3. socket' \in [Socket -> Sockets(current', version')]
    BY <1>1, <1>9, NoticeTypes
  <2>4. tab' \in Pages(version') /\ ask' \in [Ask -> Asks(version')]
    BY <1>1, <1>5, NoticeTypes
  <2>5. needed' \in 0..version'
    BY <1>1, <1>3, NoticeTypes
  <2> QED
    BY <1>1, <1>3, <2>1, <2>2, <2>3, <2>4, <2>5, NoticeTypes DEF NoticesTyped
<1>13. TabInOrder'
  BY <1>1 DEF NoticesInv, TabInOrder
<1>14. ASSUME NEW row \in current PROVE Follows(row)'
  <2>1. Fetched(row)' /\ (InPlace(row) => InPlace(row)')
    BY <1>1 DEF NoticesInv, Follows, Fetched, InPlace
  <2>2. OnItsWay(row) => OnItsWay(row)'
    BY <1>1, <1>2 DEF OnItsWay, Brings, I!Connected
  <2> QED
    BY <2>1, <2>2 DEF NoticesInv, Follows
<1>15. ASSUME NEW row \in new PROVE Follows(row)'
  <2>1. \A a \in Ask : ~(row.asOf <= ask[a].asOf)
    BY <1>1, <1>7, NoticeTypes
  <2>2. Brings(message, row)
    BY <1>2, <1>3, <1>7, <1>10 DEF Brings
  <2>3. message \in pushing'
    BY <1>2 DEF message
  <2>4. OnItsWay(row)'
    BY <2>2, <2>3 DEF OnItsWay, Brings
  <2> QED
    BY <1>1, <2>1, <2>4 DEF Follows, Fetched
<1> QED
  BY <1>6, <1>12, <1>13, <1>14, <1>15 DEF NoticesInv

LEMMA NoticesKeep == ASSUME NoticesInv, [I!Next]_(I!vars) PROVE NoticesInv'
<1>1. CASE UNCHANGED I!vars
  <2>1. UNCHANGED <<current, version, pushing, issued, socket, tab, ask, needed, behind>>
    BY <1>1 DEF I!vars, I!rows, I!access, I!shown
  <2> QED
    BY <2>1, NoticeTypes, SocketsMove
<1>2. CASE I!Next
  BY <1>2, WritesKeep, PushKeeps, DropKeeps, ServerEnds, ServerSteps, ListeningKeeps, AsksKeep DEF I!Next
<1> QED
  BY <1>1, <1>2

(* ----------------------------------------------------------- the theorems *)

(* Images that books show, or stored snapshots would bring back, are not   *)
(* destroyed unless they were adrift (destroyImageIfUnreferenced,          *)
(* uploadSnapshot, replaceApplicationData), and only snapshots that are    *)
(* not pinned go, when they are removed or there are enough newer ones:    *)
(* for every number of books, jobs, images and snapshots.                  *)
LEMMA CoversLast == SceneSpec => V!CoversStand
<1>1. SceneInit => CoversInv
  BY CoversStart DEF SceneInit
<1>2. [SceneNext]_<<scene, vars, covers, inbox>> => [V!Next]_(V!vars)
  BY DEF SceneNext, covers, V!vars
<1>3. CoversInv /\ [SceneNext]_<<scene, vars, covers, inbox>> => CoversInv'
  BY <1>2, CoversKeep
<1>4. CoversInv /\ [SceneNext]_<<scene, vars, covers, inbox>> => [V!SnapshotsKept]_(V!vars)
  BY <1>2, SnapshotBound, SnapshotsStay
<1>5. CoversInv => V!ImagesLast
  BY ShownImagesLast
<1> QED
  BY <1>1, <1>3, <1>4, <1>5, PTL DEF SceneSpec, V!CoversStand

(* A tab that waits for nothing shows every notice of its account, or as   *)
(* many as it has room for and none of them older, unless it is behind     *)
(* until its next list (NotificationsContext, createNotification): for     *)
(* every number of notices, sockets, calls and places in the list.         *)
LEMMA NoticesLast == SceneSpec => I!NoticesStand
<1>1. SceneInit => NoticesInv
  BY NoticesStart DEF SceneInit
<1>2. [SceneNext]_<<scene, vars, covers, inbox>> => [I!Next]_(I!vars)
  BY DEF SceneNext, inbox, I!vars, I!rows, I!access, I!shown
<1>3. NoticesInv /\ [SceneNext]_<<scene, vars, covers, inbox>> => NoticesInv'
  BY <1>2, NoticesKeep
<1>4. NoticesInv => I!NoticesAreShown
  BY NoticesShow
<1> QED
  BY <1>1, <1>3, <1>4, PTL DEF SceneSpec, I!NoticesStand

(* Both, however the one or the other goes on: covers last and stored      *)
(* snapshots are kept, and a tab that waits for nothing and is not behind  *)
(* shows the newest notices of its account.                                *)
THEOREM CoversAndNoticesLast == SceneSpec => CoversAndNoticesStand
  BY CoversLast, NoticesLast DEF CoversAndNoticesStand

=============================================================================
