------------------------------ MODULE Enrichment ------------------------------
(* The book details behind the recommendations, and the backfill that       *)
(* completes them: modules/recommendations.  A book that is catalogued or    *)
(* changed queues a refresh (catalog.query.service.ts:95, 155), staff write  *)
(* details by hand, and a backfill works through a list of books; each reads *)
(* the details, asks the providers, and saves, with nothing locked between.  *)
(* What an embedding is computed from, and what is recommended, is left out. *)
EXTENDS Naturals, FiniteSets

CONSTANTS
  Book,
  Queued,    \* refreshes that the catalogue queues
  Edit,       \* saves of details by staff
  MaxRuns     \* bound on the backfills

VARIABLES
  details,    \* book_enrichment: whose details, how much of them, and which edit they go back to
  embedding,  \* book_embeddings.status
  job,        \* what a refresh, an edit or a backfill does with the book at hand
  active,     \* activeBackfill, 0 when no backfill was started since the process was
  run,        \* the BackfillState of each backfill
  log         \* the status in the last audit event of a backfill

vars == <<details, embedding, job, active, run, log>>

Run == 1..MaxRuns
EnrichmentAssumption ==
  MaxRuns \in Nat /\ IsFiniteSet(Edit) /\ Book # {} /\ (Queued \union Edit) \intersect Run = {}
Worker == Queued \union Edit \union Run
Details == [source : {"none", "found", "manual"}, level : {"none", "failed", "bare", "described"}, edit : 0..Cardinality(Edit)]
NoDetails == [source |-> "none", level |-> "none", edit |-> 0]
NoJob == [at |-> "idle", book |-> CHOOSE b \in Book : TRUE, saw |-> NoDetails]
RunStatus == {"none", "running", "completed", "paused", "cancelled"}
NoRun == [status |-> "none", stage |-> "none", todo |-> {}, cancelRequested |-> FALSE, limited |-> FALSE, previous |-> 0]

TypeOK ==
  /\ details \in [Book -> Details]
  /\ embedding \in [Book -> {"none", "stale", "ready", "failed"}]
  /\ job \in [Worker -> [at : {"idle", "read", "look", "save", "stale", "embed", "ended"}, book : Book, saw : Details]]
  /\ active \in 0..MaxRuns
  /\ run \in [Run -> [status : RunStatus, stage : {"none", "list", "record", "work", "report", "ended"},
                      todo : SUBSET Book, cancelRequested : BOOLEAN, limited : BOOLEAN, previous : 0..MaxRuns]]
  /\ log \in RunStatus

Init ==
  /\ details = [b \in Book |-> NoDetails] /\ embedding = [b \in Book |-> "none"]
  /\ job = [w \in Worker |-> NoJob]
  /\ active = 0 /\ run = [r \in Run |-> NoRun] /\ log = "none"

To(w, stage) == job' = [job EXCEPT ![w].at = stage]
Over(w) == IF w \in Run THEN NoJob ELSE [NoJob EXCEPT !.at = "ended"]

(* --- the details of a book ------------------------------------------------ *)

QueueRefresh(w, b) ==
  /\ job[w].at = "idle"
  /\ job' = [job EXCEPT ![w].at = "read", ![w].book = b]
  /\ UNCHANGED <<details, embedding, active, run, log>>

AfterLookup(w) == IF w \in Run THEN "embed" ELSE "stale"

(* enrichBookWithOutcome and saveManualMetadata read the row first.  Details *)
(* by hand and those with a description are not looked up, nor those of a    *)
(* book that has no ISBN or that the providers were asked about before.      *)
Read(w) ==
  LET d == details[job[w].book]
  IN  /\ job[w].at = "read"
      /\ \/ /\ w \in Edit
            /\ job' = [job EXCEPT ![w].at = "save", ![w].saw = d]
         \/ /\ w \notin Edit /\ d.source # "manual" /\ d.level # "described"
            /\ job' = [job EXCEPT ![w].at = "look", ![w].saw = d]
         \/ w \notin Edit /\ To(w, AfterLookup(w))
      /\ UNCHANGED <<details, embedding, active, run, log>>

(* What the providers say goes on top of what was read.                     *)
LookUp(w, level) ==
  LET d == job[w].saw
  IN  /\ job[w].at = "look"
      /\ level \in IF d.level = "bare" THEN {"bare", "described"} ELSE {"failed", "bare", "described"}
      /\ job' = [job EXCEPT ![w].at = "save", ![w].saw = [d EXCEPT !.source = "found", !.level = level]]
      /\ \E limited \in BOOLEAN : run' = IF w \in Run THEN [run EXCEPT ![w].limited = limited] ELSE run
      /\ UNCHANGED <<details, embedding, active, log>>

(* Mutant: what was looked up is written over whatever is there.            *)
SavedBlindly(old, new) == new

(* saveEnrichment and markEnrichmentFailed leave details by hand alone.     *)
Saved(old, new) == IF old.source = "manual" THEN old ELSE new

SaveLookup(w) ==
  /\ job[w].at = "save" /\ w \notin Edit
  /\ details' = [details EXCEPT ![job[w].book] = Saved(@, job[w].saw)]
  /\ job' = [job EXCEPT ![w].at = AfterLookup(w), ![w].saw = NoDetails]
  /\ UNCHANGED <<embedding, active, run, log>>

SaveManual(w, level) ==
  /\ job[w].at = "save" /\ w \in Edit
  /\ details' = [details EXCEPT ![job[w].book] = [source |-> "manual", level |-> level, edit |-> @.edit + 1]]
  /\ job' = [job EXCEPT ![w].at = "stale", ![w].saw = NoDetails]
  /\ UNCHANGED <<embedding, active, run, log>>

(* A query that fails before the embedding: a refresh ends, a backfill goes *)
(* on with the embedding, and an edit that is saved says that it failed.    *)
Fails(w) ==
  /\ job[w].at \in {"read", "look", "save", "stale"}
  /\ IF w \in Run THEN job' = [job EXCEPT ![w].at = "embed", ![w].saw = NoDetails]
     ELSE job' = [job EXCEPT ![w] = Over(w)]
  /\ \/ UNCHANGED embedding
     \/ w \in Edit /\ job[w].at = "stale" /\ embedding' = [embedding EXCEPT ![job[w].book] = "failed"]
  /\ UNCHANGED <<details, active, run, log>>

MarkStale(w) ==
  /\ job[w].at = "stale"
  /\ embedding' = [embedding EXCEPT ![job[w].book] = "stale"]
  /\ To(w, "embed")
  /\ UNCHANGED <<details, active, run, log>>

(* embedBook, and markEmbeddingFailed, which may fail as well.              *)
EmbedBook(w) ==
  LET b == job[w].book
  IN  /\ job[w].at = "embed"
      /\ embedding' \in {[embedding EXCEPT ![b] = s] : s \in {"ready", "failed", embedding[b]}}
      /\ job' = [job EXCEPT ![w] = Over(w)]
      /\ UNCHANGED <<details, active, run, log>>

(* --- the backfill --------------------------------------------------------- *)

Status(r) == IF r = 0 THEN "none" ELSE run[r].status

(* Mutant: the run is not reserved before the books are read.               *)
NothingReserved(r) == active

Reserved(r) == r

StartBackfill(r) ==
  /\ Status(active) # "running"
  /\ run[r].stage = "none" /\ \A q \in 1..(r - 1) : run[q].stage # "none"
  /\ active' = Reserved(r)
  /\ run' = [run EXCEPT ![r].status = "running", ![r].stage = "list", ![r].previous = active]
  /\ UNCHANGED <<details, embedding, job, log>>

ListBooks(r, books) ==
  /\ run[r].stage = "list"
  /\ run' = [run EXCEPT ![r].stage = "record", ![r].todo = books]
  /\ UNCHANGED <<details, embedding, job, active, log>>

RecordStart(r) ==
  /\ run[r].stage = "record" /\ log' = "running"
  /\ run' = IF run[r].todo = {} THEN [run EXCEPT ![r] = [NoRun EXCEPT !.stage = "report", !.status = "completed"]]
            ELSE [run EXCEPT ![r].stage = "work", ![r].previous = 0]
  /\ UNCHANGED <<details, embedding, job, active>>

(* Mutant: a start that fails leaves its run behind.                        *)
StartFailsOnly(r) ==
  /\ run[r].stage \in {"list", "record"}
  /\ run' = [run EXCEPT ![r].stage = "ended"]
  /\ log' \in IF run[r].stage = "record" THEN {log, "running"} ELSE {log}
  /\ UNCHANGED <<details, embedding, job, active>>

(* A start that fails puts back the run before it.                          *)
StartFails(r) ==
  /\ run[r].stage \in {"list", "record"}
  /\ active' = run[r].previous
  /\ run' = [run EXCEPT ![r] = [NoRun EXCEPT !.stage = "ended"]]
  /\ log' \in IF run[r].stage = "record" THEN {log, "running"} ELSE {log}
  /\ UNCHANGED <<details, embedding, job>>

(* runBackfill.  A run of scope "embeddings" does not read the details.     *)
NextBook(r, b) ==
  /\ run[r].stage = "work" /\ job[r].at = "idle" /\ ~run[r].limited /\ ~run[r].cancelRequested
  /\ b \in run[r].todo
  /\ run' = [run EXCEPT ![r].todo = @ \ {b}]
  /\ \E stage \in {"read", "embed"} : job' = [job EXCEPT ![r].at = stage, ![r].book = b]
  /\ UNCHANGED <<details, embedding, active, log>>

Finish(r) ==
  LET m == run[r]
      Ends(s) == run' = [run EXCEPT ![r] = [NoRun EXCEPT !.stage = "report", !.status = s]]
  IN  /\ m.stage = "work" /\ job[r].at = "idle"
      /\ \/ m.limited /\ Ends("paused")
         \/ ~m.limited /\ m.todo # {} /\ m.cancelRequested /\ Ends("cancelled")
         \/ ~m.limited /\ m.todo = {} /\ Ends("completed")
      /\ UNCHANGED <<details, embedding, job, active, log>>

RecordEnd(r) ==
  /\ run[r].stage = "report"
  /\ run' = [run EXCEPT ![r].stage = "ended"]
  /\ log' \in {log, run[r].status}
  /\ UNCHANGED <<details, embedding, job, active>>

CancelBackfill ==
  /\ Status(active) = "running"
  /\ run' = [run EXCEPT ![active].cancelRequested = TRUE]
  /\ UNCHANGED <<details, embedding, job, active, log>>

(* The process stops: whatever was queued or under way is gone.             *)
Stop ==
  /\ active # 0 \/ \E w \in Worker : job[w].at \notin {"idle", "ended"}
  /\ active' = 0
  /\ run' = [r \in Run |-> IF run[r].stage = "none" THEN NoRun ELSE [NoRun EXCEPT !.stage = "ended"]]
  /\ job' = [w \in Worker |-> IF job[w].at = "idle" THEN NoJob ELSE Over(w)]
  /\ UNCHANGED <<details, embedding, log>>

RunStep(r) ==
  \/ (\E books \in SUBSET Book : ListBooks(r, books)) \/ RecordStart(r) \/ StartFails(r)
  \/ (\E b \in Book : NextBook(r, b)) \/ Finish(r) \/ RecordEnd(r)

JobStep(w) ==
  \/ Read(w) \/ SaveLookup(w) \/ Fails(w) \/ MarkStale(w) \/ EmbedBook(w)
  \/ \E level \in {"failed", "bare", "described"} : LookUp(w, level)
  \/ \E level \in {"bare", "described"} : SaveManual(w, level)

Next ==
  \/ \E w \in Queued \union Edit, b \in Book : QueueRefresh(w, b)
  \/ \E w \in Worker : JobStep(w)
  \/ \E r \in Run : StartBackfill(r) \/ RunStep(r)
  \/ CancelBackfill \/ Stop

(* Providers and queries answer or time out.                                *)
Fairness == \A r \in Run : WF_vars(JobStep(r) \/ RunStep(r))

Spec == Init /\ [][Next]_vars /\ Fairness

(* Details that staff wrote stand until staff write others, whatever        *)
(* lookups were under way when they were saved.                             *)
ManualDetailsStand ==
  [][\A b \in Book : details[b].source = "manual" /\ details'[b] # details[b] =>
       \E w \in Edit : job[w].at = "save" /\ job[w].book = b /\ job'[w].at # "save"]_vars

(* restoredBackfillProgress.                                                *)
Progress == IF active # 0 THEN run[active].status ELSE IF log = "running" THEN "interrupted" ELSE log

Working == {r \in Run : run[r].stage \in {"list", "record", "work"}}

(* The page says that a backfill is running exactly while one is: two       *)
(* starts never both do the work, and a stopped process leaves none that    *)
(* seems to go on.                                                          *)
ProgressIsTrue == Cardinality(Working) = IF Progress = "running" THEN 1 ELSE 0

(* A backfill comes to an end: also one that is paused, cancelled, stopped, *)
(* or whose start fails.                                                    *)
BackfillEnds == Progress = "running" ~> Progress # "running"
===============================================================================
