----------------------------- MODULE Knowledge -----------------------------
(***************************************************************************)
(* The knowledge base of ai-service: the documents of a site are loaded,   *)
(* embedded and put in a Qdrant collection that all sites share, by one    *)
(* background job per site; a status file says how far that went.          *)
(***************************************************************************)
EXTENDS Documents, FiniteSetsExt

CONSTANTS
    Sites,          \* the sites whose knowledge is kept
    Deployed,       \* the files at the start: [Sites -> SUBSET Docs or NoDir]
    NoDir,          \* the site's directory does not exist
    UploadBatch,    \* points per upsert (64 in the code)
    MaxReloads,     \* bound: reload jobs started
    MaxDisturbances \* bound: changes of the documents and restarts of ai-service

VARIABLES
    files,          \* the directory of each site
    status,         \* the status file of each site
    index,          \* the points in Qdrant
    jobs,           \* the reload jobs of the running process
    activeJobs,     \* Manager.activeJobs: the job that holds the site, or 0
    reloads,        \* jobs started so far; a job's number is its id
    late,           \* writes Qdrant may still apply though the caller gave up
    mixed,          \* history: a late write landed since the site was last emptied
    disturbances    \* edits and crashes so far

knowledgeVars == <<files, status, index, jobs, activeJobs, reloads, late, mixed, disturbances>>
jobVars == <<status, index, jobs, activeJobs, reloads, late, mixed>>

Statuses == {"idle", "indexing", "ready", "error"}
JobIDs == 1 .. MaxReloads

\* A chunk of a site; its id is a hash of all its fields, so equal chunks are the same point.
ChunkOf(s, d, c) == [site |-> s, doc |-> d, kind |-> c.kind, section |-> c.section, lines |-> c.lines]

Chunk == UNION {{ChunkOf(s, d, c) : c \in Chunks[d]} : s \in Sites, d \in Docs}

SiteStatus == [index_status : Statuses, indexed_chunks : Nat]

Steps == {"none", "trigger", "start", "load", "delete", "upload", "finish", "release"}
Job == [site : Sites, pc : Steps, loaded : SUBSET Chunk, left : SUBSET Chunk]
Write == [op : {"delete"}, site : Sites] \cup [op : {"upsert"}, points : SUBSET Chunk]

ASSUME KnowledgeAssumption ==
    /\ Sites # {} /\ MaxReloads \in Nat
    /\ UploadBatch \in Nat \ {0}
    /\ Deployed \in [Sites -> (SUBSET Docs) \cup {NoDir}]

\* Finitely many documents, and each is cut into finitely many chunks of finitely many lines.
ASSUME ChunksFinite == IsFiniteSet(Chunk) /\ \A c \in Chunk : IsFiniteSet(c.lines)

----------------------------------------------------------------------------
\* A walk over the site's directory; every file is normalised and cut (module Documents).
LoadSiteChunks(s) == UNION {{ChunkOf(s, d, c) : c \in Chunks[d]} : d \in files[s]}

SitePoints(s) == {p \in index : p.site = s}

----------------------------------------------------------------------------
(* The status file: replaced whole, by rename, so a crash leaves the old or the new one. *)

Idle == [index_status |-> "idle", indexed_chunks |-> 0]

With(s, st) == [status[s] EXCEPT !.index_status = st]

\* Save whose failure is ignored.
TrySave(s, row) == status' \in {status, [status EXCEPT ![s] = row]}

\* GetStatus: a job of this process overrides what the file says.
GetStatus(s) == IF activeJobs[s] # 0 THEN "indexing" ELSE status[s].index_status

----------------------------------------------------------------------------
Vacant == [site |-> CHOOSE s \in Sites : TRUE, pc |-> "none", loaded |-> {}, left |-> {}]

KnowledgeInit ==
    /\ files = Deployed
    /\ status = [s \in Sites |-> Idle]
    /\ index = {}
    /\ jobs = [j \in JobIDs |-> Vacant]
    /\ activeJobs = [s \in Sites |-> 0]
    /\ reloads = 0
    /\ late = {}
    /\ mixed = [s \in Sites |-> FALSE]
    /\ disturbances = 0

\* Only the type of the state.
KnowledgeTypeOK ==
    /\ \A s \in Sites : files[s] = NoDir \/ files[s] \subseteq Docs
    /\ status \in [Sites -> SiteStatus]
    /\ index \subseteq Chunk
    /\ jobs \in [JobIDs -> Job]
    /\ activeJobs \in [Sites -> 0 .. MaxReloads]
    /\ late \subseteq Write
    /\ mixed \in [Sites -> BOOLEAN]

----------------------------------------------------------------------------
(* The reload: the call that starts it, and the goroutine that runs it. *)

Go(j, step) == jobs' = [jobs EXCEPT ![j].pc = step]

EndJob(j) == jobs' = [jobs EXCEPT ![j].pc = "release", ![j].loaded = {}, ![j].left = {}]

\* Mutant of TriggerReindex: a second reload of a site starts beside the first.
TriggerReindexAnyway(s) ==
    /\ reloads < MaxReloads
    /\ reloads' = reloads + 1
    /\ activeJobs' = [activeJobs EXCEPT ![s] = reloads']
    /\ jobs' = [jobs EXCEPT ![reloads'] = [Vacant EXCEPT !.site = s, !.pc = "trigger"]]
    /\ UNCHANGED <<status, index, late, mixed>>

\* Under the mutex: a call that finds a job of the site returns that job and changes nothing.
TriggerReindex(s) ==
    /\ activeJobs[s] = 0
    /\ reloads < MaxReloads
    /\ reloads' = reloads + 1
    /\ activeJobs' = [activeJobs EXCEPT ![s] = reloads']
    /\ jobs' = [jobs EXCEPT ![reloads'] = [Vacant EXCEPT !.site = s, !.pc = "trigger"]]
    /\ UNCHANGED <<status, index, late, mixed>>

\* The rest of the call, outside the mutex: the status file says indexing before the job runs.
MarkIndexing(j) ==
    /\ jobs[j].pc = "trigger"
    /\ \/ /\ status' = [status EXCEPT ![jobs[j].site] = With(jobs[j].site, "indexing")]
          /\ Go(j, "start")
       \/ /\ UNCHANGED status
          /\ Go(j, "release")
    /\ UNCHANGED <<index, activeJobs, reloads, late, mixed>>

\* Mutant of StartJob: an unreadable status file ends the goroutine without its deferred cleanup.
StartJobNoDefer(j) ==
    /\ jobs[j].pc = "start"
    /\ \/ TrySave(jobs[j].site, With(jobs[j].site, "indexing")) /\ Go(j, "load")
       \/ UNCHANGED status /\ Go(j, "none")
    /\ UNCHANGED <<index, activeJobs, reloads, late, mixed>>

\* An unreadable status file ends the job.
StartJob(j) ==
    /\ jobs[j].pc = "start"
    /\ \/ TrySave(jobs[j].site, With(jobs[j].site, "indexing")) /\ Go(j, "load")
       \/ UNCHANGED status /\ Go(j, "release")
    /\ UNCHANGED <<index, activeJobs, reloads, late, mixed>>

\* Every failing step saves the error, as far as it can, and ends the job.
FailJob(j) == TrySave(jobs[j].site, With(jobs[j].site, "error")) /\ EndJob(j)

\* A vector for every text, or an error: an answer that lacks one is an error.
CreateEmbeddings(texts) == {[ok |-> TRUE, of |-> texts], [ok |-> FALSE, of |-> {}]}

\* The collection is there, or is made, or the job fails; no points need no collection.
EnsureCollection(points) == IF points = {} THEN {TRUE} ELSE BOOLEAN

\* The files are read, embedded batch by batch, and a collection found for them: nothing of it
\* shows outside the job unless it fails.
LoadChunks(j) ==
    /\ jobs[j].pc = "load"
    /\ \E vectors \in IF files[jobs[j].site] = NoDir THEN {[ok |-> FALSE, of |-> {}]}
                      ELSE CreateEmbeddings(LoadSiteChunks(jobs[j].site)) :
       \E found \in EnsureCollection(vectors.of) :
         IF vectors.ok /\ found
         THEN /\ jobs' = [jobs EXCEPT ![j].pc = "delete", ![j].loaded = vectors.of, ![j].left = vectors.of]
              /\ UNCHANGED status
         ELSE FailJob(j)
    /\ UNCHANGED <<index, activeJobs, reloads, late, mixed>>

\* Mutant of Applied: deleteSite without the site filter empties the whole collection.
AppliedUnfiltered(w) ==
    IF w.op = "delete" THEN {} ELSE index \cup w.points

\* What Qdrant does with a write: delete by site_id filter, or upsert by point id.
Applied(w) ==
    IF w.op = "delete" THEN {p \in index : p.site # w.site} ELSE index \cup w.points

\* A write that reports an error, or times out, was applied, was not, or will be later.
WriteFails(j, w) ==
    /\ FailJob(j)
    /\ \/ index' \in {index, Applied(w)} /\ UNCHANGED late
       \/ late' = late \cup {w} /\ UNCHANGED index
    /\ UNCHANGED mixed

DeleteOf(s) == [op |-> "delete", site |-> s]

DeleteSite(j) ==
    LET s == jobs[j].site IN
    /\ jobs[j].pc = "delete"
    /\ \/ WriteFails(j, DeleteOf(s))
       \/ /\ index' = Applied(DeleteOf(s))
          /\ mixed' = [mixed EXCEPT ![s] = FALSE]
          /\ Go(j, IF jobs[j].left = {} THEN "finish" ELSE "upload")
          /\ UNCHANGED <<status, late>>
    /\ UNCHANGED <<activeJobs, reloads>>

\* The next points in the order of the files.
Batch(S) == CHOOSE b \in kSubset(IF Cardinality(S) < UploadBatch THEN Cardinality(S) ELSE UploadBatch, S) : TRUE

Upsert(j) ==
    LET batch == Batch(jobs[j].left) IN
    /\ jobs[j].pc = "upload"
    /\ \/ WriteFails(j, [op |-> "upsert", points |-> batch])
       \/ /\ index' = Applied([op |-> "upsert", points |-> batch])
          /\ jobs' = [jobs EXCEPT ![j].left = @ \ batch,
                                  ![j].pc = IF jobs[j].left = batch THEN "finish" ELSE "upload"]
          /\ UNCHANGED <<status, late, mixed>>
    /\ UNCHANGED <<activeJobs, reloads>>

\* The site is ready; when the file cannot be saved it keeps saying indexing.
FinishJob(j) ==
    /\ jobs[j].pc = "finish"
    /\ TrySave(jobs[j].site, [index_status |-> "ready",
                              indexed_chunks |-> Cardinality(jobs[j].loaded)])
    /\ EndJob(j)
    /\ UNCHANGED <<index, activeJobs, reloads, late, mixed>>

\* The deferred function of runReindex, and the early returns of TriggerReindex.
Release(j) ==
    /\ jobs[j].pc = "release"
    /\ activeJobs' = [activeJobs EXCEPT ![jobs[j].site] = 0]
    /\ jobs' = [jobs EXCEPT ![j] = Vacant]
    /\ UNCHANGED <<status, index, reloads, late, mixed>>

RunReindex(j) ==
    \/ MarkIndexing(j) \/ StartJob(j) \/ LoadChunks(j) \/ DeleteSite(j) \/ Upsert(j) \/ FinishJob(j) \/ Release(j)

\* Qdrant applies a write whose caller is gone.
LateWrite ==
    \E w \in late :
      /\ index' = Applied(w)
      /\ late' = late \ {w}
      /\ mixed' = [s \in Sites |-> mixed[s] \/ (IF w.op = "delete" THEN s = w.site
                                                ELSE \E p \in w.points : p.site = s)]
      /\ UNCHANGED <<status, jobs, activeJobs, reloads>>

----------------------------------------------------------------------------
(* The world around it. *)

\* Somebody adds or removes a document, or the site's directory.
EditFiles(s) ==
    /\ disturbances < MaxDisturbances
    /\ disturbances' = disturbances + 1
    /\ \/ files' = [files EXCEPT ![s] = NoDir]
       \/ \E d \in Docs : files' = [files EXCEPT ![s] =
            IF @ = NoDir THEN {d} ELSE IF d \in @ THEN @ \ {d} ELSE @ \cup {d}]
    /\ UNCHANGED jobVars

\* ai-service dies with its jobs; what a job had sent may still reach Qdrant.
Crash ==
    /\ disturbances < MaxDisturbances
    /\ disturbances' = disturbances + 1
    /\ \E sent \in SUBSET {j \in JobIDs : jobs[j].pc \in {"delete", "upload"}} :
         late' = late \cup {IF jobs[j].pc = "delete" THEN DeleteOf(jobs[j].site)
                            ELSE [op |-> "upsert", points |-> Batch(jobs[j].left)]
                              : j \in sent}
    /\ jobs' = [j \in JobIDs |-> Vacant]
    /\ activeJobs' = [s \in Sites |-> 0]
    /\ UNCHANGED <<files, status, index, reloads, mixed>>

Reload ==
    /\ (\E s \in Sites : TriggerReindex(s)) \/ (\E j \in JobIDs : RunReindex(j)) \/ LateWrite
    /\ UNCHANGED <<files, disturbances>>

\* A job's goroutine runs: every call it makes has a timeout.
JobsRun == \A j \in JobIDs : WF_knowledgeVars(RunReindex(j) /\ UNCHANGED <<files, disturbances>>)

----------------------------------------------------------------------------
\* When the status file says ready, Qdrant holds the number of points the file gives for the
\* site, however earlier jobs failed half way, and whatever a crash cut off; unless a write its
\* caller had given up landed since (runReindex, ReplaceSite).
ReadyIndexWhole ==
    \A s \in Sites :
      status[s].index_status = "ready" /\ ~mixed[s]
        => Cardinality(SitePoints(s)) = status[s].indexed_chunks

\* A reload never keeps its site for ever: the next reload can start (deferred delete of the
\* active job).
ReloadEnds == \A s \in Sites : activeJobs[s] # 0 ~> activeJobs[s] = 0
=============================================================================
