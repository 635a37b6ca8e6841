--------------------------- MODULE KnowledgeProofs ---------------------------
(***************************************************************************)
(* Proofs about Knowledge and ReplyContent: an index that is called ready  *)
(* is whole, an answer is taken from the asked site's chunks, and the live *)
(* files are enough to answer from.                                        *)
(***************************************************************************)
EXTENDS ReplyContent, FiniteSetTheorems, FunctionTheorems, WellFoundedInduction, TLAPS


KnowledgeTypes ==
    /\ KnowledgeTypeOK
    /\ files \in [Sites -> (SUBSET Docs) \cup {NoDir}]
    /\ reloads \in 0 .. MaxReloads

\* A site has one job, and its status file says so from before the first write to Qdrant on.
JobsExclusive ==
    \A j \in JobIDs :
      /\ jobs[j].pc # "none" => activeJobs[jobs[j].site] = j
      /\ jobs[j].pc \in {"start", "load", "delete", "upload", "finish"}
           => status[jobs[j].site].index_status = "indexing"

\* What is left to upload is part of what was loaded, all of it before the first upload.
JobsLoaded ==
    \A j \in JobIDs :
      /\ jobs[j].left \subseteq jobs[j].loaded
      /\ \A c \in jobs[j].loaded : c.site = jobs[j].site
      /\ jobs[j].pc = "delete" => jobs[j].left = jobs[j].loaded
      /\ jobs[j].pc = "finish" => jobs[j].left = {}

\* While a job uploads, Qdrant holds what the job has uploaded and nothing else of the site.
JobsUploaded ==
    \A j \in JobIDs :
      jobs[j].pc \in {"upload", "finish"} /\ ~mixed[jobs[j].site]
        => SitePoints(jobs[j].site) = jobs[j].loaded \ jobs[j].left

KnowledgeInv == KnowledgeTypes /\ JobsExclusive /\ JobsLoaded /\ JobsUploaded /\ ReadyIndexWhole

\* The candidates of a search are chunks of the asked site.
SearchTrue ==
    /\ search = [pc |-> search.pc, ask |-> search.ask, recalled |-> search.recalled,
                 query |-> search.query, keyword |-> search.keyword, vector |-> search.vector]
    /\ search.pc # "idle" => search.ask \in Asks
    /\ search.keyword \subseteq Chunk /\ search.vector \subseteq Chunk
    /\ \A c \in search.keyword \cup search.vector : c.site = search.ask.site

----------------------------------------------------------------------------
(* Sets of n, and a batch. *)

\* A finite set has a subset of every smaller size.
LEMMA SubsetOfSize ==
    ASSUME NEW S, IsFiniteSet(S), NEW n \in Nat, n <= Cardinality(S)
    PROVE  \E b \in SUBSET S : Cardinality(b) = n
  <1> DEFINE N == Cardinality(S)
  <1>1. N \in Nat /\ ExistsBijection(1 .. N, S)
    BY FS_CardinalityType
  <1>2. PICK f \in Bijection(1 .. N, S) : TRUE
    BY <1>1 DEF ExistsBijection
  <1>3. /\ f \in [1 .. N -> S]
        /\ \A i, k \in 1 .. N : f[i] = f[k] => i = k
    BY <1>2 DEF Bijection, Injection, IsInjective
  <1> HIDE DEF N
  <1> DEFINE b == {f[i] : i \in 1 .. n}
             g == [i \in 1 .. n |-> f[i]]
  <1>4. b \in SUBSET S
    BY <1>1, <1>3 DEF N
  <1>5. g \in Bijection(1 .. n, b)
    <2>1. \A i \in 1 .. n : i \in 1 .. N
      BY <1>1 DEF N
    <2>2. g \in [1 .. n -> b]
      OBVIOUS
    <2>3. g \in Injection(1 .. n, b)
      BY <2>1, <2>2, <1>3 DEF Injection, IsInjective
    <2>4. g \in Surjection(1 .. n, b)
      BY <2>2 DEF Surjection
    <2> QED BY <2>3, <2>4 DEF Bijection
  <1>6. IsFiniteSet(1 .. n) /\ Cardinality(1 .. n) = n
    <2>1. IsFiniteSet(1 .. n) /\ Cardinality(1 .. n) = IF 1 > n THEN 0 ELSE n - 1 + 1
      BY FS_Interval
    <2> QED BY <2>1
  <1>7. ExistsBijection(1 .. n, b)
    BY <1>5 DEF ExistsBijection
  <1>8. Cardinality(b) = n
    <2> HIDE DEF b
    <2> QED BY <1>6, <1>7, FS_Bijection
  <1> QED BY <1>4, <1>8

\* What Best yields is part of the set, and is something when the set and the limit are.
LEMMA BestOf ==
    ASSUME NEW S, NEW n \in Nat \ {0}, NEW b \in Best(S, n)
    PROVE  /\ b \subseteq S
           /\ IsFiniteSet(S) /\ S # {} => b # {}
  <1> DEFINE k == IF Cardinality(S) < n THEN Cardinality(S) ELSE n
  <1>1. b \subseteq S /\ Cardinality(b) = k
    BY DEF Best, kSubset
  <1>2. ASSUME IsFiniteSet(S), S # {} PROVE b # {}
    <2>1. Cardinality(S) \in Nat /\ Cardinality(S) # 0
      BY <1>2, FS_CardinalityType, FS_EmptySet
    <2>2. k # 0
      BY <2>1
    <2> QED BY <1>1, <2>2, FS_EmptySet
  <1> QED BY <1>1, <1>2

\* A batch is part of what is left.
LEMMA BatchOf ==
    ASSUME NEW S, IsFiniteSet(S)
    PROVE  Batch(S) \subseteq S
  <1> DEFINE k == IF Cardinality(S) < UploadBatch THEN Cardinality(S) ELSE UploadBatch
  <1>1. Cardinality(S) \in Nat /\ UploadBatch \in Nat
    BY FS_CardinalityType, KnowledgeAssumption
  <1>2. k \in Nat /\ k <= Cardinality(S)
    BY <1>1
  <1>3. \E b \in SUBSET S : Cardinality(b) = k
    <2> HIDE DEF k
    <2> QED BY <1>2, SubsetOfSize
  <1>4. kSubset(k, S) # {}
    BY <1>3 DEF kSubset
  <1>5. Batch(S) \in kSubset(k, S)
    BY <1>4 DEF Batch
  <1> QED BY <1>5 DEF kSubset

\* The chunks of a site's files are chunks of that site.
LEMMA LoadedOf ==
    ASSUME KnowledgeTypes, NEW s \in Sites, files[s] # NoDir
    PROVE  /\ LoadSiteChunks(s) \subseteq Chunk
           /\ \A c \in LoadSiteChunks(s) : c.site = s
  <1>1. files[s] \subseteq Docs
    BY DEF KnowledgeTypes, KnowledgeTypeOK
  <1>2. ASSUME NEW x \in LoadSiteChunks(s) PROVE x \in Chunk
    <2>1. PICK d \in files[s] : x \in {ChunkOf(s, d, c) : c \in Chunks[d]}
      BY DEF LoadSiteChunks
    <2>2. d \in Docs
      BY <1>1
    <2> DEFINE of(t, e) == {ChunkOf(t, e, c) : c \in Chunks[e]}
    <2>3. Chunk = UNION {of(t, e) : t \in Sites, e \in Docs} /\ x \in of(s, d)
      BY <2>1 DEF Chunk
    <2> HIDE DEF of
    <2> QED BY <2>2, <2>3
  <1>3. \A d, c : ChunkOf(s, d, c).site = s
    BY DEF ChunkOf
  <1> QED BY <1>2, <1>3 DEF LoadSiteChunks

\* Every set of chunks is finite.
LEMMA FiniteChunks ==
    ASSUME NEW S, S \subseteq Chunk
    PROVE  IsFiniteSet(S)
  BY FS_Subset, ChunksFinite

----------------------------------------------------------------------------
(* The index and its status file. *)

\* A vacant place for a job.
LEMMA VacantJob == Vacant \in Job /\ Vacant.pc = "none" /\ Vacant.loaded = {} /\ Vacant.left = {}
  <1>1. (CHOOSE s \in Sites : TRUE) \in Sites
    BY KnowledgeAssumption
  <1> QED BY <1>1 DEF Vacant, Job, Steps

\* Initially there is no job and no point.
LEMMA KnowledgeStarts == KnowledgeInit => KnowledgeInv
  <1> SUFFICES ASSUME KnowledgeInit PROVE KnowledgeInv
    OBVIOUS
  <1> USE DEF KnowledgeInit
  <1>1. Vacant \in Job /\ Vacant.pc = "none" /\ Vacant.loaded = {} /\ Vacant.left = {}
    BY VacantJob
  <1>2. Idle \in SiteStatus /\ Idle.index_status = "idle"
    BY DEF Idle, SiteStatus, Statuses
  <1>3. KnowledgeTypes
    <2>1. files \in [Sites -> (SUBSET Docs) \cup {NoDir}]
      BY KnowledgeAssumption
    <2>2. reloads \in 0 .. MaxReloads /\ activeJobs \in [Sites -> 0 .. MaxReloads]
      BY KnowledgeAssumption
    <2>3. \A s \in Sites : files[s] = NoDir \/ files[s] \subseteq Docs
      BY <2>1
    <2> QED BY <1>1, <1>2, <2>1, <2>2, <2>3 DEF KnowledgeTypes, KnowledgeTypeOK
  <1>4. JobsExclusive
    BY <1>1 DEF JobsExclusive
  <1>5. JobsLoaded
    BY <1>1 DEF JobsLoaded
  <1>6. JobsUploaded
    BY <1>1 DEF JobsUploaded
  <1>7. ReadyIndexWhole
    BY <1>2 DEF ReadyIndexWhole
  <1> QED BY <1>3, <1>4, <1>5, <1>6, <1>7 DEF KnowledgeInv

\* A step of job j, which becomes q, with row in the status file of its site s: the invariant
\* stays if it holds of what is new.
LEMMA JobStep ==
    ASSUME KnowledgeInv, NEW j \in JobIDs, NEW s \in Sites, NEW q \in Job, NEW row \in SiteStatus,
           jobs[j].pc # "none", jobs[j].site = s, q.site = s, q.pc # "none",
           jobs' = [jobs EXCEPT ![j] = q],
           status' = [status EXCEPT ![s] = row],
           UNCHANGED <<activeJobs, reloads, files>>,
           index' \subseteq Chunk, late' \subseteq Write, mixed' \in [Sites -> BOOLEAN],
           \A t \in Sites \ {s} : mixed'[t] = mixed[t] /\ SitePoints(t)' = SitePoints(t),
           q.pc \in {"start", "load", "delete", "upload", "finish"} => row.index_status = "indexing",
           q.left \subseteq q.loaded, \A c \in q.loaded : c.site = s,
           q.pc = "delete" => q.left = q.loaded,
           q.pc = "finish" => q.left = {},
           q.pc \in {"upload", "finish"} /\ ~mixed'[s] => SitePoints(s)' = q.loaded \ q.left,
           row.index_status = "ready" /\ ~mixed'[s] => Cardinality(SitePoints(s)') = row.indexed_chunks
    PROVE  KnowledgeInv'
  <1> USE DEF KnowledgeInv, KnowledgeTypes, KnowledgeTypeOK
  <1>1. /\ jobs' \in [JobIDs -> Job] /\ status' \in [Sites -> SiteStatus]
        /\ jobs'[j] = q /\ status'[s] = row
        /\ \A k \in JobIDs \ {j} : jobs'[k] = jobs[k]
        /\ \A t \in Sites \ {s} : status'[t] = status[t]
    OBVIOUS
  <1>2. KnowledgeTypes'
    BY <1>1
  <1>3. \A k \in JobIDs : jobs[k].site \in Sites
    BY DEF Job
  <1>4. ASSUME NEW k \in JobIDs \ {j}, jobs[k].pc # "none" PROVE jobs[k].site \in Sites \ {s}
    <2>1. activeJobs[jobs[k].site] = k /\ activeJobs[s] = j
      BY <1>4 DEF JobsExclusive
    <2> QED BY <1>3, <1>4, <2>1
  <1>5. JobsExclusive'
    <2> SUFFICES ASSUME NEW k \in JobIDs
                 PROVE  /\ jobs'[k].pc # "none" => activeJobs'[jobs'[k].site] = k
                        /\ jobs'[k].pc \in {"start", "load", "delete", "upload", "finish"}
                             => status'[jobs'[k].site].index_status = "indexing"
      BY DEF JobsExclusive
    <2>1. CASE k = j
      BY <2>1, <1>1 DEF JobsExclusive
    <2>2. CASE k # j
      <3>1. jobs'[k] = jobs[k]
        BY <2>2, <1>1
      <3>2. jobs[k].pc # "none" => status'[jobs[k].site] = status[jobs[k].site]
        BY <2>2, <1>1, <1>4
      <3> QED BY <3>1, <3>2 DEF JobsExclusive
    <2> QED BY <2>1, <2>2
  <1>6. JobsLoaded'
    <2> SUFFICES ASSUME NEW k \in JobIDs
                 PROVE  /\ jobs'[k].left \subseteq jobs'[k].loaded
                        /\ \A c \in jobs'[k].loaded : c.site = jobs'[k].site
                        /\ jobs'[k].pc = "delete" => jobs'[k].left = jobs'[k].loaded
                        /\ jobs'[k].pc = "finish" => jobs'[k].left = {}
      BY DEF JobsLoaded
    <2>1. CASE k = j
      BY <2>1, <1>1
    <2>2. CASE k # j
      BY <2>2, <1>1 DEF JobsLoaded
    <2> QED BY <2>1, <2>2
  <1>7. JobsUploaded'
    <2> SUFFICES ASSUME NEW k \in JobIDs, jobs'[k].pc \in {"upload", "finish"}, ~mixed'[jobs'[k].site]
                 PROVE  SitePoints(jobs[k].site)' = jobs'[k].loaded \ jobs'[k].left
      BY DEF JobsUploaded
    <2>1. CASE k = j
      BY <2>1, <1>1
    <2>2. CASE k # j
      BY <2>2, <1>1, <1>4 DEF JobsUploaded
    <2> QED BY <2>1, <2>2
  <1>8. ReadyIndexWhole'
    <2> SUFFICES ASSUME NEW t \in Sites, status'[t].index_status = "ready", ~mixed'[t]
                 PROVE  Cardinality(SitePoints(t)') = status'[t].indexed_chunks
      BY DEF ReadyIndexWhole
    <2>1. CASE t = s
      BY <2>1, <1>1
    <2>2. CASE t # s
      BY <2>2, <1>1 DEF ReadyIndexWhole
    <2> QED BY <2>1, <2>2
  <1> QED BY <1>2, <1>5, <1>6, <1>7, <1>8

\* The next point of a job, q, changes only the fields its step says.
LEMMA JobRecord ==
    ASSUME KnowledgeInv, NEW j \in JobIDs
    PROVE  /\ jobs[j] \in Job /\ jobs[j].site \in Sites
           /\ jobs[j].loaded \subseteq Chunk /\ jobs[j].left \subseteq Chunk
           /\ jobs[j] = [site |-> jobs[j].site, pc |-> jobs[j].pc,
                         loaded |-> jobs[j].loaded, left |-> jobs[j].left]
           /\ IsFiniteSet(jobs[j].left) /\ IsFiniteSet(jobs[j].loaded)
           /\ Batch(jobs[j].left) \subseteq jobs[j].left
  <1>1. jobs[j] \in Job
    BY DEF KnowledgeInv, KnowledgeTypes, KnowledgeTypeOK
  <1>2. /\ jobs[j].site \in Sites
        /\ jobs[j].loaded \subseteq Chunk /\ jobs[j].left \subseteq Chunk
        /\ jobs[j] = [site |-> jobs[j].site, pc |-> jobs[j].pc,
                      loaded |-> jobs[j].loaded, left |-> jobs[j].left]
    BY <1>1 DEF Job
  <1>3. IsFiniteSet(jobs[j].left) /\ IsFiniteSet(jobs[j].loaded)
    BY <1>2, FiniteChunks
  <1> QED BY <1>1, <1>2, <1>3, BatchOf

\* A status with another word is a status.
LEMMA WithStatus ==
    ASSUME KnowledgeInv, NEW s \in Sites, NEW st \in Statuses
    PROVE  /\ With(s, st) \in SiteStatus
           /\ With(s, st).index_status = st
           /\ status[s] \in SiteStatus
  BY DEF KnowledgeInv, KnowledgeTypes, KnowledgeTypeOK, With, SiteStatus

\* What TrySave leaves in the file of the site.
LEMMA Saved ==
    ASSUME KnowledgeInv, NEW s \in Sites, NEW new, TrySave(s, new)
    PROVE  /\ status' = [status EXCEPT ![s] = status'[s]]
           /\ status'[s] \in {status[s], new}
  BY DEF TrySave, KnowledgeInv, KnowledgeTypes, KnowledgeTypeOK

\* Steps that leave Qdrant alone.
LEMMA QuietStep ==
    ASSUME UNCHANGED <<index, late, mixed>>, KnowledgeInv
    PROVE  /\ index' \subseteq Chunk /\ late' \subseteq Write /\ mixed' \in [Sites -> BOOLEAN]
           /\ \A t \in Sites : mixed'[t] = mixed[t] /\ SitePoints(t)' = SitePoints(t)
  BY DEF KnowledgeInv, KnowledgeTypes, KnowledgeTypeOK, SitePoints

\* A step of a job before or after its writes.
LEMMA QuietJobStep ==
    ASSUME KnowledgeInv, NEW j \in JobIDs, NEW s \in Sites, NEW q \in Job, NEW row \in SiteStatus,
           jobs[j].pc # "none", jobs[j].site = s, q.site = s,
           q.pc \in {"start", "load", "delete", "release"},
           jobs' = [jobs EXCEPT ![j] = q],
           status' = [status EXCEPT ![s] = row],
           UNCHANGED <<activeJobs, reloads, files, index, late, mixed>>,
           q.pc # "release" => row.index_status = "indexing",
           row = status[s] \/ row.index_status # "ready",
           q.left \subseteq q.loaded, \A c \in q.loaded : c.site = s,
           q.pc = "delete" => q.left = q.loaded
    PROVE  KnowledgeInv'
  <1>1. /\ index' \subseteq Chunk /\ late' \subseteq Write /\ mixed' \in [Sites -> BOOLEAN]
        /\ \A t \in Sites : mixed'[t] = mixed[t] /\ SitePoints(t)' = SitePoints(t)
    BY QuietStep
  <1>2. row.index_status = "ready" /\ ~mixed'[s] => Cardinality(SitePoints(s)') = row.indexed_chunks
    <2>1. CASE row = status[s]
      BY <2>1, <1>1 DEF KnowledgeInv, ReadyIndexWhole
    <2>2. CASE row.index_status # "ready"
      BY <2>2
    <2> QED BY <2>1, <2>2
  <1>3. q.pc # "none" /\ q.pc \notin {"upload", "finish"}
    OBVIOUS
  <1>4. q.pc \in {"start", "load", "delete", "upload", "finish"} => row.index_status = "indexing"
    OBVIOUS
  <1> QED BY <1>1, <1>2, <1>3, <1>4, JobStep

\* What holds of a job at each step, and of its site.
LEMMA JobFacts ==
    ASSUME KnowledgeInv, NEW j \in JobIDs, NEW s, s = jobs[j].site
    PROVE  /\ s \in Sites /\ status[s] \in SiteStatus
           /\ jobs[j].left \subseteq jobs[j].loaded
           /\ \A c \in jobs[j].loaded : c.site = s
           /\ jobs[j].pc \in {"start", "load", "delete", "upload", "finish"}
                => status[s].index_status = "indexing"
  BY JobRecord DEF KnowledgeInv, KnowledgeTypes, KnowledgeTypeOK, JobsLoaded, JobsExclusive

\* A job at its next step, with the same chunks.
LEMMA JobAt ==
    ASSUME KnowledgeInv, NEW j \in JobIDs, NEW step \in Steps, NEW q,
           q = [jobs[j] EXCEPT !.pc = step]
    PROVE  /\ q \in Job /\ q.site = jobs[j].site /\ q.pc = step
           /\ q.loaded = jobs[j].loaded /\ q.left = jobs[j].left
           /\ q.left \subseteq q.loaded
           /\ \A c \in q.loaded : c.site = q.site
  <1>1. /\ q \in Job /\ q.site = jobs[j].site /\ q.pc = step
        /\ q.loaded = jobs[j].loaded /\ q.left = jobs[j].left
    BY JobRecord DEF Job
  <1> QED BY <1>1, JobFacts

\* A job that has ended keeps nothing but its site.
LEMMA JobEnded ==
    ASSUME KnowledgeInv, NEW j \in JobIDs, NEW q,
           q = [jobs[j] EXCEPT !.pc = "release", !.loaded = {}, !.left = {}]
    PROVE  /\ q \in Job /\ q.site = jobs[j].site /\ q.pc = "release"
           /\ q.loaded = {} /\ q.left = {}
  BY JobRecord DEF Job, Steps

\* The call says in the file that the site is being indexed.
LEMMA MarkIndexingKeeps ==
    ASSUME KnowledgeInv, NEW j \in JobIDs, MarkIndexing(j), UNCHANGED files
    PROVE  KnowledgeInv'
  <1> PICK s : s = jobs[j].site
    OBVIOUS
  <1>1. jobs[j].pc = "trigger" /\ UNCHANGED <<activeJobs, reloads, files, index, late, mixed>>
    BY DEF MarkIndexing
  <1>2. CASE status' = [status EXCEPT ![s] = With(s, "indexing")] /\ Go(j, "start")
    <2> PICK row, q : row = With(s, "indexing") /\ q = [jobs[j] EXCEPT !.pc = "start"]
      OBVIOUS
    <2>1. row \in SiteStatus /\ row.index_status = "indexing"
      BY JobFacts, WithStatus DEF Statuses
    <2>2. jobs' = [jobs EXCEPT ![j] = q] /\ status' = [status EXCEPT ![s] = row]
      BY <1>2 DEF Go
    <2>3. /\ q \in Job /\ q.site = s /\ q.pc = "start"
          /\ q.left \subseteq q.loaded /\ \A c \in q.loaded : c.site = s
      BY JobAt DEF Steps
    <2>4. s \in Sites
      BY JobFacts
    <2> QED BY <1>1, <2>1, <2>2, <2>3, <2>4, QuietJobStep
  <1>3. CASE UNCHANGED status /\ Go(j, "release")
    <2> PICK row, q : row = status[s] /\ q = [jobs[j] EXCEPT !.pc = "release"]
      OBVIOUS
    <2>1. jobs' = [jobs EXCEPT ![j] = q] /\ status' = [status EXCEPT ![s] = row]
      BY <1>3, JobFacts DEF Go, KnowledgeInv, KnowledgeTypes, KnowledgeTypeOK
    <2>2. /\ q \in Job /\ q.site = s /\ q.pc = "release"
          /\ q.left \subseteq q.loaded /\ \A c \in q.loaded : c.site = s
      BY JobAt DEF Steps
    <2>3. s \in Sites /\ row \in SiteStatus
      BY JobFacts
    <2> QED BY <1>1, <2>1, <2>2, <2>3, QuietJobStep
  <1> QED BY <1>2, <1>3 DEF MarkIndexing

\* The goroutine starts.
LEMMA StartJobKeeps ==
    ASSUME KnowledgeInv, NEW j \in JobIDs, StartJob(j), UNCHANGED files
    PROVE  KnowledgeInv'
  <1> PICK s : s = jobs[j].site
    OBVIOUS
  <1>1. jobs[j].pc = "start" /\ UNCHANGED <<activeJobs, reloads, files, index, late, mixed>>
    BY DEF StartJob
  <1>2. s \in Sites /\ status[s].index_status = "indexing"
    BY <1>1, JobFacts
  <1>3. CASE TrySave(s, With(s, "indexing")) /\ Go(j, "load")
    <2>0. PICK row, q : row = status'[s] /\ q = [jobs[j] EXCEPT !.pc = "load"]
      OBVIOUS
    <2>1. row \in {status[s], With(s, "indexing")} /\ status' = [status EXCEPT ![s] = row]
      BY <1>2, <1>3, <2>0, Saved
    <2>2. row \in SiteStatus /\ row.index_status = "indexing"
      BY <1>2, <2>1, WithStatus DEF Statuses
    <2>3. jobs' = [jobs EXCEPT ![j] = q]
      BY <1>3, <2>0 DEF Go
    <2>4. /\ q \in Job /\ q.site = s /\ q.pc = "load"
          /\ q.left \subseteq q.loaded /\ \A c \in q.loaded : c.site = s
      BY <2>0, JobAt DEF Steps
    <2>5. s \in Sites /\ status' = [status EXCEPT ![s] = row]
      BY <1>2, <2>1
    <2> QED BY <1>1, <2>2, <2>3, <2>4, <2>5, QuietJobStep
  <1>4. CASE UNCHANGED status /\ Go(j, "release")
    <2> PICK row, q : row = status[s] /\ q = [jobs[j] EXCEPT !.pc = "release"]
      OBVIOUS
    <2>1. jobs' = [jobs EXCEPT ![j] = q] /\ status' = [status EXCEPT ![s] = row]
      BY <1>4, JobFacts DEF Go, KnowledgeInv, KnowledgeTypes, KnowledgeTypeOK
    <2>2. /\ q \in Job /\ q.site = s /\ q.pc = "release"
          /\ q.left \subseteq q.loaded /\ \A c \in q.loaded : c.site = s
      BY JobAt DEF Steps
    <2>3. s \in Sites /\ row \in SiteStatus
      BY JobFacts
    <2> QED BY <1>1, <2>1, <2>2, <2>3, QuietJobStep
  <1> QED BY <1>3, <1>4 DEF StartJob

\* The site's status after a failed step is not ready.
LEMMA Failed ==
    ASSUME KnowledgeInv, NEW j \in JobIDs, FailJob(j), NEW s, s = jobs[j].site,
           status[s].index_status = "indexing"
    PROVE  /\ status' = [status EXCEPT ![s] = status'[s]]
           /\ status'[s] \in SiteStatus
           /\ status'[s].index_status # "ready"
  <1>1. /\ status' = [status EXCEPT ![s] = status'[s]]
        /\ status'[s] \in {status[s], With(s, "error")}
    BY JobFacts, Saved DEF FailJob
  <1>2. /\ With(s, "error") \in SiteStatus /\ With(s, "error").index_status = "error"
        /\ status[s] \in SiteStatus
    BY JobFacts, WithStatus DEF Statuses
  <1> QED BY <1>1, <1>2

\* The files are read and embedded, or the job fails.
LEMMA LoadChunksKeeps ==
    ASSUME KnowledgeInv, NEW j \in JobIDs, LoadChunks(j), UNCHANGED files
    PROVE  KnowledgeInv'
  <1> PICK s : s = jobs[j].site
    OBVIOUS
  <1>1. jobs[j].pc = "load" /\ UNCHANGED <<activeJobs, reloads, files, index, late, mixed>>
    BY DEF LoadChunks
  <1>2. s \in Sites /\ status[s].index_status = "indexing"
    BY <1>1, JobFacts
  <1>3. CASE FailJob(j)
    <2> PICK row, q : row = status'[s] /\ q = [jobs[j] EXCEPT !.pc = "release", !.loaded = {}, !.left = {}]
      OBVIOUS
    <2>1. row \in SiteStatus /\ row.index_status # "ready" /\ status' = [status EXCEPT ![s] = row]
      BY <1>2, <1>3, Failed
    <2>2. jobs' = [jobs EXCEPT ![j] = q]
      BY <1>3 DEF FailJob, EndJob
    <2>3. q \in Job /\ q.site = s /\ q.pc = "release" /\ q.loaded = {} /\ q.left = {}
      BY JobEnded
    <2> QED BY <1>1, <1>2, <2>1, <2>2, <2>3, QuietJobStep
  <1>4. CASE /\ files[s] # NoDir
             /\ jobs' = [jobs EXCEPT ![j].pc = "delete", ![j].loaded = LoadSiteChunks(s),
                                     ![j].left = LoadSiteChunks(s)]
             /\ UNCHANGED status
    <2> PICK row, q : /\ row = status[s]
                      /\ q = [jobs[j] EXCEPT !.pc = "delete", !.loaded = LoadSiteChunks(s),
                                             !.left = LoadSiteChunks(s)]
      OBVIOUS
    <2>1. LoadSiteChunks(s) \subseteq Chunk /\ \A c \in LoadSiteChunks(s) : c.site = s
      BY <1>2, <1>4, LoadedOf DEF KnowledgeInv
    <2>2. /\ q \in Job /\ q.site = s /\ q.pc = "delete"
          /\ q.loaded = LoadSiteChunks(s) /\ q.left = LoadSiteChunks(s)
      BY <2>1, JobRecord DEF Job, Steps
    <2>3. jobs' = [jobs EXCEPT ![j] = q] /\ status' = [status EXCEPT ![s] = row]
      BY <1>2, <1>4 DEF KnowledgeInv, KnowledgeTypes, KnowledgeTypeOK
    <2>4. s \in Sites /\ row \in SiteStatus /\ row.index_status = "indexing"
      BY <1>2, JobFacts
    <2>5. q.left \subseteq q.loaded /\ q.left = q.loaded /\ \A c \in q.loaded : c.site = s
      BY <2>1, <2>2
    <2>6. q \in Job /\ q.site = s /\ q.pc = "delete"
      BY <2>2
    <2>7. jobs[j].pc # "none" /\ jobs[j].site = s /\ row = status[s]
      BY <1>1
    <2>8. ASSUME NEW x \in Job, x.site = s, x.pc = "delete", x.left = x.loaded, \A c \in x.loaded : c.site = s,
                 jobs' = [jobs EXCEPT ![j] = x]
          PROVE  KnowledgeInv'
      BY <1>1, <2>3, <2>4, <2>7, <2>8, QuietJobStep
    <2> QED BY <2>3, <2>5, <2>6, <2>8
  <1>5. PICK vectors \in IF files[s] = NoDir THEN {[ok |-> FALSE, of |-> {}]}
                         ELSE CreateEmbeddings(LoadSiteChunks(s)) :
          \/ /\ vectors.ok
             /\ jobs' = [jobs EXCEPT ![j].pc = "delete", ![j].loaded = vectors.of, ![j].left = vectors.of]
             /\ UNCHANGED status
          \/ FailJob(j)
    <2>1. PICK vectors \in IF files[jobs[j].site] = NoDir THEN {[ok |-> FALSE, of |-> {}]}
                           ELSE CreateEmbeddings(LoadSiteChunks(jobs[j].site)) :
            \E found \in EnsureCollection(vectors.of) :
              IF vectors.ok /\ found
              THEN /\ jobs' = [jobs EXCEPT ![j].pc = "delete", ![j].loaded = vectors.of, ![j].left = vectors.of]
                   /\ UNCHANGED status
              ELSE FailJob(j)
      BY Zenon DEF LoadChunks
    <2>2. \/ /\ vectors.ok
             /\ jobs' = [jobs EXCEPT ![j].pc = "delete", ![j].loaded = vectors.of, ![j].left = vectors.of]
             /\ UNCHANGED status
          \/ FailJob(j)
      BY <2>1, Zenon
    <2>3. vectors \in IF files[s] = NoDir THEN {[ok |-> FALSE, of |-> {}]}
                      ELSE CreateEmbeddings(LoadSiteChunks(s))
      BY <2>1
    <2> QED BY <2>2, <2>3, Zenon
  <1>6. vectors.ok => files[s] # NoDir /\ vectors.of = LoadSiteChunks(s)
    BY <1>5 DEF CreateEmbeddings
  <1> QED BY <1>3, <1>4, <1>5, <1>6

\* A write of a job is about its own site.
OwnWrite(w, s) ==
    \/ w = DeleteOf(s)
    \/ \E b \in SUBSET Chunk : (\A c \in b : c.site = s) /\ w = [op |-> "upsert", points |-> b]

\* What a write of a job does to the points of its site and of the others.
LEMMA WriteOwn ==
    ASSUME KnowledgeInv, NEW s \in Sites, NEW w, OwnWrite(w, s)
    PROVE  /\ w \in Write /\ Applied(w) \subseteq Chunk
           /\ \A t \in Sites \ {s} : {p \in Applied(w) : p.site = t} = SitePoints(t)
  <1>1. index \subseteq Chunk
    BY DEF KnowledgeInv, KnowledgeTypes, KnowledgeTypeOK
  <1>2. CASE w = DeleteOf(s)
    <2>1. w \in Write /\ w.op = "delete" /\ w.site = s
      BY <1>2 DEF DeleteOf, Write
    <2> QED BY <1>1, <2>1 DEF Applied, SitePoints
  <1>3. ASSUME NEW b \in SUBSET Chunk, \A c \in b : c.site = s, w = [op |-> "upsert", points |-> b]
        PROVE  /\ w \in Write /\ Applied(w) \subseteq Chunk
               /\ \A t \in Sites \ {s} : {p \in Applied(w) : p.site = t} = SitePoints(t)
    <2>1. w \in Write /\ w.op = "upsert" /\ w.points = b
      BY <1>3 DEF Write
    <2>2. Applied(w) = index \cup b
      BY <2>1 DEF Applied
    <2> QED BY <1>1, <1>3, <2>1, <2>2 DEF SitePoints
  <1> QED BY <1>2, <1>3 DEF OwnWrite

\* The writes of a job.
LEMMA JobWrites ==
    ASSUME KnowledgeInv, NEW j \in JobIDs, NEW s, s = jobs[j].site
    PROVE  /\ OwnWrite(DeleteOf(s), s)
           /\ OwnWrite([op |-> "upsert", points |-> Batch(jobs[j].left)], s)
  <1>1. /\ Batch(jobs[j].left) \subseteq jobs[j].left /\ jobs[j].left \subseteq Chunk
        /\ jobs[j].left \subseteq jobs[j].loaded
    BY JobRecord, JobFacts
  <1>2. \A c \in jobs[j].loaded : c.site = s
    BY JobFacts
  <1>3. Batch(jobs[j].left) \in SUBSET Chunk /\ \A c \in Batch(jobs[j].left) : c.site = s
    BY <1>1, <1>2
  <1> QED BY <1>3 DEF OwnWrite

\* A write fails: whatever became of it, the site is not called ready.
LEMMA WriteFailsKeeps ==
    ASSUME KnowledgeInv, NEW j \in JobIDs, NEW s, s = jobs[j].site, NEW w, OwnWrite(w, s),
           jobs[j].pc \in {"delete", "upload"}, WriteFails(j, w), UNCHANGED <<activeJobs, reloads, files>>
    PROVE  KnowledgeInv'
  <1>0. PICK row, q : /\ row = status'[s]
                      /\ q = [jobs[j] EXCEPT !.pc = "release", !.loaded = {}, !.left = {}]
    OBVIOUS
  <1>1. s \in Sites /\ status[s].index_status = "indexing"
    BY JobFacts
  <1>2. FailJob(j)
    BY DEF WriteFails
  <1>3. row \in SiteStatus /\ row.index_status # "ready" /\ status' = [status EXCEPT ![s] = row]
    BY <1>0, <1>1, <1>2, Failed
  <1>4. jobs' = [jobs EXCEPT ![j] = q]
    BY <1>0, <1>2 DEF FailJob, EndJob
  <1>5. q \in Job /\ q.site = s /\ q.pc = "release" /\ q.loaded = {} /\ q.left = {}
    BY <1>0, JobEnded
  <1>6. /\ w \in Write /\ Applied(w) \subseteq Chunk
        /\ \A t \in Sites \ {s} : {p \in Applied(w) : p.site = t} = SitePoints(t)
    BY <1>1, WriteOwn
  <1>7. index' \in {index, Applied(w)} /\ late' \in {late, late \cup {w}} /\ mixed' = mixed
    BY DEF WriteFails
  <1>8. index' \subseteq Chunk /\ late' \subseteq Write /\ mixed' \in [Sites -> BOOLEAN]
    BY <1>6, <1>7 DEF KnowledgeInv, KnowledgeTypes, KnowledgeTypeOK
  <1>9. \A t \in Sites \ {s} : mixed'[t] = mixed[t] /\ SitePoints(t)' = SitePoints(t)
    BY <1>6, <1>7 DEF SitePoints
  <1>10. q.pc # "none" /\ q.pc \notin {"start", "load", "delete", "upload", "finish"} /\ jobs[j].pc # "none"
    BY <1>5
  <1> QED BY <1>1, <1>3, <1>4, <1>5, <1>8, <1>9, <1>10, JobStep

\* The site is emptied.
LEMMA DeleteSiteKeeps ==
    ASSUME KnowledgeInv, NEW j \in JobIDs, DeleteSite(j), UNCHANGED files
    PROVE  KnowledgeInv'
  <1>0. PICK s : s = jobs[j].site
    OBVIOUS
  <1>1. jobs[j].pc = "delete" /\ UNCHANGED <<activeJobs, reloads, files>>
    BY DEF DeleteSite
  <1>2. s \in Sites /\ status[s] \in SiteStatus /\ status[s].index_status = "indexing"
    BY <1>0, <1>1, JobFacts
  <1>3. CASE WriteFails(j, DeleteOf(s))
    BY <1>0, <1>1, <1>3, JobWrites, WriteFailsKeeps
  <1>4. CASE /\ index' = Applied(DeleteOf(s))
             /\ mixed' = [mixed EXCEPT ![s] = FALSE]
             /\ Go(j, IF jobs[j].left = {} THEN "finish" ELSE "upload")
             /\ UNCHANGED <<status, late>>
    <2>0. PICK row, q, step : /\ row = status[s]
                              /\ step = IF jobs[j].left = {} THEN "finish" ELSE "upload"
                              /\ q = [jobs[j] EXCEPT !.pc = step]
      OBVIOUS
    <2>1. step \in {"finish", "upload"} /\ step \in Steps /\ (step = "finish" => jobs[j].left = {})
      BY <2>0 DEF Steps
    <2>2. /\ q \in Job /\ q.site = s /\ q.pc = step
          /\ q.loaded = jobs[j].loaded /\ q.left = jobs[j].left
          /\ \A c \in q.loaded : c.site = s
      BY <1>0, <2>0, <2>1, JobAt
    <2>3. jobs' = [jobs EXCEPT ![j] = q] /\ status' = [status EXCEPT ![s] = row]
      BY <1>2, <1>4, <2>0 DEF Go, KnowledgeInv, KnowledgeTypes, KnowledgeTypeOK
    <2>4. /\ Applied(DeleteOf(s)) \subseteq Chunk
          /\ \A t \in Sites \ {s} : {p \in Applied(DeleteOf(s)) : p.site = t} = SitePoints(t)
      BY <1>0, <1>2, JobWrites, WriteOwn
    <2>5. index' \subseteq Chunk /\ late' \subseteq Write /\ mixed' \in [Sites -> BOOLEAN]
      BY <1>4, <2>4 DEF KnowledgeInv, KnowledgeTypes, KnowledgeTypeOK
    <2>6. \A t \in Sites \ {s} : mixed'[t] = mixed[t] /\ SitePoints(t)' = SitePoints(t)
      <3>1. \A t \in Sites \ {s} : mixed'[t] = mixed[t]
        BY <1>4 DEF KnowledgeInv, KnowledgeTypes, KnowledgeTypeOK
      <3> QED BY <1>4, <2>4, <3>1 DEF SitePoints
    <2>7. SitePoints(s)' = {}
      BY <1>4 DEF SitePoints, Applied, DeleteOf
    <2>8. q.left = q.loaded
      BY <1>1, <2>2 DEF KnowledgeInv, JobsLoaded
    <2>9. SitePoints(s)' = q.loaded \ q.left
      BY <2>7, <2>8
    <2>10. /\ q.pc # "none" /\ jobs[j].pc # "none" /\ row \in SiteStatus
           /\ row.index_status = "indexing" /\ row.index_status # "ready"
           /\ q.pc = "finish" => q.left = {}
           /\ q.left \subseteq q.loaded
      BY <1>1, <1>2, <2>0, <2>1, <2>2, <2>8
    <2> QED BY <1>0, <1>1, <1>2, <2>2, <2>3, <2>5, <2>6, <2>8, <2>9, <2>10, JobStep
  <1> QED BY <1>0, <1>3, <1>4 DEF DeleteSite

\* A batch is uploaded.
LEMMA UpsertKeeps ==
    ASSUME KnowledgeInv, NEW j \in JobIDs, Upsert(j), UNCHANGED files
    PROVE  KnowledgeInv'
  <1>0. PICK s, b, w : /\ s = jobs[j].site /\ b = Batch(jobs[j].left)
                       /\ w = [op |-> "upsert", points |-> b]
    OBVIOUS
  <1>1. jobs[j].pc = "upload" /\ UNCHANGED <<activeJobs, reloads, files>>
    BY DEF Upsert
  <1>2. s \in Sites /\ status[s] \in SiteStatus /\ status[s].index_status = "indexing"
    BY <1>0, <1>1, JobFacts
  <1>3. OwnWrite(w, s) /\ b \subseteq jobs[j].left /\ \A c \in b : c.site = s
    <2>1. OwnWrite(w, s)
      BY <1>0, JobWrites
    <2>2. b \subseteq jobs[j].left /\ jobs[j].left \subseteq jobs[j].loaded
      BY <1>0, JobRecord, JobFacts
    <2>3. \A c \in jobs[j].loaded : c.site = s
      BY <1>0, JobFacts
    <2> QED BY <2>1, <2>2, <2>3
  <1>4. CASE WriteFails(j, w)
    BY <1>0, <1>1, <1>3, <1>4, WriteFailsKeeps
  <1>5. CASE /\ index' = Applied(w)
             /\ jobs' = [jobs EXCEPT ![j].left = @ \ b,
                                     ![j].pc = IF jobs[j].left = b THEN "finish" ELSE "upload"]
             /\ UNCHANGED <<status, late, mixed>>
    <2>0. PICK row, q, step : /\ row = status[s]
                              /\ step = IF jobs[j].left = b THEN "finish" ELSE "upload"
                              /\ q = [jobs[j] EXCEPT !.left = @ \ b, !.pc = step]
      OBVIOUS
    <2>1. step \in {"finish", "upload"} /\ step \in Steps /\ (step = "finish" => jobs[j].left = b)
      BY <2>0 DEF Steps
    <2>2. /\ q \in Job /\ q.site = s /\ q.pc = step
          /\ q.loaded = jobs[j].loaded /\ q.left = jobs[j].left \ b
      BY <1>0, <2>0, <2>1, JobRecord DEF Job
    <2>3. jobs' = [jobs EXCEPT ![j] = q] /\ status' = [status EXCEPT ![s] = row]
      BY <1>2, <1>5, <2>0 DEF KnowledgeInv, KnowledgeTypes, KnowledgeTypeOK
    <2>4. /\ Applied(w) \subseteq Chunk
          /\ \A t \in Sites \ {s} : {p \in Applied(w) : p.site = t} = SitePoints(t)
      BY <1>2, <1>3, WriteOwn
    <2>5. index' \subseteq Chunk /\ late' \subseteq Write /\ mixed' \in [Sites -> BOOLEAN]
      BY <1>5, <2>4 DEF KnowledgeInv, KnowledgeTypes, KnowledgeTypeOK
    <2>6. \A t \in Sites \ {s} : mixed'[t] = mixed[t] /\ SitePoints(t)' = SitePoints(t)
      BY <1>5, <2>4 DEF SitePoints
    <2>7. index' = index \cup b
      BY <1>0, <1>5 DEF Applied
    <2>8. q.left \subseteq q.loaded /\ \A c \in q.loaded : c.site = s
      BY <1>0, <2>2, JobFacts
    <2>9. ASSUME ~mixed'[s] PROVE SitePoints(s)' = q.loaded \ q.left
      <3>1. ~mixed[s]
        BY <1>5, <2>9
      <3>2. SitePoints(s) = jobs[j].loaded \ jobs[j].left
        BY <1>0, <1>1, <3>1 DEF KnowledgeInv, JobsUploaded
      <3>3. SitePoints(s)' = SitePoints(s) \cup b
        BY <1>3, <2>7 DEF SitePoints
      <3>4. jobs[j].left \subseteq jobs[j].loaded
        BY JobFacts
      <3> QED BY <1>3, <2>2, <3>2, <3>3, <3>4
    <2>10. /\ q.pc # "none" /\ jobs[j].pc # "none" /\ row \in SiteStatus /\ q.pc # "delete"
           /\ row.index_status = "indexing" /\ row.index_status # "ready"
           /\ q.pc = "finish" => q.left = {}
      BY <1>1, <1>2, <2>0, <2>1, <2>2
    <2> QED BY <1>0, <1>1, <1>2, <2>2, <2>3, <2>5, <2>6, <2>8, <2>9, <2>10, JobStep
  <1> QED BY <1>0, <1>4, <1>5 DEF Upsert

\* The site is called ready, if the file can be saved.
LEMMA FinishJobKeeps ==
    ASSUME KnowledgeInv, NEW j \in JobIDs, FinishJob(j), UNCHANGED files
    PROVE  KnowledgeInv'
  <1>0. PICK s, row, q, done : /\ s = jobs[j].site /\ row = status'[s]
                               /\ q = [jobs[j] EXCEPT !.pc = "release", !.loaded = {}, !.left = {}]
                               /\ done = [index_status |-> "ready", indexed_chunks |-> Cardinality(jobs[j].loaded)]
    OBVIOUS
  <1>1. jobs[j].pc = "finish" /\ UNCHANGED <<activeJobs, reloads, files, index, late, mixed>>
    BY DEF FinishJob
  <1>2. s \in Sites /\ status[s] \in SiteStatus /\ status[s].index_status = "indexing"
    BY <1>0, <1>1, JobFacts
  <1>3. done \in SiteStatus /\ done.indexed_chunks = Cardinality(jobs[j].loaded)
    <2>1. Cardinality(jobs[j].loaded) \in Nat
      BY JobRecord, FS_CardinalityType
    <2> QED BY <1>0, <2>1 DEF SiteStatus, Statuses
  <1>4. row \in {status[s], done} /\ status' = [status EXCEPT ![s] = row]
    BY <1>0, <1>2, Saved DEF FinishJob
  <1>5. jobs' = [jobs EXCEPT ![j] = q]
    BY <1>0 DEF FinishJob, EndJob
  <1>6. q \in Job /\ q.site = s /\ q.pc = "release" /\ q.loaded = {} /\ q.left = {}
    BY <1>0, JobEnded
  <1>7. /\ index' \subseteq Chunk /\ late' \subseteq Write /\ mixed' \in [Sites -> BOOLEAN]
        /\ \A t \in Sites : mixed'[t] = mixed[t] /\ SitePoints(t)' = SitePoints(t)
    BY <1>1, QuietStep
  <1>8. ASSUME row.index_status = "ready", ~mixed'[s]
        PROVE  Cardinality(SitePoints(s)') = row.indexed_chunks
    <2>1. row = done
      BY <1>2, <1>4, <1>8
    <2>2. SitePoints(s) = jobs[j].loaded \ jobs[j].left /\ jobs[j].left = {}
      BY <1>0, <1>1, <1>8 DEF KnowledgeInv, JobsUploaded, JobsLoaded
    <2>3. SitePoints(s)' = jobs[j].loaded
      BY <1>2, <1>7, <2>2
    <2> QED BY <1>3, <2>1, <2>3
  <1>9. q.pc # "none" /\ q.pc \notin {"start", "load", "delete", "upload", "finish"} /\ jobs[j].pc # "none"
    BY <1>1, <1>6
  <1>10. row \in SiteStatus
    BY <1>2, <1>3, <1>4
  <1>11. status' = [status EXCEPT ![s] = row] /\ jobs[j].site = s
    BY <1>0, <1>4
  <1> QED BY <1>1, <1>2, <1>5, <1>6, <1>7, <1>8, <1>9, <1>10, <1>11, JobStep

\* A job ends, and with it its hold on the site.
LEMMA ReleaseKeeps ==
    ASSUME KnowledgeInv, NEW j \in JobIDs, Release(j), UNCHANGED files
    PROVE  KnowledgeInv'
  <1>0. PICK s : s = jobs[j].site
    OBVIOUS
  <1>1. /\ jobs[j].pc = "release" /\ UNCHANGED <<status, index, reloads, late, mixed, files>>
        /\ activeJobs' = [activeJobs EXCEPT ![s] = 0]
        /\ jobs' = [jobs EXCEPT ![j] = Vacant]
    BY <1>0 DEF Release
  <1>2. Vacant \in Job /\ Vacant.pc = "none" /\ Vacant.loaded = {} /\ Vacant.left = {}
    BY VacantJob
  <1>3. s \in Sites
    BY <1>0, JobFacts
  <1>4. KnowledgeTypes'
    <2>1. activeJobs' \in [Sites -> 0 .. MaxReloads]
      BY <1>1, <1>3, KnowledgeAssumption DEF KnowledgeInv, KnowledgeTypes, KnowledgeTypeOK
    <2> QED BY <1>1, <1>2, <2>1 DEF KnowledgeInv, KnowledgeTypes, KnowledgeTypeOK
  <1>5. /\ jobs'[j] = Vacant
        /\ \A k \in JobIDs \ {j} : jobs'[k] = jobs[k]
    BY <1>1 DEF KnowledgeInv, KnowledgeTypes, KnowledgeTypeOK
  <1>6. JobsExclusive'
    <2> SUFFICES ASSUME NEW k \in JobIDs
                 PROVE  /\ jobs'[k].pc # "none" => activeJobs'[jobs'[k].site] = k
                        /\ jobs'[k].pc \in {"start", "load", "delete", "upload", "finish"}
                             => status'[jobs'[k].site].index_status = "indexing"
      BY DEF JobsExclusive
    <2>1. CASE k = j
      BY <2>1, <1>2, <1>5
    <2>2. CASE k # j
      <3>1. jobs'[k] = jobs[k] /\ status' = status
        BY <2>2, <1>1, <1>5
      <3>2. jobs[k].pc # "none" => activeJobs[jobs[k].site] = k /\ activeJobs[s] = j
        BY <1>0, <1>1 DEF KnowledgeInv, JobsExclusive
      <3>3. jobs[k].pc # "none" => activeJobs'[jobs[k].site] = k
        BY <1>1, <2>2, <3>2, JobRecord DEF KnowledgeInv, KnowledgeTypes, KnowledgeTypeOK
      <3> QED BY <3>1, <3>3 DEF KnowledgeInv, JobsExclusive
    <2> QED BY <2>1, <2>2
  <1>7. JobsLoaded'
    <2> SUFFICES ASSUME NEW k \in JobIDs
                 PROVE  /\ jobs'[k].left \subseteq jobs'[k].loaded
                        /\ \A c \in jobs'[k].loaded : c.site = jobs'[k].site
                        /\ jobs'[k].pc = "delete" => jobs'[k].left = jobs'[k].loaded
                        /\ jobs'[k].pc = "finish" => jobs'[k].left = {}
      BY DEF JobsLoaded
    <2>1. CASE k = j
      BY <2>1, <1>2, <1>5
    <2>2. CASE k # j
      BY <2>2, <1>5 DEF KnowledgeInv, JobsLoaded
    <2> QED BY <2>1, <2>2
  <1>8. JobsUploaded'
    BY <1>1, <1>2, <1>5 DEF KnowledgeInv, JobsUploaded, SitePoints
  <1>9. ReadyIndexWhole'
    BY <1>1 DEF KnowledgeInv, ReadyIndexWhole, SitePoints
  <1> QED BY <1>4, <1>6, <1>7, <1>8, <1>9 DEF KnowledgeInv

\* A reload starts: no other job has the site.
LEMMA TriggerReindexKeeps ==
    ASSUME KnowledgeInv, NEW s \in Sites, TriggerReindex(s), UNCHANGED files
    PROVE  KnowledgeInv'
  <1>0. PICK j, q : j = reloads' /\ q = [Vacant EXCEPT !.site = s, !.pc = "trigger"]
    OBVIOUS
  <1>1. /\ UNCHANGED <<status, index, late, mixed, files>> /\ activeJobs[s] = 0
        /\ activeJobs' = [activeJobs EXCEPT ![s] = j]
        /\ jobs' = [jobs EXCEPT ![j] = q]
    BY <1>0 DEF TriggerReindex
  <1>2. j \in JobIDs /\ reloads' \in 0 .. MaxReloads /\ j # 0
    BY <1>0, KnowledgeAssumption DEF TriggerReindex, KnowledgeInv, KnowledgeTypes, JobIDs
  <1>3. q \in Job /\ q.site = s /\ q.pc = "trigger" /\ q.loaded = {} /\ q.left = {}
    BY <1>0, VacantJob DEF Job, Steps
  <1>4. KnowledgeTypes'
    <2>1. activeJobs' \in [Sites -> 0 .. MaxReloads]
      BY <1>1, <1>2, KnowledgeAssumption DEF KnowledgeInv, KnowledgeTypes, KnowledgeTypeOK, JobIDs
    <2> QED BY <1>1, <1>2, <1>3, <2>1 DEF KnowledgeInv, KnowledgeTypes, KnowledgeTypeOK
  <1>5. /\ jobs'[j] = q
        /\ \A k \in JobIDs \ {j} : jobs'[k] = jobs[k]
    BY <1>1, <1>2 DEF KnowledgeInv, KnowledgeTypes, KnowledgeTypeOK
  <1>6. JobsExclusive'
    <2> SUFFICES ASSUME NEW k \in JobIDs
                 PROVE  /\ jobs'[k].pc # "none" => activeJobs'[jobs'[k].site] = k
                        /\ jobs'[k].pc \in {"start", "load", "delete", "upload", "finish"}
                             => status'[jobs'[k].site].index_status = "indexing"
      BY DEF JobsExclusive
    <2>1. CASE k = j
      BY <2>1, <1>1, <1>3, <1>5 DEF KnowledgeInv, KnowledgeTypes, KnowledgeTypeOK
    <2>2. CASE k # j
      <3>1. jobs'[k] = jobs[k] /\ status' = status
        BY <2>2, <1>1, <1>5
      <3>2. jobs[k].pc # "none" => activeJobs[jobs[k].site] = k
        BY DEF KnowledgeInv, JobsExclusive
      <3>3. k # 0
        BY DEF JobIDs
      <3>4. jobs[k].pc # "none" => activeJobs'[jobs[k].site] = k
        BY <1>1, <3>2, <3>3, JobRecord DEF KnowledgeInv, KnowledgeTypes, KnowledgeTypeOK
      <3> QED BY <3>1, <3>4 DEF KnowledgeInv, JobsExclusive
    <2> QED BY <2>1, <2>2
  <1>7. JobsLoaded'
    <2> SUFFICES ASSUME NEW k \in JobIDs
                 PROVE  /\ jobs'[k].left \subseteq jobs'[k].loaded
                        /\ \A c \in jobs'[k].loaded : c.site = jobs'[k].site
                        /\ jobs'[k].pc = "delete" => jobs'[k].left = jobs'[k].loaded
                        /\ jobs'[k].pc = "finish" => jobs'[k].left = {}
      BY DEF JobsLoaded
    <2>1. CASE k = j
      BY <2>1, <1>3, <1>5
    <2>2. CASE k # j
      BY <2>2, <1>5 DEF KnowledgeInv, JobsLoaded
    <2> QED BY <2>1, <2>2
  <1>8. JobsUploaded'
    BY <1>1, <1>3, <1>5 DEF KnowledgeInv, JobsUploaded, SitePoints
  <1>9. ReadyIndexWhole'
    BY <1>1 DEF KnowledgeInv, ReadyIndexWhole, SitePoints
  <1> QED BY <1>4, <1>6, <1>7, <1>8, <1>9 DEF KnowledgeInv

\* A write whose caller is gone marks the sites it touches as mixed.
LEMMA LateWriteKeeps ==
    ASSUME KnowledgeInv, LateWrite, UNCHANGED files
    PROVE  KnowledgeInv'
  <1>1. PICK w \in late :
          /\ index' = Applied(w)
          /\ late' = late \ {w}
          /\ mixed' = [s \in Sites |-> mixed[s] \/ (IF w.op = "delete" THEN s = w.site
                                                    ELSE \E p \in w.points : p.site = s)]
          /\ UNCHANGED <<status, jobs, activeJobs, reloads>>
    BY DEF LateWrite
  <1>2. w \in Write /\ index \subseteq Chunk
    BY DEF KnowledgeInv, KnowledgeTypes, KnowledgeTypeOK
  <1>3. index' \subseteq Chunk
    <2>1. w.op # "delete" => w.points \subseteq Chunk
      BY <1>2 DEF Write
    <2> QED BY <1>1, <1>2, <2>1 DEF Applied
  <1>4. mixed' \in [Sites -> BOOLEAN]
    BY <1>1
  <1>5. ASSUME NEW s \in Sites, ~mixed'[s] PROVE ~mixed[s] /\ SitePoints(s)' = SitePoints(s)
    <2>1. ~mixed[s] /\ ~(IF w.op = "delete" THEN s = w.site ELSE \E p \in w.points : p.site = s)
      BY <1>1, <1>5
    <2>2. index' = IF w.op = "delete" THEN {p \in index : p.site # w.site} ELSE index \cup w.points
      BY <1>1 DEF Applied
    <2> QED BY <2>1, <2>2 DEF SitePoints
  <1>6. KnowledgeTypes'
    BY <1>1, <1>3, <1>4 DEF KnowledgeInv, KnowledgeTypes, KnowledgeTypeOK
  <1>7. JobsExclusive' /\ JobsLoaded'
    BY <1>1 DEF KnowledgeInv, JobsExclusive, JobsLoaded
  <1>8. JobsUploaded'
    <2> SUFFICES ASSUME NEW j \in JobIDs, jobs[j].pc \in {"upload", "finish"}, ~mixed'[jobs[j].site]
                 PROVE  (SitePoints(jobs[j].site))' = jobs[j].loaded \ jobs[j].left
      BY <1>1 DEF JobsUploaded
    <2>0. PICK s : s = jobs[j].site
      OBVIOUS
    <2>1. s \in Sites
      BY <2>0, JobFacts
    <2>2. ~mixed[s] /\ SitePoints(s)' = SitePoints(s)
      BY <1>5, <2>0, <2>1
    <2>3. SitePoints(s) = jobs[j].loaded \ jobs[j].left
      BY <2>0, <2>2 DEF KnowledgeInv, JobsUploaded
    <2>4. jobs'[j].site = s
      BY <1>1, <2>0
    <2> QED BY <2>2, <2>3, <2>4 DEF SitePoints
  <1>9. ReadyIndexWhole'
    <2> SUFFICES ASSUME NEW t \in Sites, status'[t].index_status = "ready", ~mixed'[t]
                 PROVE  Cardinality(SitePoints(t)') = status'[t].indexed_chunks
      BY DEF ReadyIndexWhole
    <2>1. ~mixed[t] /\ SitePoints(t)' = SitePoints(t)
      BY <1>5
    <2> QED BY <1>1, <2>1 DEF KnowledgeInv, ReadyIndexWhole
  <1> QED BY <1>6, <1>7, <1>8, <1>9 DEF KnowledgeInv

\* The documents change: a job that has read them goes on with what it read.
LEMMA EditFilesKeeps ==
    ASSUME KnowledgeInv, NEW s \in Sites, EditFiles(s)
    PROVE  KnowledgeInv'
  <1>1. UNCHANGED <<status, index, jobs, activeJobs, reloads, late, mixed>>
    BY DEF EditFiles, jobVars
  <1>2. files' \in [Sites -> (SUBSET Docs) \cup {NoDir}]
    <2>1. files \in [Sites -> (SUBSET Docs) \cup {NoDir}]
      BY DEF KnowledgeInv, KnowledgeTypes
    <2>2. CASE files' = [files EXCEPT ![s] = NoDir]
      BY <2>1, <2>2
    <2>3. ASSUME NEW d \in Docs,
                 files' = [files EXCEPT ![s] =
                             IF @ = NoDir THEN {d} ELSE IF d \in @ THEN @ \ {d} ELSE @ \cup {d}]
          PROVE  files' \in [Sites -> (SUBSET Docs) \cup {NoDir}]
      <3>0. PICK new : new = IF files[s] = NoDir THEN {d}
                             ELSE IF d \in files[s] THEN files[s] \ {d} ELSE files[s] \cup {d}
        OBVIOUS
      <3>1. files[s] = NoDir \/ files[s] \in SUBSET Docs
        BY <2>1
      <3>2. new \in SUBSET Docs
        BY <3>0, <3>1
      <3>3. files' = [files EXCEPT ![s] = new]
        BY <2>3, <3>0
      <3> QED BY <2>1, <3>2, <3>3
    <2> QED BY <2>2, <2>3 DEF EditFiles
  <1>3. KnowledgeTypes'
    <2>1. \A t \in Sites : files'[t] = NoDir \/ files'[t] \subseteq Docs
      BY <1>2
    <2> QED BY <1>1, <1>2, <2>1 DEF KnowledgeInv, KnowledgeTypes, KnowledgeTypeOK
  <1>4. JobsExclusive' /\ JobsLoaded' /\ JobsUploaded' /\ ReadyIndexWhole'
    BY <1>1 DEF KnowledgeInv, JobsExclusive, JobsLoaded, JobsUploaded, ReadyIndexWhole, SitePoints
  <1> QED BY <1>3, <1>4 DEF KnowledgeInv

\* A crash ends all jobs; what they sent may land later.
LEMMA CrashKeeps ==
    ASSUME KnowledgeInv, Crash
    PROVE  KnowledgeInv'
  <1>1. PICK sent \in SUBSET {j \in JobIDs : jobs[j].pc \in {"delete", "upload"}} :
          late' = late \cup {IF jobs[j].pc = "delete" THEN DeleteOf(jobs[j].site)
                             ELSE [op |-> "upsert", points |-> Batch(jobs[j].left)]
                               : j \in sent}
    BY DEF Crash
  <1>2. /\ jobs' = [j \in JobIDs |-> Vacant]
        /\ activeJobs' = [s \in Sites |-> 0]
        /\ UNCHANGED <<files, status, index, reloads, mixed>>
    BY DEF Crash
  <1>3. \A j \in JobIDs : /\ DeleteOf(jobs[j].site) \in Write
                          /\ [op |-> "upsert", points |-> Batch(jobs[j].left)] \in Write
    <2> SUFFICES ASSUME NEW j \in JobIDs
                 PROVE  /\ DeleteOf(jobs[j].site) \in Write
                        /\ [op |-> "upsert", points |-> Batch(jobs[j].left)] \in Write
      OBVIOUS
    <2>1. jobs[j].site \in Sites /\ Batch(jobs[j].left) \subseteq Chunk
      BY JobRecord
    <2> QED BY <2>1 DEF DeleteOf, Write
  <1>4. late' \subseteq Write
    BY <1>1, <1>3 DEF KnowledgeInv, KnowledgeTypes, KnowledgeTypeOK
  <1>5. KnowledgeTypes'
    <2>1. jobs' \in [JobIDs -> Job] /\ activeJobs' \in [Sites -> 0 .. MaxReloads]
      BY <1>2, VacantJob, KnowledgeAssumption
    <2> QED BY <1>2, <1>4, <2>1 DEF KnowledgeInv, KnowledgeTypes, KnowledgeTypeOK
  <1>6. JobsExclusive' /\ JobsLoaded' /\ JobsUploaded'
    BY <1>2, VacantJob DEF JobsExclusive, JobsLoaded, JobsUploaded
  <1>7. ReadyIndexWhole'
    BY <1>2 DEF KnowledgeInv, ReadyIndexWhole, SitePoints
  <1> QED BY <1>5, <1>6, <1>7 DEF KnowledgeInv

\* Every step of the system keeps the invariant of the index.
LEMMA KnowledgeStep ==
    ASSUME KnowledgeInv, [Next]_vars
    PROVE  KnowledgeInv'
  <1>1. ASSUME NEW j \in JobIDs, RunReindex(j), UNCHANGED files PROVE KnowledgeInv'
    BY <1>1, MarkIndexingKeeps, StartJobKeeps, LoadChunksKeeps, DeleteSiteKeeps, UpsertKeeps,
       FinishJobKeeps, ReleaseKeeps DEF RunReindex
  <1>2. CASE Reload
    BY <1>1, <1>2, TriggerReindexKeeps, LateWriteKeeps DEF Reload
  <1>3. CASE \E s \in Sites : EditFiles(s)
    BY <1>3, EditFilesKeeps
  <1>4. CASE Crash
    BY <1>4, CrashKeeps
  <1>5. CASE UNCHANGED knowledgeVars
    BY <1>5 DEF knowledgeVars, KnowledgeInv, KnowledgeTypes, KnowledgeTypeOK, JobsExclusive, JobsLoaded,
                JobsUploaded, ReadyIndexWhole, SitePoints
  <1>6. [Next]_vars => Reload \/ (\E s \in Sites : EditFiles(s)) \/ Crash \/ UNCHANGED knowledgeVars
    BY DEF Next, vars
  <1> QED BY <1>2, <1>3, <1>4, <1>5, <1>6

\* The index of a site that is called ready is whole, for any number of sites, documents, reloads,
\* failed, lost and late writes and crashes, and any batch size.
THEOREM IndexWhole == Spec => []ReadyIndexWhole
  <1>1. Init => KnowledgeInv
    BY KnowledgeStarts DEF Init
  <1>2. KnowledgeInv /\ [Next]_vars => KnowledgeInv'
    BY KnowledgeStep
  <1>3. KnowledgeInv => ReadyIndexWhole
    BY DEF KnowledgeInv
  <1> QED BY <1>1, <1>2, <1>3, PTL DEF Spec

----------------------------------------------------------------------------
(* The answers. *)

\* Every chunk fits in a prompt.
ChunksFit == \A c \in Chunk : Cardinality(c.lines) <= ContextLines

\* The lines of one chunk: the sum over a set of one.
LEMMA LinesOfOne ==
    ASSUME NEW c \in Chunk
    PROVE  LinesOf({c}) = Cardinality(c.lines)
  <1> DEFINE n == Cardinality(c.lines)
             F(g) == [s \in SUBSET {c} |->
                        IF s = {} THEN 0
                        ELSE Cardinality((CHOOSE x \in s : TRUE).lines) + g[s \ {CHOOSE x \in s : TRUE}]]
             sum == CHOOSE g : g = F(g)
             one == [s \in SUBSET {c} |-> IF s = {} THEN 0 ELSE n]
  <1>1. n \in Nat
    BY FS_CardinalityType, ChunksFinite
  <1>2. LinesOf({c}) = sum[{c}]
    BY DEF LinesOf, MapThenSumSet, MapThenFoldSet
  <1>3. (CHOOSE x \in {c} : TRUE) = c
    OBVIOUS
  <1>4. SUBSET {c} = {{}, {c}}
    OBVIOUS
  <1>5. one = F(one)
    <2>1. \A s \in SUBSET {c} : one[s] = F(one)[s]
      BY <1>1, <1>3, <1>4
    <2> QED BY <2>1
  <1>6. sum = F(sum)
    <2> HIDE DEF F, one
    <2> QED BY <1>5
  <1>7. sum[{}] = 0
    <2>1. F(sum)[{}] = 0
      OBVIOUS
    <2> QED BY <1>6, <2>1
  <1>8. sum[{c}] = n
    <2>1. F(sum)[{c}] = n + sum[{c} \ {c}]
      BY <1>3
    <2>2. {c} \ {c} = {}
      OBVIOUS
    <2> HIDE DEF F, sum, n
    <2>3. F(sum)[{c}] = n
      BY <1>1, <1>7, <2>1, <2>2
    <2> QED BY <1>6, <2>3
  <1> QED BY <1>2, <1>8

\* A prompt made of results is not empty when every chunk fits.
LEMMA ContextOf ==
    ASSUME NEW results, results # {}, NEW context \in BuildContext(results)
    PROVE  /\ context \subseteq results
           /\ results \subseteq Chunk /\ ChunksFit => context # {}
  <1>1. /\ context \subseteq results
        /\ context = results \/ \E c \in results \ context : LinesOf(context \cup {c}) > ContextLines
    BY DEF BuildContext
  <1>2. ASSUME results \subseteq Chunk, ChunksFit, context = {} PROVE FALSE
    <2>1. PICK c \in results : LinesOf(context \cup {c}) > ContextLines
      BY <1>1, <1>2
    <2>2. context \cup {c} = {c}
      BY <1>2
    <2>3. LinesOf({c}) = Cardinality(c.lines) /\ Cardinality(c.lines) <= ContextLines
      BY <1>2, LinesOfOne DEF ChunksFit
    <2>4. Cardinality(c.lines) \in Nat /\ ContextLines \in Nat
      BY <1>2, FS_CardinalityType, ChunksFinite, ReplyContentAssumption
    <2>5. Cardinality(c.lines) > ContextLines
      BY <2>1, <2>2, <2>3
    <2> QED BY <2>3, <2>4, <2>5
  <1> QED BY <1>1, <1>2

\* The chunks of the live files are the site's.
LEMMA LiveOf ==
    ASSUME KnowledgeTypes, NEW s \in Sites
    PROVE  /\ LiveChunks(s) \subseteq Chunk
           /\ \A c \in LiveChunks(s) : c.site = s
  BY LoadedOf DEF LiveChunks

\* The prompt is about the site, and when the results are something it is not empty.
LEMMA PromptOf ==
    ASSUME KnowledgeTypes, NEW s \in Sites, NEW results, results # {},
           \A c \in results : c.site = s,
           NEW prompt \in BuildKnowledgePromptBody(s, results)
    PROVE  /\ \A c \in prompt : c.site = s
           /\ results \subseteq Chunk /\ ChunksFit => prompt # {}
  <1>1. CASE LoadPrimaryDocument(s) # {}
    <2>1. prompt = LoadPrimaryDocument(s)
      BY <1>1 DEF BuildKnowledgePromptBody
    <2>2. \A c \in prompt : c.site = s
      BY <2>1, LiveOf DEF LoadPrimaryDocument
    <2> QED BY <1>1, <2>1, <2>2
  <1>2. CASE LoadPrimaryDocument(s) = {}
    <2>1. prompt \in BuildContext(results)
      BY <1>2 DEF BuildKnowledgePromptBody
    <2>2. prompt \subseteq results /\ (results \subseteq Chunk /\ ChunksFit => prompt # {})
      BY <2>1, ContextOf
    <2> QED BY <2>2
  <1> QED BY <1>1, <1>2

\* A reply without the model quotes results.
LEMMA DirectOf ==
    ASSUME NEW t, NEW results, NEW quotes \in BuildDirectKnowledgeReply(t, results)
    PROVE  quotes \subseteq results
  <1> DEFINE faqs == OfKind("faq", results)
             names == FormatListReply(results)
  <1>1. faqs \subseteq results /\ names \subseteq results
    BY DEF OfKind, FormatListReply
  <1>2. FormatBestFactReply(t, results) \subseteq results
    BY DEF FormatBestFactReply, OfKind
  <1>3. \A q \in FormatNarrativeOverviewReply(t, results) : q \subseteq results
    <2>1. MaxOverviewParts \in Nat \ {0}
      BY DEF MaxOverviewParts
    <2>2. \A q \in Best(OfKind("narrative", results), MaxOverviewParts) : q \subseteq results
      BY <2>1, BestOf DEF OfKind
    <2> QED BY <2>2 DEF FormatNarrativeOverviewReply
  <1>4. \/ quotes \in {{c} : c \in faqs}
        \/ quotes = names
        \/ quotes \in {{c} : c \in FormatBestFactReply(t, results)}
        \/ quotes \in FormatNarrativeOverviewReply(t, results)
    <2>1. CASE faqs # {}
      BY <2>1 DEF BuildDirectKnowledgeReply
    <2>2. CASE faqs = {} /\ IsListSeekingQuestion(t) /\ names # {}
      BY <2>2 DEF BuildDirectKnowledgeReply
    <2>3. CASE faqs = {} /\ ~(IsListSeekingQuestion(t) /\ names # {})
      BY <2>3 DEF BuildDirectKnowledgeReply
    <2> QED BY <2>1, <2>2, <2>3
  <1> HIDE DEF faqs, names
  <1> QED BY <1>1, <1>2, <1>3, <1>4

\* What a reply to question a may be, given results of its site.
LEMMA ReplyOf ==
    ASSUME KnowledgeTypes, NEW a \in Asks, NEW results, \A c \in results : c.site = a.site, NEW hits,
           NEW r \in RepliesTo(a, results, hits)
    PROVE  /\ r.site = a.site /\ r.hits = hits
           /\ \A c \in r.quotes : c.site = r.site
           /\ r.kind \in {"direct", "model"} => r.quotes # {}
           /\ results # {} /\ results \subseteq Chunk /\ ChunksFit /\ r.kind = "unknown" => r.asked
  <1> DEFINE direct == BuildDirectKnowledgeReply(a.question, results)
             nothing == [kind |-> "unknown", quotes |-> {}, asked |-> FALSE]
             Sound(t) == /\ \A c \in t.quotes : c.site = a.site
                         /\ t.kind \in {"direct", "model"} => t.quotes # {}
                         /\ results # {} /\ results \subseteq Chunk /\ ChunksFit /\ t.kind = "unknown" => t.asked
  <1>1. a.site \in Sites
    BY ReplyContentAssumption
  <1>2. PICK t : /\ r = [kind |-> t.kind, quotes |-> t.quotes, asked |-> t.asked, site |-> a.site, hits |-> hits]
                 /\ \/ results = {} /\ t = nothing
                    \/ results # {} /\ \E q \in direct \ {{}} : t = [kind |-> "direct", quotes |-> q, asked |-> FALSE]
                    \/ results # {} /\ t \in GenerateReply(a.site, results)
    BY DEF RepliesTo
  <1>3. ASSUME results = {}, t = nothing PROVE Sound(t)
    BY <1>3
  <1>4. ASSUME NEW q \in direct \ {{}}, t = [kind |-> "direct", quotes |-> q, asked |-> FALSE]
        PROVE  Sound(t)
    <2>1. q \subseteq results
      BY DirectOf
    <2> QED BY <1>4, <2>1
  <1>5. ASSUME results # {}, t \in GenerateReply(a.site, results) PROVE Sound(t)
    <2>1. PICK prompt \in BuildKnowledgePromptBody(a.site, results) :
            t \in IF prompt = {} THEN {nothing}
                  ELSE {[kind |-> SanitizeModelReply(answer), asked |-> TRUE,
                         quotes |-> IF answer = "text" THEN prompt ELSE {}] : answer \in ChatCompletion}
      BY <1>5 DEF GenerateReply
    <2>2. /\ \A c \in prompt : c.site = a.site
          /\ results \subseteq Chunk /\ ChunksFit => prompt # {}
      BY <1>1, <1>5, <2>1, PromptOf
    <2>3. CASE prompt = {}
      BY <2>1, <2>2, <2>3
    <2>4. CASE prompt # {}
      <3>1. PICK answer \in ChatCompletion :
              t = [kind |-> SanitizeModelReply(answer), asked |-> TRUE,
                   quotes |-> IF answer = "text" THEN prompt ELSE {}]
        BY <2>1, <2>4
      <3>2. CASE answer = "text"
        BY <2>2, <2>4, <3>1, <3>2 DEF SanitizeModelReply
      <3>3. CASE answer # "text"
        BY <3>1, <3>3 DEF SanitizeModelReply
      <3> QED BY <3>2, <3>3
    <2> QED BY <2>3, <2>4
  <1>6. Sound(t)
    BY <1>2, <1>3, <1>4, <1>5
  <1> QED BY <1>2, <1>6

\* What the search selects is among the candidates.
LEMMA SelectedOf ==
    ASSUME NEW q, NEW candidates, NEW chosen \in SelectAuthoritativeCandidates(q, candidates)
    PROVE  chosen \subseteq candidates
  BY DEF SelectAuthoritativeCandidates

\* The keyword candidates are chunks of the site.
LEMMA KeywordsOf ==
    ASSUME KnowledgeTypes, NEW s \in Sites, NEW q, NEW keyword \in KeywordSearchCandidates(s, q)
    PROVE  keyword \subseteq Chunk /\ \A c \in keyword : c.site = s
  <1>1. 2 * CandidateK \in Nat \ {0}
    BY ReplyContentAssumption
  <1>2. keyword \subseteq {c \in LiveChunks(s) : Scores(c, q)}
    BY <1>1, BestOf DEF KeywordSearchCandidates
  <1> QED BY <1>2, LiveOf

\* The reranker's choice is among the candidates, and is something.
LEMMA RerankedOf ==
    ASSUME NEW candidates, candidates \subseteq Chunk, candidates # {}, NEW r \in Reranked(candidates)
    PROVE  r \subseteq candidates /\ r # {}
  <1>1. TopK \in Nat \ {0}
    BY ReplyContentAssumption
  <1>2. PICK scored : scored \subseteq candidates /\ scored # {} /\ r \in Best(scored, TopK)
    BY DEF Reranked, FallbackSearchResults, BuildRerankInputs
  <1>3. IsFiniteSet(scored)
    BY <1>2, FiniteChunks
  <1>4. r \subseteq scored /\ r # {}
    BY <1>1, <1>2, <1>3, BestOf
  <1> QED BY <1>2, <1>4

\* The search and its answer.
AnswerInv == SearchTrue /\ ReplyGrounded /\ AnswersFromFiles

\* No question, no answer.
LEMMA NothingSaid ==
    /\ NoReply.quotes = {} /\ NoReply.kind = "none"
    /\ NoSearch.pc = "idle" /\ NoSearch.keyword = {} /\ NoSearch.vector = {}
    /\ NoSearch = [pc |-> NoSearch.pc, ask |-> NoSearch.ask, recalled |-> NoSearch.recalled,
                   query |-> NoSearch.query, keyword |-> NoSearch.keyword, vector |-> NoSearch.vector]
  BY DEF NoReply, NoSearch

\* An answer of the search of a site is sound.
LEMMA AnswerSound ==
    ASSUME KnowledgeTypes, NEW a \in Asks, NEW results, \A c \in results : c.site = a.site,
           NEW hits, results \subseteq Chunk, hits => results # {},
           reply' \in RepliesTo(a, results, hits)
    PROVE  ReplyGrounded' /\ AnswersFromFiles'
  <1>0. PICK r \in RepliesTo(a, results, hits) : r = reply'
    OBVIOUS
  <1>1. /\ r.site = a.site /\ r.hits = hits
        /\ \A c \in r.quotes : c.site = r.site
        /\ r.kind \in {"direct", "model"} => r.quotes # {}
        /\ results # {} /\ results \subseteq Chunk /\ ChunksFit /\ r.kind = "unknown" => r.asked
    BY ReplyOf
  <1>2. ReplyGrounded'
    BY <1>0, <1>1 DEF ReplyGrounded
  <1>3. AnswersFromFiles'
    BY <1>0, <1>1 DEF AnswersFromFiles, ChunksFit
  <1> QED BY <1>2, <1>3

\* Small talk quotes nothing.
LEMMA SmallTalkKeeps ==
    ASSUME AnswerInv, NEW a \in Asks, AskSmallTalk(a)
    PROVE  AnswerInv'
  <1>1. reply' = [NoReply EXCEPT !.kind = "smalltalk", !.site = a.site] /\ search' = search
    BY DEF AskSmallTalk
  <1>2. reply'.quotes = {} /\ reply'.kind = "smalltalk"
    BY <1>1 DEF NoReply
  <1> QED BY <1>1, <1>2 DEF AnswerInv, SearchTrue, ReplyGrounded, AnswersFromFiles

\* A question is answered from the keyword candidates, or searched for in the index.
LEMMA AskKeeps ==
    ASSUME KnowledgeInv, AnswerInv, NEW a \in Asks, Ask(a)
    PROVE  AnswerInv'
  <1>1. PICK query, keyword, direct, recalled :
          /\ keyword \in KeywordSearchCandidates(a.site, query)
          /\ direct \in SelectAuthoritativeCandidates(query, keyword)
          /\ IF direct = {}
             THEN /\ search' = [NoSearch EXCEPT !.pc = "status", !.ask = a, !.recalled = recalled,
                                           !.query = query, !.keyword = keyword]
                  /\ UNCHANGED reply
             ELSE /\ \E r \in FallbackSearchResults(direct) : reply' \in RepliesTo(a, r, TRUE)
                  /\ UNCHANGED search
    BY DEF Ask
  <1>2. KnowledgeTypes /\ a.site \in Sites
    BY ReplyContentAssumption DEF KnowledgeInv
  <1>3. keyword \subseteq Chunk /\ \A c \in keyword : c.site = a.site
    BY <1>1, <1>2, KeywordsOf
  <1>4. CASE direct = {}
    <2>1. /\ UNCHANGED reply
          /\ search' = [NoSearch EXCEPT !.pc = "status", !.ask = a, !.recalled = recalled,
                                   !.query = query, !.keyword = keyword]
      BY <1>1, <1>4
    <2>2. search' = [pc |-> "status", ask |-> a, recalled |-> recalled, query |-> query,
                     keyword |-> keyword, vector |-> {}]
      BY <2>1 DEF NoSearch
    <2>3. SearchTrue'
      BY <1>3, <2>2 DEF SearchTrue
    <2> QED BY <2>1, <2>3 DEF AnswerInv, ReplyGrounded, AnswersFromFiles
  <1>5. CASE direct # {}
    <2>1. UNCHANGED search /\ \E r \in FallbackSearchResults(direct) : reply' \in RepliesTo(a, r, TRUE)
      BY <1>1, <1>5
    <2>2. PICK r \in FallbackSearchResults(direct) : reply' \in RepliesTo(a, r, TRUE)
      BY <2>1
    <2>3. direct \subseteq keyword
      BY <1>1, SelectedOf
    <2>4. IsFiniteSet(direct)
      BY <1>3, <2>3, FiniteChunks
    <2>5. r \subseteq direct /\ r # {}
      BY <1>5, <2>2, <2>4, BestOf, ReplyContentAssumption DEF FallbackSearchResults
    <2>6. r \subseteq Chunk /\ \A c \in r : c.site = a.site
      BY <1>3, <2>3, <2>5
    <2>7. ReplyGrounded' /\ AnswersFromFiles'
      BY <1>2, <2>2, <2>5, <2>6, AnswerSound
    <2>8. SearchTrue'
      BY <2>1 DEF AnswerInv, SearchTrue
    <2> QED BY <2>7, <2>8 DEF AnswerInv
  <1> QED BY <1>4, <1>5

\* The status is read, then perhaps the index.
LEMMA SearchKeeps ==
    ASSUME KnowledgeInv, AnswerInv, SearchReadsStatus \/ SemanticSearch
    PROVE  AnswerInv'
  <1>0. SearchTrue
    BY DEF AnswerInv
  <1>1. CASE SearchReadsStatus
    <2>1. PICK step : search' = [search EXCEPT !.pc = step] /\ UNCHANGED reply /\ search.pc # "idle"
      BY <1>1 DEF SearchReadsStatus
    <2>2. search' = [pc |-> step, ask |-> search.ask, recalled |-> search.recalled,
                     query |-> search.query, keyword |-> search.keyword, vector |-> search.vector]
      BY <1>0, <2>1 DEF SearchTrue
    <2>3. SearchTrue'
      BY <1>0, <2>1, <2>2 DEF SearchTrue
    <2> QED BY <2>1, <2>3 DEF AnswerInv, ReplyGrounded, AnswersFromFiles
  <1>2. CASE SemanticSearch
    <2>1. PICK found \in SemanticResults(search.ask.site) :
            search' = [search EXCEPT !.pc = "merge", !.vector = found]
      BY <1>2 DEF SemanticSearch
    <2>2. UNCHANGED reply /\ search.pc # "idle"
      BY <1>2 DEF SemanticSearch
    <2>3. search' = [pc |-> "merge", ask |-> search.ask, recalled |-> search.recalled,
                     query |-> search.query, keyword |-> search.keyword, vector |-> found]
      BY <1>0, <2>1 DEF SearchTrue
    <2>4. found \subseteq SitePoints(search.ask.site)
      BY <2>1, BestOf, ReplyContentAssumption DEF SemanticResults, QdrantSearch
    <2>5. found \subseteq Chunk /\ \A c \in found : c.site = search.ask.site
      BY <2>4 DEF SitePoints, KnowledgeInv, KnowledgeTypes, KnowledgeTypeOK
    <2>6. SearchTrue'
      BY <1>0, <2>2, <2>3, <2>5 DEF SearchTrue
    <2> QED BY <2>2, <2>6 DEF AnswerInv, ReplyGrounded, AnswersFromFiles
  <1> QED BY <1>1, <1>2

\* Candidates of both kinds are merged, reranked and answered with.
LEMMA MergeKeeps ==
    ASSUME KnowledgeInv, AnswerInv, MergeAndRerank
    PROVE  AnswerInv'
  <1>1. PICK candidates \in MergeSearchCandidates(search.vector, search.keyword) :
          IF candidates = {} THEN Answer({}) ELSE \E r \in Reranked(candidates) : Answer(r)
    BY DEF MergeAndRerank
  <1>0. PICK a, found, hits : /\ a = search.ask /\ found = search.vector \cup search.keyword
                              /\ hits = (search.keyword # {})
    OBVIOUS
  <1>2. /\ KnowledgeTypes /\ a \in Asks
        /\ found \subseteq Chunk /\ \A c \in found : c.site = a.site
    BY <1>0 DEF MergeAndRerank, AnswerInv, SearchTrue, KnowledgeInv
  <1>3. IsFiniteSet(found) /\ CandidateK \in Nat \ {0}
    BY <1>2, FiniteChunks, ReplyContentAssumption
  <1>4. candidates \subseteq found /\ (found # {} => candidates # {})
    BY <1>0, <1>1, <1>3, BestOf DEF MergeSearchCandidates
  <1>5. candidates \subseteq Chunk /\ \A c \in candidates : c.site = a.site
    BY <1>2, <1>4
  <1>6. PICK r : Answer(r) /\ r \subseteq candidates /\ (candidates # {} => r # {})
    BY <1>1, <1>5, RerankedOf
  <1>7. search' = NoSearch /\ reply' \in RepliesTo(a, r, hits)
    BY <1>0, <1>6 DEF Answer
  <1>8. r \subseteq Chunk /\ \A c \in r : c.site = a.site
    BY <1>5, <1>6
  <1>9. hits => r # {}
    BY <1>0, <1>4, <1>6
  <1>10. ReplyGrounded' /\ AnswersFromFiles'
    BY <1>2, <1>7, <1>8, <1>9, AnswerSound
  <1>11. SearchTrue'
    BY <1>7, NothingSaid DEF SearchTrue
  <1> QED BY <1>10, <1>11 DEF AnswerInv

\* No step makes an answer unsound.
LEMMA AnswerStep ==
    ASSUME KnowledgeInv, AnswerInv, [Next]_vars
    PROVE  AnswerInv'
  <1>1. CASE UNCHANGED <<search, reply>>
    BY <1>1 DEF AnswerInv, SearchTrue, ReplyGrounded, AnswersFromFiles
  <1>2. CASE reply' = NoReply /\ search' \in {search, NoSearch}
    <2>1. SearchTrue'
      BY <1>2, NothingSaid DEF AnswerInv, SearchTrue
    <2>2. ReplyGrounded' /\ AnswersFromFiles'
      BY <1>2, NothingSaid DEF ReplyGrounded, AnswersFromFiles
    <2> QED BY <2>1, <2>2 DEF AnswerInv
  <1>3. CASE ProcessVisitorMessage
    <2>1. CASE CreateReply
      BY <2>1, <1>2 DEF CreateReply
    <2> QED BY <1>3, <2>1, SmallTalkKeeps, AskKeeps, SearchKeeps, MergeKeeps DEF ProcessVisitorMessage
  <1> QED BY <1>1, <1>2, <1>3 DEF Next, vars

\* An answer is taken from chunks of the asked site, and from some, although sites share the
\* collection and searches race its rebuilding.
THEOREM RepliesGrounded == Spec => []ReplyGrounded
  <1>1. Init => KnowledgeInv /\ AnswerInv
    BY KnowledgeStarts, NothingSaid
       DEF Init, AnswerInv, SearchTrue, ReplyGrounded, AnswersFromFiles
  <1>2. KnowledgeInv /\ AnswerInv /\ [Next]_vars => KnowledgeInv' /\ AnswerInv'
    BY KnowledgeStep, AnswerStep
  <1>3. AnswerInv => ReplyGrounded
    BY DEF AnswerInv
  <1> QED BY <1>1, <1>2, <1>3, PTL DEF Spec

\* When the live files had something about the question, ai-service does not say that it knows
\* nothing without asking the model, whatever fails on the way.
THEOREM FilesSuffice == Spec => []AnswersFromFiles
  <1>1. Init => KnowledgeInv /\ AnswerInv
    BY KnowledgeStarts, NothingSaid
       DEF Init, AnswerInv, SearchTrue, ReplyGrounded, AnswersFromFiles
  <1>2. KnowledgeInv /\ AnswerInv /\ [Next]_vars => KnowledgeInv' /\ AnswerInv'
    BY KnowledgeStep, AnswerStep
  <1>3. AnswerInv => AnswersFromFiles
    BY DEF AnswerInv
  <1> QED BY <1>1, <1>2, <1>3, PTL DEF Spec

----------------------------------------------------------------------------
(* The topic of a follow-up. *)

\* A set of numbers that is not empty has a least member, and if it is bounded a greatest.
LEMMA LeastPlace ==
    ASSUME NEW S, S \subseteq Nat, S # {}
    PROVE  \E m \in S : \A k \in S : m <= k
  <1> DEFINE less == {p \in Nat \X Nat : p[1] < p[2]}
  <1>1. IsWellFoundedOn(less, Nat)
    BY NatLessThanWellFounded DEF OpToRel
  <1>2. PICK m \in S : \A k \in S : ~(<<k, m>> \in less)
    <2> HIDE DEF less
    <2> QED BY <1>1, WFMin
  <1>3. ASSUME NEW k \in S PROVE m <= k
    <2>1. <<k, m>> \in Nat \X Nat /\ <<k, m>>[1] = k /\ <<k, m>>[2] = m
      OBVIOUS
    <2>2. ~(k < m)
      BY <1>2, <2>1
    <2> QED BY <2>2
  <1> QED BY <1>3

\* A non-empty set of positions up to n has a greatest one.
LEMMA GreatestPlace ==
    ASSUME NEW n \in Nat, NEW S, S \subseteq 1 .. n, S # {}
    PROVE  Max(S) \in S
  <1> DEFINE depth == {n - m : m \in S}
  <1>1. depth \subseteq Nat /\ depth # {}
    <2>1. \A m \in S : n - m \in Nat
      OBVIOUS
    <2>2. \E m \in S : n - m \in depth
      OBVIOUS
    <2> QED BY <2>1, <2>2
  <1>2. PICK d \in depth : \A e \in depth : d <= e
    <2> HIDE DEF depth
    <2> QED BY <1>1, LeastPlace
  <1>3. PICK m \in S : d = n - m
    BY <1>2
  <1>4. ASSUME NEW k \in S PROVE m >= k
    <2>1. n - m <= n - k
      BY <1>2, <1>3
    <2> QED BY <2>1
  <1> QED BY <1>4 DEF Max

\* A question that only leans leans, and has no topic of its own.
LEMMA LeaningNamesNothing ==
    ASSUME NEW q, OnlyLeans(q)
    PROVE  IsContextual(q) /\ ExtractConversationTopic(q) = {}
  <1> DEFINE leaning == {"this", "how"} \cup FieldWords
             opened == q \ {"intro", "this"}
             rest == IF "?" \in q THEN opened \ {"?"}
                     ELSE IF "ask" \in q THEN opened \ {"ask"} ELSE opened \ ({"how"} \cup FieldWords)
  <1>1. IsContextual(q)
    BY DEF OnlyLeans, IsContextual
  <1>2. LooksGenericTopic(rest) \/ LooksLikeQuestion(rest)
    <2>1. CASE {"ask", "?"} \subseteq q
      <3>1. "ask" \in rest
        BY <2>1
      <3> QED BY <3>1 DEF LooksLikeQuestion
    <2>2. CASE ~({"ask", "?"} \subseteq q)
      <3>1. q \subseteq leaning
        BY <2>2 DEF OnlyLeans
      <3>2. "?" \notin q /\ "ask" \notin q
        BY <3>1 DEF FieldWords, Concepts
      <3>3. rest = {}
        BY <3>1, <3>2
      <3> QED BY <3>3 DEF LooksGenericTopic
    <2> QED BY <2>1, <2>2
  <1> QED BY <1>1, <1>2 DEF ExtractConversationTopic

\* The query of a follow-up that names no subject, when the visitor named one before.
LEMMA QueryTakesTopic ==
    ASSUME NEW a \in Asks, OnlyLeans(a.question),
           NEW place \in 2 .. Len(a.recent), a.recent[place].sender = "visitor",
           ~MatchSmallTalkReply(a.recent[place].text), ExtractConversationTopic(a.recent[place].text) # {}
    PROVE  \E i \in 2 .. Len(a.recent) :
             /\ a.recent[i].sender = "visitor" /\ ~MatchSmallTalkReply(a.recent[i].text)
             /\ ExtractConversationTopic(a.recent[i].text) # {}
             /\ ExtractConversationTopic(a.recent[i].text)
                  \subseteq BuildSearchQuery(a.question,
                              BuildConversationState(a.question, a.recent, a.recent[1].id))
  <1> DEFINE recent == a.recent
             current == recent[1].id
             state == BuildConversationState(a.question, recent, current)
             said == {i \in DOMAIN recent :
                        FormatStateContextLine(recent[i], current) /\ recent[i].sender = "visitor"}
             named == {i \in said : ExtractConversationTopic(recent[i].text) # {}}
             counting == {i \in DOMAIN recent : FormatStateContextLine(recent[i], current)}
  <1>14. IsContextual(a.question) /\ ExtractConversationTopic(a.question) = {}
    BY LeaningNamesNothing
  <1>1. /\ recent \in Seq(Message) /\ Len(recent) \in Nat /\ DOMAIN recent = 1 .. Len(recent)
        /\ \A i \in 2 .. Len(recent) : recent[i].id # current
    BY ReplyContentAssumption
  <1>2. FormatStateContextLine(recent[place], current)
    <2>1. recent[place].id # current /\ MapSenderType(recent[place].sender)
      BY <1>1 DEF MapSenderType
    <2>2. CompactQuery(recent[place].text) # {}
      <3> DEFINE text == recent[place].text
                 kept == IF "?" \in text THEN (text \ {"intro", "this"}) \ {"?"}
                         ELSE IF "ask" \in text THEN (text \ {"intro", "this"}) \ {"ask"}
                         ELSE (text \ {"intro", "this"}) \ ({"how"} \cup FieldWords)
      <3>1. ExtractConversationTopic(text) \in {{}, kept}
        BY DEF ExtractConversationTopic
      <3>2. kept \subseteq CompactQuery(text)
        BY DEF CompactQuery
      <3> QED BY <3>1, <3>2
    <2> QED BY <2>1, <2>2 DEF FormatStateContextLine, IsLowSignalContext
  <1>3. place \in DOMAIN recent
    BY <1>1
  <1>4. place \in named /\ place \in counting
    BY <1>2, <1>3
  <1>5. named \subseteq 1 .. Len(recent) /\ counting \subseteq Nat
    BY <1>1
  <1>6. Max(named) \in named
    <2> HIDE DEF named, recent
    <2> QED BY <1>1, <1>4, <1>5, GreatestPlace
  <1>0. PICK oldest \in named : oldest = Max(named)
    BY <1>6
  <1>7. state.topic = ExtractConversationTopic(recent[oldest].text) /\ state.topic # {}
    BY <1>0, <1>4, <1>14 DEF BuildConversationState
  <1>8. /\ oldest \in 1 .. Len(recent) /\ recent[oldest].id # current /\ recent[oldest].sender = "visitor"
        /\ ~MatchSmallTalkReply(recent[oldest].text)
    BY <1>0, <1>1 DEF FormatStateContextLine
  <1>9. oldest \in 2 .. Len(recent)
    BY <1>1, <1>8
  <1>10. state.lines # {}
    <2>1. PICK newest \in counting : \A k \in counting : newest <= k
      <3> HIDE DEF counting
      <3> QED BY <1>4, <1>5, LeastPlace
    <2>2. {k \in counting : k < newest} = {}
      BY <1>5, <2>1
    <2>3. Cardinality({k \in counting : k < newest}) < MaxContext
      <3>1. Cardinality({k \in counting : k < newest}) = 0
        BY <2>2, FS_EmptySet
      <3> HIDE DEF counting
      <3> QED BY <3>1, TextsAssumption
    <2> DEFINE places == {j \in counting : Cardinality({k \in counting : k < j}) < MaxContext}
    <2>4. CollectRelevantContextLines(recent, current) = {recent[i] : i \in places}
      BY DEF CollectRelevantContextLines
    <2>5. newest \in places
      BY <2>3
    <2>6. recent[newest] \in {recent[i] : i \in places}
      <3> HIDE DEF places
      <3> QED BY <2>5
    <2>7. state.lines = CollectRelevantContextLines(recent, current)
      BY DEF BuildConversationState
    <2> HIDE DEF places, state
    <2> QED BY <2>4, <2>6, <2>7
  <1>11. RewriteBroadSearchQuery(a.question, state) = a.question
    <2> HIDE DEF state
    <2> QED BY <1>14 DEF RewriteBroadSearchQuery
  <1>12. ShouldAugmentSearchQuery(a.question, state)
    BY <1>7, <1>10, <1>14 DEF ShouldAugmentSearchQuery
  <1>13. state.topic \subseteq BuildSearchQuery(a.question, state)
    <2> HIDE DEF state
    <2> QED BY <1>11, <1>12 DEF BuildSearchQuery
  <1> QED BY <1>7, <1>8, <1>9, <1>13

\* What FollowUpKeepsTopic says of one question, its query and whether the messages could be read.
TopicKept(a, recalled, query) ==
    LET before == {a.recent[i] : i \in 2 .. Len(a.recent)}
        named == {ExtractConversationTopic(m.text) :
                    m \in {n \in before : n.sender = "visitor" /\ ~MatchSmallTalkReply(n.text)}}
    IN OnlyLeans(a.question)
         => \/ ~recalled
            \/ named \subseteq {{}}
            \/ \E topic \in named \ {{}} : topic \subseteq query

\* The query made of a question and what was read of the messages before it keeps the topic.
LEMMA QueryKeepsTopic ==
    ASSUME NEW a \in Asks, NEW recent \in LoadRecentConversationMessages(a)
    PROVE  TopicKept(a, recent # <<>>,
                     BuildSearchQuery(a.question, BuildConversationState(a.question, recent, a.recent[1].id)))
  <1> DEFINE before == {a.recent[i] : i \in 2 .. Len(a.recent)}
             visitors == {n \in before : n.sender = "visitor" /\ ~MatchSmallTalkReply(n.text)}
             named == {ExtractConversationTopic(m.text) : m \in visitors}
             query == BuildSearchQuery(a.question, BuildConversationState(a.question, a.recent, a.recent[1].id))
  <1>1. CASE recent = <<>>
    BY <1>1 DEF TopicKept
  <1>2. CASE recent = a.recent
    <2>1. ASSUME OnlyLeans(a.question), ~(named \subseteq {{}})
          PROVE  \E topic \in named \ {{}} : topic \subseteq query
      <3>1. PICK place \in 2 .. Len(a.recent) :
              /\ a.recent[place].sender = "visitor" /\ ~MatchSmallTalkReply(a.recent[place].text)
              /\ ExtractConversationTopic(a.recent[place].text) # {}
        BY <2>1
      <3>2. PICK i \in 2 .. Len(a.recent) :
              /\ a.recent[i].sender = "visitor" /\ ~MatchSmallTalkReply(a.recent[i].text)
              /\ ExtractConversationTopic(a.recent[i].text) # {}
              /\ ExtractConversationTopic(a.recent[i].text) \subseteq query
        <4> HIDE DEF named
        <4> QED BY <2>1, <3>1, QueryTakesTopic
      <3>3. a.recent[i] \in visitors
        BY <3>2
      <3>4. ExtractConversationTopic(a.recent[i].text) \in named
        <4> HIDE DEF visitors
        <4> QED BY <3>3
      <3> HIDE DEF named, query
      <3> QED BY <3>2, <3>4
    <2> HIDE DEF query
    <2>2. TopicKept(a, recent # <<>>, query)
      BY <2>1 DEF TopicKept
    <2> QED BY <1>2, <2>2 DEF query
  <1> QED BY <1>1, <1>2 DEF LoadRecentConversationMessages

\* A running search keeps the question, what was read and the query.
LEMMA TopicStep ==
    ASSUME SearchTrue, FollowUpKeepsTopic, [Next]_vars
    PROVE  FollowUpKeepsTopic'
  <1>0. FollowUpKeepsTopic <=> (search.pc # "idle" => TopicKept(search.ask, search.recalled, search.query))
    BY DEF FollowUpKeepsTopic, TopicKept
  <1>1. \/ search' = search
        \/ search' = NoSearch
        \/ search.pc # "idle" /\ \E step : search' = [search EXCEPT !.pc = step]
        \/ search.pc # "idle" /\ \E found : search' = [search EXCEPT !.pc = "merge", !.vector = found]
        \/ \E a \in Asks : Ask(a)
    BY DEF Next, vars, ProcessVisitorMessage, AskSmallTalk, SearchReadsStatus, SemanticSearch, MergeAndRerank,
           Answer, CreateReply
  <1>2. CASE search' = search
    BY <1>2 DEF FollowUpKeepsTopic
  <1>3. CASE search' = NoSearch
    BY <1>3, NothingSaid DEF FollowUpKeepsTopic
  <1>4. ASSUME search'.ask = search.ask, search'.recalled = search.recalled, search'.query = search.query,
               search.pc # "idle"
        PROVE  FollowUpKeepsTopic'
    <2>1. TopicKept(search'.ask, search'.recalled, search'.query)
      BY <1>0, <1>4
    <2> QED BY <2>1 DEF FollowUpKeepsTopic, TopicKept
  <1>5. ASSUME search.pc # "idle", NEW step, search' = [search EXCEPT !.pc = step]
        PROVE  FollowUpKeepsTopic'
    <2>1. /\ search'.ask = search.ask /\ search'.recalled = search.recalled /\ search'.query = search.query
      BY <1>5 DEF SearchTrue
    <2> QED BY <1>4, <1>5, <2>1
  <1>6. ASSUME search.pc # "idle", NEW found, search' = [search EXCEPT !.pc = "merge", !.vector = found]
        PROVE  FollowUpKeepsTopic'
    <2>1. /\ search'.ask = search.ask /\ search'.recalled = search.recalled /\ search'.query = search.query
      BY <1>6 DEF SearchTrue
    <2> QED BY <1>4, <1>6, <2>1
  <1>7. ASSUME NEW a \in Asks, Ask(a) PROVE FollowUpKeepsTopic'
    <2>0. PICK recent \in LoadRecentConversationMessages(a) : \E query, keyword :
            /\ query = BuildSearchQuery(a.question, BuildConversationState(a.question, recent, a.recent[1].id))
            /\ \/ search' = [NoSearch EXCEPT !.pc = "status", !.ask = a, !.recalled = recent # <<>>,
                                        !.query = query, !.keyword = keyword]
               \/ search' = search
      BY <1>7 DEF Ask
    <2>1. PICK query, keyword :
            /\ query = BuildSearchQuery(a.question, BuildConversationState(a.question, recent, a.recent[1].id))
            /\ \/ search' = [NoSearch EXCEPT !.pc = "status", !.ask = a, !.recalled = recent # <<>>,
                                        !.query = query, !.keyword = keyword]
               \/ search' = search
      BY <2>0
    <2>2. TopicKept(a, recent # <<>>, query)
      BY <2>1, QueryKeepsTopic
    <2>3. CASE search' = [NoSearch EXCEPT !.pc = "status", !.ask = a, !.recalled = recent # <<>>,
                                     !.query = query, !.keyword = keyword]
      <3>1. search'.ask = a /\ search'.recalled = (recent # <<>>) /\ search'.query = query
        BY <2>3 DEF NoSearch
      <3>2. TopicKept(search'.ask, search'.recalled, search'.query)
        BY <2>2, <3>1
      <3> QED BY <3>2 DEF FollowUpKeepsTopic, TopicKept
    <2> QED BY <1>2, <2>1, <2>3
  <1> QED BY <1>1, <1>2, <1>3, <1>5, <1>6, <1>7

\* A follow-up is searched with a topic the visitor named, whatever was said and in how many
\* messages.
THEOREM TopicsKept == Spec => []FollowUpKeepsTopic
  <1>1. Init => KnowledgeInv /\ AnswerInv /\ FollowUpKeepsTopic
    BY KnowledgeStarts, NothingSaid
       DEF Init, AnswerInv, SearchTrue, ReplyGrounded, AnswersFromFiles, FollowUpKeepsTopic
  <1>2. KnowledgeInv /\ AnswerInv /\ FollowUpKeepsTopic /\ [Next]_vars
          => KnowledgeInv' /\ AnswerInv' /\ FollowUpKeepsTopic'
    BY KnowledgeStep, AnswerStep, TopicStep DEF AnswerInv
  <1> QED BY <1>1, <1>2, PTL DEF Spec
=============================================================================
