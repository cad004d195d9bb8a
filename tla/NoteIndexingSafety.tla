------------------------- MODULE NoteIndexingSafety -------------------------
(* What follows from the inductive invariant: the safety properties of       *)
(* NoteIndexing, that a completed job is final, and that the system          *)
(* implements SemanticIndex; and what holds as long as no two saves of one   *)
(* note overlap, and who waits for whom.                                     *)
EXTENDS NoteIndexingProofs

\* Chunks that carry the version of their note were cut from its present text.
THEOREM ChunksAreCurrent == Spec => []ChunksMatchText
<1>1. ASSUME IndInv PROVE ChunksMatchText
  <2>. SUFFICES ASSUME NEW n \in Notes, chunks[n].version = notes[n].version
                PROVE  chunks[n].text = notes[n].text
    BY DEF ChunksMatchText
  <2>1. CASE chunks[n] = NoChunks
    BY <1>1, <2>1 DEF IndInv, NoteRows, NoChunks
  <2>2. CASE chunks[n] # NoChunks
    BY <1>1, <2>2 DEF IndInv, ChunkRows, JobRows, Matches
  <2>. QED
    BY <2>1, <2>2
<1>. QED
  BY <1>1, Invariance, PTL

\* No job and no chunk outlives its note.
THEOREM NoOrphans == Spec => []NothingLeftBehind
<1>1. ASSUME IndInv PROVE NothingLeftBehind
  BY <1>1 DEF IndInv, JobRows, ChunkRows, NothingLeftBehind
<1>. QED
  BY <1>1, Invariance, PTL

\* A note that exists has a job for its current version.
THEOREM JobForCurrentVersion == Spec => []CurrentVersionHasJob
<1>1. IndInv => CurrentVersionHasJob
  BY DEF IndInv
<1>. QED
  BY <1>1, Invariance, PTL

\* No version of a note has two jobs.
THEOREM NoTwoJobs == Spec => []OneJobPerVersion
<1>1. IndInv => OneJobPerVersion
  BY DEF IndInv
<1>. QED
  BY <1>1, Invariance, PTL

-----------------------------------------------------------------------------
\* A step that leaves the jobs alone, or rewrites or deletes rows that are not
\* completed, or erases the note with its rows, keeps the completed jobs.
KeepsCompleted == \A job \in jobs : job.status = "completed"
                     => job \in jobs' \/ notes'[job.note].version = 0

\* A worker's commit replaces its own job, which is not completed.
LEMMA CommitKeeps ==
    ASSUME IndInv, NEW w \in Workers, pc[w] # "idle", NEW job, Commit(w, job),
           job.id = work[w].job.id
    PROVE  KeepsCompleted
<1>1. \E j \in jobs : j.id = job.id /\ j.status # "completed"
  BY WorkerFacts DEF MayWork
<1>2. \A j \in jobs : j.status = "completed" => j.id # job.id
  BY <1>1 DEF IndInv, JobRows
<1>. QED
  BY <1>2 DEF Commit, Replaced, KeepsCompleted

\* Every step keeps the completed jobs.
LEMMA NextKeeps == IndInv /\ Next => KeepsCompleted
<1>. SUFFICES ASSUME IndInv, Next, jobs' # jobs PROVE KeepsCompleted
  BY DEF KeepsCompleted
<1>1. ASSUME NEW r \in Requests, ClientStarts(r) \/ HandlerStep(r)
      PROVE  KeepsCompleted
  <2>1. CASE \E n \in Notes : CreateNote(r, n)
    BY <2>1 DEF CreateNote, KeepsCompleted
  <2>2. CASE SaveFlush(r)
    BY <2>2 DEF SaveFlush, Tables, KeepsCompleted, IndInv, RequestHolds, MayHold
  <2>3. CASE DeleteCommit(r)
    <3>1. \A j \in jobs : j.id \in held[r] => j.note = req[r].note
      BY <2>3 DEF DeleteCommit, IndInv, RequestHolds, MayHold
    <3>2. req[r].note \in Notes => notes'[req[r].note].version = 0
      BY <2>3 DEF DeleteCommit, Erased, IndInv, TypeOK
    <3>. QED
      BY <2>3, <3>1, <3>2 DEF DeleteCommit, KeepsCompleted, IndInv, RequestHolds,
                              MayHold, Answers
  <2>4. CASE RetryFlush(r)
    BY <2>4 DEF RetryFlush, KeepsCompleted, IndInv, RequestHolds, MayHold
  <2>. QED
    BY <1>1, <2>1, <2>2, <2>3, <2>4
       DEF ClientStarts, HandlerStep, ClientGet, DeleteNote, RetryGet, UpdateGet,
           SaveSelect, SaveScan, SavePurge, CascadeRow, RetrySelectNote,
           RetrySelectJob, RetryReread, Tables
<1>2. ASSUME NEW w \in Workers, WorkerStep(w) PROVE KeepsCompleted
  <2>. DEFINE job == work[w].job
  <2>1. CASE NoteForJob(w)
    BY <2>1, CommitKeeps DEF NoteForJob
  <2>2. CASE EmbedFails(w)
    <3>1. pc[w] = "embedding" /\ Commit(w, FailTransient(job))
      BY <2>2 DEF EmbedFails
    <3>. QED
      BY <3>1, CommitKeeps, WorkerFacts, FailTransientType
  <2>3. CASE Publish(w)
    <3>1. pc[w] = "publishing" /\ (Commit(w, job) \/ Commit(w, Complete(job)))
      BY <2>3 DEF Publish
    <3>. QED
      BY <3>1, CommitKeeps, WorkerFacts, CompleteType
  <2>4. CASE FailFlush(w)
    BY <2>4, CommitKeeps, WorkerFacts, FailTransientType DEF FailFlush
  <2>. QED
    BY <1>2, <2>1, <2>2, <2>3, <2>4 DEF WorkerStep, ClaimNext, EmbedSucceeds, Tables
<1>3. ASSUME NEW p \in Procs, Crash(p) \/ DeadlockVictim(p) PROVE KeepsCompleted
  BY <1>3 DEF Crash, DeadlockVictim, Rollback, Tables
<1>. QED
  BY <1>1, <1>2, <1>3 DEF Next

\* A completed job is never changed, and goes only with its note.
THEOREM CompletedStays == Spec => CompletedIsFinal
<1>1. IndInv /\ [Next]_vars => [KeepsCompleted]_vars
  BY NextKeeps
<1>2. [KeepsCompleted]_vars
        => [\A job \in jobs : job.status = "completed"
              => job \in jobs' \/ notes'[job.note].version = 0]_vars
  BY DEF KeepsCompleted
<1>. QED
  BY <1>1, <1>2, Invariance, PTL DEF Spec, CompletedIsFinal

-----------------------------------------------------------------------------
(* The system implements the abstract index.                                 *)

Text == [n \in Notes |-> notes[n].text]
Found == [n \in Notes |-> Searchable(n)]

\* A step that leaves the notes, the chunks and the text counter alone.
LEMMA Stutters ==
    ASSUME UNCHANGED <<notes, chunks, texts>>
    PROVE  UNCHANGED Abstract!index
BY DEF Abstract!index, Searchable

\* What a step has to show of the one note it changes.
LEMMA OthersKept ==
    ASSUME IndInv, NEW n \in Notes,
           \A m \in Notes : m # n => notes'[m] = notes[m] /\ chunks'[m] = chunks[m]
    PROVE  /\ Text' = [Text EXCEPT ![n] = notes'[n].text]
           /\ Found' = [Found EXCEPT ![n] = Searchable(n)']
BY DEF Text, Found, Searchable

\* A created note is written, and not found yet.
LEMMA CreateWrites ==
    ASSUME IndInv, NEW r \in Requests, NEW n \in Notes, CreateNote(r, n)
    PROVE  Abstract!Write(n)
<1>1. /\ notes'[n].text = texts + 1 /\ notes'[n].status = "pending"
      /\ \A m \in Notes : m # n => notes'[m] = notes[m] /\ chunks'[m] = chunks[m]
      /\ texts' = texts + 1
  BY DEF CreateNote, CreatedNote, IndInv, TypeOK
<1>2. Searchable(n)' = 0
  BY <1>1 DEF Searchable
<1>. QED
  BY <1>1, <1>2, OthersKept DEF Abstract!Write, Text, Found

\* An update is a write: chunks of the new version cannot exist yet.
LEMMA SaveWrites ==
    ASSUME IndInv, NEW r \in Requests, SaveFlush(r), ~UNCHANGED Tables,
           NEW n, n = req[r].note
    PROVE  n \in Notes /\ Abstract!Write(n)
<1>1. /\ n \in Notes /\ req[r].version \in Nat
      /\ \A j \in jobs : j.id \in held[r] => j.status # "completed"
  BY DEF SaveFlush, IndInv, TypeOK, RequestHolds, MayHold, Answers, RequestRecord,
         Versions
<1>2. /\ notes'[n].version = req[r].version + 1 /\ notes'[n].text = texts + 1
      /\ \A m \in Notes : m # n => notes'[m] = notes[m]
      /\ chunks' = chunks /\ texts' = texts + 1 /\ ~VersionTaken(r)
  BY <1>1 DEF SaveFlush, UpdatedNote, IndInv, TypeOK
<1>3. chunks[n].version # req[r].version + 1
  BY <1>1, <1>2 DEF IndInv, ChunkRows, NoChunks, VersionTaken, JobsFor, JobsOf, Ids
<1>4. Searchable(n)' = 0
  BY <1>2, <1>3 DEF Searchable
<1>. QED
  BY <1>1, <1>2, <1>4, OthersKept DEF Abstract!Write, Text, Found

\* A deletion erases the note and what the search finds of it.
LEMMA DeleteErases ==
    ASSUME IndInv, NEW r \in Requests, DeleteCommit(r),
           NEW n, n = req[r].note
    PROVE  n \in Notes /\ Abstract!Erase(n)
<1>1. n \in Notes
  BY DEF DeleteCommit, IndInv, RequestHolds, MayHold, Answers
<1>2. /\ notes'[n] = Erased /\ texts' = texts
      /\ \A m \in Notes : m # n => notes'[m] = notes[m] /\ chunks'[m] = chunks[m]
  BY <1>1 DEF DeleteCommit, IndInv, TypeOK
<1>3. notes'[n].text = 0 /\ Searchable(n)' = 0
  BY <1>2 DEF Erased, Searchable
<1>. QED
  BY <1>1, <1>2, <1>3, OthersKept DEF Abstract!Erase, Text, Found

\* A retry takes the note out of the search.
LEMMA RetryWithdraws ==
    ASSUME IndInv, NEW r \in Requests, RetryFlush(r),
           NEW n, n = req[r].note
    PROVE  n \in Notes /\ Abstract!Withdraw(n)
<1>1. n \in Notes
  BY DEF RetryFlush, IndInv, RequestHolds, MayHold, Answers
<1>2. /\ notes'[n].text = notes[n].text /\ notes'[n].status = "pending"
      /\ \A m \in Notes : m # n => notes'[m] = notes[m]
      /\ chunks' = chunks /\ texts' = texts
  BY <1>1 DEF RetryFlush, IndInv, TypeOK, Note
<1>3. Text' = Text /\ Searchable(n)' = 0
  BY <1>1, <1>2 DEF Text, Searchable
<1>. QED
  BY <1>1, <1>2, <1>3, OthersKept DEF Abstract!Withdraw, Text, Found

\* A worker that publishes makes the present text searchable.
LEMMA PublishFinds ==
    ASSUME IndInv, NEW w \in Workers, Publish(w), ~UNCHANGED <<notes, chunks>>,
           NEW n, n = work[w].job.note
    PROVE  n \in Notes /\ Abstract!Publish(n)
<1>. DEFINE job == work[w].job
<1>1. /\ pc[w] = "publishing" /\ Matches(job)
      /\ chunks' = [chunks EXCEPT ![n] =
                        [version |-> job.version, text |-> work[w].text]]
      /\ notes' = [notes EXCEPT ![n].status = "ready"]
      /\ texts' = texts
  BY DEF Publish
<1>2. /\ job \in Job /\ n \in Notes /\ work[w].text = job.id
      /\ \E j \in jobs : j.id = job.id /\ j.note = n /\ j.version = job.version
  BY <1>1, WorkerFacts DEF MayWork, Job
<1>3. notes[n].text = work[w].text /\ work[w].text # 0
  <2>1. notes[n].version = job.version
    BY <1>1 DEF Matches
  <2>. HIDE DEF job
  <2>. QED
    BY <1>2, <2>1 DEF Matches, IndInv, JobRows
<1>4. /\ notes'[n].text = notes[n].text /\ notes'[n].status = "ready"
      /\ notes'[n].version = notes[n].version
      /\ chunks'[n].version = job.version /\ chunks'[n].text = work[w].text
      /\ \A m \in Notes : m # n => notes'[m] = notes[m] /\ chunks'[m] = chunks[m]
  <2>1. /\ DOMAIN notes = Notes /\ DOMAIN chunks = Notes /\ notes[n] \in Note
    BY <1>2 DEF IndInv, TypeOK
  <2>2. notes' = [notes EXCEPT ![n].status = "ready"]
        /\ chunks' = [chunks EXCEPT ![n] = [version |-> job.version, text |-> work[w].text]]
    BY <1>1
  <2>. HIDE DEF job
  <2>. QED
    BY <1>2, <2>1, <2>2 DEF Note
<1>5. Text' = Text /\ Searchable(n)' = Text[n] /\ Text[n] # 0
  <2>1. notes'[n].version = job.version
    BY <1>1, <1>4 DEF Matches
  <2>. HIDE DEF job
  <2>2. \A m \in Notes : notes'[m].text = notes[m].text
    BY <1>4
  <2>3. Searchable(n)' = work[w].text
    BY <1>4, <2>1 DEF Searchable
  <2>4. Text' = Text
    BY <2>2 DEF Text
  <2>5. Text[n] = work[w].text
    BY <1>2, <1>3 DEF Text
  <2>. QED
    BY <1>3, <2>3, <2>4, <2>5
<1>6. Found' = [Found EXCEPT ![n] = Searchable(n)']
  BY <1>2, <1>4, OthersKept
<1>. QED
  BY <1>1, <1>2, <1>5, <1>6 DEF Abstract!Publish, Text, Found

\* A job that is given up takes its note out of the search, or keeps it out.
LEMMA FailWithdraws ==
    ASSUME IndInv, NEW w \in Workers, FailFlush(w), ~UNCHANGED Abstract!index,
           NEW n, n = work[w].job.note
    PROVE  n \in Notes /\ Abstract!Withdraw(n)
<1>1. n \in Notes
  BY WorkerFacts DEF FailFlush, Job
<1>2. notes' = [notes EXCEPT ![n].status = OrmSet(@, work[w].loaded, "failed")]
      /\ chunks' = chunks /\ texts' = texts
  BY DEF FailFlush
<1>3. notes'[n].status \in {notes[n].status, "failed"}
      /\ notes'[n].text = notes[n].text
      /\ notes'[n].version = notes[n].version
      /\ \A m \in Notes : m # n => notes'[m] = notes[m]
  BY <1>1, <1>2 DEF OrmSet, IndInv, TypeOK, Note
<1>4. Text' = Text
  BY <1>1, <1>3 DEF Text
<1>5. Searchable(n)' # Searchable(n)
  <2>. SUFFICES ASSUME Searchable(n)' = Searchable(n) PROVE UNCHANGED Abstract!index
    OBVIOUS
  <2>1. \A m \in Notes : Searchable(m)' = Searchable(m)
    BY <1>2, <1>3 DEF Searchable
  <2>2. Found' = Found
    BY <2>1 DEF Found
  <2>. QED
    BY <1>2, <1>4, <2>2 DEF Abstract!index, Text, Found
<1>6. Searchable(n)' = 0
  BY <1>2, <1>3, <1>5 DEF Searchable
<1>. QED
  BY <1>1, <1>2, <1>3, <1>4, <1>6, OthersKept DEF Abstract!Withdraw, Text, Found

\* Every step is a step of the abstract index, or leaves it as it is.
LEMMA StepSimulation == IndInv /\ [Next]_vars => [Abstract!Next]_Abstract!index
<1>. SUFFICES ASSUME IndInv, [Next]_vars, ~UNCHANGED Abstract!index
              PROVE  Abstract!Next
  OBVIOUS
<1>0. ~UNCHANGED <<notes, chunks, texts>>
  BY Stutters
<1>1. ASSUME NEW r \in Requests, ClientStarts(r) \/ HandlerStep(r)
      PROVE  Abstract!Next
  <2>. PICK n : n = req[r].note
    OBVIOUS
  <2>1. CASE \E m \in Notes : CreateNote(r, m)
    BY <2>1, CreateWrites DEF Abstract!Next
  <2>2. CASE SaveFlush(r)
    BY <1>0, <2>2, SaveWrites DEF Abstract!Next, Tables
  <2>3. CASE DeleteCommit(r)
    BY <2>3, DeleteErases DEF Abstract!Next
  <2>4. CASE RetryFlush(r)
    BY <2>4, RetryWithdraws DEF Abstract!Next
  <2>. QED
    BY <1>0, <1>1, <2>1, <2>2, <2>3, <2>4
       DEF ClientStarts, HandlerStep, ClientGet, DeleteNote, RetryGet, UpdateGet,
           SaveSelect, SaveScan, SavePurge, CascadeRow, RetrySelectNote,
           RetrySelectJob, RetryReread, Tables
<1>2. ASSUME NEW w \in Workers, WorkerStep(w) PROVE Abstract!Next
  <2>. PICK n : n = work[w].job.note
    OBVIOUS
  <2>1. CASE Publish(w)
    <3>1. ~UNCHANGED <<notes, chunks>>
      BY <1>0, <2>1 DEF Publish
    <3>. QED
      BY <2>1, <3>1, PublishFinds DEF Abstract!Next
  <2>2. CASE FailFlush(w)
    BY <2>2, FailWithdraws DEF Abstract!Next
  <2>. QED
    BY <1>0, <1>2, <2>1, <2>2
       DEF WorkerStep, ClaimNext, NoteForJob, EmbedSucceeds, EmbedFails, Tables
<1>3. ~\E p \in Procs : Crash(p) \/ DeadlockVictim(p)
  BY <1>0 DEF Crash, DeadlockVictim, Rollback, Tables
<1>4. ~UNCHANGED vars
  BY <1>0 DEF vars
<1>. QED
  BY <1>1, <1>2, <1>3, <1>4 DEF Next

\* The system starts with the empty abstract index.
LEMMA InitSimulation == Init => Abstract!Init
BY DEF Init, Abstract!Init, Unwritten, Searchable

\* The system of handlers and workers implements SemanticIndex: the search finds
\* a note under its present text or not at all, whatever runs at the same time.
THEOREM Refinement == Spec => ImplementsIndex
BY InitSimulation, StepSimulation, Invariance, PTL
   DEF Spec, ImplementsIndex, Abstract!Spec

-----------------------------------------------------------------------------
(* While no two saves of one note overlap: SteadyInv.                        *)

\* Nothing is there at first.
LEMMA InitSteady == Init => SteadyInv
BY DEF Init, SteadyInv, JobVersions, CompletedIsSearchable, FailedShown,
       RequestsSteady, MaySave, MayRetry, WorkersSteady, Procs

\* The parts about the tables alone, when no table changes.
LEMMA SteadyTables ==
    ASSUME SteadyInv, UNCHANGED Tables
    PROVE  JobVersions' /\ CompletedIsSearchable' /\ FailedShown'
BY DEF SteadyInv, Tables, JobVersions, CompletedIsSearchable, FailedShown, Matches

\* A handler r goes to `step', has read `request' and holds `rows'; no table
\* changes.
Goes(r, step, request, rows) ==
    /\ UNCHANGED <<Tables, work>>
    /\ pc' = [pc EXCEPT ![r] = step]
    /\ req' = [req EXCEPT ![r] = request]
    /\ held' = [held EXCEPT ![r] = rows]

\* A handler that writes no table keeps them, when it fits the step it goes to.
LEMMA HandlerSteady ==
    ASSUME IndInv, SteadyInv, NEW r \in Requests, NEW step, NEW request, NEW rows,
           Goes(r, step, request, rows),
           MaySave(step, request, rows), MayRetry(step, request, rows)
    PROVE  SteadyInv'
<1>. USE DEF Goes
<1>1. RequestsSteady'
  <2>. SUFFICES ASSUME NEW q \in Requests
                PROVE  MaySave(pc[q], req[q], held[q])' /\ MayRetry(pc[q], req[q], held[q])'
    BY DEF RequestsSteady
  <2>1. CASE q = r
    <3>1. pc'[q] = step /\ req'[q] = request /\ held'[q] = rows
      BY <2>1 DEF IndInv, TypeOK, Procs
    <3>. QED
      BY <3>1 DEF MaySave, MayRetry, JobsOf, Tables
  <2>2. CASE q # r
    <3>1. pc'[q] = pc[q] /\ req'[q] = req[q] /\ held'[q] = held[q]
      BY <2>2 DEF IndInv, TypeOK, Procs
    <3>. QED
      BY <3>1 DEF SteadyInv, RequestsSteady, MaySave, MayRetry, JobsOf, Tables
  <2>. QED
    BY <2>1, <2>2
<1>2. WorkersSteady'
  BY ProcsAssumption DEF SteadyInv, WorkersSteady, Tables, IndInv, TypeOK, Procs
<1>. QED
  BY <1>1, <1>2, SteadyTables DEF SteadyInv, Tables

\* A step at which nothing is asked of a handler.
LEMMA AtRestSteady ==
    ASSUME NEW step, NEW request, NEW rows,
           step \notin {"viewing", "updating", "scanning", "purging", "resetting"}
    PROVE  MaySave(step, request, rows) /\ MayRetry(step, request, rows)
BY DEF MaySave, MayRetry

\* A handler that ends without having written anything.
LEMMA AnswerSteady ==
    ASSUME IndInv, SteadyInv, NEW r \in Requests, NEW a \in Answers, Answer(r, a),
           UNCHANGED <<Tables, work>>
    PROVE  SteadyInv'
<1>1. Goes(r, a, NoRequest, {})
  BY DEF Goes, Answer
<1>. QED
  BY <1>1, AtRestSteady, HandlerSteady DEF Answers

\* A handler that goes on to a step at which nothing is asked of it.
LEMMA MovesSteady ==
    ASSUME IndInv, SteadyInv, NEW r \in Requests, NEW step, NEW request, NEW rows,
           Goes(r, step, request, rows),
           step \notin {"viewing", "updating", "scanning", "purging", "resetting"}
    PROVE  SteadyInv'
BY AtRestSteady, HandlerSteady

\* What a function keeps when it is not changed.
LEMMA Unchanged ==
    ASSUME IndInv, NEW r \in Procs
    PROVE  /\ held = [held EXCEPT ![r] = held[r]]
           /\ pc = [pc EXCEPT ![r] = pc[r]]
           /\ r \in Requests => req = [req EXCEPT ![r] = req[r]]
           /\ r \in Workers => work = [work EXCEPT ![r] = work[r]]
BY DEF IndInv, TypeOK

\* What a client has seen is what the note has.
LEMMA ClientGetSteady ==
    ASSUME IndInv, SteadyInv, NEW r \in Requests, NEW n \in Notes, ClientGet(r, n)
    PROVE  SteadyInv'
<1>. DEFINE x == [NoRequest EXCEPT !.note = n, !.version = notes[n].version,
                                   !.seen = notes[n].text]
<1>1. x.note = n /\ x.version = notes[n].version /\ x.seen = notes[n].text
  BY DEF NoRequest
<1>2. MaySave("viewing", x, held[r]) /\ MayRetry("viewing", x, held[r])
  BY <1>1 DEF MaySave, MayRetry, ClientGet, Exists, Unwritten, IndInv, TypeOK, Note,
              Versions
<1>3. Goes(r, "viewing", x, held[r])
  BY Unchanged DEF Goes, ClientGet, Procs
<1>. QED
  BY <1>2, <1>3, HandlerSteady

\* It still is what the version had when the update begins.
LEMMA UpdateGetSteady ==
    ASSUME IndInv, SteadyInv, NEW r \in Requests, UpdateGet(r)
    PROVE  SteadyInv'
<1>1. CASE \E a \in Answers : Answer(r, a)
  BY <1>1, AnswerSteady DEF UpdateGet
<1>2. CASE pc' = [pc EXCEPT ![r] = "updating"] /\ UNCHANGED <<req, held>>
  <2>1. MaySave("updating", req[r], held[r]) /\ MayRetry("updating", req[r], held[r])
    BY DEF UpdateGet, SteadyInv, RequestsSteady, MaySave, MayRetry
  <2>2. Goes(r, "updating", req[r], held[r])
    BY <1>2, Unchanged DEF Goes, UpdateGet, Procs
  <2>. QED
    BY <2>1, <2>2, HandlerSteady
<1>. QED
  BY <1>1, <1>2 DEF UpdateGet, Answers

\* The save has read the present version.
LEMMA SaveSelectSteady ==
    ASSUME IndInv, SteadyInv, NEW r \in Requests, SaveSelect(r)
    PROVE  SteadyInv'
<1>1. CASE Answer(r, "conflict")
  BY <1>1, AnswerSteady DEF SaveSelect, Answers
<1>2. CASE ~Answer(r, "conflict")
  <2>. DEFINE x == [req[r] EXCEPT !.loaded = notes[req[r].note].status]
  <2>1. x.note = req[r].note /\ x.version = req[r].version /\ x.seen = req[r].seen
    BY DEF IndInv, TypeOK, RequestRecord
  <2>2. MaySave("scanning", x, held[r]) /\ MayRetry("scanning", x, held[r])
    BY <1>2, <2>1 DEF SaveSelect, SteadyInv, RequestsSteady, MaySave, MayRetry
  <2>3. Goes(r, "scanning", x, held[r])
    BY <1>2, Unchanged DEF Goes, SaveSelect, Procs
  <2>. QED
    BY <2>2, <2>3, HandlerSteady
<1>. QED
  BY <1>1, <1>2

\* The scan has found every outstanding job.
LEMMA SaveScanSteady ==
    ASSUME IndInv, SteadyInv, NEW r \in Requests, SaveScan(r)
    PROVE  SteadyInv'
<1>. DEFINE ids == Ids({j \in JobsOf(req[r].note) : j.status # "completed"})
            x == [req[r] EXCEPT !.todo = ids]
<1>1. /\ x.note = req[r].note /\ x.version = req[r].version /\ x.seen = req[r].seen
      /\ x.todo = ids
  BY DEF IndInv, TypeOK, RequestRecord
<1>2. \A j \in JobsOf(req[r].note) : j.status # "completed" => j.id \in ids
  BY DEF Ids
<1>3. MaySave("purging", x, held[r]) /\ MayRetry("purging", x, held[r])
  BY <1>1, <1>2 DEF SaveScan, SteadyInv, RequestsSteady, MaySave, MayRetry
<1>4. Goes(r, "purging", x, held[r])
  BY Unchanged DEF Goes, SaveScan, Procs
<1>. QED
  BY <1>3, <1>4, HandlerSteady

\* A row that leaves the list is locked, or is not outstanding any more.
LEMMA SavePurgeSteady ==
    ASSUME IndInv, SteadyInv, NEW r \in Requests, NEW id, SavePurge(r, id)
    PROVE  SteadyInv'
<1>. DEFINE rows == held[r] \cup Ids({j \in jobs : j.id = id /\ j.status # "completed"})
            x == [req[r] EXCEPT !.todo = @ \ {id}]
<1>1. /\ x.note = req[r].note /\ x.version = req[r].version /\ x.seen = req[r].seen
      /\ x.todo = req[r].todo \ {id}
  BY DEF IndInv, TypeOK, RequestRecord
<1>2. \A j \in JobsOf(req[r].note) : j.status # "completed" => j.id \in x.todo \cup rows
  BY <1>1 DEF SavePurge, SteadyInv, RequestsSteady, MaySave, JobsOf, Ids
<1>3. MaySave("purging", x, rows) /\ MayRetry("purging", x, rows)
  BY <1>1, <1>2 DEF SavePurge, SteadyInv, RequestsSteady, MaySave, MayRetry
<1>4. Goes(r, "purging", x, rows)
  BY Unchanged DEF Goes, SavePurge, Procs
<1>. QED
  BY <1>3, <1>4, HandlerSteady

\* The handlers' other steps that write no table.
LEMMA OtherReadsSteady ==
    ASSUME IndInv, SteadyInv, NEW r \in Requests,
           \/ \E n \in Notes : DeleteNote(r, n) \/ RetryGet(r, n)
           \/ \E id \in req[r].todo : CascadeRow(r, id)
           \/ RetrySelectNote(r) \/ RetryReread(r)
    PROVE  SteadyInv'
<1>1. CASE \E a \in Answers : Answer(r, a)
  BY <1>1, AnswerSteady
     DEF DeleteNote, RetryGet, RetrySelectNote, RetryReread, CascadeRow
<1>2. CASE ~\E a \in Answers : Answer(r, a)
  <2>. DEFINE Moves(step) == \E request, rows : Goes(r, step, request, rows)
  <2>1. ASSUME NEW n \in Notes, DeleteNote(r, n) PROVE Moves("cascading")
    <3>1. Goes(r, "cascading", [NoRequest EXCEPT !.note = n, !.todo = Ids(JobsOf(n))],
               held[r])
      BY <1>2, <2>1, Unchanged DEF Goes, DeleteNote, Answers, Procs
    <3>. QED
      BY <3>1
  <2>2. ASSUME NEW n \in Notes, RetryGet(r, n) PROVE Moves("retrying")
    <3>1. Goes(r, "retrying", [NoRequest EXCEPT !.note = n], held[r])
      BY <1>2, <2>2, Unchanged DEF Goes, RetryGet, Answers, Procs
    <3>. QED
      BY <3>1
  <2>3. ASSUME NEW id \in req[r].todo, CascadeRow(r, id) PROVE Moves("cascading")
    <3>1. Goes(r, "cascading", [req[r] EXCEPT !.todo = @ \ {id}], held[r] \cup {id})
      BY <2>3, Unchanged DEF Goes, CascadeRow, Procs
    <3>. QED
      BY <3>1
  <2>4. ASSUME RetrySelectNote(r) PROVE Moves("locking")
    BY <1>2, <2>4, Unchanged DEF Goes, RetrySelectNote, Answers, Procs
  <2>5. ~RetryReread(r)
    BY <1>2 DEF RetryReread, Answers
  <2>6. Moves("cascading") \/ Moves("retrying") \/ Moves("locking")
    BY <2>1, <2>2, <2>3, <2>4, <2>5
  <2>. QED
    BY <2>6, MovesSteady
<1>. QED
  BY <1>1, <1>2

\* The retry locks a failed job of its note.
LEMMA RetrySelectJobSteady ==
    ASSUME IndInv, SteadyInv, NEW r \in Requests, RetrySelectJob(r)
    PROVE  SteadyInv'
<1>1. CASE Answer(r, "conflict")
  BY <1>1, AnswerSteady DEF RetrySelectJob, Answers
<1>2. CASE ~Answer(r, "conflict")
  <2>. DEFINE rows == Ids(FailedJobs(req[r].note, req[r].version))
  <2>1. rows # {}
    BY <1>2 DEF RetrySelectJob
  <2>2. PICK j \in JobsOf(req[r].note) : rows = {j.id}
    BY <2>1 DEF Ids, FailedJobs, JobsFor, JobsOf, IndInv, OneJobPerVersion
  <2>3. MaySave("resetting", req[r], rows) /\ MayRetry("resetting", req[r], rows)
    BY <2>2 DEF MaySave, MayRetry
  <2>4. Goes(r, "resetting", req[r], rows)
    BY <1>2, Unchanged DEF Goes, RetrySelectJob, Procs
  <2>. QED
    BY <2>3, <2>4, HandlerSteady
<1>. QED
  BY <1>1, <1>2

\* The job a worker is at is outstanding, so that it is of its note's version.
LEMMA WorkedJob ==
    ASSUME IndInv, SteadyInv, NEW w \in Workers, pc[w] # "idle"
    PROVE  /\ work[w].job \in Job /\ Matches(work[w].job)
           /\ \E j \in jobs : /\ j.id = work[w].job.id /\ j.note = work[w].job.note
                              /\ j.version = work[w].job.version
                              /\ j.status # "completed" /\ held[w] = {j.id}
<1>1. PICK j \in jobs : /\ j.id = work[w].job.id /\ j.status # "completed"
                        /\ j.note = work[w].job.note /\ j.version = work[w].job.version
  BY WorkerFacts DEF MayWork
<1>2. Matches(j)
  BY <1>1 DEF SteadyInv, JobVersions
<1>. QED
  BY <1>1, <1>2, WorkerFacts DEF Matches

\* What is asked of the jobs of one note.
NoteSteady(n) ==
    \A j \in JobsOf(n) :
        /\ j.version <= notes[n].version
        /\ j.status # "completed" => j.version = notes[n].version
        /\ (j.status = "completed" /\ j.version = notes[n].version)
              => notes[n].status = "ready" /\ chunks[n].version = j.version
        /\ (j.status = "failed" /\ j.version = notes[n].version)
              => notes[n].status = "failed"

\* That is the part of the invariant about the tables.
LEMMA ByNotes ==
    ASSUME \A j \in jobs : j.note \in Notes
    PROVE  (\A n \in Notes : NoteSteady(n))
              <=> JobVersions /\ CompletedIsSearchable /\ FailedShown
BY DEF NoteSteady, JobsOf, JobVersions, CompletedIsSearchable, FailedShown, Matches

\* A handler r goes to `step' and changes one note and its jobs, which are
\* steady then for the other handlers too; no worker is giving up a job of it.
Changes(r, n, step, request) ==
    /\ pc' = [pc EXCEPT ![r] = step] /\ req' = [req EXCEPT ![r] = request]
    /\ held' = [held EXCEPT ![r] = {}] /\ work' = work
    /\ step \notin {"viewing", "updating", "scanning", "purging", "resetting"}
    /\ \A m \in Notes \ {n} : /\ notes'[m] = notes[m] /\ chunks'[m] = chunks[m]
                              /\ JobsOf(m)' = JobsOf(m)
    /\ NoteSteady(n)'
    /\ \A q \in Requests \ {r} : req[q].note = n =>
           (MaySave(pc[q], req[q], held[q]) /\ MayRetry(pc[q], req[q], held[q]))'
    /\ \A w \in Workers : pc[w] = "failing" => work[w].job.note # n

\* A handler commits changes to one note and its jobs: what the invariant asks
\* of that note is all there is to show.
LEMMA HandlerWritesSteady ==
    ASSUME IndInv, IndInv', SteadyInv, NEW r \in Requests, NEW n \in Notes,
           NEW step, NEW request, Changes(r, n, step, request)
    PROVE  SteadyInv'
<1>. USE DEF Changes
<1>1. JobVersions' /\ CompletedIsSearchable' /\ FailedShown'
  <2>1. \A j \in jobs \cup jobs' : j.note \in Notes
    BY DEF IndInv, TypeOK, Job
  <2>2. \A m \in Notes \ {n} : NoteSteady(m)
    BY <2>1, ByNotes DEF SteadyInv
  <2>3. \A m \in Notes : NoteSteady(m)'
    BY <2>2 DEF NoteSteady
  <2>4. \A j \in jobs' : j.note \in Notes
    BY <2>1
  <2>. QED
    BY <2>3, <2>4 DEF NoteSteady, JobsOf, JobVersions, CompletedIsSearchable,
                      FailedShown, Matches
<1>2. RequestsSteady'
  <2>. SUFFICES ASSUME NEW q \in Requests
                PROVE  (MaySave(pc[q], req[q], held[q]) /\ MayRetry(pc[q], req[q], held[q]))'
    BY DEF RequestsSteady
  <2>1. CASE q = r
    <3>1. pc'[q] = step
      BY <2>1 DEF IndInv, TypeOK, Procs
    <3>. QED
      BY <3>1 DEF MaySave, MayRetry
  <2>2. CASE q # r /\ req[q].note = n
    BY <2>2
  <2>3. CASE q # r /\ req[q].note # n
    <3>1. pc'[q] = pc[q] /\ req'[q] = req[q] /\ held'[q] = held[q]
      BY <2>3 DEF IndInv, TypeOK, Procs
    <3>2. MaySave(pc[q], req[q], held[q]) /\ MayRetry(pc[q], req[q], held[q])
      BY DEF SteadyInv, RequestsSteady
    <3>3. CASE req[q].note \in Notes
      <4>1. notes'[req[q].note] = notes[req[q].note]
            /\ JobsOf(req[q].note)' = JobsOf(req[q].note)
        BY <2>3, <3>1, <3>3
      <4>2. MaySave(pc[q], req[q], held[q])'
        <5>. HIDE DEF Changes
        <5>. QED
          BY <3>1, <3>2, <4>1, SMT DEF MaySave
      <4>3. MayRetry(pc[q], req[q], held[q])'
        <5>. HIDE DEF Changes
        <5>. QED
          BY <3>1, <3>2, <4>1, SMT DEF MayRetry
      <4>. QED
        BY <4>2, <4>3
    <3>4. CASE req[q].note \notin Notes
      <4>1. pc[q] \in Answers \cup {"idle"}
        BY <3>4 DEF IndInv, RequestHolds, MayHold
      <4>. QED
        BY <3>1, <4>1 DEF MaySave, MayRetry, Answers
    <3>. QED
      BY <3>3, <3>4
  <2>. QED
    BY <2>1, <2>2, <2>3
<1>3. WorkersSteady'
  <2>. SUFFICES ASSUME NEW w \in Workers, pc'[w] = "failing", work'[w].loaded = "failed"
                PROVE  notes'[work'[w].job.note].status = "failed"
    BY DEF WorkersSteady
  <2>1. w # r /\ pc[w] = "failing" /\ work[w].loaded = "failed"
    BY ProcsAssumption DEF IndInv, TypeOK, Procs
  <2>2. work[w].job.note \in Notes \ {n}
    BY <2>1, WorkerFacts DEF Job
  <2>. QED
    BY <2>1, <2>2 DEF SteadyInv, WorkersSteady
<1>. QED
  BY <1>1, <1>2, <1>3 DEF SteadyInv

\* A created note is nobody's yet.
LEMMA CreateNoteSteady ==
    ASSUME IndInv, IndInv', SteadyInv, NEW r \in Requests, NEW n \in Notes,
           CreateNote(r, n)
    PROVE  SteadyInv'
<1>. DEFINE row == PendingJob(texts + 1, n, 1)
<1>1. row.note = n /\ row.version = 1 /\ row.status = "pending" /\ ~Exists(n)
  BY DEF PendingJob, CreateNote, Unwritten, Exists
<1>2. \A j \in jobs : j.note # n
  BY <1>1 DEF IndInv, JobRows
<1>3. jobs' = jobs \cup {row} /\ notes'[n].version = 1
      /\ \A m \in Notes \ {n} : notes'[m] = notes[m]
  BY DEF CreateNote, CreatedNote, IndInv, TypeOK
<1>. HIDE DEF row
<1>4. \A m \in Notes \ {n} : JobsOf(m)' = JobsOf(m)
  BY <1>1, <1>3 DEF JobsOf
<1>5. NoteSteady(n)'
  <2>1. JobsOf(n)' = {row}
    BY <1>1, <1>2, <1>3 DEF JobsOf
  <2>. QED
    BY <1>1, <1>3, <2>1 DEF NoteSteady
<1>6. ASSUME NEW q \in Requests \ {r}, req[q].note = n
      PROVE  (MaySave(pc[q], req[q], held[q]) /\ MayRetry(pc[q], req[q], held[q]))'
  <2>1. pc'[q] = pc[q]
    BY DEF CreateNote, Answer, IndInv, TypeOK, Procs
  <2>2. pc[q] \notin {"viewing", "updating", "scanning", "purging"}
    BY <1>6 DEF CreateNote, SteadyInv, RequestsSteady, MaySave
  <2>3. pc[q] # "resetting"
    BY <1>2, <1>6 DEF SteadyInv, RequestsSteady, MayRetry, JobsOf
  <2>. QED
    BY <2>1, <2>2, <2>3 DEF MaySave, MayRetry
<1>7. \A w \in Workers : pc[w] = "failing" => work[w].job.note # n
  BY <1>2, WorkedJob
<1>8. /\ pc' = [pc EXCEPT ![r] = "ok"] /\ req' = [req EXCEPT ![r] = NoRequest]
      /\ held' = [held EXCEPT ![r] = {}] /\ work' = work /\ chunks' = chunks
  BY DEF CreateNote, Answer
<1>9. Changes(r, n, "ok", NoRequest)
  BY <1>3, <1>4, <1>5, <1>6, <1>7, <1>8 DEF Changes
<1>. QED
  BY <1>9, HandlerWritesSteady

\* The save that commits has locked every outstanding job of its note.
LEMMA SaverHasAll ==
    ASSUME IndInv, SteadyInv, NEW r \in Requests, pc[r] = "purging", req[r].todo = {}
    PROVE  \A j \in JobsOf(req[r].note) : j.status # "completed" => j.id \in held[r]
BY DEF SteadyInv, RequestsSteady, MaySave

\* A save takes the note to the next version, and the only job that asks for
\* work is the one of that version.
LEMMA SaveFlushSteady ==
    ASSUME IndInv, IndInv', SteadyInv, SavesApart, NEW r \in Requests, SaveFlush(r)
    PROVE  SteadyInv'
<1>1. CASE Answer(r, "error") /\ UNCHANGED Tables
  BY <1>1, AnswerSteady DEF SaveFlush, Answers
<1>2. CASE ~(Answer(r, "error") /\ UNCHANGED Tables)
  <2>. PICK n : n = req[r].note
    OBVIOUS
  <2>. DEFINE version == req[r].version
              row == PendingJob(texts + 1, n, version + 1)
  <2>1. /\ pc[r] = "purging" /\ req[r].todo = {} /\ Exists(n)
        /\ texts' = texts + 1 /\ chunks' = chunks /\ work' = work
        /\ jobs' = {j \in jobs : j.id \notin held[r]} \cup {row}
        /\ Answer(r, "ok")
    BY <1>2 DEF SaveFlush
  <2>2. n \in Notes /\ version \in Nat /\ req[r] \in RequestRecord
    BY <2>1 DEF IndInv, TypeOK, RequestRecord, Versions, RequestHolds, MayHold, Answers
  <2>3. notes[n].version = version /\ version \in Nat
    BY <2>1, <2>2 DEF SteadyInv, RequestsSteady, MaySave, Exists, IndInv, TypeOK, Note,
                      Versions
  <2>4. notes'[n].version = version + 1 /\ \A m \in Notes \ {n} : notes'[m] = notes[m]
    BY <1>2, <2>2 DEF SaveFlush, UpdatedNote, IndInv, TypeOK
  <2>5. row.note = n /\ row.version = version + 1 /\ row.status = "pending"
    BY DEF PendingJob
  <2>. HIDE DEF row
  <2>6. \A j \in jobs : j.id \in held[r] => j.note = n
    BY <2>1 DEF IndInv, RequestHolds, MayHold
  <2>7. \A j \in JobsOf(n) : j.status # "completed" => j.id \in held[r]
    BY <2>1, SaverHasAll
  <2>8. \A m \in Notes \ {n} : JobsOf(m)' = JobsOf(m)
    BY <2>1, <2>5, <2>6 DEF JobsOf
  <2>9. NoteSteady(n)'
    <3>1. ASSUME NEW j \in JobsOf(n)', j # row
          PROVE  j.status = "completed" /\ j.version \in Nat /\ j.version <= version
      <4>1. j \in JobsOf(n) /\ j.status = "completed"
        BY <2>1, <2>7, <3>1 DEF JobsOf
      <4>. QED
        BY <2>3, <4>1 DEF JobsOf, SteadyInv, JobVersions, IndInv, TypeOK, Job, Versions
    <3>. QED
      BY <2>2, <2>4, <2>5, <3>1 DEF NoteSteady
  <2>10. ASSUME NEW q \in Requests \ {r}, req[q].note = n
         PROVE  (MaySave(pc[q], req[q], held[q]) /\ MayRetry(pc[q], req[q], held[q]))'
    <3>1. pc'[q] = pc[q] /\ req'[q] = req[q] /\ held'[q] = held[q]
      BY <2>1 DEF Answer, IndInv, TypeOK, Procs
    <3>2. pc[q] \notin {"scanning", "purging"}
      BY <2>1, <2>2, <2>10 DEF SavesApart, SavesOf
    <3>3. pc[q] # "resetting"
      <4>. SUFFICES ASSUME pc[q] = "resetting" PROVE FALSE
        OBVIOUS
      <4>1. PICK j \in jobs : j.note = n /\ j.id \in held[q]
        BY <2>10 DEF SteadyInv, RequestsSteady, MayRetry, JobsOf
      <4>2. j.status # "completed" /\ j.id \in held[r]
        BY <2>7, <4>1 DEF IndInv, RequestHolds, MayHold, JobsOf
      <4>. QED
        BY <4>1, <4>2 DEF IndInv, Locks, Procs
    <3>4. pc[q] \in {"viewing", "updating"} =>
             /\ notes'[n] # Unwritten /\ req[q].version > 0
             /\ req[q].version <= version /\ req[q].version \in Nat
      BY <2>1, <2>2, <2>3, <2>4, <2>10
         DEF SteadyInv, RequestsSteady, MaySave, Exists, Unwritten, IndInv, TypeOK,
             RequestRecord, Versions
    <3>. QED
      BY <2>2, <2>4, <2>10, <3>1, <3>2, <3>3, <3>4 DEF MaySave, MayRetry
  <2>11. \A w \in Workers : pc[w] = "failing" => work[w].job.note # n
    <3>. SUFFICES ASSUME NEW w \in Workers, pc[w] # "idle", work[w].job.note = n
                  PROVE  FALSE
      OBVIOUS
    <3>1. PICK j \in jobs : j.note = n /\ j.status # "completed" /\ held[w] = {j.id}
      BY WorkedJob
    <3>. QED
      BY <2>7, <3>1, ProcsAssumption DEF JobsOf, IndInv, Locks, Procs
  <2>12. /\ pc' = [pc EXCEPT ![r] = "ok"] /\ req' = [req EXCEPT ![r] = NoRequest]
         /\ held' = [held EXCEPT ![r] = {}]
    BY <2>1 DEF Answer
  <2>13. Changes(r, n, "ok", NoRequest)
    BY <2>1, <2>4, <2>8, <2>9, <2>10, <2>11, <2>12 DEF Changes
  <2>. QED
    BY <2>2, <2>13, HandlerWritesSteady
<1>. QED
  BY <1>1, <1>2

\* A deletion has locked every job of its note, so nobody is at one of them.
LEMMA DeleteCommitSteady ==
    ASSUME IndInv, IndInv', SteadyInv, NEW r \in Requests, DeleteCommit(r)
    PROVE  SteadyInv'
<1>. PICK n : n = req[r].note
  OBVIOUS
<1>1. n \in Notes /\ \A j \in jobs : j.note = n <=> j.id \in held[r]
  BY DEF DeleteCommit, IndInv, RequestHolds, MayHold, Answers
<1>2. /\ notes'[n] = Erased /\ jobs' = {j \in jobs : j.note # n}
      /\ \A m \in Notes \ {n} : notes'[m] = notes[m] /\ chunks'[m] = chunks[m]
  BY <1>1 DEF DeleteCommit, IndInv, TypeOK
<1>3. JobsOf(n)' = {} /\ \A m \in Notes \ {n} : JobsOf(m)' = JobsOf(m)
  BY <1>2 DEF JobsOf
<1>4. NoteSteady(n)'
  BY <1>3 DEF NoteSteady
<1>5. ASSUME NEW q \in Requests \ {r}, req[q].note = n
      PROVE  (MaySave(pc[q], req[q], held[q]) /\ MayRetry(pc[q], req[q], held[q]))'
  <2>1. pc'[q] = pc[q] /\ req'[q] = req[q] /\ held'[q] = held[q]
    BY DEF DeleteCommit, Answer, IndInv, TypeOK, Procs
  <2>2. pc[q] # "resetting"
    BY <1>1, <1>5 DEF SteadyInv, RequestsSteady, MayRetry, JobsOf, IndInv, Locks, Procs
  <2>3. pc[q] \in {"viewing", "updating", "scanning", "purging"} =>
           req[q].version > 0 /\ req[q].version \in Nat
    BY DEF SteadyInv, RequestsSteady, MaySave, IndInv, TypeOK, RequestRecord, Versions
  <2>4. notes'[n] # Unwritten /\ notes'[n].version = 0
    BY <1>2 DEF Erased, Unwritten
  <2>. QED
    BY <1>3, <1>5, <2>1, <2>2, <2>3, <2>4 DEF MaySave, MayRetry
<1>6. \A w \in Workers : pc[w] = "failing" => work[w].job.note # n
  <2>. SUFFICES ASSUME NEW w \in Workers, pc[w] # "idle", work[w].job.note = n
                PROVE  FALSE
    OBVIOUS
  <2>1. PICK j \in jobs : j.note = n /\ held[w] = {j.id}
    BY WorkedJob
  <2>. QED
    BY <1>1, <2>1, ProcsAssumption DEF IndInv, Locks, Procs
<1>7. /\ pc' = [pc EXCEPT ![r] = "ok"] /\ req' = [req EXCEPT ![r] = NoRequest]
      /\ held' = [held EXCEPT ![r] = {}] /\ work' = work
  BY DEF DeleteCommit, Answer
<1>8. Changes(r, n, "ok", NoRequest)
  BY <1>2, <1>3, <1>4, <1>5, <1>6, <1>7 DEF Changes
<1>. QED
  BY <1>1, <1>8, HandlerWritesSteady

\* The failed job that a retry has locked is the one of the present version.
LEMMA RetriedJob ==
    ASSUME IndInv, SteadyInv, NEW r \in Requests, pc[r] = "resetting"
    PROVE  \E j \in jobs :
              /\ j.note = req[r].note /\ j.note \in Notes /\ held[r] = {j.id}
              /\ j.status = "failed" /\ Matches(j) /\ Exists(j.note) /\ j \in Job
              /\ \A k \in JobsOf(j.note) : Matches(k) => k = j
              /\ \A k \in jobs : k.id = j.id => k = j
<1>1. PICK j \in jobs : j.note = req[r].note /\ held[r] = {j.id}
  BY DEF SteadyInv, RequestsSteady, MayRetry, JobsOf
<1>2. j.status = "failed" /\ j \in Job /\ j.note \in Notes /\ Exists(j.note)
  BY <1>1 DEF IndInv, RequestHolds, MayHold, TypeOK, Job, JobRows
<1>3. Matches(j)
  BY <1>2 DEF SteadyInv, JobVersions
<1>4. \A k \in JobsOf(j.note) : Matches(k) => k = j
  BY <1>3 DEF Matches, JobsOf, IndInv, OneJobPerVersion
<1>5. \A k \in jobs : k.id = j.id => k = j
  BY DEF IndInv, JobRows
<1>. QED
  BY <1>1, <1>2, <1>3, <1>4, <1>5

\* A retry makes the job of the present version pending, with its note.
LEMMA RetryFlushSteady ==
    ASSUME IndInv, IndInv', SteadyInv, NEW r \in Requests, RetryFlush(r)
    PROVE  SteadyInv'
<1>. PICK n : n = req[r].note
  OBVIOUS
<1>1. PICK job \in jobs :
         /\ job.note = n /\ n \in Notes /\ held[r] = {job.id}
         /\ job.status = "failed" /\ Matches(job) /\ Exists(n) /\ job \in Job
         /\ \A k \in JobsOf(n) : Matches(k) => k = job
         /\ \A k \in jobs : k.id = job.id => k = job
  BY RetriedJob DEF RetryFlush
<1>. DEFINE row == Reset(job)
<1>2. jobs' = (jobs \ {job}) \cup {row}
  BY <1>1 DEF RetryFlush
<1>3. row.id = job.id /\ row.note = n /\ row.version = job.version /\ row.status = "pending"
  BY <1>1, ResetType
<1>. HIDE DEF row
<1>4. /\ \A m \in Notes \ {n} : notes'[m] = notes[m]
      /\ notes'[n].version = notes[n].version /\ notes'[n].text = notes[n].text
      /\ notes[n].version > 0 /\ notes'[n].status = "pending" /\ chunks' = chunks
  BY <1>1 DEF RetryFlush, IndInv, TypeOK, Note, Exists
<1>5. \A m \in Notes \ {n} : JobsOf(m)' = JobsOf(m)
  BY <1>1, <1>2, <1>3 DEF JobsOf
<1>6. JobsOf(n)' = (JobsOf(n) \ {job}) \cup {row}
  BY <1>1, <1>2, <1>3 DEF JobsOf
<1>7. NoteSteady(n)'
  <2>1. \A j \in JobsOf(n) \ {job} : /\ j.version # notes[n].version
                                    /\ j.version <= notes[n].version
                                    /\ j.status = "completed"
    BY <1>1 DEF SteadyInv, JobVersions, JobsOf, Matches
  <2>2. row.version = notes[n].version /\ notes[n].version \in Nat
    BY <1>1, <1>3 DEF Matches, IndInv, TypeOK, Note, Versions
  <2>. QED
    BY <1>3, <1>4, <1>6, <2>1, <2>2 DEF NoteSteady
<1>8. ASSUME NEW q \in Requests \ {r}, req[q].note = n
      PROVE  (MaySave(pc[q], req[q], held[q]) /\ MayRetry(pc[q], req[q], held[q]))'
  <2>1. pc'[q] = pc[q] /\ req'[q] = req[q] /\ held'[q] = held[q]
    BY DEF RetryFlush, IndInv, TypeOK, Procs
  <2>2. MaySave(pc[q], req[q], held[q]) /\ MayRetry(pc[q], req[q], held[q])
    BY DEF SteadyInv, RequestsSteady
  <2>3. notes'[n] # Unwritten
    BY <1>4 DEF Unwritten
  <2>4. \A j \in JobsOf(n)' : \E k \in JobsOf(n) :
            k.id = j.id /\ (j.status # "completed" => k.status # "completed")
    BY <1>1, <1>3, <1>6 DEF JobsOf
  <2>5. \A j \in JobsOf(n) : \E k \in JobsOf(n)' : k.id = j.id
    BY <1>3, <1>6
  <2>6. MayRetry(pc[q], req[q], held[q])'
    BY <1>8, <2>1, <2>2, <2>5 DEF MayRetry
  <2>7. MaySave(pc[q], req[q], held[q])'
    BY <1>4, <1>8, <2>1, <2>2, <2>3, <2>4 DEF MaySave
  <2>. QED
    BY <2>6, <2>7
<1>9. \A w \in Workers : pc[w] = "failing" => work[w].job.note # n
  <2>. SUFFICES ASSUME NEW w \in Workers, pc[w] # "idle", work[w].job.note = n
                PROVE  FALSE
    OBVIOUS
  <2>1. PICK j \in jobs : j.note = n /\ j.status # "completed" /\ held[w] = {j.id}
    BY WorkedJob
  <2>2. j = job
    BY <1>1, <2>1 DEF SteadyInv, JobVersions, JobsOf
  <2>. QED
    BY <1>1, <2>1, <2>2, ProcsAssumption DEF IndInv, Locks, Procs
<1>10. /\ pc' = [pc EXCEPT ![r] = "rereading"] /\ req' = [req EXCEPT ![r] = req[r]]
       /\ held' = [held EXCEPT ![r] = {}] /\ work' = work
  BY Unchanged DEF RetryFlush, Procs
<1>11. Changes(r, n, "rereading", req[r])
  BY <1>4, <1>5, <1>7, <1>8, <1>9, <1>10 DEF Changes
<1>. QED
  BY <1>1, <1>11, HandlerWritesSteady

\* A worker w goes to `step', has read `record' and holds `rows'; no table
\* changes.
Turns(w, step, record, rows) ==
    /\ UNCHANGED <<Tables, req>>
    /\ pc' = [pc EXCEPT ![w] = step]
    /\ work' = [work EXCEPT ![w] = record]
    /\ held' = [held EXCEPT ![w] = rows]

\* A worker that writes no table.
LEMMA WorkerSteady ==
    ASSUME IndInv, SteadyInv, NEW w \in Workers, NEW step, NEW record, NEW rows,
           Turns(w, step, record, rows),
           (step = "failing" /\ record.loaded = "failed")
               => notes[record.job.note].status = "failed"
    PROVE  SteadyInv'
<1>. USE DEF Turns
<1>1. RequestsSteady'
  <2>. SUFFICES ASSUME NEW q \in Requests
                PROVE  (MaySave(pc[q], req[q], held[q]) /\ MayRetry(pc[q], req[q], held[q]))'
    BY DEF RequestsSteady
  <2>1. pc'[q] = pc[q] /\ req'[q] = req[q] /\ held'[q] = held[q]
    BY ProcsAssumption DEF IndInv, TypeOK, Procs
  <2>. QED
    BY <2>1 DEF SteadyInv, RequestsSteady, MaySave, MayRetry, JobsOf, Tables
<1>2. WorkersSteady'
  <2>. SUFFICES ASSUME NEW v \in Workers, pc'[v] = "failing", work'[v].loaded = "failed"
                PROVE  notes'[work'[v].job.note].status = "failed"
    BY DEF WorkersSteady
  <2>1. CASE v = w
    BY <2>1 DEF IndInv, TypeOK, Procs, Tables
  <2>2. CASE v # w
    BY <2>2 DEF SteadyInv, WorkersSteady, IndInv, TypeOK, Procs, Tables
  <2>. QED
    BY <2>1, <2>2
<1>. QED
  BY <1>1, <1>2, SteadyTables DEF SteadyInv, Tables

\* The worker w commits: the row of its job becomes `row', and the status of its
\* note and the chunks are what this asks for.
Ends(w, row) ==
    /\ pc[w] # "idle"
    /\ row.id = work[w].job.id
    /\ row.note = work[w].job.note /\ row.version = work[w].job.version
    /\ Commit(w, row)
    /\ req' = req
    /\ \A m \in Notes \ {row.note} : notes'[m] = notes[m] /\ chunks'[m] = chunks[m]
    /\ notes'[row.note].version = notes[row.note].version
    /\ notes'[row.note].text = notes[row.note].text
    /\ row.status = "completed" => /\ notes'[row.note].status = "ready"
                                   /\ chunks'[row.note].version = row.version
    /\ row.status = "failed" => notes'[row.note].status = "failed"

\* A worker commits: no other job of the present version is there, and nobody
\* else is at the job.
LEMMA EndsSteady ==
    ASSUME IndInv, IndInv', SteadyInv, NEW w \in Workers, NEW row, Ends(w, row)
    PROVE  SteadyInv'
<1>. PICK n : n = row.note
  OBVIOUS
<1>1. PICK old \in jobs : /\ old.id = row.id /\ old.note = n /\ n \in Notes
                          /\ old.version = row.version /\ old.status # "completed"
                          /\ Matches(old) /\ held[w] = {old.id}
  BY WorkedJob DEF Ends, IndInv, TypeOK, Job, Matches
<1>2. /\ \A j \in jobs : j.id = old.id => j = old
      /\ \A j \in JobsOf(n) : j.version = notes[n].version => j = old
  BY <1>1 DEF IndInv, JobRows, OneJobPerVersion, JobsOf, Matches
<1>3. jobs' = (jobs \ {old}) \cup {row}
  BY <1>1, <1>2 DEF Ends, Commit, Replaced
<1>4. JobsOf(n)' = (JobsOf(n) \ {old}) \cup {row}
      /\ \A m \in Notes \ {n} : JobsOf(m)' = JobsOf(m)
  BY <1>1, <1>3 DEF JobsOf
<1>5. row.version = notes[n].version /\ notes[n].version \in Nat /\ Exists(n)
  BY <1>1 DEF Matches, IndInv, TypeOK, Note, Versions, JobRows
<1>6. NoteSteady(n)'
  <2>1. \A j \in JobsOf(n) \ {old} : /\ j.version # notes[n].version
                                     /\ j.version <= notes[n].version
                                     /\ j.status = "completed"
    BY <1>2 DEF SteadyInv, JobVersions, JobsOf, Matches
  <2>. QED
    BY <1>4, <1>5, <2>1 DEF NoteSteady, Ends
<1>7. JobVersions' /\ CompletedIsSearchable' /\ FailedShown'
  <2>1. \A j \in jobs \cup jobs' : j.note \in Notes
    BY DEF IndInv, TypeOK, Job
  <2>2. \A m \in Notes \ {n} : NoteSteady(m)
    BY <2>1, ByNotes DEF SteadyInv
  <2>3. \A m \in Notes : NoteSteady(m)'
    BY <1>4, <1>6, <2>2 DEF NoteSteady, Ends
  <2>. QED
    BY <2>1, <2>3 DEF NoteSteady, JobsOf, JobVersions, CompletedIsSearchable,
                      FailedShown, Matches
<1>8. RequestsSteady'
  <2>. SUFFICES ASSUME NEW q \in Requests
                PROVE  (MaySave(pc[q], req[q], held[q]) /\ MayRetry(pc[q], req[q], held[q]))'
    BY DEF RequestsSteady
  <2>1. pc'[q] = pc[q] /\ req'[q] = req[q] /\ held'[q] = held[q]
    BY ProcsAssumption DEF Ends, Commit, IndInv, TypeOK, Procs
  <2>2. MaySave(pc[q], req[q], held[q]) /\ MayRetry(pc[q], req[q], held[q])
    BY DEF SteadyInv, RequestsSteady
  <2>3. CASE req[q].note = n
    <3>1. /\ notes'[n].version = notes[n].version /\ notes'[n].text = notes[n].text
          /\ notes'[n] # Unwritten
      BY <1>5 DEF Ends, Exists, Unwritten
    <3>2. /\ \A j \in JobsOf(n)' : \E k \in JobsOf(n) :
                k.id = j.id /\ (j.status # "completed" => k.status # "completed")
          /\ \A j \in JobsOf(n) : \E k \in JobsOf(n)' : k.id = j.id
      BY <1>1, <1>4 DEF JobsOf
    <3>3. MayRetry(pc[q], req[q], held[q])'
      BY <2>1, <2>2, <2>3, <3>2 DEF MayRetry
    <3>4. MaySave(pc[q], req[q], held[q])'
      BY <2>1, <2>2, <2>3, <3>1, <3>2 DEF MaySave
    <3>. QED
      BY <3>3, <3>4
  <2>4. CASE req[q].note \in Notes \ {n}
    <3>1. notes'[req[q].note] = notes[req[q].note]
          /\ JobsOf(req[q].note)' = JobsOf(req[q].note)
      BY <1>4, <2>1, <2>4 DEF Ends
    <3>. QED
      BY <2>1, <2>2, <3>1 DEF MaySave, MayRetry
  <2>5. CASE req[q].note \notin Notes
    <3>1. pc[q] \in Answers \cup {"idle"}
      BY <2>5 DEF IndInv, RequestHolds, MayHold
    <3>. QED
      BY <2>1, <3>1 DEF MaySave, MayRetry, Answers
  <2>. QED
    BY <2>3, <2>4, <2>5
<1>9. WorkersSteady'
  <2>. SUFFICES ASSUME NEW v \in Workers, pc'[v] = "failing", work'[v].loaded = "failed"
                PROVE  notes'[work'[v].job.note].status = "failed"
    BY DEF WorkersSteady
  <2>1. v # w /\ pc[v] = "failing" /\ work'[v] = work[v]
    BY DEF Ends, Commit, IndInv, TypeOK, Procs
  <2>2. work[v].job.note \in Notes
    BY <2>1, WorkerFacts DEF Job
  <2>3. work[v].job.note # n
    <3>. SUFFICES ASSUME work[v].job.note = n PROVE FALSE
      OBVIOUS
    <3>1. held[v] = {work[v].job.id} /\ Matches(work[v].job)
          /\ \E j \in JobsOf(n) : j.id = work[v].job.id /\ j.version = work[v].job.version
      BY <2>1, WorkedJob DEF JobsOf
    <3>2. held[v] = {old.id}
      BY <1>2, <3>1 DEF Matches
    <3>. QED
      BY <1>1, <2>1, <3>2 DEF IndInv, Locks, Procs
  <2>. QED
    BY <2>1, <2>2, <2>3 DEF Ends, SteadyInv, WorkersSteady
<1>. QED
  BY <1>7, <1>8, <1>9 DEF SteadyInv

\* Every step of a worker.  The version it finds is the one of its job.
LEMMA WorkerStepSteady ==
    ASSUME IndInv, IndInv', SteadyInv, NEW w \in Workers, WorkerStep(w)
    PROVE  SteadyInv'
<1>. PICK job : job = work[w].job
  OBVIOUS
<1>0. pc[w] # "idle" => /\ job \in Job /\ Matches(job) /\ job.note \in Notes
                        /\ job.status = "processing"
  BY WorkedJob, WorkerFacts DEF Job, MayWork
<1>1. CASE \E id \in Ids(jobs) : ClaimNext(w, id)
  <2>1. PICK id : ClaimNext(w, id)
    BY <1>1
  <2>2. PICK record : Turns(w, "claimed", record, {id})
    BY <2>1 DEF ClaimNext, Turns
  <2>. QED
    BY <2>2, WorkerSteady
<1>2. CASE NoteForJob(w)
  <2>. DEFINE x == [work[w] EXCEPT !.text = notes[job.note].text]
  <2>1. Turns(w, "embedding", x, held[w])
    BY <1>0, <1>2, Unchanged DEF NoteForJob, Turns, Tables, Procs
  <2>. QED
    BY <2>1, WorkerSteady
<1>3. CASE EmbedSucceeds(w)
  <2>1. Turns(w, "publishing", work[w], held[w])
    BY <1>3, Unchanged DEF EmbedSucceeds, Turns, Procs
  <2>. QED
    BY <2>1, WorkerSteady
<1>4. CASE EmbedFails(w)
  <2>. DEFINE row == FailTransient(job)
  <2>1. CASE row.status # "failed"
    <3>1. Ends(w, row)
      BY <1>0, <1>4, <2>1, FailTransientType DEF Ends, EmbedFails
    <3>. QED
      BY <3>1, EndsSteady
  <2>2. CASE row.status = "failed"
    <3>. DEFINE x == [work[w] EXCEPT !.loaded = notes[job.note].status]
    <3>1. Turns(w, "failing", x, held[w])
      BY <1>0, <1>4, <2>2, Unchanged DEF EmbedFails, Turns, Tables, Procs
    <3>2. x.job = job /\ x.loaded = notes[job.note].status
      BY DEF IndInv, TypeOK, WorkRecord
    <3>. QED
      BY <3>1, <3>2, WorkerSteady
  <2>. QED
    BY <2>1, <2>2
<1>5. CASE Publish(w)
  <2>1. Ends(w, Complete(job))
    BY <1>0, <1>5, CompleteType DEF Ends, Publish, IndInv, TypeOK, Note, ChunkRecord
  <2>. QED
    BY <2>1, EndsSteady
<1>6. CASE FailFlush(w)
  <2>1. notes' = [notes EXCEPT ![job.note].status = OrmSet(@, work[w].loaded, "failed")]
    BY <1>6 DEF FailFlush
  <2>2. OrmSet(notes[job.note].status, work[w].loaded, "failed") = "failed"
    BY <1>6 DEF FailFlush, OrmSet, SteadyInv, WorkersSteady
  <2>3. /\ \A m \in Notes \ {job.note} : notes'[m] = notes[m]
        /\ notes'[job.note].version = notes[job.note].version
        /\ notes'[job.note].text = notes[job.note].text
        /\ notes'[job.note].status = "failed"
    BY <1>0, <1>6, <2>1, <2>2 DEF FailFlush, IndInv, TypeOK, Note
  <2>4. Ends(w, FailTransient(job))
    BY <1>0, <1>6, <2>3, FailTransientType DEF Ends, FailFlush
  <2>. QED
    BY <2>4, EndsSteady
<1>. QED
  BY <1>1, <1>2, <1>3, <1>4, <1>5, <1>6 DEF WorkerStep

\* A transaction that is rolled back.
LEMMA RollbackSteady ==
    ASSUME IndInv, SteadyInv, NEW p \in Procs, Rollback(p)
    PROVE  SteadyInv'
<1>1. CASE p \in Requests
  <2>1. Answer(p, "error") /\ UNCHANGED <<Tables, work>>
    BY <1>1, ProcsAssumption DEF Rollback, Answer, Procs
  <2>. QED
    BY <1>1, <2>1, AnswerSteady DEF Answers
<1>2. CASE p \in Workers
  <2>1. Turns(p, "idle", NoWork, {})
    BY <1>2, ProcsAssumption DEF Rollback, Turns
  <2>. QED
    BY <1>2, <2>1, WorkerSteady
<1>. QED
  BY <1>1, <1>2 DEF Procs

\* Every step from a state in which no two saves of one note overlap.
LEMMA NextSteady ==
    ASSUME IndInv, IndInv', SteadyInv, SavesApart, [Next]_vars
    PROVE  SteadyInv'
<1>1. ASSUME NEW r \in Requests, ClientStarts(r) \/ HandlerStep(r) PROVE SteadyInv'
  <2>1. CASE \E n \in Notes : CreateNote(r, n) \/ ClientGet(r, n)
    BY <2>1, CreateNoteSteady, ClientGetSteady
  <2>2. CASE \/ \E n \in Notes : DeleteNote(r, n) \/ RetryGet(r, n)
             \/ \E id \in req[r].todo : CascadeRow(r, id)
             \/ RetrySelectNote(r) \/ RetryReread(r)
    BY <2>2, OtherReadsSteady
  <2>3. CASE UpdateGet(r) \/ SaveSelect(r) \/ SaveScan(r) \/ SaveFlush(r)
    BY <2>3, UpdateGetSteady, SaveSelectSteady, SaveScanSteady, SaveFlushSteady
  <2>4. CASE \E id \in req[r].todo : SavePurge(r, id)
    BY <2>4, SavePurgeSteady
  <2>5. CASE DeleteCommit(r) \/ RetrySelectJob(r) \/ RetryFlush(r)
    BY <2>5, DeleteCommitSteady, RetrySelectJobSteady, RetryFlushSteady
  <2>. QED
    BY <1>1, <2>1, <2>2, <2>3, <2>4, <2>5 DEF ClientStarts, HandlerStep
<1>2. ASSUME NEW w \in Workers, WorkerStep(w) PROVE SteadyInv'
  BY <1>2, WorkerStepSteady
<1>3. ASSUME NEW p \in Procs, Crash(p) \/ DeadlockVictim(p) PROVE SteadyInv'
  BY <1>3, RollbackSteady DEF Crash, DeadlockVictim
<1>4. CASE UNCHANGED vars
  BY <1>4 DEF vars, SteadyInv, JobVersions, CompletedIsSearchable, FailedShown,
              RequestsSteady, MaySave, MayRetry, WorkersSteady, Matches, JobsOf
<1>. QED
  BY <1>1, <1>2, <1>3, <1>4 DEF Next

-----------------------------------------------------------------------------
(* Theorems about the behaviours in which no two saves of one note overlap.  *)

\* The invariant of those behaviours.
THEOREM SteadyInvariance == Spec /\ []SavesApart => []SteadyInv
<1>1. IndInv /\ IndInv' /\ SteadyInv /\ SavesApart /\ [Next]_vars => SteadyInv'
  BY NextSteady
<1>. QED
  BY <1>1, InitSteady, Invariance, PTL DEF Spec

\* The job of the present version is completed only if the search finds the
\* note: it takes two overlapping saves to make a note wait for ever.
THEOREM CompletedSearchable == Spec /\ []SavesApart => []CompletedIsSearchable
<1>1. SteadyInv => CompletedIsSearchable
  BY DEF SteadyInv
<1>. QED
  BY <1>1, SteadyInvariance, PTL

\* The job of the present version has given up only if the user is offered the
\* retry.
THEOREM FailedRetryable == Spec /\ []SavesApart => []FailedIsRetryable
<1>1. SteadyInv => FailedIsRetryable
  BY DEF SteadyInv, FailedShown, FailedIsRetryable
<1>. QED
  BY <1>1, SteadyInvariance, PTL

\* No outstanding job is of an old version: the workers' checks of the version
\* never fail, and what they claim is never in vain.
THEOREM OutstandingIsCurrent == Spec /\ []SavesApart => []JobVersions
<1>1. SteadyInv => JobVersions
  BY DEF SteadyInv
<1>. QED
  BY <1>1, SteadyInvariance, PTL

-----------------------------------------------------------------------------
(* The action properties that two overlapping saves break.                   *)

\* A handler is moved by its own steps alone, and by what breaks it off.
LEMMA OwnSteps ==
    ASSUME IndInv, Next, NEW r \in Requests, pc'[r] \notin {pc[r], "error"}
    PROVE  ClientStarts(r) \/ HandlerStep(r)
<1>. USE ProcsAssumption DEF IndInv, TypeOK, Procs
<1>1. ASSUME NEW q \in Requests \ {r}, ClientStarts(q) \/ HandlerStep(q)
      PROVE  pc'[r] = pc[r]
  BY <1>1 DEF ClientStarts, HandlerStep, CreateNote, ClientGet, DeleteNote, RetryGet,
              UpdateGet, SaveSelect, SaveScan, SavePurge, CascadeRow, SaveFlush,
              DeleteCommit, RetrySelectNote, RetrySelectJob, RetryFlush, RetryReread,
              Answer
<1>2. ASSUME NEW w \in Workers, WorkerStep(w) PROVE pc'[r] = pc[r]
  BY <1>2 DEF WorkerStep, ClaimNext, NoteForJob, EmbedSucceeds, EmbedFails, Publish,
              FailFlush, Commit
<1>3. ASSUME NEW p \in Procs, Crash(p) \/ DeadlockVictim(p)
      PROVE  pc'[r] \in {pc[r], "error"}
  BY <1>3 DEF Crash, DeadlockVictim, Rollback
<1>. QED
  BY <1>1, <1>2, <1>3 DEF Next

\* A save is accepted by its commit.
LEMMA AcceptedSave ==
    ASSUME IndInv, Next, NEW r \in Requests, pc[r] = "purging", pc'[r] = "ok"
    PROVE  SaveFlush(r) /\ Exists(req[r].note)
<1>1. SaveFlush(r)
  BY OwnSteps
     DEF ClientStarts, HandlerStep, CreateNote, ClientGet, DeleteNote, RetryGet,
         UpdateGet, SaveSelect, SaveScan, SavePurge, CascadeRow, DeleteCommit,
         RetrySelectNote, RetrySelectJob, RetryFlush, RetryReread, AtRest, Answers
<1>2. ~Answer(r, "error")
  BY DEF Answer, IndInv, TypeOK, Procs
<1>. QED
  BY <1>1, <1>2 DEF SaveFlush

\* What a PATCH replaces is the text that its client saw: the promise that
\* openapi.yaml makes of If-Match is broken by overlapping saves only.
THEOREM SavesSeeWhatTheyReplace == Spec /\ []SavesApart => NoLostUpdate
<1>. DEFINE Sees == \A r \in Requests : (pc[r] = "purging" /\ pc'[r] = "ok")
                       => notes[req[r].note].text = req[r].seen
<1>1. IndInv /\ SteadyInv /\ [Next]_vars => [Sees]_vars
  <2>. SUFFICES ASSUME IndInv, SteadyInv, Next,
                       NEW r \in Requests, pc[r] = "purging", pc'[r] = "ok"
                PROVE  notes[req[r].note].text = req[r].seen
    OBVIOUS
  <2>1. Exists(req[r].note)
    BY AcceptedSave
  <2>. QED
    BY <2>1 DEF SteadyInv, RequestsSteady, MaySave, Exists
<1>. QED
  BY <1>1, Invariance, SteadyInvariance, PTL DEF Spec, NoLostUpdate

\* An accepted retry leaves a job of the present version that some worker will
\* take: what openapi.yaml says of the retry, too, is broken by overlapping
\* saves only.
THEOREM RetriesLeaveWork == Spec /\ []SavesApart => RetryReturnsToPending
<1>. DEFINE Left == \A r \in Requests :
                       (pc[r] = "resetting" /\ pc'[r] = "rereading")
                          => \E job \in jobs' :
                                /\ job.note = req[r].note
                                /\ job.version = notes'[req[r].note].version
                                /\ Claimable(job)
<1>1. IndInv /\ SteadyInv /\ [Next]_vars => [Left]_vars
  <2>. SUFFICES ASSUME IndInv, SteadyInv, Next,
                       NEW r \in Requests, pc[r] = "resetting", pc'[r] = "rereading"
                PROVE  \E job \in jobs' : /\ job.note = req[r].note
                                          /\ job.version = notes'[req[r].note].version
                                          /\ Claimable(job)
    OBVIOUS
  <2>1. RetryFlush(r)
    BY OwnSteps
       DEF ClientStarts, HandlerStep, CreateNote, ClientGet, DeleteNote, RetryGet,
           UpdateGet, SaveSelect, SaveScan, SavePurge, CascadeRow, SaveFlush,
           DeleteCommit, RetrySelectNote, RetrySelectJob, RetryReread, AtRest, Answers
  <2>2. PICK j \in jobs : /\ j.note = req[r].note /\ j.note \in Notes
                          /\ held[r] = {j.id} /\ Matches(j) /\ j \in Job
    BY RetriedJob
  <2>3. Reset(j) \in jobs' /\ notes'[j.note].version = notes[j.note].version
    BY <2>1, <2>2 DEF RetryFlush, IndInv, TypeOK, Note
  <2>4. /\ Reset(j).note = j.note /\ Reset(j).version = j.version
        /\ Claimable(Reset(j))
    BY <2>2, ResetType DEF Claimable
  <2>. QED
    BY <2>2, <2>3, <2>4 DEF Matches
<1>. QED
  BY <1>1, Invariance, SteadyInvariance, PTL DEF Spec, RetryReturnsToPending

-----------------------------------------------------------------------------
(* One tab has no two saves to overlap.                                      *)

\* With one browser tab, whatever the workers do and however often they crash,
\* all of this holds without a condition.
THEOREM OneTab ==
    ASSUME \A q, r \in Requests : q = r
    PROVE  Spec => /\ [](CompletedIsSearchable /\ FailedIsRetryable /\ JobVersions)
                   /\ NoLostUpdate /\ RetryReturnsToPending
<1>1. SavesApart
  BY DEF SavesApart, SavesOf
<1>. QED
  BY <1>1, CompletedSearchable, FailedRetryable, OutstandingIsCurrent,
     SavesSeeWhatTheyReplace, RetriesLeaveWork, PTL

-----------------------------------------------------------------------------
(* Waits for row locks.                                                      *)

\* Nothing is locked at first.
LEMMA InitHeld == Init => HeldRows
BY DEF Init, HeldRows, Procs

\* What HeldRows asks of one process.
LEMMA ByProcs ==
    ASSUME \A p \in Procs : /\ held'[p] \subseteq Ids(jobs')
                            /\ p \in Requests =>
                                 /\ pc'[p] = "cascading" => req'[p].todo \subseteq Ids(jobs')
                                 /\ pc'[p] = "resetting" =>
                                       \A j \in jobs' : j.id \in held'[p] => j.note = req'[p].note
    PROVE  HeldRows'
BY DEF HeldRows, Procs, Ids

\* A process that changes no job may lock rows that are there.
LEMMA LocksHeld ==
    ASSUME IndInv, HeldRows, NEW p \in Procs, jobs' = jobs,
           \A q \in Procs \ {p} : /\ held'[q] = held[q] /\ pc'[q] = pc[q]
                                  /\ q \in Requests => req'[q] = req[q],
           held'[p] \subseteq Ids(jobs),
           p \in Requests => /\ pc'[p] = "cascading" => req'[p].todo \subseteq Ids(jobs)
                             /\ pc'[p] = "resetting" =>
                                   \A j \in jobs : j.id \in held'[p] => j.note = req'[p].note
    PROVE  HeldRows'
<1>1. ASSUME NEW q \in Procs \ {p}
      PROVE  /\ held'[q] \subseteq Ids(jobs')
             /\ q \in Requests =>
                  /\ pc'[q] = "cascading" => req'[q].todo \subseteq Ids(jobs')
                  /\ pc'[q] = "resetting" =>
                        \A j \in jobs' : j.id \in held'[q] => j.note = req'[q].note
  BY <1>1 DEF HeldRows, Procs, Ids
<1>. QED
  BY <1>1, ByProcs DEF Ids

\* A process that commits releases its rows, and may have deleted those alone;
\* every other row keeps its id and its note.
LEMMA CommitHeld ==
    ASSUME IndInv, HeldRows, NEW p \in Procs,
           \A q \in Procs \ {p} : /\ held'[q] = held[q] /\ pc'[q] = pc[q]
                                  /\ q \in Requests => req'[q] = req[q],
           held'[p] = {}, pc'[p] \notin {"cascading", "resetting"},
           Ids(jobs) \subseteq Ids(jobs') \cup held[p],
           \A k \in jobs' : k.id \in Ids(jobs)
              => \E j \in jobs : j.id = k.id /\ j.note = k.note,
           \/ Ids(jobs) \subseteq Ids(jobs')
           \/ \A q \in Requests \ {p} : pc[q] = "cascading" => req[q].todo \cap held[p] = {}
    PROVE  HeldRows'
<1>1. ASSUME NEW q \in Procs \ {p}
      PROVE  /\ held'[q] \subseteq Ids(jobs')
             /\ q \in Requests =>
                  /\ pc'[q] = "cascading" => req'[q].todo \subseteq Ids(jobs')
                  /\ pc'[q] = "resetting" =>
                        \A j \in jobs' : j.id \in held'[q] => j.note = req'[q].note
  <2>1. held[q] \subseteq Ids(jobs) /\ held[q] \cap held[p] = {}
    BY <1>1 DEF HeldRows, IndInv, Locks
  <2>2. held'[q] \subseteq Ids(jobs')
    BY <1>1, <2>1
  <2>3. ASSUME q \in Requests, pc'[q] = "cascading"
        PROVE  req'[q].todo \subseteq Ids(jobs')
    <3>1. req[q].todo \subseteq Ids(jobs) /\ req'[q] = req[q] /\ pc[q] = "cascading"
      BY <1>1, <2>3 DEF HeldRows
    <3>. QED
      BY <1>1, <2>3, <3>1
  <2>4. ASSUME q \in Requests, pc'[q] = "resetting", NEW k \in jobs', k.id \in held'[q]
        PROVE  k.note = req'[q].note
    <3>1. k.id \in held[q] /\ req'[q] = req[q] /\ pc[q] = "resetting"
      BY <1>1, <2>4
    <3>2. PICK j \in jobs : j.id = k.id /\ j.note = k.note
      BY <2>1, <3>1
    <3>. QED
      BY <2>4, <3>1, <3>2 DEF HeldRows
  <2>. QED
    BY <2>2, <2>3, <2>4
<1>2. \A q \in Procs :
         /\ held'[q] \subseteq Ids(jobs')
         /\ q \in Requests =>
              /\ pc'[q] = "cascading" => req'[q].todo \subseteq Ids(jobs')
              /\ pc'[q] = "resetting" =>
                    \A j \in jobs' : j.id \in held'[q] => j.note = req'[q].note
  BY <1>1
<1>. QED
  BY <1>2, ByProcs

\* A handler that ends without having written anything.
LEMMA AnswerHeld ==
    ASSUME IndInv, HeldRows, NEW r \in Requests, NEW a \in Answers, Answer(r, a),
           jobs' = jobs
    PROVE  HeldRows'
<1>1. /\ r \in Procs /\ held'[r] = {} /\ pc'[r] \notin {"cascading", "resetting"}
      /\ \A q \in Procs \ {r} : /\ held'[q] = held[q] /\ pc'[q] = pc[q]
                                /\ q \in Requests => req'[q] = req[q]
  BY DEF IndInv, TypeOK, Answer, Answers, Procs
<1>. QED
  BY <1>1, LocksHeld

\* The steps of a handler that write no job.
LEMMA ReadsHeld ==
    ASSUME IndInv, HeldRows, NEW r \in Requests,
           \/ \E n \in Notes : ClientGet(r, n) \/ DeleteNote(r, n) \/ RetryGet(r, n)
           \/ UpdateGet(r) \/ SaveSelect(r) \/ SaveScan(r)
           \/ \E id \in req[r].todo : SavePurge(r, id) \/ CascadeRow(r, id)
           \/ RetrySelectNote(r) \/ RetrySelectJob(r) \/ RetryReread(r)
    PROVE  HeldRows'
<1>. USE DEF IndInv, TypeOK, Procs
<1>0. /\ jobs' = jobs /\ r \in Procs /\ req[r] \in RequestRecord
      /\ held[r] \subseteq Ids(jobs)
  BY DEF ClientGet, DeleteNote, RetryGet, UpdateGet, SaveSelect, SaveScan, SavePurge,
         CascadeRow, RetrySelectNote, RetrySelectJob, RetryReread, Tables, HeldRows
<1>1. CASE \E a \in Answers : Answer(r, a)
  BY <1>0, <1>1, AnswerHeld
<1>2. ASSUME ~\E a \in Answers : Answer(r, a)
      PROVE  \A q \in Procs \ {r} : /\ held'[q] = held[q] /\ pc'[q] = pc[q]
                                    /\ q \in Requests => req'[q] = req[q]
  BY <1>2 DEF ClientGet, DeleteNote, RetryGet, UpdateGet, SaveSelect, SaveScan,
         SavePurge, CascadeRow, RetrySelectNote, RetrySelectJob, RetryReread, Answers
<1>3. CASE /\ ~\E a \in Answers : Answer(r, a)
           /\ \/ \E n \in Notes : ClientGet(r, n) \/ RetryGet(r, n)
              \/ UpdateGet(r) \/ SaveSelect(r) \/ SaveScan(r)
              \/ RetrySelectNote(r) \/ RetryReread(r)
  <2>1. held'[r] = held[r] /\ pc'[r] \notin {"cascading", "resetting"}
    BY <1>3 DEF ClientGet, RetryGet, UpdateGet, SaveSelect, SaveScan, RetrySelectNote,
           RetryReread, Answers
  <2>. QED
    BY <1>0, <1>2, <1>3, <2>1, LocksHeld
<1>4. CASE /\ ~\E a \in Answers : Answer(r, a)
           /\ \E n \in Notes : DeleteNote(r, n)
  <2>1. PICK n \in Notes : /\ req' = [req EXCEPT ![r] = [NoRequest EXCEPT !.note = n,
                                                             !.todo = Ids(JobsOf(n))]]
                           /\ pc' = [pc EXCEPT ![r] = "cascading"]
                           /\ held' = held
    BY <1>4 DEF DeleteNote, Answers
  <2>2. req'[r].todo = Ids(JobsOf(n))
    BY <2>1 DEF NoRequest
  <2>3. /\ held'[r] = held[r] /\ pc'[r] = "cascading"
        /\ req'[r].todo \subseteq Ids(jobs)
    BY <2>1, <2>2 DEF JobsOf, Ids
  <2>. QED
    BY <1>0, <1>2, <1>4, <2>3, LocksHeld
<1>5. CASE /\ ~\E a \in Answers : Answer(r, a)
           /\ \E id \in req[r].todo : SavePurge(r, id)
  <2>1. held'[r] \subseteq Ids(jobs) /\ pc'[r] = "purging"
    BY <1>0, <1>5 DEF SavePurge, Ids
  <2>. QED
    BY <1>0, <1>2, <1>5, <2>1, LocksHeld
<1>6. CASE /\ ~\E a \in Answers : Answer(r, a)
           /\ \E id \in req[r].todo : CascadeRow(r, id)
  <2>1. req[r].todo \subseteq Ids(jobs) /\ pc'[r] = "cascading"
    BY <1>6 DEF CascadeRow, HeldRows
  <2>2. held'[r] \subseteq held[r] \cup req[r].todo /\ req'[r].todo \subseteq req[r].todo
    BY <1>0, <1>6 DEF CascadeRow, RequestRecord
  <2>. QED
    BY <1>0, <1>2, <1>6, <2>1, <2>2, LocksHeld
<1>7. CASE ~(\E a \in Answers : Answer(r, a)) /\ RetrySelectJob(r)
  <2>1. /\ held'[r] = Ids(FailedJobs(req[r].note, req[r].version))
        /\ pc'[r] = "resetting" /\ req'[r] = req[r]
    BY <1>7 DEF RetrySelectJob, Answers
  <2>2. held'[r] \subseteq Ids(jobs)
    BY <2>1 DEF FailedJobs, JobsFor, JobsOf, Ids
  <2>3. \A j \in jobs : j.id \in held'[r] => j.note = req'[r].note
    <3>. SUFFICES ASSUME NEW j \in jobs, j.id \in held'[r] PROVE j.note = req[r].note
      BY <2>1
    <3>1. PICK k \in jobs : k.note = req[r].note /\ k.id = j.id
      BY <2>1 DEF FailedJobs, JobsFor, JobsOf, Ids
    <3>. QED
      BY <3>1 DEF JobRows
  <2>. QED
    BY <1>0, <1>2, <1>7, <2>1, <2>2, <2>3, LocksHeld
<1>. QED
  BY <1>1, <1>3, <1>4, <1>5, <1>6, <1>7

\* A handler that holds a job of a note keeps it from a deletion of that note, and
\* the deletion of another note does not want it.
LEMMA OtherCascade ==
    ASSUME IndInv, HeldRows, NEW r \in Requests, NEW q \in Requests \ {r},
           pc[r] \in {"purging", "cascading"}, pc[q] = "cascading",
           req[q].note # req[r].note
    PROVE  req[q].todo \cap held[r] = {}
<1>. SUFFICES ASSUME NEW id, id \in req[q].todo, id \in held[r] PROVE FALSE
  OBVIOUS
<1>1. PICK j \in jobs : j.id = id
  BY DEF HeldRows, Procs, Ids
<1>2. j.note = req[r].note
  BY <1>1 DEF IndInv, RequestHolds, MayHold
<1>3. j.note = req[q].note
  BY <1>1 DEF IndInv, RequestHolds, MayHold
<1>. QED
  BY <1>2, <1>3

\* The steps of a handler that write jobs.
LEMMA WritesHeld ==
    ASSUME IndInv, HeldRows, NEW r \in Requests,
           \/ \E n \in Notes : CreateNote(r, n)
           \/ SaveFlush(r) \/ DeleteCommit(r) \/ RetryFlush(r)
    PROVE  HeldRows'
<1>1. /\ r \in Procs /\ texts \in Nat /\ jobs \subseteq Job
      /\ \A j \in jobs : j.id \in 1 .. texts
  BY DEF Procs, IndInv, TypeOK, JobRows
<1>2. ASSUME NEW a \in Answers, Answer(r, a)
      PROVE  /\ held'[r] = {} /\ pc'[r] \notin {"cascading", "resetting"}
             /\ \A q \in Procs \ {r} : /\ held'[q] = held[q] /\ pc'[q] = pc[q]
                                       /\ q \in Requests => req'[q] = req[q]
  BY <1>2 DEF IndInv, TypeOK, Answer, Answers, Procs
<1>3. texts + 1 \notin Ids(jobs)
  BY <1>1 DEF Ids
<1>4. ASSUME NEW n \in Notes, CreateNote(r, n) PROVE HeldRows'
  <2>1. jobs' = jobs \cup {PendingJob(texts + 1, n, 1)} /\ Answer(r, "ok")
    BY <1>4 DEF CreateNote
  <2>2. Ids(jobs) \subseteq Ids(jobs')
    BY <2>1 DEF Ids
  <2>3. \A k \in jobs' : k.id \in Ids(jobs) => k \in jobs
    BY <1>3, <2>1 DEF PendingJob
  <2>. QED
    BY <1>1, <1>2, <2>1, <2>2, <2>3, CommitHeld DEF Answers
<1>5. ASSUME SaveFlush(r) PROVE HeldRows'
  <2>1. CASE Answer(r, "error") /\ UNCHANGED Tables
    BY <2>1, AnswerHeld DEF Answers, Tables
  <2>2. CASE ~(Answer(r, "error") /\ UNCHANGED Tables)
    <3> DEFINE n == req[r].note
               job == PendingJob(texts + 1, n, req[r].version + 1)
    <3>1. /\ jobs' = {j \in jobs : j.id \notin held[r]} \cup {job}
          /\ Answer(r, "ok") /\ ~NoteLocked(n) /\ pc[r] = "purging"
      BY <1>5, <2>2 DEF SaveFlush
    <3>2. job.id = texts + 1
      BY DEF PendingJob
    <3> HIDE DEF job
    <3>3. Ids(jobs) \subseteq Ids(jobs') \cup held[r]
      BY <3>1 DEF Ids
    <3>4. \A k \in jobs' : k.id \in Ids(jobs) => k \in jobs
      BY <1>3, <3>1, <3>2
    <3>5. \A q \in Requests \ {r} : pc[q] = "cascading" => req[q].todo \cap held[r] = {}
      BY <3>1, OtherCascade DEF NoteLocked, NoteLockedBy
    <3>. QED
      BY <1>1, <1>2, <3>1, <3>3, <3>4, <3>5, CommitHeld DEF Answers
  <2>. QED
    BY <2>1, <2>2
<1>6. ASSUME DeleteCommit(r) PROVE HeldRows'
  <2>1. /\ jobs' = {j \in jobs : j.id \notin held[r]}
        /\ Answer(r, "ok") /\ pc[r] = "cascading"
    BY <1>6 DEF DeleteCommit
  <2>2. Ids(jobs) \subseteq Ids(jobs') \cup held[r] /\ jobs' \subseteq jobs
    BY <2>1 DEF Ids
  <2>3. \A q \in Requests \ {r} : pc[q] = "cascading" => req[q].todo \cap held[r] = {}
    BY <2>1, OtherCascade DEF IndInv, OneDelete
  <2>. QED
    BY <1>1, <1>2, <2>1, <2>2, <2>3, CommitHeld DEF Answers
<1>7. ASSUME RetryFlush(r) PROVE HeldRows'
  <2>1. /\ jobs' = {IF j.id \in held[r] THEN Reset(j) ELSE j : j \in jobs}
        /\ held'[r] = {} /\ pc'[r] = "rereading"
        /\ \A q \in Procs \ {r} : /\ held'[q] = held[q] /\ pc'[q] = pc[q]
                                  /\ q \in Requests => req'[q] = req[q]
    BY <1>7 DEF RetryFlush, IndInv, TypeOK, Procs
  <2>2. \A j \in jobs : Reset(j).id = j.id /\ Reset(j).note = j.note
    BY <1>1 DEF Reset, Job
  <2>3. \A k \in jobs' : \E j \in jobs : j.id = k.id /\ j.note = k.note
    BY <2>1, <2>2
  <2>4. Ids(jobs) \subseteq Ids(jobs')
    <3>. SUFFICES ASSUME NEW j \in jobs PROVE \E k \in jobs' : k.id = j.id
      BY DEF Ids
    <3>. DEFINE k == IF j.id \in held[r] THEN Reset(j) ELSE j
    <3>1. k \in jobs' /\ k.id = j.id
      BY <2>1, <2>2
    <3>. QED
      BY <3>1
  <2>. QED
    BY <1>1, <2>1, <2>3, <2>4, CommitHeld
<1>. QED
  BY <1>4, <1>5, <1>6, <1>7

\* The steps of a worker, and what breaks a transaction off.
LEMMA WorkerHeld ==
    ASSUME IndInv, HeldRows, NEW w \in Workers, WorkerStep(w)
    PROVE  HeldRows'
<1>. USE ProcsAssumption
<1>1. /\ w \in Procs /\ w \notin Requests /\ held[w] \subseteq Ids(jobs)
      /\ jobs \subseteq Job
  BY DEF Procs, IndInv, TypeOK, HeldRows
<1>2. ASSUME NEW step, pc' = [pc EXCEPT ![w] = step], UNCHANGED <<jobs, req>>,
             NEW rows \in SUBSET Ids(jobs), held' = [held EXCEPT ![w] = rows]
      PROVE  HeldRows'
  <2>1. held'[w] = rows /\ \A q \in Procs \ {w} : held'[q] = held[q] /\ pc'[q] = pc[q]
    BY <1>1, <1>2 DEF IndInv, TypeOK
  <2>. QED
    BY <1>1, <1>2, <2>1, LocksHeld
<1>3. held = [held EXCEPT ![w] = held[w]]
  BY <1>1, Unchanged
<1>4. ASSUME NEW id \in Ids(jobs), ClaimNext(w, id) PROVE HeldRows'
  <2>1. /\ pc' = [pc EXCEPT ![w] = "claimed"] /\ held' = [held EXCEPT ![w] = {id}]
        /\ jobs' = jobs /\ req' = req
    BY <1>4 DEF ClaimNext, Tables
  <2>2. {id} \in SUBSET Ids(jobs)
    BY <1>4
  <2>. QED
    BY <1>2, <2>1, <2>2
<1>5. ASSUME NEW job, pc[w] # "idle", Commit(w, job), req' = req,
             job.id = work[w].job.id, job.note = work[w].job.note
      PROVE  HeldRows'
  <2>1. /\ jobs' = {j \in jobs : j.id # job.id} \cup {job}
        /\ held'[w] = {} /\ pc'[w] = "idle"
        /\ \A q \in Procs \ {w} : held'[q] = held[q] /\ pc'[q] = pc[q]
    BY <1>1, <1>5 DEF Commit, Replaced, IndInv, TypeOK
  <2>2. PICK j \in jobs : j.id = job.id /\ j.note = job.note
    BY <1>5, WorkerFacts DEF MayWork
  <2>3. Ids(jobs) \subseteq Ids(jobs')
    BY <2>1 DEF Ids
  <2>4. \A k \in jobs' : \E i \in jobs : i.id = k.id /\ i.note = k.note
    BY <2>1, <2>2
  <2>. QED
    BY <1>1, <1>5, <2>1, <2>3, <2>4, CommitHeld
<1>6. ASSUME pc[w] # "idle"
      PROVE  /\ work[w].job \in Job
             /\ FailTransient(work[w].job).id = work[w].job.id
             /\ FailTransient(work[w].job).note = work[w].job.note
             /\ Complete(work[w].job).id = work[w].job.id
             /\ Complete(work[w].job).note = work[w].job.note
  <2>1. work[w].job \in Job
    BY <1>6, WorkerFacts DEF MayWork
  <2>. QED
    BY <2>1 DEF FailTransient, Complete, Job
<1>7. CASE NoteForJob(w)
  BY <1>2, <1>3, <1>1, <1>5, <1>7 DEF NoteForJob
<1>8. CASE EmbedSucceeds(w)
  BY <1>1, <1>2, <1>3, <1>8 DEF EmbedSucceeds, Tables
<1>9. CASE EmbedFails(w)
  BY <1>1, <1>2, <1>3, <1>5, <1>6, <1>9 DEF EmbedFails
<1>10. CASE Publish(w)
  BY <1>5, <1>6, <1>10 DEF Publish
<1>11. CASE FailFlush(w)
  BY <1>5, <1>6, <1>11 DEF FailFlush
<1>. QED
  BY <1>4, <1>7, <1>8, <1>9, <1>10, <1>11 DEF WorkerStep

\* A transaction that is broken off releases its rows.
LEMMA RollbackHeld ==
    ASSUME IndInv, HeldRows, NEW p \in Procs, Rollback(p)
    PROVE  HeldRows'
<1>1. /\ jobs' = jobs /\ held'[p] = {} /\ pc'[p] \notin {"cascading", "resetting"}
      /\ \A q \in Procs \ {p} : /\ held'[q] = held[q] /\ pc'[q] = pc[q]
                                /\ q \in Requests => req'[q] = req[q]
  BY DEF Rollback, Tables, IndInv, TypeOK, Procs
<1>. QED
  BY <1>1, LocksHeld

\* A locked row is there, and of the note of whoever locked it.
THEOREM LockedRowsStay == Spec => []HeldRows
<1>1. IndInv /\ HeldRows /\ [Next]_vars => HeldRows'
  <2>. SUFFICES ASSUME IndInv, HeldRows, [Next]_vars PROVE HeldRows'
    OBVIOUS
  <2>1. ASSUME NEW r \in Requests, ClientStarts(r) \/ HandlerStep(r) PROVE HeldRows'
    BY <2>1, ReadsHeld, WritesHeld DEF ClientStarts, HandlerStep
  <2>2. ASSUME NEW w \in Workers, WorkerStep(w) PROVE HeldRows'
    BY <2>2, WorkerHeld
  <2>3. ASSUME NEW p \in Procs, Crash(p) \/ DeadlockVictim(p) PROVE HeldRows'
    BY <2>3, RollbackHeld DEF Crash, DeadlockVictim
  <2>4. CASE UNCHANGED vars
    BY <2>4 DEF vars, HeldRows, Ids
  <2>. QED
    BY <2>1, <2>2, <2>3, <2>4 DEF Next
<1>. QED
  BY <1>1, InitHeld, Invariance, PTL DEF Spec

\* Whoever holds the row of a job is about the note of that job.
LEMMA HolderNote ==
    ASSUME IndInv, HeldRows, NEW q \in Procs, NEW j \in jobs, j.id \in held[q]
    PROVE  j.note = NoteOf(q)
<1>1. CASE q \in Requests
  <2>1. pc[q] \in {"purging", "cascading", "resetting"}
    BY <1>1 DEF IndInv, RequestHolds, MayHold
  <2>. QED
    BY <1>1, <2>1 DEF IndInv, RequestHolds, MayHold, HeldRows, NoteOf
<1>2. CASE q \in Workers
  <2>1. /\ held[q] = {work[q].job.id}
        /\ \E k \in jobs : k.id = work[q].job.id /\ k.note = work[q].job.note
    BY <1>2 DEF IndInv, WorkerHolds, MayWork
  <2>. QED
    BY <1>2, <2>1, ProcsAssumption DEF IndInv, JobRows, NoteOf
<1>. QED
  BY <1>1, <1>2 DEF Procs

\* A transaction waits only for one that is about the same note.
LEMMA WaitNote ==
    ASSUME IndInv, HeldRows, NEW p \in Procs, NEW q \in Procs, WaitsFor(p, q)
    PROVE  NoteOf(p) = NoteOf(q)
<1>1. CASE /\ p \in Requests /\ pc[p] \in {"purging", "cascading"}
           /\ req[p].todo \cap held[q] # {}
  <2>1. PICK id \in req[p].todo : id \in held[q]
    BY <1>1
  <2>2. PICK j \in jobs : j.id = id
    BY <2>1 DEF HeldRows, Ids
  <2>3. j.note = req[p].note
    BY <1>1, <2>1, <2>2 DEF IndInv, RequestHolds, MayHold
  <2>. QED
    BY <1>1, <2>1, <2>2, <2>3, HolderNote DEF NoteOf
<1>2. CASE p \in Requests /\ RewritesJobOf(q, req[p].note, req[p].version + 1)
  <2>1. PICK j \in jobs : j.note = req[p].note /\ j.id \in held[q]
    BY <1>2 DEF RewritesJobOf, JobsFor, JobsOf, Ids
  <2>. QED
    BY <1>2, <2>1, HolderNote DEF NoteOf
<1>3. CASE p \in Requests /\ NoteLockedBy(req[p].note, q)
  BY <1>3 DEF NoteLockedBy, NoteOf
<1>4. CASE p \in Workers /\ NoteLockedBy(work[p].job.note, q)
  BY <1>4, ProcsAssumption DEF NoteLockedBy, NoteOf
<1>. QED
  BY <1>1, <1>2, <1>3, <1>4 DEF WaitsFor

\* Notes do not keep each other waiting: whatever is locked for one note is never
\* waited for by a handler or a worker of another.
THEOREM WaitsStayInANote == Spec => []WaitsInANote
<1>1. IndInv /\ HeldRows => WaitsInANote
  BY WaitNote DEF WaitsInANote
<1>. QED
  BY <1>1, Invariance, LockedRowsStay, PTL

\* A worker and a retry wait for nobody but a deletion of their note.
LEMMA WaitsForDelete ==
    ASSUME NEW p \in Procs, NEW q \in Procs, WaitsFor(p, q),
           p \in Workers \/ pc[p] = "resetting"
    PROVE  q \in Requests /\ pc[q] = "cascading"
BY ProcsAssumption DEF WaitsFor, NoteLockedBy

\* A save waits for nobody but a worker, a retry, a deletion or another save.
LEMMA SaveWaits ==
    ASSUME IndInv, NEW p \in Procs, NEW q \in Procs, WaitsFor(p, q)
    PROVE  q \in Workers \/ pc[q] \in {"purging", "cascading", "resetting"}
<1>1. CASE held[q] # {}
  BY <1>1 DEF IndInv, RequestHolds, MayHold, Procs
<1>2. CASE held[q] = {}
  BY <1>2 DEF WaitsFor, RewritesJobOf, NoteLockedBy
<1>. QED
  BY <1>1, <1>2

\* A deadlock takes a deletion of the note it is about, or two saves of it that
\* overlap: workers, retries and saves one after the other cannot bring it about.
THEOREM DeadlocksNeedDeletes == Spec => []DeadlocksTakeADelete
<1>1. IndInv /\ HeldRows => DeadlocksTakeADelete
  <2>. SUFFICES ASSUME IndInv, HeldRows, SavesApart, NEW p \in Procs, Deadlocked(p)
                PROVE  \E r \in Requests : pc[r] = "cascading" /\ req[r].note = NoteOf(p)
    BY DEF DeadlocksTakeADelete
  <2>1. PICK cycle \in SUBSET Procs :
           p \in cycle /\ \A q \in cycle : \E s \in cycle : WaitsFor(q, s)
    BY DEF Deadlocked
  <2>2. ASSUME NEW q \in cycle, q \in Requests, pc[q] = "cascading", NoteOf(q) = NoteOf(p)
        PROVE  \E r \in Requests : pc[r] = "cascading" /\ req[r].note = NoteOf(p)
    BY <2>2 DEF NoteOf
  <2>3. ASSUME NEW q \in cycle, q \in Workers \/ pc[q] = "resetting", NoteOf(q) = NoteOf(p)
        PROVE  \E r \in Requests : pc[r] = "cascading" /\ req[r].note = NoteOf(p)
    <3>1. PICK s \in cycle : WaitsFor(q, s)
      BY <2>1
    <3>2. s \in Requests /\ pc[s] = "cascading" /\ NoteOf(q) = NoteOf(s)
      BY <2>1, <2>3, <3>1, WaitsForDelete, WaitNote
    <3>. QED
      BY <2>2, <2>3, <3>2
  <2>4. PICK s \in cycle : WaitsFor(p, s)
    BY <2>1
  <2>5. /\ NoteOf(s) = NoteOf(p) /\ p # s
        /\ s \in Workers \/ pc[s] \in {"purging", "cascading", "resetting"}
    BY <2>1, <2>4, WaitNote, SaveWaits DEF WaitsFor
  <2>6. CASE s \in Workers \/ pc[s] = "resetting"
    BY <2>3, <2>5, <2>6
  <2>7. CASE s \in Requests /\ pc[s] = "cascading"
    BY <2>2, <2>5, <2>7
  <2>8. CASE s \in Requests /\ pc[s] = "purging"
    <3>1. CASE p \in Requests /\ pc[p] = "purging"
      <4>1. p \in SavesOf(req[p].note) /\ s \in SavesOf(req[p].note)
        BY <2>5, <2>8, <3>1 DEF SavesOf, NoteOf
      <4>2. req[p].note \in Notes
        BY <3>1 DEF IndInv, RequestHolds, MayHold, Answers
      <4>. QED
        BY <2>5, <4>1, <4>2 DEF SavesApart
    <3>2. CASE p \in Workers \/ pc[p] = "resetting"
      BY <2>1, <2>3, <3>2
    <3>3. CASE p \in Requests /\ pc[p] = "cascading"
      BY <2>1, <2>2, <3>3
    <3>. QED
      BY <2>1, <2>4, <3>1, <3>2, <3>3 DEF WaitsFor
  <2>. QED
    BY <2>1, <2>5, <2>6, <2>7, <2>8 DEF Procs
<1>. QED
  BY <1>1, Invariance, LockedRowsStay, PTL
=============================================================================
