---------------------------- MODULE NoteIndexing ----------------------------
(* Notes, their indexing jobs and their searchable chunks, as the HTTP       *)
(* handlers and the index workers change them through PostgreSQL.            *)
(*                                                                           *)
(* A step is one SQL statement that reads shared rows, waits for a row lock  *)
(* or commits.  Transactions run at READ COMMITTED: every statement sees     *)
(* what is committed when it runs, and a row that another transaction has    *)
(* locked is waited for and then read again.  The rows a transaction has     *)
(* changed are invisible to the others until it commits, so `notes', `jobs'  *)
(* and `chunks' hold committed rows, and `held' the job rows a transaction   *)
(* has locked by claiming, deleting or selecting them FOR UPDATE.            *)
(*                                                                           *)
(* A request is one browser tab: it sends one HTTP request at a time.        *)
EXTENDS IndexingDomain, FiniteSets

CONSTANTS NoNote,       \* no note
          Requests,     \* browser tabs
          Workers,      \* index worker processes
          MaxTexts,     \* bound: how many edits are ever committed
          MaxCrashes    \* bound: how many processes ever crash or time out

ASSUME NoNoteAssumption == NoNote \notin Notes
ASSUME ProcsAssumption  == Requests \cap Workers = {}
ASSUME BoundsAssumption == MaxTexts \in Nat /\ MaxCrashes \in Nat

VARIABLES notes,    \* the notes table: [version, text, status] of each note
          jobs,     \* the indexing_jobs table: a set of rows
          chunks,   \* the note_chunks table: the version and text indexed
          texts,    \* how many texts have been committed so far
          pc,       \* where each request and each worker is
          req,      \* what a request's handler has read
          work,     \* what a worker has read
          held,     \* the job rows each open transaction has locked
          crashes   \* how many crashes there were

vars == <<notes, jobs, chunks, texts, pc, req, work, held, crashes>>

Procs == Requests \cup Workers

Answers == {"ok", "not_found", "conflict", "error"}

\* A request is in none of its handlers: the tab may send the next one.
AtRest == Answers \cup {"idle", "viewing"}

RequestSteps == AtRest \cup {"updating", "scanning", "purging", "cascading",
                             "retrying", "locking", "resetting", "rereading"}

WorkerSteps == {"idle", "claimed", "embedding", "publishing", "failing"}

Unwritten == [version |-> 0, text |-> 0, status |-> "unwritten"]
Erased    == [version |-> 0, text |-> 0, status |-> "erased"]
NoChunks  == [version |-> 0, text |-> 0]

NoRequest == [note |-> NoNote, version |-> 0, seen |-> 0,
              loaded |-> "pending", todo |-> {}]
NoWork    == [job |-> [id |-> 0, note |-> NoNote, version |-> 0,
                       status |-> "pending", attempts |-> 0],
              text |-> 0, loaded |-> "pending"]

-----------------------------------------------------------------------------
(* Reading the tables                                                        *)

Exists(n) == notes[n].version > 0

JobsOf(n) == {j \in jobs : j.note = n}

JobsFor(n, version) == {j \in JobsOf(n) : j.version = version}

Ids(rows) == {j.id : j \in rows}

Replaced(job) == {j \in jobs : j.id # job.id} \cup {job}

\* DELETE FROM notes has locked the row and is still cascading.
NoteLockedBy(n, r) == r \in Requests /\ pc[r] = "cascading" /\ req[r].note = n

NoteLocked(n) == \E r \in Requests : NoteLockedBy(n, r)

HeldByOther(p, id) == \E q \in Procs \ {p} : id \in held[q]

\* The ORM writes a column only when its new value differs from the one it
\* loaded: otherwise the row keeps what it holds by then.
OrmSet(current, loaded, new) == IF new = loaded THEN current ELSE new

\* An edit takes the next text when it commits, and reserves it before.
Saving == {r \in Requests : pc[r] \in {"updating", "scanning", "purging"}}
RoomForText == texts + Cardinality(Saving) < MaxTexts

\* A handler ends: its transaction is over and its answer is `answer'.
Answer(r, answer) ==
    /\ pc' = [pc EXCEPT ![r] = answer]
    /\ req' = [req EXCEPT ![r] = NoRequest]
    /\ held' = [held EXCEPT ![r] = {}]

Tables == <<notes, jobs, chunks, texts>>

-----------------------------------------------------------------------------
(* POST /notes: the note and its first job commit together                   *)

CreateNote(r, n) ==
    /\ pc[r] \in AtRest
    /\ notes[n] = Unwritten
    /\ RoomForText
    /\ texts' = texts + 1
    /\ notes' = [notes EXCEPT ![n] = CreatedNote(texts + 1)]
    /\ jobs' = jobs \cup {PendingJob(texts + 1, n, 1)}
    /\ Answer(r, "ok")
    /\ UNCHANGED <<chunks, work, crashes>>

-----------------------------------------------------------------------------
(* GET, then PATCH with the version that GET returned in If-Match            *)

ClientGet(r, n) ==
    /\ pc[r] \in AtRest
    /\ Exists(n)
    /\ pc' = [pc EXCEPT ![r] = "viewing"]
    /\ req' = [req EXCEPT ![r] = [NoRequest EXCEPT !.note = n,
                                     !.version = notes[n].version,
                                     !.seen = notes[n].text]]
    /\ UNCHANGED <<Tables, work, held, crashes>>

\* NoteService.update reads the note in a transaction of its own.
UpdateGet(r) ==
    LET n == req[r].note IN
    /\ pc[r] = "viewing"
    /\ RoomForText
    /\ \/ /\ ~Exists(n)
          /\ Answer(r, "not_found")
       \/ /\ Exists(n) /\ notes[n].version # req[r].version
          /\ Answer(r, "conflict")
       \/ /\ Exists(n) /\ notes[n].version = req[r].version
          /\ pc' = [pc EXCEPT ![r] = "updating"]
          /\ UNCHANGED <<req, held>>
    /\ UNCHANGED <<Tables, work, crashes>>

\* NoteRepository.save looks the expected version up again, without a lock.
SaveSelect(r) ==
    LET n == req[r].note IN
    /\ pc[r] = "updating"
    /\ \/ /\ notes[n].version # req[r].version
          /\ Answer(r, "conflict")
       \/ /\ notes[n].version = req[r].version
          /\ req' = [req EXCEPT ![r].loaded = notes[n].status]
          /\ pc' = [pc EXCEPT ![r] = "scanning"]
          /\ UNCHANGED held
    /\ UNCHANGED <<Tables, work, crashes>>

\* The DELETE of the outstanding jobs picks its rows ...
SaveScan(r) ==
    /\ pc[r] = "scanning"
    /\ req' = [req EXCEPT ![r].todo =
                  Ids({j \in JobsOf(req[r].note) : j.status # "completed"})]
    /\ pc' = [pc EXCEPT ![r] = "purging"]
    /\ UNCHANGED <<Tables, work, held, crashes>>

\* Variant: a row that was waited for is not tested again.
SavePurgeUntested(r, id) ==
    /\ pc[r] = "purging"
    /\ id \in req[r].todo
    /\ ~HeldByOther(r, id)
    /\ req' = [req EXCEPT ![r].todo = @ \ {id}]
    /\ held' = [held EXCEPT ![r] = @ \cup {id}]
    /\ UNCHANGED <<Tables, pc, work, crashes>>

\* ... and locks them one by one, waiting for each and then testing it again.
SavePurge(r, id) ==
    /\ pc[r] = "purging"
    /\ id \in req[r].todo
    /\ ~HeldByOther(r, id)
    /\ req' = [req EXCEPT ![r].todo = @ \ {id}]
    /\ held' = [held EXCEPT ![r] =
                   @ \cup Ids({j \in jobs : j.id = id /\ j.status # "completed"})]
    /\ UNCHANGED <<Tables, pc, work, crashes>>

\* A uniqueness check waits for a transaction that is changing the row it
\* meets; a row that is only selected FOR UPDATE does not make it wait.
RewritesJobOf(q, n, version) ==
    /\ pc[q] # "resetting"
    /\ held[q] \cap Ids(JobsFor(n, version)) # {}

\* The version after the one read has a job, and not one this save deletes.
VersionTaken(r) ==
    ~(Ids(JobsFor(req[r].note, req[r].version + 1)) \subseteq held[r])

\* INSERT of the new job, UPDATE of the note by its id alone, COMMIT.  The
\* insert fails when the version has a job already, and, by the foreign key,
\* when the note is gone.
SaveFlush(r) ==
    LET n == req[r].note
        version == req[r].version
        updated == UpdatedNote(version, texts + 1)
    IN
    /\ pc[r] = "purging"
    /\ req[r].todo = {}
    /\ \A q \in Procs \ {r} : ~RewritesJobOf(q, n, version + 1)
    /\ \/ /\ VersionTaken(r) \/ ~Exists(n)
          /\ Answer(r, "error")
          /\ UNCHANGED Tables
       \/ /\ ~VersionTaken(r) /\ Exists(n) /\ ~NoteLocked(n)
          /\ texts' = texts + 1
          /\ jobs' = {j \in jobs : j.id \notin held[r]}
                        \cup {PendingJob(texts + 1, n, version + 1)}
          /\ notes' = [notes EXCEPT ![n] = [updated EXCEPT !.status =
                          OrmSet(notes[n].status, req[r].loaded, @)]]
          /\ Answer(r, "ok")
          /\ UNCHANGED chunks
    /\ UNCHANGED <<work, crashes>>

-----------------------------------------------------------------------------
(* DELETE /notes/{id}: the note's row first, then its jobs by the cascade    *)

DeleteNote(r, n) ==
    /\ pc[r] \in AtRest
    /\ ~NoteLocked(n)
    /\ \/ /\ ~Exists(n)
          /\ Answer(r, "not_found")
       \/ /\ Exists(n)
          /\ req' = [req EXCEPT ![r] = [NoRequest EXCEPT !.note = n,
                                           !.todo = Ids(JobsOf(n))]]
          /\ pc' = [pc EXCEPT ![r] = "cascading"]
          /\ UNCHANGED held
    /\ UNCHANGED <<Tables, work, crashes>>

CascadeRow(r, id) ==
    /\ pc[r] = "cascading"
    /\ id \in req[r].todo
    /\ ~HeldByOther(r, id)
    /\ req' = [req EXCEPT ![r].todo = @ \ {id}]
    /\ held' = [held EXCEPT ![r] = @ \cup {id}]
    /\ UNCHANGED <<Tables, pc, work, crashes>>

\* Variant: the chunks do not go with the note.
DeleteCommitLeavesChunks(r) ==
    /\ pc[r] = "cascading"
    /\ req[r].todo = {}
    /\ notes' = [notes EXCEPT ![req[r].note] = Erased]
    /\ jobs' = {j \in jobs : j.id \notin held[r]}
    /\ Answer(r, "ok")
    /\ UNCHANGED <<chunks, texts, work, crashes>>

DeleteCommit(r) ==
    /\ pc[r] = "cascading"
    /\ req[r].todo = {}
    /\ notes' = [notes EXCEPT ![req[r].note] = Erased]
    /\ chunks' = [chunks EXCEPT ![req[r].note] = NoChunks]
    /\ jobs' = {j \in jobs : j.id \notin held[r]}
    /\ Answer(r, "ok")
    /\ UNCHANGED <<texts, work, crashes>>

-----------------------------------------------------------------------------
(* POST /notes/{id}/retry-indexing                                           *)

RetryGet(r, n) ==
    /\ pc[r] \in AtRest
    /\ \/ /\ ~Exists(n)
          /\ Answer(r, "not_found")
       \/ /\ Exists(n)
          /\ req' = [req EXCEPT ![r] = [NoRequest EXCEPT !.note = n]]
          /\ pc' = [pc EXCEPT ![r] = "retrying"]
          /\ UNCHANGED held
    /\ UNCHANGED <<Tables, work, crashes>>

\* retry_failed wants the note's status to be failed ...
RetrySelectNote(r) ==
    LET n == req[r].note IN
    /\ pc[r] = "retrying"
    /\ \/ /\ notes[n].status # "failed"
          /\ Answer(r, "conflict")
       \/ /\ notes[n].status = "failed"
          /\ req' = [req EXCEPT ![r].version = notes[n].version]
          /\ pc' = [pc EXCEPT ![r] = "locking"]
          /\ UNCHANGED held
    /\ UNCHANGED <<Tables, work, crashes>>

FailedJobs(n, version) == {j \in JobsFor(n, version) : j.status = "failed"}

\* Variant: a retry that finds no failed job goes on all the same.
RetrySelectJobOptional(r) ==
    LET found == Ids(FailedJobs(req[r].note, req[r].version)) IN
    /\ pc[r] = "locking"
    /\ \A id \in found : ~HeldByOther(r, id)
    /\ held' = [held EXCEPT ![r] = found]
    /\ pc' = [pc EXCEPT ![r] = "resetting"]
    /\ UNCHANGED <<Tables, req, work, crashes>>

\* ... and locks the failed job of the version it read.
RetrySelectJob(r) ==
    LET found == Ids(FailedJobs(req[r].note, req[r].version)) IN
    /\ pc[r] = "locking"
    /\ \A id \in found : ~HeldByOther(r, id)
    /\ \/ /\ found = {}
          /\ Answer(r, "conflict")
       \/ /\ found # {}
          /\ held' = [held EXCEPT ![r] = found]
          /\ pc' = [pc EXCEPT ![r] = "resetting"]
          /\ UNCHANGED req
    /\ UNCHANGED <<Tables, work, crashes>>

\* UPDATE of the job, UPDATE of the note by its id alone, COMMIT.
RetryFlush(r) ==
    LET n == req[r].note IN
    /\ pc[r] = "resetting"
    /\ ~NoteLocked(n)
    /\ jobs' = {IF j.id \in held[r] THEN Reset(j) ELSE j : j \in jobs}
    /\ notes' = [notes EXCEPT ![n].status = "pending"]
    /\ held' = [held EXCEPT ![r] = {}]
    /\ pc' = [pc EXCEPT ![r] = "rereading"]
    /\ UNCHANGED <<chunks, texts, req, work, crashes>>

RetryReread(r) ==
    /\ pc[r] = "rereading"
    /\ Answer(r, IF Exists(req[r].note) THEN "ok" ELSE "not_found")
    /\ UNCHANGED <<Tables, work, crashes>>

-----------------------------------------------------------------------------
(* The index worker: run_once is one transaction, from claim to commit       *)

\* Variant: attempt_count has no CHECK.
ClaimNextUnchecked(w, id) ==
    /\ pc[w] = "idle"
    /\ \A p \in Procs : id \notin held[p]
    /\ \E job \in jobs :
          /\ job.id = id
          /\ Claimable(job)
          /\ work' = [work EXCEPT ![w] = [NoWork EXCEPT !.job = Claim(job)]]
    /\ held' = [held EXCEPT ![w] = {id}]
    /\ pc' = [pc EXCEPT ![w] = "claimed"]
    /\ UNCHANGED <<Tables, req, crashes>>

\* UPDATE ... WHERE id = (SELECT ... FOR UPDATE SKIP LOCKED LIMIT 1).  The
\* CHECK on attempt_count rejects a sixth claim: the statement raises, which
\* ends the process, and nothing is written.
ClaimNext(w, id) ==
    /\ pc[w] = "idle"
    /\ \A p \in Procs : id \notin held[p]
    /\ \E job \in jobs :
          /\ job.id = id
          /\ Claimable(job)
          /\ job.attempts < MaxAttempts
          /\ work' = [work EXCEPT ![w] = [NoWork EXCEPT !.job = Claim(job)]]
    /\ held' = [held EXCEPT ![w] = {id}]
    /\ pc' = [pc EXCEPT ![w] = "claimed"]
    /\ UNCHANGED <<Tables, req, crashes>>

\* The transaction commits and the job row becomes `job'.
Commit(w, job) ==
    /\ jobs' = Replaced(job)
    /\ pc' = [pc EXCEPT ![w] = "idle"]
    /\ work' = [work EXCEPT ![w] = NoWork]
    /\ held' = [held EXCEPT ![w] = {}]

Matches(job) == notes[job.note].version = job.version

\* A missing note or another version: process returns False, and the claim
\* itself is committed.
NoteForJob(w) ==
    LET job == work[w].job IN
    /\ pc[w] = "claimed"
    /\ \/ /\ ~Matches(job)
          /\ Commit(w, job)
       \/ /\ Matches(job)
          /\ work' = [work EXCEPT ![w].text = notes[job.note].text]
          /\ pc' = [pc EXCEPT ![w] = "embedding"]
          /\ UNCHANGED <<jobs, held>>
    /\ UNCHANGED <<notes, chunks, texts, req, crashes>>

\* Ollama has embedded every chunk of the text.
EmbedSucceeds(w) ==
    /\ pc[w] = "embedding"
    /\ pc' = [pc EXCEPT ![w] = "publishing"]
    /\ UNCHANGED <<Tables, req, work, held, crashes>>

\* Variant: the chunks get whatever version the note has by then.
PublishAnyVersion(w) ==
    LET job == work[w].job IN
    /\ pc[w] = "publishing"
    /\ ~NoteLocked(job.note)
    /\ Exists(job.note)
    /\ chunks' = [chunks EXCEPT ![job.note] =
                     [version |-> notes[job.note].version, text |-> work[w].text]]
    /\ notes' = [notes EXCEPT ![job.note].status = "ready"]
    /\ Commit(w, Complete(job))
    /\ UNCHANGED <<texts, req, crashes>>

\* SELECT the note FOR UPDATE, and replace its chunks if the version is still
\* the job's; the status, the chunks and the job commit together.
Publish(w) ==
    LET job == work[w].job IN
    /\ pc[w] = "publishing"
    /\ ~NoteLocked(job.note)
    /\ \/ /\ ~Matches(job)
          /\ Commit(w, job)
          /\ UNCHANGED <<notes, chunks>>
       \/ /\ Matches(job)
          /\ chunks' = [chunks EXCEPT ![job.note] =
                           [version |-> job.version, text |-> work[w].text]]
          /\ notes' = [notes EXCEPT ![job.note].status = "ready"]
          /\ Commit(w, Complete(job))
    /\ UNCHANGED <<texts, req, crashes>>

\* Variant: the worker asks Ollama again and keeps its transaction open.
EmbedFailsInPlace(w) ==
    /\ pc[w] = "embedding"
    /\ pc' = [pc EXCEPT ![w] = "claimed"]
    /\ UNCHANGED <<Tables, req, work, held, crashes>>

\* Ollama has failed.  A transient failure commits at once; a final one reads
\* the note, without a lock, to mark it too.
EmbedFails(w) ==
    LET job == work[w].job
        failed == FailTransient(job)
    IN
    /\ pc[w] = "embedding"
    /\ \/ /\ failed.status # "failed" \/ ~Matches(job)
          /\ Commit(w, failed)
       \/ /\ failed.status = "failed" /\ Matches(job)
          /\ work' = [work EXCEPT ![w].loaded = notes[job.note].status]
          /\ pc' = [pc EXCEPT ![w] = "failing"]
          /\ UNCHANGED <<jobs, held>>
    /\ UNCHANGED <<notes, chunks, texts, req, crashes>>

\* UPDATE of the job, UPDATE of the note by its id alone, COMMIT.
FailFlush(w) ==
    LET job == work[w].job IN
    /\ pc[w] = "failing"
    /\ ~NoteLocked(job.note)
    /\ notes' = [notes EXCEPT ![job.note].status =
                    OrmSet(@, work[w].loaded, "failed")]
    /\ Commit(w, FailTransient(job))
    /\ UNCHANGED <<chunks, texts, req, crashes>>

-----------------------------------------------------------------------------
(* Transactions that do not reach their commit                               *)

Busy(p) == IF p \in Requests THEN pc[p] \notin AtRest ELSE pc[p] # "idle"

\* Nothing the transaction did is visible, and its locks are released.
Rollback(p) ==
    /\ held' = [held EXCEPT ![p] = {}]
    /\ pc' = [pc EXCEPT ![p] = IF p \in Requests THEN "error" ELSE "idle"]
    /\ req' = IF p \in Requests THEN [req EXCEPT ![p] = NoRequest] ELSE req
    /\ work' = IF p \in Workers THEN [work EXCEPT ![p] = NoWork] ELSE work
    /\ UNCHANGED Tables

\* The process stops, its connection is lost, or the caller gives up.
Crash(p) ==
    /\ crashes < MaxCrashes
    /\ Busy(p)
    /\ Rollback(p)
    /\ crashes' = crashes + 1

\* p needs a row that an open transaction of q has locked.
WaitsFor(p, q) ==
    /\ p # q
    /\ \/ /\ p \in Requests /\ pc[p] \in {"purging", "cascading"}
          /\ req[p].todo \cap held[q] # {}
       \/ /\ p \in Requests /\ pc[p] = "purging" /\ req[p].todo = {}
          /\ RewritesJobOf(q, req[p].note, req[p].version + 1)
       \/ /\ p \in Requests
          /\ \/ pc[p] = "purging" /\ req[p].todo = {} /\ ~VersionTaken(p)
             \/ pc[p] = "resetting"
          /\ NoteLockedBy(req[p].note, q)
       \/ /\ p \in Workers /\ pc[p] \in {"publishing", "failing"}
          /\ NoteLockedBy(work[p].job.note, q)

\* PostgreSQL finds a cycle of lock waits and aborts one of its transactions.
Deadlocked(p) ==
    \E cycle \in SUBSET Procs :
        /\ p \in cycle
        /\ \A q \in cycle : /\ \E s \in cycle : WaitsFor(q, s)
                            /\ \E s \in cycle : WaitsFor(s, q)

DeadlockVictim(p) ==
    /\ Busy(p)
    /\ Deadlocked(p)
    /\ Rollback(p)
    /\ UNCHANGED crashes

-----------------------------------------------------------------------------
Init ==
    /\ notes = [n \in Notes |-> Unwritten]
    /\ jobs = {}
    /\ chunks = [n \in Notes |-> NoChunks]
    /\ texts = 0
    /\ pc = [p \in Procs |-> "idle"]
    /\ req = [r \in Requests |-> NoRequest]
    /\ work = [w \in Workers |-> NoWork]
    /\ held = [p \in Procs |-> {}]
    /\ crashes = 0

\* What a client decides to send.
ClientStarts(r) ==
    \/ \E n \in Notes : \/ CreateNote(r, n)
                        \/ ClientGet(r, n)
                        \/ DeleteNote(r, n)
                        \/ RetryGet(r, n)
    \/ UpdateGet(r)

\* What the handler does with it.
HandlerStep(r) ==
    \/ SaveSelect(r)
    \/ SaveScan(r)
    \/ \E id \in req[r].todo : SavePurge(r, id) \/ CascadeRow(r, id)
    \/ SaveFlush(r)
    \/ DeleteCommit(r)
    \/ RetrySelectNote(r)
    \/ RetrySelectJob(r)
    \/ RetryFlush(r)
    \/ RetryReread(r)

WorkerStep(w) ==
    \/ \E id \in Ids(jobs) : ClaimNext(w, id)
    \/ NoteForJob(w)
    \/ EmbedSucceeds(w)
    \/ EmbedFails(w)
    \/ Publish(w)
    \/ FailFlush(w)

Next ==
    \/ \E r \in Requests : ClientStarts(r) \/ HandlerStep(r)
    \/ \E w \in Workers : WorkerStep(w)
    \/ \E p \in Procs : Crash(p) \/ DeadlockVictim(p)

Spec == Init /\ [][Next]_vars

\* A handler and a transaction that can go on do go on; so does a wait for a
\* row lock, which is granted in turn; a deadlock is found; and a worker that
\* polls takes every job that stays due, oldest first.
Fairness ==
    /\ \A r \in Requests : SF_vars(HandlerStep(r))
    /\ \A w \in Workers :
          /\ WF_vars(NoteForJob(w) \/ EmbedSucceeds(w) \/ EmbedFails(w))
          /\ SF_vars(Publish(w) \/ FailFlush(w))
    /\ \A id \in 1 .. MaxTexts : SF_vars(\E w \in Workers : ClaimNext(w, id))
    /\ WF_vars(\E p \in Procs : DeadlockVictim(p))

FairSpec == Spec /\ Fairness

-----------------------------------------------------------------------------
(* Properties                                                                *)

ChunkRecord == [version : Versions, text : Texts]

RequestRecord == [note : Notes \cup {NoNote}, version : Versions, seen : Texts,
                  loaded : NoteStatuses, todo : SUBSET Nat]

WorkRecord == [job : Job \cup {NoWork.job}, text : Texts, loaded : NoteStatuses]

\* The tables and the local variables of the handlers and the workers hold
\* values of their types, and attempt_count never breaks its CHECK constraint.
TypeOK ==
    /\ notes \in [Notes -> Note]
    /\ jobs \in SUBSET Job
    /\ chunks \in [Notes -> ChunkRecord]
    /\ texts \in Nat
    /\ pc \in [Procs -> RequestSteps \cup WorkerSteps]
    /\ \A r \in Requests : pc[r] \in RequestSteps
    /\ \A w \in Workers : pc[w] \in WorkerSteps
    /\ req \in [Requests -> RequestRecord]
    /\ work \in [Workers -> WorkRecord]
    /\ held \in [Procs -> SUBSET Nat]
    /\ crashes \in Nat

\* The chunks that carry the version of their note were cut from the text the
\* note has now (publish replaces the chunks under the version it locked), even
\* when a lost update takes a version number back.
ChunksMatchText ==
    \A n \in Notes : chunks[n].version = notes[n].version
                        => chunks[n].text = notes[n].text

\* The outbox is durable: a note that exists has the job of its version, whatever
\* save, retry, delete or worker ran or was rolled back.
CurrentVersionHasJob ==
    \A n \in Notes : Exists(n) => JobsFor(n, notes[n].version) # {}

\* DELETE removes the note, its chunks and its jobs together: nothing of an
\* erased note is left or comes back from a worker or a save in flight.
NothingLeftBehind ==
    /\ \A job \in jobs : Exists(job.note)
    /\ \A n \in Notes : ~Exists(n) => chunks[n] = NoChunks

\* No version of a note has two jobs, even when a lost update takes a version
\* number back: the insert of save is stopped by uq_jobs_note_version.
OneJobPerVersion ==
    \A j, k \in jobs : (j.note = k.note /\ j.version = k.version) => j = k

\* The job of the current version is completed only if the search finds the
\* note: a note never waits for work that no job asks for any more.
CompletedIsSearchable ==
    \A job \in jobs :
        (job.status = "completed" /\ Matches(job))
            => /\ notes[job.note].status = "ready"
               /\ chunks[job.note].version = job.version

\* The job of the current version has given up only if the note says so: the
\* user is then offered the retry, which is the one way out of a failed job.
FailedIsRetryable ==
    \A job \in jobs :
        (job.status = "failed" /\ Matches(job) /\ \A p \in Procs : job.id \notin held[p])
            => notes[job.note].status = "failed"

\* A completed job is never changed, and goes only with its note: save deletes
\* the outstanding jobs, and tests again those it had to wait for.
CompletedIsFinal ==
    [][\A job \in jobs : job.status = "completed"
          => job \in jobs' \/ notes'[job.note].version = 0]_vars

\* A handler that was entered is left again, with an answer, whatever locks the
\* workers and the other tabs take meanwhile.
EveryRequestIsAnswered ==
    \A r \in Requests : pc[r] \notin AtRest ~> pc[r] \in AtRest

\* A pending note becomes ready or failed, or is erased: it never waits for ever.
IndexingSettles ==
    \A n \in Notes : notes[n].status = "pending" ~> notes[n].status # "pending"

-----------------------------------------------------------------------------
(* What the documents say and the code does not do                           *)

\* openapi.yaml: the version in If-Match prevents lost updates, so the text that
\* a PATCH replaces is the one its client saw.
NoLostUpdate ==
    [][\A r \in Requests : (pc[r] = "purging" /\ pc'[r] = "ok")
          => notes[req[r].note].text = req[r].seen]_vars

\* openapi.yaml: an accepted retry returns the note's preparation to pending, so
\* that there is a job of its version that some worker will take.
RetryReturnsToPending ==
    [][\A r \in Requests :
          (pc[r] = "resetting" /\ pc'[r] = "rereading")
             => \E job \in jobs' : /\ job.note = req[r].note
                                   /\ job.version = notes'[req[r].note].version
                                   /\ Claimable(job)]_vars

-----------------------------------------------------------------------------
(* What retrieval can find: the join of notes and chunks on ready and version *)

\* Variant: the search does not compare the versions.
SearchableByStatus(n) == IF notes[n].status = "ready" THEN chunks[n].text ELSE 0

Searchable(n) ==
    IF notes[n].status = "ready" /\ chunks[n].version = notes[n].version
    THEN chunks[n].text ELSE 0

Abstract == INSTANCE SemanticIndex
    WITH text <- [n \in Notes |-> notes[n].text],
         searchable <- [n \in Notes |-> Searchable(n)],
         last <- texts

\* Every step of the detailed system is a step of the abstract index, or
\* changes nothing there.
ImplementsIndex == Abstract!Spec
=============================================================================
