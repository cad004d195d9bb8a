-------------------------- MODULE NoteIndexingInv ---------------------------
(* The inductive invariants behind the safety properties of NoteIndexing.    *)
EXTENDS NoteIndexing

\* The rows of indexing_jobs: one per id, made for a text already committed,
\* of a note that exists; and the job of a note's version was made for its text.
JobRows ==
    /\ \A j, k \in jobs : j.id = k.id => j = k
    /\ \A j \in jobs : j.id \in 1 .. texts /\ Exists(j.note)
    /\ \A j \in jobs : Matches(j) => j.id = notes[j.note].text

\* The rows of notes: a version and a text come and go together.
NoteRows ==
    \A n \in Notes : /\ notes[n].text <= texts
                     /\ notes[n].version = 0 <=> notes[n].text = 0

\* Chunks are the work of a completed job, which stays as long as they do, and
\* keeps any later save from giving its version to another text.
ChunkRows ==
    \A n \in Notes :
        \/ chunks[n] = NoChunks
        \/ \E j \in jobs : /\ j.note = n /\ j.status = "completed"
                           /\ j.version = chunks[n].version
                           /\ j.id = chunks[n].text

\* A job row is locked by one transaction at a time.
Locks ==
    /\ \A p, q \in Procs : p # q => held[p] \cap held[q] = {}
    /\ \A p \in Procs : held[p] \subseteq 1 .. texts

\* What a worker may hold at a step: the row of the job it claimed, which is
\* still outstanding; and it embeds the text that the job was made for.
MayWork(step, record, rows) ==
    /\ step = "idle" => rows = {}
    /\ step # "idle" =>
          /\ rows = {record.job.id}
          /\ record.job \in Job /\ record.job.status = "processing"
          /\ \E j \in jobs : /\ j.id = record.job.id /\ j.status # "completed"
                             /\ j.note = record.job.note
                             /\ j.version = record.job.version
          /\ step # "claimed" => record.text = record.job.id

WorkerHolds == \A w \in Workers : MayWork(pc[w], work[w], held[w])

\* What a handler may hold at a step: a save outstanding jobs of its note, a
\* retry a failed job, a delete every job of its note, locked or still to lock.
MayHold(step, request, rows) ==
    /\ step \notin Answers \cup {"idle"} => request.note \in Notes
    /\ step = "purging" =>
          /\ request.todo \subseteq 1 .. texts
          /\ \A j \in jobs :
                /\ j.id \in request.todo => j.note = request.note
                /\ j.id \in rows => j.note = request.note /\ j.status # "completed"
    /\ step = "cascading" =>
          /\ request.todo \subseteq 1 .. texts
          /\ Exists(request.note)
          /\ \A j \in jobs : j.note = request.note <=> j.id \in request.todo \cup rows
    /\ step = "resetting" => \A j \in jobs : j.id \in rows => j.status = "failed"
    /\ step \notin {"purging", "cascading", "resetting"} => rows = {}

RequestHolds == \A r \in Requests : MayHold(pc[r], req[r], held[r])

\* A note is being deleted by one request at a time.
OneDelete ==
    \A q, r \in Requests :
        (pc[q] = "cascading" /\ pc[r] = "cascading" /\ req[q].note = req[r].note)
            => q = r

IndInv == /\ TypeOK
          /\ JobRows
          /\ OneJobPerVersion
          /\ CurrentVersionHasJob
          /\ NoteRows
          /\ ChunkRows
          /\ Locks
          /\ WorkerHolds
          /\ RequestHolds
          /\ OneDelete

-----------------------------------------------------------------------------
(* What holds besides while no two saves of one note overlap.                *)

\* The saves that have read the version they will write over, and not yet
\* committed.
SavesOf(n) == {r \in Requests : pc[r] \in {"scanning", "purging"} /\ req[r].note = n}

\* No two saves of a note are between their SELECT and their COMMIT at once:
\* there nothing stops the second from writing over what the first has written.
SavesApart == \A n \in Notes : \A q, r \in SavesOf(n) : q = r

\* No job is of a later version than its note, and an outstanding job is of the
\* version the note has: save has deleted those of the version before.
JobVersions ==
    \A j \in jobs : /\ j.version <= notes[j.note].version
                    /\ j.status # "completed" => Matches(j)

\* A job of the present version that has given up has told its note.
FailedShown ==
    \A j \in jobs : (j.status = "failed" /\ Matches(j))
                       => notes[j.note].status = "failed"

\* What a client has seen of a note, and what its save has read: the version
\* tells which text it saw, the save writes over the present version, and it
\* has locked the outstanding jobs or will wait for them.
MaySave(step, request, rows) ==
    LET note == notes[request.note] IN
    /\ step \in {"viewing", "updating", "scanning", "purging"} =>
          /\ note # Unwritten
          /\ request.version > 0
          /\ note.version = 0 \/ request.version <= note.version
          /\ note.version = request.version => note.text = request.seen
    /\ step \in {"scanning", "purging"} =>
          note.version = 0 \/ note.version = request.version
    /\ step = "purging" =>
          \A j \in JobsOf(request.note) :
              j.status # "completed" => j.id \in request.todo \cup rows

\* The one job that a retry has locked is still there, and is of its note.
MayRetry(step, request, rows) ==
    step = "resetting" => \E j \in JobsOf(request.note) : rows = {j.id}

RequestsSteady ==
    \A r \in Requests : /\ MaySave(pc[r], req[r], held[r])
                         /\ MayRetry(pc[r], req[r], held[r])

\* A worker that gives up and read that its note has failed already writes no
\* status, and need not: the note is still failed.
WorkersSteady ==
    \A w \in Workers :
        (pc[w] = "failing" /\ work[w].loaded = "failed")
            => notes[work[w].job.note].status = "failed"

SteadyInv == /\ JobVersions
             /\ CompletedIsSearchable
             /\ FailedShown
             /\ RequestsSteady
             /\ WorkersSteady

-----------------------------------------------------------------------------
(* Who waits for whom.                                                       *)

\* A locked row is there and stays there: the row of a save, a delete or a retry
\* is of its note (for a save and a delete, RequestHolds has it).
HeldRows ==
    /\ \A p \in Procs : held[p] \subseteq Ids(jobs)
    /\ \A r \in Requests :
          /\ pc[r] = "cascading" => req[r].todo \subseteq Ids(jobs)
          /\ pc[r] = "resetting" =>
                \A j \in jobs : j.id \in held[r] => j.note = req[r].note

NoteOf(p) == IF p \in Requests THEN req[p].note ELSE work[p].job.note

\* A transaction waits only for one that is about the same note.
WaitsInANote == \A p, q \in Procs : WaitsFor(p, q) => NoteOf(p) = NoteOf(q)

\* Where no two saves of a note overlap, a deadlock takes a deletion of that note
\* under way: workers, retries and saves alone never wait in a circle.
DeadlocksTakeADelete ==
    SavesApart =>
        \A p \in Procs : Deadlocked(p) =>
            \E r \in Requests : pc[r] = "cascading" /\ req[r].note = NoteOf(p)
=============================================================================
