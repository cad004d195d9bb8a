------------------------- MODULE NoteIndexingProofs -------------------------
(* IndInv is an inductive invariant of NoteIndexing, for any number of       *)
(* notes, tabs, workers, attempts and crashes.  One lemma per action; those  *)
(* that write no table rest on HandlerReads and WorkerReads, a worker's      *)
(* commit on CommitInv, a handler's on HandlerWrites.                        *)
EXTENDS NoteIndexingInv, TLAPS

USE ProcsAssumption

\* The initial state satisfies the invariant.
LEMMA InitInv == Init => IndInv
<1>. SUFFICES ASSUME Init PROVE IndInv
  OBVIOUS
<1>. USE DEF Init, Procs
<1>1. TypeOK
  BY DEF TypeOK, Unwritten, NoChunks, NoRequest, NoWork, Note, NoteStatuses,
         SemanticStatuses, Versions, Texts, RequestSteps, WorkerSteps, AtRest,
         Answers, Job, JobStatuses, ChunkRecord, RequestRecord, WorkRecord
<1>2. JobRows /\ OneJobPerVersion
  BY DEF JobRows, OneJobPerVersion
<1>3. CurrentVersionHasJob /\ NoteRows
  BY DEF CurrentVersionHasJob, NoteRows, Exists, Unwritten
<1>4. ChunkRows
  BY DEF ChunkRows
<1>5. Locks /\ WorkerHolds /\ RequestHolds /\ OneDelete
  BY DEF Locks, WorkerHolds, MayWork, RequestHolds, MayHold, OneDelete, Answers
<1>. QED
  BY <1>1, <1>2, <1>3, <1>4, <1>5 DEF IndInv

\* A step that writes no table keeps everything that is said of the tables.
LEMMA TablesKept ==
    ASSUME IndInv, UNCHANGED Tables
    PROVE  /\ JobRows' /\ OneJobPerVersion' /\ CurrentVersionHasJob'
           /\ NoteRows' /\ ChunkRows'
BY DEF IndInv, Tables, JobRows, OneJobPerVersion, CurrentVersionHasJob, NoteRows,
       ChunkRows, Exists, Matches, JobsFor, JobsOf

\* A handler r reads, waits or answers: it is at `step' then, has read `request'
\* and holds `rows', which is what a handler at that step may hold.
Reads(r, step, request, rows) ==
    /\ UNCHANGED <<Tables, work>>
    /\ crashes' \in {crashes, crashes + 1}
    /\ step \in RequestSteps /\ pc' = [pc EXCEPT ![r] = step]
    /\ request \in RequestRecord /\ req' = [req EXCEPT ![r] = request]
    /\ rows \in SUBSET (1 .. texts) /\ held' = [held EXCEPT ![r] = rows]
    /\ \A q \in Procs \ {r} : held[q] \cap rows = {}
    /\ MayHold(step, request, rows)
    /\ step = "cascading" => \A q \in Requests \ {r} :
          ~(pc[q] = "cascading" /\ req[q].note = request.note)

\* A step of one handler that writes no table keeps the invariant, when what
\* the handler holds afterwards fits the step it goes to.
LEMMA HandlerReads ==
    ASSUME IndInv, NEW r \in Requests, NEW step, NEW request, NEW rows,
           Reads(r, step, request, rows)
    PROVE  IndInv'
<1>. USE DEF IndInv, Reads, Tables, Procs
<1>1. TypeOK'
  BY DEF TypeOK
<1>2. Locks'
  BY DEF Locks, TypeOK
<1>3. WorkerHolds'
  BY DEF WorkerHolds, MayWork, TypeOK
<1>4. RequestHolds'
  <2>. SUFFICES ASSUME NEW q \in Requests PROVE MayHold(pc[q], req[q], held[q])'
    BY DEF RequestHolds
  <2>1. CASE q = r
    BY <2>1 DEF MayHold, Exists, TypeOK
  <2>2. CASE q # r
    <3>1. pc'[q] = pc[q] /\ req'[q] = req[q] /\ held'[q] = held[q]
      BY <2>2 DEF TypeOK
    <3>. QED
      BY <3>1 DEF RequestHolds, MayHold, Exists
  <2>. QED
    BY <2>1, <2>2
<1>5. OneDelete'
  BY DEF OneDelete, TypeOK
<1>. QED
  BY <1>1, <1>2, <1>3, <1>4, <1>5, TablesKept

\* The value a request has at rest.
LEMMA NoRequestType == NoRequest \in RequestRecord
BY DEF NoRequest, RequestRecord, NoteStatuses, SemanticStatuses, Versions, Texts

\* A handler that ends without having written anything keeps the invariant.
LEMMA AnswerInv ==
    ASSUME IndInv, NEW r \in Requests, NEW a \in Answers, Answer(r, a),
           UNCHANGED <<Tables, work>>, crashes' \in {crashes, crashes + 1}
    PROVE  IndInv'
<1>1. a \in RequestSteps /\ MayHold(a, NoRequest, {})
  BY DEF RequestSteps, AtRest, Answers, MayHold
<1>r. Reads(r, a, NoRequest, {})
  BY <1>1, NoRequestType DEF Reads, Answer, Answers
<1>. QED
  BY <1>r, HandlerReads

\* ClientGet preserves the invariant.
LEMMA ClientGetInv ==
    ASSUME IndInv, NEW r \in Requests, NEW n \in Notes, ClientGet(r, n)
    PROVE  IndInv'
<1>. DEFINE x == [NoRequest EXCEPT !.note = n, !.version = notes[n].version,
                                   !.seen = notes[n].text]
<1>1. x \in RequestRecord
  BY NoRequestType DEF IndInv, TypeOK, Note, NoRequest, RequestRecord
<1>2. held[r] = {} /\ held' = [held EXCEPT ![r] = {}]
  BY DEF ClientGet, IndInv, TypeOK, RequestHolds, MayHold, AtRest, Answers, Procs
<1>3. "viewing" \in RequestSteps /\ MayHold("viewing", x, {})
  BY DEF RequestSteps, AtRest, MayHold, NoRequest
<1>r. Reads(r, "viewing", x, {})
  BY <1>1, <1>2, <1>3 DEF Reads, ClientGet
<1>. QED
  BY <1>r, HandlerReads

\* UpdateGet preserves the invariant.
LEMMA UpdateGetInv ==
    ASSUME IndInv, NEW r \in Requests, UpdateGet(r)
    PROVE  IndInv'
<1>1. CASE \E a \in Answers : Answer(r, a)
  BY <1>1, AnswerInv DEF UpdateGet
<1>2. CASE /\ pc' = [pc EXCEPT ![r] = "updating"]
           /\ UNCHANGED <<req, held>>
  <2>1. /\ req[r] \in RequestRecord /\ req' = [req EXCEPT ![r] = req[r]]
        /\ held[r] = {} /\ held' = [held EXCEPT ![r] = {}]
    BY <1>2 DEF UpdateGet, IndInv, TypeOK, RequestHolds, MayHold, Procs
  <2>2. "updating" \in RequestSteps /\ MayHold("updating", req[r], {})
    BY DEF RequestSteps, UpdateGet, IndInv, RequestHolds, MayHold, Answers
  <2>r. Reads(r, "updating", req[r], {})
    BY <1>2, <2>1, <2>2 DEF Reads, UpdateGet
  <2>. QED
    BY <2>r, HandlerReads
<1>. QED
  BY <1>1, <1>2 DEF UpdateGet, Answers

\* SaveSelect preserves the invariant.
LEMMA SaveSelectInv ==
    ASSUME IndInv, NEW r \in Requests, SaveSelect(r)
    PROVE  IndInv'
<1>1. CASE Answer(r, "conflict")
  BY <1>1, AnswerInv DEF SaveSelect, Answers
<1>2. CASE ~Answer(r, "conflict")
  <2>. DEFINE x == [req[r] EXCEPT !.loaded = notes[req[r].note].status]
  <2>1. req[r].note \in Notes /\ held[r] = {}
    BY DEF SaveSelect, IndInv, RequestHolds, MayHold, Answers
  <2>2. x \in RequestRecord /\ req' = [req EXCEPT ![r] = x]
    <3>1. req[r] \in RequestRecord /\ notes[req[r].note].status \in NoteStatuses
      BY <2>1 DEF IndInv, TypeOK, Note
    <3>2. x \in RequestRecord
      BY <3>1 DEF RequestRecord
    <3>. QED
      BY <1>2, <3>2 DEF SaveSelect
  <2>3. held' = [held EXCEPT ![r] = {}]
    BY <1>2, <2>1 DEF SaveSelect, IndInv, TypeOK, Procs
  <2>4. "scanning" \in RequestSteps /\ MayHold("scanning", x, {})
    BY <2>1, <2>2 DEF RequestSteps, MayHold, RequestRecord
  <2>r. Reads(r, "scanning", x, {})
    BY <1>2, <2>2, <2>3, <2>4 DEF Reads, SaveSelect
  <2>. QED
    BY <2>r, HandlerReads
<1>. QED
  BY <1>1, <1>2

\* SaveScan preserves the invariant.
LEMMA SaveScanInv ==
    ASSUME IndInv, NEW r \in Requests, SaveScan(r)
    PROVE  IndInv'
<1>. DEFINE ids == Ids({j \in JobsOf(req[r].note) : j.status # "completed"})
            x == [req[r] EXCEPT !.todo = ids]
<1>1. req[r].note \in Notes /\ held[r] = {} /\ req[r] \in RequestRecord
  BY DEF SaveScan, IndInv, TypeOK, RequestHolds, MayHold, Answers
<1>2. ids \subseteq 1 .. texts /\ \A j \in jobs : j.id \in ids => j.note = req[r].note
  BY DEF IndInv, JobRows, Ids, JobsOf
<1>3. ids \in SUBSET Nat
  BY <1>2 DEF IndInv, TypeOK
<1>4. x \in RequestRecord /\ x.todo = ids /\ x.note = req[r].note
  BY <1>1, <1>3 DEF RequestRecord
<1>5. req' = [req EXCEPT ![r] = x] /\ held' = [held EXCEPT ![r] = {}]
  BY <1>1 DEF SaveScan, IndInv, TypeOK, Procs
<1>6. "purging" \in RequestSteps /\ MayHold("purging", x, {})
  BY <1>1, <1>2, <1>4 DEF RequestSteps, MayHold
<1>r. Reads(r, "purging", x, {})
  BY <1>4, <1>5, <1>6 DEF Reads, SaveScan
<1>. QED
  BY <1>r, HandlerReads

\* SavePurge preserves the invariant.
LEMMA SavePurgeInv ==
    ASSUME IndInv, NEW r \in Requests, NEW id, SavePurge(r, id)
    PROVE  IndInv'
<1>. DEFINE rows == held[r] \cup Ids({j \in jobs : j.id = id /\ j.status # "completed"})
            x == [req[r] EXCEPT !.todo = @ \ {id}]
<1>1. req[r] \in RequestRecord /\ id \in 1 .. texts /\ held[r] \subseteq 1 .. texts
  BY DEF SavePurge, IndInv, TypeOK, RequestHolds, MayHold, Locks, Procs
<1>2. x \in RequestRecord /\ x.todo = req[r].todo \ {id} /\ x.note = req[r].note
  BY <1>1 DEF RequestRecord
<1>3. rows \subseteq held[r] \cup {id} /\ rows \in SUBSET (1 .. texts)
  BY <1>1 DEF Ids
<1>4. \A q \in Procs \ {r} : held[q] \cap rows = {}
  BY <1>3 DEF SavePurge, HeldByOther, IndInv, Locks, Procs
<1>5. \A j \in jobs : (j.id \in rows /\ j.id \notin held[r])
                          => j.note = req[r].note /\ j.status # "completed"
  BY <1>3 DEF SavePurge, IndInv, RequestHolds, MayHold, JobRows, Ids
<1>6. req' = [req EXCEPT ![r] = x] /\ held' = [held EXCEPT ![r] = rows]
      /\ pc' = [pc EXCEPT ![r] = "purging"]
  BY DEF SavePurge, IndInv, TypeOK, Procs
<1>7. "purging" \in RequestSteps /\ MayHold("purging", x, rows)
  BY <1>2, <1>5 DEF RequestSteps, MayHold, SavePurge, IndInv, RequestHolds
<1>r. Reads(r, "purging", x, rows)
  BY <1>2, <1>3, <1>4, <1>6, <1>7 DEF Reads, SavePurge
<1>. QED
  BY <1>r, HandlerReads

\* DeleteNote preserves the invariant.
LEMMA DeleteNoteInv ==
    ASSUME IndInv, NEW r \in Requests, NEW n \in Notes, DeleteNote(r, n)
    PROVE  IndInv'
<1>1. CASE Answer(r, "not_found")
  BY <1>1, AnswerInv DEF DeleteNote, Answers
<1>2. CASE ~Answer(r, "not_found")
  <2>. DEFINE ids == Ids(JobsOf(n))
              x == [NoRequest EXCEPT !.note = n, !.todo = ids]
  <2>1. ids \subseteq 1 .. texts /\ ids \in SUBSET Nat
    BY DEF IndInv, TypeOK, JobRows, Ids, JobsOf
  <2>2. \A j \in jobs : j.note = n <=> j.id \in ids
    BY DEF IndInv, JobRows, Ids, JobsOf
  <2>3. x \in RequestRecord /\ x.todo = ids /\ x.note = n
    BY <2>1, NoRequestType DEF RequestRecord, NoRequest
  <2>4. held[r] = {} /\ held' = [held EXCEPT ![r] = {}]
    BY <1>2 DEF DeleteNote, IndInv, TypeOK, RequestHolds, MayHold, AtRest, Answers, Procs
  <2>5. "cascading" \in RequestSteps /\ MayHold("cascading", x, {})
    BY <1>2, <2>1, <2>2, <2>3 DEF RequestSteps, MayHold, DeleteNote
  <2>6. \A q \in Requests \ {r} : ~(pc[q] = "cascading" /\ req[q].note = n)
    BY DEF DeleteNote, NoteLocked, NoteLockedBy
  <2>r. Reads(r, "cascading", x, {})
    BY <1>2, <2>3, <2>4, <2>5, <2>6 DEF Reads, DeleteNote
  <2>. QED
    BY <2>r, HandlerReads
<1>. QED
  BY <1>1, <1>2

\* CascadeRow preserves the invariant.
LEMMA CascadeRowInv ==
    ASSUME IndInv, NEW r \in Requests, NEW id, CascadeRow(r, id)
    PROVE  IndInv'
<1>. DEFINE rows == held[r] \cup {id}
            x == [req[r] EXCEPT !.todo = @ \ {id}]
<1>1. req[r] \in RequestRecord /\ id \in 1 .. texts /\ held[r] \subseteq 1 .. texts
  BY DEF CascadeRow, IndInv, TypeOK, RequestHolds, MayHold, Locks, Procs
<1>2. x \in RequestRecord /\ x.todo = req[r].todo \ {id} /\ x.note = req[r].note
  BY <1>1 DEF RequestRecord
<1>3. \A q \in Procs \ {r} : held[q] \cap rows = {}
  BY DEF CascadeRow, HeldByOther, IndInv, Locks, Procs
<1>4. req' = [req EXCEPT ![r] = x] /\ held' = [held EXCEPT ![r] = rows]
      /\ pc' = [pc EXCEPT ![r] = "cascading"]
  BY DEF CascadeRow, IndInv, TypeOK, Procs
<1>5. "cascading" \in RequestSteps /\ MayHold("cascading", x, rows)
  BY <1>2 DEF RequestSteps, MayHold, CascadeRow, IndInv, RequestHolds, Answers
<1>6. \A q \in Requests \ {r} : ~(pc[q] = "cascading" /\ req[q].note = x.note)
  BY <1>2 DEF CascadeRow, IndInv, OneDelete
<1>r. Reads(r, "cascading", x, rows)
  BY <1>1, <1>2, <1>3, <1>4, <1>5, <1>6 DEF Reads, CascadeRow
<1>. QED
  BY <1>r, HandlerReads

\* RetryGet preserves the invariant.
LEMMA RetryGetInv ==
    ASSUME IndInv, NEW r \in Requests, NEW n \in Notes, RetryGet(r, n)
    PROVE  IndInv'
<1>1. CASE Answer(r, "not_found")
  BY <1>1, AnswerInv DEF RetryGet, Answers
<1>2. CASE ~Answer(r, "not_found")
  <2>. DEFINE x == [NoRequest EXCEPT !.note = n]
  <2>1. x \in RequestRecord /\ x.note = n
    BY NoRequestType DEF RequestRecord, NoRequest
  <2>2. held[r] = {} /\ held' = [held EXCEPT ![r] = {}]
    BY <1>2 DEF RetryGet, IndInv, TypeOK, RequestHolds, MayHold, AtRest, Answers, Procs
  <2>3. "retrying" \in RequestSteps /\ MayHold("retrying", x, {})
    BY <2>1 DEF RequestSteps, MayHold
  <2>r. Reads(r, "retrying", x, {})
    BY <1>2, <2>1, <2>2, <2>3 DEF Reads, RetryGet
  <2>. QED
    BY <2>r, HandlerReads
<1>. QED
  BY <1>1, <1>2

\* RetrySelectNote preserves the invariant.
LEMMA RetrySelectNoteInv ==
    ASSUME IndInv, NEW r \in Requests, RetrySelectNote(r)
    PROVE  IndInv'
<1>1. CASE Answer(r, "conflict")
  BY <1>1, AnswerInv DEF RetrySelectNote, Answers
<1>2. CASE ~Answer(r, "conflict")
  <2>. DEFINE x == [req[r] EXCEPT !.version = notes[req[r].note].version]
  <2>1. req[r].note \in Notes /\ held[r] = {}
    BY DEF RetrySelectNote, IndInv, RequestHolds, MayHold, Answers
  <2>2. x \in RequestRecord /\ x.note = req[r].note /\ req' = [req EXCEPT ![r] = x]
    BY <1>2, <2>1 DEF RetrySelectNote, IndInv, TypeOK, RequestRecord, Note
  <2>3. held' = [held EXCEPT ![r] = {}]
    BY <1>2, <2>1 DEF RetrySelectNote, IndInv, TypeOK, Procs
  <2>4. "locking" \in RequestSteps /\ MayHold("locking", x, {})
    BY <2>1, <2>2 DEF RequestSteps, MayHold
  <2>r. Reads(r, "locking", x, {})
    BY <1>2, <2>2, <2>3, <2>4 DEF Reads, RetrySelectNote
  <2>. QED
    BY <2>r, HandlerReads
<1>. QED
  BY <1>1, <1>2

\* RetrySelectJob preserves the invariant.
LEMMA RetrySelectJobInv ==
    ASSUME IndInv, NEW r \in Requests, RetrySelectJob(r)
    PROVE  IndInv'
<1>1. CASE Answer(r, "conflict")
  BY <1>1, AnswerInv DEF RetrySelectJob, Answers
<1>2. CASE ~Answer(r, "conflict")
  <2>. DEFINE rows == Ids(FailedJobs(req[r].note, req[r].version))
  <2>1. req[r].note \in Notes /\ req[r] \in RequestRecord
    BY DEF RetrySelectJob, IndInv, TypeOK, RequestHolds, MayHold, Answers
  <2>2. rows \in SUBSET (1 .. texts)
    BY DEF IndInv, JobRows, Ids, FailedJobs, JobsFor, JobsOf
  <2>3. \A j \in jobs : j.id \in rows => j.status = "failed"
    BY DEF IndInv, JobRows, Ids, FailedJobs, JobsFor, JobsOf
  <2>4. \A q \in Procs \ {r} : held[q] \cap rows = {}
    BY DEF RetrySelectJob, HeldByOther
  <2>5. req' = [req EXCEPT ![r] = req[r]] /\ held' = [held EXCEPT ![r] = rows]
    BY <1>2 DEF RetrySelectJob, IndInv, TypeOK
  <2>6. "resetting" \in RequestSteps /\ MayHold("resetting", req[r], rows)
    BY <2>1, <2>3 DEF RequestSteps, MayHold
  <2>r. Reads(r, "resetting", req[r], rows)
    BY <1>2, <2>1, <2>2, <2>4, <2>5, <2>6 DEF Reads, RetrySelectJob
  <2>. QED
    BY <2>r, HandlerReads
<1>. QED
  BY <1>1, <1>2

\* RetryReread preserves the invariant.
LEMMA RetryRereadInv ==
    ASSUME IndInv, NEW r \in Requests, RetryReread(r)
    PROVE  IndInv'
BY AnswerInv DEF RetryReread, Answers

-----------------------------------------------------------------------------
(* The steps of a worker that write no table.                                *)

\* A worker w is at `step' then, has read `record' and holds `rows'.
Works(w, step, record, rows) ==
    /\ UNCHANGED <<Tables, req>>
    /\ crashes' \in {crashes, crashes + 1}
    /\ step \in WorkerSteps /\ pc' = [pc EXCEPT ![w] = step]
    /\ record \in WorkRecord /\ work' = [work EXCEPT ![w] = record]
    /\ rows \in SUBSET (1 .. texts) /\ held' = [held EXCEPT ![w] = rows]
    /\ \A q \in Procs \ {w} : held[q] \cap rows = {}
    /\ MayWork(step, record, rows)

\* The same for a step of a worker that writes no table.
LEMMA WorkerReads ==
    ASSUME IndInv, NEW w \in Workers, NEW step, NEW record, NEW rows,
           Works(w, step, record, rows)
    PROVE  IndInv'
<1>. USE DEF IndInv, Works, Tables, Procs
<1>1. TypeOK'
  BY DEF TypeOK
<1>2. Locks'
  BY DEF Locks, TypeOK
<1>3. WorkerHolds'
  <2>. SUFFICES ASSUME NEW v \in Workers PROVE MayWork(pc[v], work[v], held[v])'
    BY DEF WorkerHolds
  <2>1. CASE v = w
    BY <2>1 DEF MayWork, TypeOK
  <2>2. CASE v # w
    <3>1. pc'[v] = pc[v] /\ work'[v] = work[v] /\ held'[v] = held[v]
      BY <2>2 DEF TypeOK
    <3>. QED
      BY <3>1 DEF WorkerHolds, MayWork
  <2>. QED
    BY <2>1, <2>2
<1>4. RequestHolds'
  <2>. SUFFICES ASSUME NEW q \in Requests PROVE MayHold(pc[q], req[q], held[q])'
    BY DEF RequestHolds
  <2>1. pc'[q] = pc[q] /\ req'[q] = req[q] /\ held'[q] = held[q]
    BY DEF TypeOK
  <2>. QED
    BY <2>1 DEF RequestHolds, MayHold, Exists
<1>5. OneDelete'
  BY DEF OneDelete, TypeOK
<1>. QED
  BY <1>1, <1>2, <1>3, <1>4, <1>5, TablesKept

\* A claim within the limit of attempts is a job.
LEMMA ClaimType ==
    ASSUME NEW job \in Job, job.attempts < MaxAttempts
    PROVE  /\ Claim(job) \in Job /\ Claim(job).status = "processing"
           /\ Claim(job).id = job.id /\ Claim(job).note = job.note
           /\ Claim(job).version = job.version
<1>1. job.attempts + 1 \in 0 .. MaxAttempts
  BY MaxAttemptsAssumption DEF Job
<1>2. Claim(job) \in Job
  BY <1>1 DEF Claim, Job, JobStatuses
<1>3. Claim(job).status = "processing" /\ Claim(job).id = job.id
      /\ Claim(job).note = job.note /\ Claim(job).version = job.version
  BY DEF Claim, Job
<1>. QED
  BY <1>2, <1>3

\* ClaimNext preserves the invariant.
LEMMA ClaimNextInv ==
    ASSUME IndInv, NEW w \in Workers, NEW id, ClaimNext(w, id)
    PROVE  IndInv'
<1>1. PICK job \in jobs :
          /\ job.id = id /\ Claimable(job) /\ job.attempts < MaxAttempts
          /\ work' = [work EXCEPT ![w] = [NoWork EXCEPT !.job = Claim(job)]]
  BY DEF ClaimNext
<1>. DEFINE x == [NoWork EXCEPT !.job = Claim(job)]
<1>2. job \in Job /\ id \in 1 .. texts /\ job.status # "completed"
  BY <1>1 DEF IndInv, TypeOK, JobRows, Claimable
<1>3. x.job = Claim(job) /\ x \in WorkRecord
  BY <1>1, <1>2, ClaimType
     DEF WorkRecord, NoWork, Texts, NoteStatuses, SemanticStatuses
<1>4. "claimed" \in WorkerSteps /\ MayWork("claimed", x, {id})
  BY <1>1, <1>2, <1>3, ClaimType DEF WorkerSteps, MayWork
<1>r. Works(w, "claimed", x, {id})
  BY <1>1, <1>2, <1>3, <1>4 DEF Works, ClaimNext
<1>. QED
  BY <1>r, WorkerReads

\* What the invariant says of a worker that has claimed a job.
LEMMA WorkerFacts ==
    ASSUME IndInv, NEW w \in Workers, pc[w] # "idle"
    PROVE  /\ work[w] \in WorkRecord /\ work[w].job \in Job
           /\ held[w] = {work[w].job.id} /\ held[w] \in SUBSET (1 .. texts)
           /\ \A q \in Procs \ {w} : held[q] \cap held[w] = {}
           /\ MayWork(pc[w], work[w], held[w])
BY DEF IndInv, TypeOK, WorkerHolds, MayWork, Locks, Procs

\* EmbedSucceeds preserves the invariant.
LEMMA EmbedSucceedsInv ==
    ASSUME IndInv, NEW w \in Workers, EmbedSucceeds(w)
    PROVE  IndInv'
<1>1. "publishing" \in WorkerSteps /\ MayWork("publishing", work[w], held[w])
  BY WorkerFacts DEF EmbedSucceeds, WorkerSteps, MayWork
<1>2. work' = [work EXCEPT ![w] = work[w]] /\ held' = [held EXCEPT ![w] = held[w]]
  BY DEF EmbedSucceeds, IndInv, TypeOK
<1>r. Works(w, "publishing", work[w], held[w])
  BY <1>1, <1>2, WorkerFacts DEF Works, EmbedSucceeds
<1>. QED
  BY <1>r, WorkerReads

-----------------------------------------------------------------------------
(* The steps of a worker that commit.                                        *)

\* The worker w commits: the row of its job becomes `row', and no note changes
\* its version or its text.
Commits(w, row) ==
    /\ pc[w] # "idle"
    /\ row \in Job /\ row.id = work[w].job.id
    /\ row.note = work[w].job.note /\ row.version = work[w].job.version
    /\ Commit(w, row)
    /\ UNCHANGED <<texts, req, crashes>>
    /\ notes' \in [Notes -> Note]
    /\ \A n \in Notes : /\ notes'[n].version = notes[n].version
                        /\ notes'[n].text = notes[n].text
    /\ chunks' \in [Notes -> ChunkRecord]
    /\ ChunkRows'

\* A worker commits: the job it holds changes its status, and the note and its
\* chunks may change with it.
LEMMA CommitInv ==
    ASSUME IndInv, NEW w \in Workers, NEW row, Commits(w, row)
    PROVE  IndInv'
<1>. USE DEF IndInv, Commits
<1>1. PICK old \in jobs : /\ old.id = row.id /\ old.note = row.note
                          /\ old.version = row.version
  BY WorkerFacts DEF MayWork
<1>2. \A j \in jobs' : j = row \/ (j \in jobs /\ j.id # row.id)
  BY DEF Commit, Replaced
<1>3. row \in jobs' /\ \A j \in jobs : j.id # row.id => j \in jobs'
  BY DEF Commit, Replaced
<1>4. /\ pc' = [pc EXCEPT ![w] = "idle"] /\ work' = [work EXCEPT ![w] = NoWork]
      /\ held' = [held EXCEPT ![w] = {}] /\ held[w] = {row.id}
  BY WorkerFacts DEF Commit
<1>5. TypeOK'
  <2>1. jobs' \subseteq Job
    BY <1>2 DEF TypeOK
  <2>2. NoWork \in WorkRecord /\ "idle" \in WorkerSteps
    BY DEF NoWork, WorkRecord, Texts, NoteStatuses, SemanticStatuses, WorkerSteps
  <2>. QED
    BY <1>4, <2>1, <2>2 DEF TypeOK, Procs
<1>6. JobRows'
  BY <1>1, <1>2 DEF JobRows, Matches, Exists, TypeOK, Job
<1>7. OneJobPerVersion'
  BY <1>1, <1>2 DEF OneJobPerVersion, JobRows
<1>8. CurrentVersionHasJob'
  <2>. SUFFICES ASSUME NEW n \in Notes, Exists(n)'
                PROVE  \E j \in jobs' : j.note = n /\ j.version = notes'[n].version
    BY DEF CurrentVersionHasJob, JobsFor, JobsOf
  <2>1. PICK j \in jobs : j.note = n /\ j.version = notes[n].version
    BY DEF CurrentVersionHasJob, JobsFor, JobsOf, Exists
  <2>. QED
    BY <1>1, <1>3, <2>1 DEF JobRows
<1>9. NoteRows'
  BY DEF NoteRows
<1>10. Locks'
  BY <1>4 DEF Locks, TypeOK, Procs
<1>11. WorkerHolds'
  <2>. SUFFICES ASSUME NEW v \in Workers PROVE MayWork(pc[v], work[v], held[v])'
    BY DEF WorkerHolds
  <2>1. CASE v = w
    BY <1>4, <2>1 DEF MayWork, TypeOK, Procs
  <2>2. CASE v # w
    <3>1. pc'[v] = pc[v] /\ work'[v] = work[v] /\ held'[v] = held[v]
      BY <1>4, <2>2 DEF TypeOK, Procs
    <3>2. row.id \notin held[v]
      BY <1>4, <2>2 DEF Locks, Procs
    <3>. QED
      BY <1>3, <3>1, <3>2 DEF WorkerHolds, MayWork
  <2>. QED
    BY <2>1, <2>2
<1>12. RequestHolds'
  <2>. SUFFICES ASSUME NEW q \in Requests PROVE MayHold(pc[q], req[q], held[q])'
    BY DEF RequestHolds
  <2>1. pc'[q] = pc[q] /\ req'[q] = req[q] /\ held'[q] = held[q]
    BY <1>4 DEF TypeOK, Procs
  <2>2. row.id \notin held[q]
    BY <1>4 DEF Locks, Procs
  <2>3. MayHold(pc[q], req[q], held[q])
    BY DEF RequestHolds
  <2>4. \A j \in jobs' : \E k \in jobs : k.id = j.id /\ k.note = j.note
    BY <1>1, <1>2
  <2>5. \A j \in jobs' : j.id \in held[q] => j \in jobs
    BY <1>2, <2>2
  <2>6. pc[q] = "cascading" => Exists(req[q].note)'
    BY <2>3 DEF MayHold, Exists, Answers
  <2>7. pc[q] = "cascading" =>
          \A j \in jobs' : j.note = req[q].note
                              <=> j.id \in req[q].todo \cup held[q]
    BY <2>3, <2>4 DEF MayHold
  <2>8. pc[q] = "purging" =>
          \A j \in jobs' :
             /\ j.id \in req[q].todo => j.note = req[q].note
             /\ j.id \in held[q] => j.note = req[q].note /\ j.status # "completed"
    BY <2>3, <2>4, <2>5 DEF MayHold
  <2>. QED
    BY <2>1, <2>3, <2>5, <2>6, <2>7, <2>8 DEF MayHold
<1>13. OneDelete'
  BY <1>4 DEF OneDelete, TypeOK, Procs
<1>. QED
  BY <1>5, <1>6, <1>7, <1>8, <1>9, <1>10, <1>11, <1>12, <1>13

\* What becomes of a job that failed.
LEMMA FailTransientType ==
    ASSUME NEW job \in Job
    PROVE  /\ FailTransient(job) \in Job
           /\ FailTransient(job).status \in {"failed", "retry_wait"}
           /\ FailTransient(job).id = job.id /\ FailTransient(job).note = job.note
           /\ FailTransient(job).version = job.version
BY DEF FailTransient, Job, JobStatuses

\* What becomes of a job that is done.
LEMMA CompleteType ==
    ASSUME NEW job \in Job
    PROVE  /\ Complete(job) \in Job /\ Complete(job).status = "completed"
           /\ Complete(job).id = job.id /\ Complete(job).note = job.note
           /\ Complete(job).version = job.version
BY DEF Complete, Job, JobStatuses

\* A commit that touches neither notes nor chunks.
LEMMA JobOnlyCommit ==
    ASSUME IndInv, NEW w \in Workers, NEW row, pc[w] # "idle",
           row \in Job, row.id = work[w].job.id, row.note = work[w].job.note,
           row.version = work[w].job.version, Commit(w, row),
           UNCHANGED <<notes, chunks, texts, req, crashes>>
    PROVE  IndInv'
<1>1. \A j \in jobs : j.id = row.id => j.status # "completed"
  BY WorkerFacts DEF MayWork, IndInv, JobRows
<1>2. ChunkRows'
  BY <1>1 DEF IndInv, ChunkRows, Commit, Replaced
<1>3. Commits(w, row)
  BY <1>2 DEF Commits, IndInv, TypeOK
<1>. QED
  BY <1>3, CommitInv

\* NoteForJob preserves the invariant.
LEMMA NoteForJobInv ==
    ASSUME IndInv, NEW w \in Workers, NoteForJob(w)
    PROVE  IndInv'
<1>. DEFINE job == work[w].job
            x == [work[w] EXCEPT !.text = notes[job.note].text]
<1>1. job \in Job /\ job.note \in Notes /\ work[w] \in WorkRecord
  BY WorkerFacts DEF NoteForJob, Job
<1>2. CASE ~Matches(job)
  BY <1>1, <1>2, JobOnlyCommit DEF NoteForJob
<1>3. CASE Matches(job)
  <2>1. PICK j \in jobs : /\ j.id = job.id /\ j.status # "completed"
                          /\ j.note = job.note /\ j.version = job.version
    BY WorkerFacts DEF NoteForJob, MayWork
  <2>2. notes[job.note].text = job.id
    BY <1>3, <2>1 DEF IndInv, JobRows, Matches
  <2>3. x \in WorkRecord /\ x.job = job /\ x.text = job.id
    BY <1>1, <2>2 DEF WorkRecord, IndInv, TypeOK, Note, Texts
  <2>4. "embedding" \in WorkerSteps /\ MayWork("embedding", x, held[w])
    BY <2>3, WorkerFacts DEF NoteForJob, WorkerSteps, MayWork
  <2>5. work' = [work EXCEPT ![w] = x] /\ held' = [held EXCEPT ![w] = held[w]]
    BY <1>3 DEF NoteForJob, IndInv, TypeOK
  <2>r. Works(w, "embedding", x, held[w])
    BY <1>3, <2>3, <2>4, <2>5, WorkerFacts DEF Works, NoteForJob, Tables
  <2>. QED
    BY <2>r, WorkerReads
<1>. QED
  BY <1>2, <1>3

\* EmbedFails preserves the invariant.
LEMMA EmbedFailsInv ==
    ASSUME IndInv, NEW w \in Workers, EmbedFails(w)
    PROVE  IndInv'
<1>. DEFINE job == work[w].job
            row == FailTransient(job)
            x == [work[w] EXCEPT !.loaded = notes[job.note].status]
<1>1. job \in Job /\ job.note \in Notes /\ work[w] \in WorkRecord
  BY WorkerFacts DEF EmbedFails, Job
<1>2. CASE row.status # "failed" \/ ~Matches(job)
  <2>1. Commit(w, row) /\ UNCHANGED <<notes, chunks, texts, req, crashes>>
    BY <1>2 DEF EmbedFails
  <2>2. /\ row \in Job /\ row.id = job.id /\ row.note = job.note
        /\ row.version = job.version /\ pc[w] # "idle"
    BY <1>1, FailTransientType DEF EmbedFails
  <2>. HIDE DEF row
  <2>. QED
    BY <2>1, <2>2, JobOnlyCommit
<1>3. CASE row.status = "failed" /\ Matches(job)
  <2>1. x \in WorkRecord /\ x.job = job /\ x.text = work[w].text
    BY <1>1 DEF WorkRecord, IndInv, TypeOK, Note
  <2>2. "failing" \in WorkerSteps /\ MayWork("failing", x, held[w])
    BY <2>1, WorkerFacts DEF EmbedFails, WorkerSteps, MayWork
  <2>3. work' = [work EXCEPT ![w] = x] /\ held' = [held EXCEPT ![w] = held[w]]
    BY <1>3 DEF EmbedFails, IndInv, TypeOK
  <2>r. Works(w, "failing", x, held[w])
    BY <1>3, <2>1, <2>2, <2>3, WorkerFacts DEF Works, EmbedFails, Tables
  <2>. QED
    BY <2>r, WorkerReads
<1>. QED
  BY <1>2, <1>3

\* Publish preserves the invariant.
LEMMA PublishInv ==
    ASSUME IndInv, NEW w \in Workers, Publish(w)
    PROVE  IndInv'
<1>. DEFINE job == work[w].job
            row == Complete(job)
<1>1. job \in Job /\ job.note \in Notes /\ work[w] \in WorkRecord
      /\ work[w].text = job.id
  BY WorkerFacts DEF Publish, Job, MayWork
<1>2. CASE ~Matches(job)
  BY <1>1, <1>2, JobOnlyCommit DEF Publish
<1>3. CASE Matches(job)
  <2>1. /\ chunks' = [chunks EXCEPT ![job.note] =
                         [version |-> job.version, text |-> job.id]]
        /\ notes' = [notes EXCEPT ![job.note].status = "ready"]
        /\ Commit(w, row)
    BY <1>1, <1>3 DEF Publish
  <2>2. row \in jobs' /\ \A j \in jobs : j.id # row.id => j \in jobs'
    BY <2>1 DEF Commit, Replaced
  <2>3. \A j \in jobs : j.id = row.id => j.status # "completed"
    BY <1>1, CompleteType, WorkerFacts DEF Publish, MayWork, IndInv, JobRows
  <2>4. ChunkRows'
    BY <1>1, <2>1, <2>2, <2>3, CompleteType DEF IndInv, TypeOK, ChunkRows
  <2>5. notes' \in [Notes -> Note]
    BY <1>1, <2>1 DEF IndInv, TypeOK, Note, NoteStatuses, SemanticStatuses
  <2>6. chunks' \in [Notes -> ChunkRecord]
    BY <1>1, <2>1 DEF IndInv, TypeOK, ChunkRecord, Job, Versions, Texts
  <2>7. Commits(w, row)
    BY <1>1, <2>1, <2>4, <2>5, <2>6, CompleteType
       DEF Commits, Publish, IndInv, TypeOK, Note
  <2>. QED
    BY <2>7, CommitInv
<1>. QED
  BY <1>2, <1>3

\* FailFlush preserves the invariant.
LEMMA FailFlushInv ==
    ASSUME IndInv, NEW w \in Workers, FailFlush(w)
    PROVE  IndInv'
<1>. DEFINE job == work[w].job
            row == FailTransient(job)
<1>1. job \in Job /\ job.note \in Notes /\ work[w] \in WorkRecord
  BY WorkerFacts DEF FailFlush, Job
<1>2. \A j \in jobs : j.id = row.id => j.status # "completed"
  BY <1>1, FailTransientType, WorkerFacts DEF FailFlush, MayWork, IndInv, JobRows
<1>3. ChunkRows'
  BY <1>2 DEF IndInv, ChunkRows, FailFlush, Commit, Replaced
<1>4. notes' \in [Notes -> Note]
  BY <1>1 DEF FailFlush, OrmSet, IndInv, TypeOK, Note, NoteStatuses, SemanticStatuses
<1>5. Commits(w, row)
  BY <1>1, <1>3, <1>4, FailTransientType DEF Commits, FailFlush, IndInv, TypeOK, Note
<1>. QED
  BY <1>5, CommitInv

-----------------------------------------------------------------------------
(* Transactions that are rolled back.                                        *)

\* A transaction that is rolled back keeps the invariant.
LEMMA RollbackInv ==
    ASSUME IndInv, NEW p \in Procs, Rollback(p), crashes' \in {crashes, crashes + 1}
    PROVE  IndInv'
<1>1. CASE p \in Requests
  <2>1. Answer(p, "error") /\ UNCHANGED <<Tables, work>>
    BY <1>1 DEF Rollback, Answer, Procs
  <2>. QED
    BY <1>1, <2>1, AnswerInv DEF Answers
<1>2. CASE p \in Workers
  <2>1. NoWork \in WorkRecord /\ "idle" \in WorkerSteps /\ MayWork("idle", NoWork, {})
    BY DEF NoWork, WorkRecord, Texts, NoteStatuses, SemanticStatuses, WorkerSteps, MayWork
  <2>r. Works(p, "idle", NoWork, {})
    BY <1>2, <2>1 DEF Works, Rollback
  <2>. QED
    BY <1>2, <2>r, WorkerReads
<1>. QED
  BY <1>1, <1>2 DEF Procs

-----------------------------------------------------------------------------
(* The steps of a handler that commit.                                       *)

\* The handler r commits and lets go of its locks: the rows the others hold are
\* as they were, and no note that is being deleted gets another job.
Writes(r, step, request) ==
    /\ UNCHANGED <<work, crashes>>
    /\ step \in Answers \cup {"rereading"} /\ pc' = [pc EXCEPT ![r] = step]
    /\ request \in RequestRecord /\ req' = [req EXCEPT ![r] = request]
    /\ step = "rereading" => request.note \in Notes
    /\ held' = [held EXCEPT ![r] = {}]
    /\ texts' \in {texts, texts + 1}
    /\ \A j \in jobs' : \/ \E k \in jobs : k.id = j.id /\ k.note = j.note
                        \/ j.id \notin 1 .. texts /\ ~NoteLocked(j.note)
    /\ \A q \in Procs \ {r} : \A j \in jobs \cup jobs' :
          j.id \in held[q] => (j \in jobs <=> j \in jobs')
    /\ \A q \in Requests \ {r} : pc[q] = "cascading" => Exists(req[q].note)'

\* What has to be shown of the tables themselves.
TablesOK == /\ notes \in [Notes -> Note]
            /\ jobs \in SUBSET Job
            /\ chunks \in [Notes -> ChunkRecord]
            /\ JobRows /\ OneJobPerVersion /\ CurrentVersionHasJob
            /\ NoteRows /\ ChunkRows

\* A step of one handler that commits keeps the invariant, when the tables it
\* leaves fulfil what is said of the tables.
LEMMA HandlerWrites ==
    ASSUME IndInv, NEW r \in Requests, NEW step, NEW request,
           Writes(r, step, request), TablesOK'
    PROVE  IndInv'
<1>. USE DEF IndInv, Writes, TablesOK, Procs
<1>0. texts \in Nat /\ 1 .. texts \subseteq 1 .. texts'
  BY DEF TypeOK
<1>1. TypeOK'
  BY <1>0 DEF TypeOK, RequestSteps, AtRest
<1>2. Locks'
  BY <1>0 DEF Locks, TypeOK
<1>3. WorkerHolds'
  <2>. SUFFICES ASSUME NEW v \in Workers PROVE MayWork(pc[v], work[v], held[v])'
    BY DEF WorkerHolds
  <2>1. pc'[v] = pc[v] /\ work'[v] = work[v] /\ held'[v] = held[v] /\ v # r
    BY DEF TypeOK
  <2>2. MayWork(pc[v], work[v], held[v])
    BY DEF WorkerHolds
  <2>. QED
    BY <2>1, <2>2 DEF MayWork
<1>4. RequestHolds'
  <2>. SUFFICES ASSUME NEW q \in Requests PROVE MayHold(pc[q], req[q], held[q])'
    BY DEF RequestHolds
  <2>1. CASE q = r
    BY <2>1 DEF MayHold, TypeOK, Answers
  <2>2. CASE q # r
    <3>1. pc'[q] = pc[q] /\ req'[q] = req[q] /\ held'[q] = held[q]
      BY <2>2 DEF TypeOK
    <3>2. MayHold(pc[q], req[q], held[q]) /\ held[q] \subseteq 1 .. texts
      BY DEF RequestHolds, Locks
    <3>3. \A j \in jobs' : j.id \in held[q] => j \in jobs
      BY <2>2
    <3>4. pc[q] = "purging" =>
            \A j \in jobs' :
               /\ j.id \in req[q].todo => j.note = req[q].note
               /\ j.id \in held[q] => j.note = req[q].note /\ j.status # "completed"
      BY <3>2, <3>3 DEF MayHold
    <3>5. pc[q] = "cascading" =>
            \A j \in jobs' : j.note = req[q].note
                                <=> j.id \in req[q].todo \cup held[q]
      BY <3>2 DEF MayHold, NoteLocked, NoteLockedBy
    <3>6. pc[q] = "cascading" => Exists(req[q].note)'
      BY <2>2
    <3>. QED
      BY <1>0, <3>1, <3>2, <3>3, <3>4, <3>5, <3>6 DEF MayHold
  <2>. QED
    BY <2>1, <2>2
<1>5. OneDelete'
  BY DEF OneDelete, TypeOK, Answers
<1>. QED
  BY <1>1, <1>2, <1>3, <1>4, <1>5

\* A note that a request is erasing is still there, and its row is locked.
LEMMA CascadeNote ==
    ASSUME IndInv, NEW q \in Requests, pc[q] = "cascading"
    PROVE  /\ req[q].note \in Notes /\ Exists(req[q].note)
           /\ NoteLocked(req[q].note)
BY DEF IndInv, RequestHolds, MayHold, Answers, NoteLocked, NoteLockedBy

\* A new job is a job.
LEMMA PendingJobType ==
    ASSUME NEW id \in Nat, NEW n \in Notes, NEW version \in Nat
    PROVE  /\ PendingJob(id, n, version) \in Job
           /\ PendingJob(id, n, version).id = id
           /\ PendingJob(id, n, version).note = n
           /\ PendingJob(id, n, version).version = version
           /\ PendingJob(id, n, version).status = "pending"
BY MaxAttemptsAssumption DEF PendingJob, Job, JobStatuses, Versions

\* CreateNote preserves the invariant.
LEMMA CreateNoteInv ==
    ASSUME IndInv, NEW r \in Requests, NEW n \in Notes, CreateNote(r, n)
    PROVE  IndInv'
<1>. DEFINE row == PendingJob(texts + 1, n, 1)
<1>. USE DEF IndInv, CreateNote
<1>1. texts \in Nat /\ row \in Job /\ row.id = texts + 1 /\ row.note = n
      /\ row.version = 1 /\ row.status = "pending"
  BY PendingJobType DEF TypeOK
<1>. HIDE DEF row
<1>2. jobs' = jobs \cup {row} /\ texts' = texts + 1
  BY DEF row
<1>3. /\ notes' = [notes EXCEPT ![n] = CreatedNote(texts + 1)]
      /\ notes'[n].version = 1 /\ notes'[n].text = texts + 1
      /\ \A m \in Notes : m # n => notes'[m] = notes[m]
      /\ notes[n].version = 0 /\ notes[n].text = 0
  BY DEF TypeOK, CreatedNote, Unwritten
<1>4. \A j \in jobs : j.note # n /\ j.note \in Notes /\ j.id # texts + 1
  BY <1>1, <1>3 DEF JobRows, Exists, TypeOK, Job
<1>5. TablesOK'
  <2>1. notes' \in [Notes -> Note]
    BY <1>1, <1>3 DEF TypeOK, CreatedNote, Note, Versions, Texts, NoteStatuses,
                      SemanticStatuses
  <2>2. jobs' \in SUBSET Job /\ chunks' \in [Notes -> ChunkRecord]
    BY <1>1, <1>2 DEF TypeOK
  <2>3. JobRows'
    BY <1>1, <1>2, <1>3, <1>4 DEF JobRows, Matches, Exists
  <2>4. OneJobPerVersion'
    BY <1>1, <1>2, <1>4 DEF OneJobPerVersion
  <2>5. CurrentVersionHasJob'
    BY <1>1, <1>2, <1>3 DEF CurrentVersionHasJob, JobsFor, JobsOf, Exists
  <2>6. NoteRows'
    BY <1>1, <1>2, <1>3 DEF NoteRows, TypeOK, Note, Texts
  <2>7. ChunkRows'
    BY <1>2 DEF ChunkRows
  <2>. QED
    BY <2>1, <2>2, <2>3, <2>4, <2>5, <2>6, <2>7 DEF TablesOK
<1>6. ~NoteLocked(n)
  BY <1>3 DEF NoteLocked, NoteLockedBy, RequestHolds, MayHold, Exists
<1>7. \A q \in Procs : texts + 1 \notin held[q]
  BY <1>1 DEF Locks
<1>w. Writes(r, "ok", NoRequest)
  <2>1. ASSUME NEW q \in Requests \ {r}, pc[q] = "cascading"
        PROVE  Exists(req[q].note)'
    <3>1. req[q].note \in Notes /\ Exists(req[q].note) /\ NoteLocked(req[q].note)
      BY <2>1, CascadeNote
    <3>2. req'[q] = req[q]
      BY <2>1 DEF Answer, TypeOK
    <3>. QED
      BY <1>3, <1>6, <3>1, <3>2 DEF Exists
  <2>. QED
    BY <1>1, <1>2, <1>6, <1>7, <2>1, NoRequestType DEF Writes, Answer, Answers
<1>. QED
  BY <1>5, <1>w, HandlerWrites

\* SaveFlush preserves the invariant.
LEMMA SaveFlushInv ==
    ASSUME IndInv, NEW r \in Requests, SaveFlush(r)
    PROVE  IndInv'
<1>. DEFINE n == req[r].note
            version == req[r].version
            row == PendingJob(texts + 1, n, version + 1)
<1>1. CASE Answer(r, "error") /\ UNCHANGED Tables
  BY <1>1, AnswerInv DEF SaveFlush, Answers
<1>2. CASE ~(Answer(r, "error") /\ UNCHANGED Tables)
  <2>1. /\ n \in Notes /\ version \in Nat /\ texts \in Nat
        /\ req[r].loaded \in NoteStatuses /\ notes[n] \in Note
        /\ \A j \in jobs : j.id \in held[r] => j.note = n /\ j.status # "completed"
    BY DEF SaveFlush, IndInv, TypeOK, RequestHolds, MayHold, Answers, RequestRecord,
           Versions
  <2>2. /\ row \in Job /\ row.id = texts + 1 /\ row.note = n
        /\ row.version = version + 1 /\ row.status = "pending"
    BY <2>1, PendingJobType
  <2>3. /\ Exists(n) /\ ~NoteLocked(n)
        /\ \A j \in jobs : (j.note = n /\ j.version = version + 1) => j.id \in held[r]
    BY <1>2 DEF SaveFlush, VersionTaken, JobsFor, JobsOf, Ids
  <2>4. /\ texts' = texts + 1 /\ chunks' = chunks
        /\ jobs' = {j \in jobs : j.id \notin held[r]} \cup {row}
        /\ Answer(r, "ok") /\ UNCHANGED <<work, crashes>>
    BY <1>2 DEF SaveFlush
  <2>. HIDE DEF row
  <2>5. \E s \in NoteStatuses :
          notes' = [notes EXCEPT ![n] =
                      [version |-> version + 1, text |-> texts + 1, status |-> s]]
    <3>. DEFINE s == OrmSet(notes[n].status, req[r].loaded, "pending")
    <3>1. s \in NoteStatuses
      BY <2>1 DEF OrmSet, Note, NoteStatuses, SemanticStatuses
    <3>2. notes' = [notes EXCEPT ![n] =
                      [version |-> version + 1, text |-> texts + 1, status |-> s]]
      BY <1>2 DEF SaveFlush, UpdatedNote
    <3>. QED
      BY <3>1, <3>2
  <2>6. /\ notes'[n].version = version + 1 /\ notes'[n].text = texts + 1
        /\ \A m \in Notes : m # n => notes'[m] = notes[m]
        /\ notes' \in [Notes -> Note]
    BY <2>1, <2>5 DEF IndInv, TypeOK, Note, Versions, Texts
  <2>7. /\ row \in jobs'
        /\ \A j \in jobs : j.id \notin held[r] => j \in jobs'
        /\ \A j \in jobs' : j = row \/ (j \in jobs /\ j.id \notin held[r])
        /\ \A j \in jobs : j.id # texts + 1 /\ j.note \in Notes
    BY <2>1, <2>4 DEF IndInv, JobRows, TypeOK, Job
  <2>8. TablesOK'
    <3>1. jobs' \in SUBSET Job /\ chunks' \in [Notes -> ChunkRecord]
      BY <2>2, <2>4, <2>7 DEF IndInv, TypeOK
    <3>2. JobRows'
      <4>1. \A j, k \in jobs' : j.id = k.id => j = k
        BY <2>2, <2>7 DEF IndInv, JobRows
      <4>2. \A j \in jobs' : j.id \in 1 .. texts' /\ Exists(j.note)'
        BY <2>1, <2>2, <2>4, <2>6, <2>7 DEF IndInv, JobRows, Exists
      <4>3. \A j \in jobs' : Matches(j)' => j.id = notes'[j.note].text
        BY <2>2, <2>3, <2>6, <2>7 DEF IndInv, JobRows, Matches
      <4>. QED
        BY <4>1, <4>2, <4>3 DEF JobRows
    <3>3. OneJobPerVersion'
      BY <2>2, <2>3, <2>7 DEF IndInv, OneJobPerVersion
    <3>4. CurrentVersionHasJob'
      <4>. SUFFICES ASSUME NEW m \in Notes, Exists(m)'
                    PROVE  \E j \in jobs' : j.note = m /\ j.version = notes'[m].version
        BY DEF CurrentVersionHasJob, JobsFor, JobsOf
      <4>1. CASE m = n
        BY <2>2, <2>6, <2>7, <4>1
      <4>2. CASE m # n
        <5>1. PICK j \in jobs : j.note = m /\ j.version = notes[m].version
          BY <2>6, <4>2 DEF IndInv, CurrentVersionHasJob, JobsFor, JobsOf, Exists
        <5>. QED
          BY <2>1, <2>6, <2>7, <4>2, <5>1
      <4>. QED
        BY <4>1, <4>2
    <3>5. NoteRows'
      BY <2>1, <2>4, <2>6 DEF IndInv, NoteRows, TypeOK, Note, Texts
    <3>6. ChunkRows'
      BY <2>1, <2>4, <2>7 DEF IndInv, ChunkRows
    <3>. QED
      BY <2>6, <3>1, <3>2, <3>3, <3>4, <3>5, <3>6 DEF TablesOK
  <2>w. Writes(r, "ok", NoRequest)
    <3>1. ASSUME NEW q \in Requests \ {r}, pc[q] = "cascading"
          PROVE  Exists(req[q].note)'
      <4>1. req[q].note \in Notes /\ Exists(req[q].note) /\ NoteLocked(req[q].note)
        BY <3>1, CascadeNote
      <4>2. req'[q] = req[q]
        BY <2>4, <3>1 DEF Answer, IndInv, TypeOK
      <4>. QED
        BY <2>3, <2>6, <4>1, <4>2 DEF Exists
    <3>2. \A q \in Procs \ {r} : texts + 1 \notin held[q] /\ held[q] \cap held[r] = {}
      BY <2>1 DEF IndInv, Locks, Procs
    <3>3. \A q \in Procs \ {r} : \A j \in jobs \cup jobs' :
             j.id \in held[q] => (j \in jobs <=> j \in jobs')
      BY <2>2, <2>7, <3>2
    <3>4. \A j \in jobs' : \/ \E k \in jobs : k.id = j.id /\ k.note = j.note
                           \/ j.id \notin 1 .. texts /\ ~NoteLocked(j.note)
      BY <2>1, <2>2, <2>3, <2>7
    <3>. QED
      BY <2>4, <3>1, <3>3, <3>4, NoRequestType DEF Writes, Answer, Answers
  <2>. QED
    BY <2>8, <2>w, HandlerWrites
<1>. QED
  BY <1>1, <1>2

\* DeleteCommit preserves the invariant.
LEMMA DeleteCommitInv ==
    ASSUME IndInv, NEW r \in Requests, DeleteCommit(r)
    PROVE  IndInv'
<1>. DEFINE n == req[r].note
<1>. USE DEF IndInv
<1>1. n \in Notes /\ \A j \in jobs : j.note = n <=> j.id \in held[r]
  BY DEF DeleteCommit, RequestHolds, MayHold, Answers
<1>2. jobs' = {j \in jobs : j.note # n}
  BY <1>1 DEF DeleteCommit
<1>3. /\ notes' = [notes EXCEPT ![n] = Erased] /\ texts' = texts
      /\ chunks' = [chunks EXCEPT ![n] = NoChunks]
  BY DEF DeleteCommit
<1>4. /\ notes'[n] = Erased /\ chunks'[n] = NoChunks
      /\ \A m \in Notes : m # n => notes'[m] = notes[m] /\ chunks'[m] = chunks[m]
  BY <1>1, <1>3 DEF TypeOK
<1>5. TablesOK'
  <2>1. notes' \in [Notes -> Note]
    BY <1>1, <1>3 DEF TypeOK, Erased, Note, Versions, Texts, NoteStatuses
  <2>2. jobs' \in SUBSET Job /\ chunks' \in [Notes -> ChunkRecord]
    BY <1>2, <1>3 DEF TypeOK, NoChunks, ChunkRecord, Versions, Texts
  <2>3. JobRows' /\ OneJobPerVersion'
    BY <1>2, <1>3, <1>4 DEF JobRows, OneJobPerVersion, Matches, Exists, TypeOK, Job
  <2>4. CurrentVersionHasJob'
    BY <1>2, <1>4 DEF CurrentVersionHasJob, JobsFor, JobsOf, Exists, Erased
  <2>5. NoteRows'
    BY <1>3, <1>4 DEF NoteRows, Erased, TypeOK
  <2>6. ChunkRows'
    BY <1>2, <1>4 DEF ChunkRows
  <2>. QED
    BY <2>1, <2>2, <2>3, <2>4, <2>5, <2>6 DEF TablesOK
<1>w. Writes(r, "ok", NoRequest)
  <2>1. ASSUME NEW q \in Requests \ {r}, pc[q] = "cascading"
        PROVE  Exists(req[q].note)'
    <3>1. req[q].note \in Notes /\ Exists(req[q].note)
      BY <2>1, CascadeNote
    <3>2. req'[q] = req[q] /\ req[q].note # n
      BY <2>1 DEF DeleteCommit, Answer, TypeOK, OneDelete
    <3>. QED
      BY <1>4, <3>1, <3>2 DEF Exists
  <2>2. \A q \in Procs \ {r} : held[q] \cap held[r] = {}
    BY DEF Locks, Procs
  <2>3. \A q \in Procs \ {r} : \A j \in jobs \cup jobs' :
           j.id \in held[q] => (j \in jobs <=> j \in jobs')
    BY <1>1, <1>2, <2>2
  <2>. QED
    BY <1>2, <1>3, <2>1, <2>3, NoRequestType DEF Writes, DeleteCommit, Answer, Answers
<1>. QED
  BY <1>5, <1>w, HandlerWrites

\* A job that is reset is a job.
LEMMA ResetType ==
    ASSUME NEW job \in Job
    PROVE  /\ Reset(job) \in Job /\ Reset(job).status = "pending"
           /\ Reset(job).id = job.id /\ Reset(job).note = job.note
           /\ Reset(job).version = job.version
<1>1. 0 \in 0 .. MaxAttempts /\ "pending" \in JobStatuses
  BY MaxAttemptsAssumption DEF JobStatuses
<1>2. Reset(job) \in Job
  BY <1>1 DEF Reset, Job
<1>3. Reset(job).status = "pending"
  BY DEF Reset, Job
<1>. QED
  BY <1>2, <1>3 DEF Reset, Job

\* RetryFlush preserves the invariant.
LEMMA RetryFlushInv ==
    ASSUME IndInv, NEW r \in Requests, RetryFlush(r)
    PROVE  IndInv'
<1>. DEFINE n == req[r].note
            After(j) == IF j.id \in held[r] THEN Reset(j) ELSE j
<1>. USE DEF IndInv
<1>1. /\ n \in Notes /\ req[r] \in RequestRecord
      /\ \A j \in jobs : j.id \in held[r] => j.status = "failed"
  BY DEF RetryFlush, TypeOK, RequestHolds, MayHold, Answers
<1>2. jobs' = {After(j) : j \in jobs} /\ UNCHANGED <<chunks, texts, req>>
  BY DEF RetryFlush
<1>3. \A j \in jobs : /\ j \in Job /\ After(j) \in Job
                      /\ After(j).id = j.id /\ After(j).note = j.note
                      /\ After(j).version = j.version
                      /\ j.status = "completed" => After(j) = j
  BY <1>1, ResetType DEF TypeOK
<1>4. /\ notes' \in [Notes -> Note]
      /\ \A m \in Notes : notes'[m].version = notes[m].version
                          /\ notes'[m].text = notes[m].text
  BY <1>1 DEF RetryFlush, TypeOK, Note, NoteStatuses, SemanticStatuses
<1>. HIDE DEF After
<1>5. \A j \in jobs' : \E k \in jobs : /\ j = After(k) /\ k.id = j.id
                                       /\ k.note = j.note /\ k.version = j.version
  BY <1>2, <1>3
<1>6. TablesOK'
  <2>1. jobs' \in SUBSET Job /\ chunks' \in [Notes -> ChunkRecord]
    BY <1>2, <1>3 DEF TypeOK
  <2>2. JobRows' /\ OneJobPerVersion'
    BY <1>2, <1>3, <1>4, <1>5 DEF JobRows, OneJobPerVersion, Matches, Exists, Job
  <2>3. CurrentVersionHasJob'
    <3>. SUFFICES ASSUME NEW m \in Notes, Exists(m)'
                  PROVE  \E j \in jobs' : j.note = m /\ j.version = notes'[m].version
      BY DEF CurrentVersionHasJob, JobsFor, JobsOf
    <3>1. PICK j \in jobs : j.note = m /\ j.version = notes[m].version
      BY <1>4 DEF CurrentVersionHasJob, JobsFor, JobsOf, Exists
    <3>. QED
      BY <1>2, <1>3, <1>4, <3>1
  <2>4. NoteRows'
    BY <1>2, <1>4 DEF NoteRows
  <2>5. ChunkRows'
    BY <1>2, <1>3 DEF ChunkRows
  <2>. QED
    BY <1>4, <2>1, <2>2, <2>3, <2>4, <2>5 DEF TablesOK
<1>w. Writes(r, "rereading", req[r])
  <2>1. ASSUME NEW q \in Requests \ {r}, pc[q] = "cascading"
        PROVE  Exists(req[q].note)'
    <3>1. req[q].note \in Notes /\ Exists(req[q].note)
      BY <2>1, CascadeNote
    <3>. QED
      BY <1>2, <1>4, <3>1 DEF Exists
  <2>2. \A q \in Procs \ {r} : held[q] \cap held[r] = {}
    BY DEF Locks, Procs
  <2>3. \A q \in Procs \ {r} : \A j \in jobs \cup jobs' :
           j.id \in held[q] => (j \in jobs <=> j \in jobs')
    BY <1>2, <1>3, <1>5, <2>2 DEF After
  <2>4. req' = [req EXCEPT ![r] = req[r]]
    BY <1>2 DEF TypeOK
  <2>. QED
    BY <1>1, <1>2, <1>5, <2>1, <2>3, <2>4 DEF Writes, RetryFlush
<1>. QED
  BY <1>6, <1>w, HandlerWrites

-----------------------------------------------------------------------------
(* Every step, and every behaviour.                                          *)

\* Every step of a handler.
LEMMA HandlerStepInv ==
    ASSUME IndInv, NEW r \in Requests, ClientStarts(r) \/ HandlerStep(r)
    PROVE  IndInv'
<1>1. CASE \E n \in Notes : \/ CreateNote(r, n) \/ ClientGet(r, n)
                            \/ DeleteNote(r, n) \/ RetryGet(r, n)
  BY <1>1, CreateNoteInv, ClientGetInv, DeleteNoteInv, RetryGetInv
<1>2. CASE UpdateGet(r) \/ SaveSelect(r) \/ SaveScan(r) \/ SaveFlush(r)
  BY <1>2, UpdateGetInv, SaveSelectInv, SaveScanInv, SaveFlushInv
<1>3. CASE \E id \in req[r].todo : SavePurge(r, id) \/ CascadeRow(r, id)
  BY <1>3, SavePurgeInv, CascadeRowInv
<1>4. CASE DeleteCommit(r) \/ RetrySelectNote(r) \/ RetrySelectJob(r)
           \/ RetryFlush(r) \/ RetryReread(r)
  BY <1>4, DeleteCommitInv, RetrySelectNoteInv, RetrySelectJobInv, RetryFlushInv,
     RetryRereadInv
<1>. QED
  BY <1>1, <1>2, <1>3, <1>4 DEF ClientStarts, HandlerStep

\* Every step of a worker.
LEMMA WorkerStepInv ==
    ASSUME IndInv, NEW w \in Workers, WorkerStep(w)
    PROVE  IndInv'
BY ClaimNextInv, NoteForJobInv, EmbedSucceedsInv, EmbedFailsInv, PublishInv,
   FailFlushInv DEF WorkerStep

\* A step that changes nothing.
LEMMA StutterInv == IndInv /\ UNCHANGED vars => IndInv'
BY DEF vars, IndInv, TypeOK, JobRows, OneJobPerVersion, CurrentVersionHasJob,
       NoteRows, ChunkRows, Locks, WorkerHolds, MayWork, RequestHolds, MayHold,
       OneDelete, Exists, Matches, JobsFor, JobsOf

\* The invariant is inductive.
LEMMA NextInv == IndInv /\ [Next]_vars => IndInv'
<1>. SUFFICES ASSUME IndInv, [Next]_vars PROVE IndInv'
  OBVIOUS
<1>1. ASSUME NEW r \in Requests, ClientStarts(r) \/ HandlerStep(r) PROVE IndInv'
  BY <1>1, HandlerStepInv
<1>2. ASSUME NEW w \in Workers, WorkerStep(w) PROVE IndInv'
  BY <1>2, WorkerStepInv
<1>3. ASSUME NEW p \in Procs, Crash(p) \/ DeadlockVictim(p) PROVE IndInv'
  BY <1>3, RollbackInv DEF Crash, DeadlockVictim
<1>4. CASE UNCHANGED vars
  BY <1>4, StutterInv
<1>. QED
  BY <1>1, <1>2, <1>3, <1>4 DEF Next

\* The inductive invariant holds in every reachable state.
THEOREM Invariance == Spec => []IndInv
BY InitInv, NextInv, PTL DEF Spec

\* Types: every row and every local variable keeps its type; with it, that no
\* claim drives attempt_count above its CHECK constraint.
THEOREM TypeCorrect == Spec => []TypeOK
<1>1. IndInv => TypeOK
  BY DEF IndInv
<1>. QED
  BY <1>1, Invariance, PTL

=============================================================================
