----------------------------- MODULE WorkQueue ------------------------------
(* The queue of the indexing jobs in time: when a job is due, in which order *)
(* the due ones are claimed, leases, and the polling loop of the workers.    *)
(*                                                                           *)
(* A worker's run_once is one transaction, from the claim to the commit: the *)
(* row of its job stays locked all the while, and a crash undoes the claim.  *)
(* Clock readings are kept as the time that is left until they are reached,  *)
(* and the order of available_at as a relation.  What saves, retries and     *)
(* deletions do to the notes is in NoteIndexing; here they add jobs, remove  *)
(* them, and let a racing save leave one whose version is no longer the      *)
(* note's: a stale job.                                                      *)
EXTENDS Integers, FiniteSets

CONSTANTS Jobs,         \* the rows of indexing_jobs that exist at one time
          Handlers,     \* the requests under way that may add a job
          Workers,
          NoJob,
          MaxAttempts,  \* of fail_transient and of the CHECK on attempt_count
          MaxDelay,     \* the longest backoff
          Lease,        \* worker_lease_seconds
          Poll,         \* worker_poll_seconds
          MaxStale,     \* bound: stale jobs at one time
          MaxCrashes    \* bound: how often workers ever crash

ASSUME QueueAssumption ==
    /\ NoJob \notin Jobs /\ Jobs \cap Handlers = {}
    /\ MaxAttempts \in Nat \ {0} /\ MaxDelay \in Nat \ {0}
    /\ Lease \in Nat \ {0} /\ Poll \in Nat \ {0}
    /\ MaxStale \in Nat /\ MaxCrashes \in Nat

VARIABLES job,      \* the row of each job
          stamped,  \* the handlers that have read the clock for a job they add
          ahead,    \* <<i, j>>: i is available before j
          pc,       \* where each worker is
          held,     \* the job whose row each worker has locked
          nap,      \* time left until a sleeping worker polls again
          left,     \* time left of the lease each worker has given its job
          crashes

Rows == <<job, stamped, ahead>>

vars == <<Rows, pc, held, nap, left, crashes>>

Statuses == {"absent", "pending", "retry_wait", "processing", "failed", "completed"}

Row(status) ==
    [status |-> status, attempts |-> 0, wait |-> 0, lease |-> 0, stale |-> FALSE]

Pending(j) == job[j].status \in {"pending", "retry_wait"}

\* The jobs that a claim may meet, now or later.
Queued == {j \in Jobs : Pending(j) \/ job[j].status = "processing"}

\* available_at is known of these jobs, and of those that a handler is to add.
Lined == Queued \cup stamped

\* Time left until x is available; what a handler adds is available since it
\* has read the clock.
Wait(x) == IF x \in Jobs THEN job[x].wait ELSE 0

Locked(j) == \E w \in Workers : held[w] = j

-----------------------------------------------------------------------------
(* Jobs come and go                                                          *)

Without(x) == {p \in ahead : p[1] # x /\ p[2] # x}

\* Variant: the queue is served in the order in which jobs enter it.
PlacedLast(x, wait) == Without(x) \cup {<<y, x>> : y \in Lined \ {x}}

\* x is available in `wait', after all that are available by then.
Placed(x, wait) ==
    LET others == Lined \ {x}
    IN  Without(x) \cup {<<y, x>> : y \in {q \in others : Wait(q) <= wait}}
                   \cup {<<x, y>> : y \in {q \in others : Wait(q) > wait}}

\* j takes the place of the handler that adds it.
Handed(h, j) ==
    LET others == Lined \ {h}
    IN  Without(h) \cup {<<x, j>> : x \in {q \in others : <<q, h>> \in ahead}}
                   \cup {<<j, x>> : x \in {q \in others : <<h, q>> \in ahead}}

\* The handlers of creations, saves and retries read the clock before they
\* open their transaction.
ReadClock(h) ==
    /\ h \notin stamped
    /\ stamped' = stamped \cup {h}
    /\ ahead' = Placed(h, 0)
    /\ UNCHANGED <<job, pc, held, nap, left, crashes>>

\* IndexingJob.pending, and what retry_failed makes of a failed job.
Renewed(j) == Row("pending")

\* The transaction commits, after any wait, and with what the clock was then: a
\* note is created or saved, or its failed job is retried.
Enqueue(h, j) ==
    /\ h \in stamped
    /\ job[j].status \in {"absent", "failed", "completed"}
    /\ job' = [job EXCEPT ![j] = Renewed(j)]
    /\ stamped' = stamped \ {h}
    /\ ahead' = Handed(h, j)
    /\ UNCHANGED <<pc, held, nap, left, crashes>>

\* The request is refused, fails, or is lost with its process.
GiveUp(h) ==
    /\ h \in stamped
    /\ stamped' = stamped \ {h}
    /\ ahead' = Without(h)
    /\ UNCHANGED <<job, pc, held, nap, left, crashes>>

\* A save or a deletion removes a job, and waits for the lock of its row.
Remove(j) ==
    /\ job[j].status # "absent"
    /\ ~Locked(j)
    /\ job' = [job EXCEPT ![j] = Row("absent")]
    /\ ahead' = Without(j)
    /\ UNCHANGED <<stamped, pc, held, nap, left, crashes>>

\* Two saves race, and the job of the version that lost is left.
Supersede(j) ==
    /\ j \in Queued /\ ~job[j].stale
    /\ Cardinality({i \in Jobs : job[i].stale}) < MaxStale
    /\ job' = [job EXCEPT ![j].stale = TRUE]
    /\ UNCHANGED <<stamped, ahead, pc, held, nap, left, crashes>>

-----------------------------------------------------------------------------
(* claim_indexing_job                                                        *)

Due(j) == \/ Pending(j) /\ job[j].wait = 0
          \/ job[j].status = "processing" /\ job[j].lease = 0

\* Variant: the lease alone keeps others from a job.
ClaimableUnlocked == {j \in Queued : Due(j)}

\* FOR UPDATE SKIP LOCKED
Claimable == {j \in Queued : Due(j) /\ ~Locked(j)}

\* Variant: without ORDER BY.
FirstUnordered(j) == j \in Claimable

\* ORDER BY available_at, created_at LIMIT 1
First(j) == j \in Claimable /\ \A i \in Claimable : <<i, j>> \notin ahead

ClaimNext(w, j) ==
    /\ pc[w] = "polling"
    /\ First(j)
    /\ job[j].attempts < MaxAttempts
    /\ held' = [held EXCEPT ![w] = j]
    /\ left' = [left EXCEPT ![w] = Lease]
    /\ pc' = [pc EXCEPT ![w] = "claimed"]
    /\ UNCHANGED <<Rows, nap, crashes>>

\* The CHECK on attempt_count rejects one claim more; nothing catches what the
\* statement raises, and the process ends.
ClaimRejected(w, j) ==
    /\ pc[w] = "polling"
    /\ First(j)
    /\ job[j].attempts = MaxAttempts
    /\ pc' = [pc EXCEPT ![w] = "down"]
    /\ UNCHANGED <<Rows, held, nap, left, crashes>>

\* run_once returned False: the loop waits before it polls again.
Sleep(w) ==
    /\ pc' = [pc EXCEPT ![w] = "sleeping"]
    /\ nap' = [nap EXCEPT ![w] = Poll]

NothingDue(w) ==
    /\ pc[w] = "polling"
    /\ Claimable = {}
    /\ Sleep(w)
    /\ UNCHANGED <<Rows, held, left, crashes>>

Wake(w) ==
    /\ pc[w] = "sleeping" /\ nap[w] = 0
    /\ pc' = [pc EXCEPT ![w] = "polling"]
    /\ UNCHANGED <<Rows, held, nap, left, crashes>>

-----------------------------------------------------------------------------
(* process, and the commit                                                   *)

Release(w) ==
    /\ held' = [held EXCEPT ![w] = NoJob]
    /\ left' = [left EXCEPT ![w] = 0]

\* The transaction of w commits and the row of its job becomes `row'.
Commit(w, row, order) ==
    /\ job' = [job EXCEPT ![held[w]] = row]
    /\ ahead' = order
    /\ Release(w)
    /\ UNCHANGED <<stamped, crashes>>

\* What process leaves when it returns without a word on the job: the claim.
Claimed(w) ==
    [job[held[w]] EXCEPT !.status = "processing", !.attempts = @ + 1,
                         !.lease = left[w]]

Leave(w) == Commit(w, Claimed(w), ahead) /\ Sleep(w)

NoteForJob(w) ==
    /\ pc[w] = "claimed"
    /\ IF job[held[w]].stale
       THEN Leave(w)
       ELSE /\ pc' = [pc EXCEPT ![w] = "embedding"]
            /\ UNCHANGED <<Rows, held, nap, left, crashes>>

Publish(w) ==
    LET j == held[w] IN
    /\ pc[w] = "embedding"
    /\ IF job[j].stale
       THEN Leave(w)
       ELSE /\ Commit(w, Row("completed"), Without(j))
            /\ pc' = [pc EXCEPT ![w] = "polling"]
            /\ UNCHANGED nap

\* min(2 ** max(attempt_count - 1, 0), 16)
Delay(attempts) ==
    LET d == 2 ^ (attempts - 1) IN IF d < MaxDelay THEN d ELSE MaxDelay

IsFinal(attempts) == attempts >= MaxAttempts

\* Variant: a failure is not written down.
EmbedFailsSilently(w) == pc[w] = "embedding" /\ Leave(w)

\* fail_transient, whatever the note's version is by now.  A failure that is not
\* final writes the one row that is locked already, so that no wait separates
\* its reading of the clock from its commit.
EmbedFails(w) ==
    LET j == held[w]
        attempts == job[j].attempts + 1
        delay == Delay(attempts)
    IN
    /\ pc[w] = "embedding"
    /\ IF IsFinal(attempts)
       THEN Commit(w, [Row("failed") EXCEPT !.attempts = attempts], Without(j))
       ELSE Commit(w, [job[j] EXCEPT !.status = "retry_wait", !.attempts = attempts,
                                     !.wait = delay, !.lease = 0],
                   Placed(j, delay))
    /\ Sleep(w)

-----------------------------------------------------------------------------
(* Time, crashes and restarts                                                *)

Sooner(time) == IF time > 0 THEN time - 1 ELSE 0

Tick ==
    /\ job' = [j \in Jobs |-> [job[j] EXCEPT !.wait = Sooner(@), !.lease = Sooner(@)]]
    /\ nap' = [w \in Workers |-> Sooner(nap[w])]
    /\ left' = [w \in Workers |-> Sooner(left[w])]
    /\ UNCHANGED <<stamped, ahead, pc, held, crashes>>

Crash(w) ==
    /\ crashes < MaxCrashes
    /\ pc[w] # "down"
    /\ crashes' = crashes + 1
    /\ pc' = [pc EXCEPT ![w] = "down"]
    /\ nap' = [nap EXCEPT ![w] = 0]
    /\ Release(w)
    /\ UNCHANGED Rows

\* compose.yaml: restart: unless-stopped
Restart(w) ==
    /\ pc[w] = "down"
    /\ pc' = [pc EXCEPT ![w] = "polling"]
    /\ UNCHANGED <<Rows, held, nap, left, crashes>>

-----------------------------------------------------------------------------

Init ==
    /\ job = [j \in Jobs |-> Row("absent")]
    /\ stamped = {} /\ ahead = {}
    /\ pc = [w \in Workers |-> "polling"]
    /\ held = [w \in Workers |-> NoJob]
    /\ nap = [w \in Workers |-> 0]
    /\ left = [w \in Workers |-> 0]
    /\ crashes = 0

WorkerStep(w) ==
    \/ \E j \in Jobs : ClaimNext(w, j) \/ ClaimRejected(w, j)
    \/ NothingDue(w)
    \/ Wake(w)
    \/ NoteForJob(w)
    \/ Publish(w)
    \/ EmbedFails(w)
    \/ Restart(w)

Next ==
    \/ \E h \in Handlers : ReadClock(h) \/ GiveUp(h) \/ \E j \in Jobs : Enqueue(h, j)
    \/ \E j \in Jobs : Remove(j) \/ Supersede(j)
    \/ \E w \in Workers : WorkerStep(w) \/ Crash(w)
    \/ Tick

Spec == Init /\ [][Next]_vars

\* Time passes; the model answers or times out, and a worker that runs goes on;
\* one that is down is restarted.  Nobody has to save or to delete a note, and a
\* handler that has read the clock may commit at any time or never.
FairSpec == Spec /\ WF_vars(Tick) /\ \A w \in Workers : WF_vars(WorkerStep(w))

-----------------------------------------------------------------------------
(* Properties                                                                *)

JobRow == [status : Statuses, attempts : 0..MaxAttempts, wait : 0..MaxDelay,
           lease : 0..Lease, stale : BOOLEAN]

\* The rows satisfy the CHECKs of the table, the order is that of the time that
\* is left, and a worker holds the row of a queued job or of none.
TypeOK ==
    /\ job \in [Jobs -> JobRow]
    /\ stamped \subseteq Handlers
    /\ ahead \subseteq Lined \X Lined
    /\ \A p \in ahead : Wait(p[1]) <= Wait(p[2])
    /\ pc \in [Workers -> {"polling", "claimed", "embedding", "sleeping", "down"}]
    /\ held \in [Workers -> Queued \cup {NoJob}]
    /\ \A w \in Workers : (held[w] = NoJob) <=> (pc[w] \notin {"claimed", "embedding"})
    /\ nap \in [Workers -> 0..Poll]
    /\ left \in [Workers -> 0..Lease]
    /\ crashes \in Nat

\* No job is worked on twice at a time, also when its work outlasts its lease.
OneWorkerPerJob ==
    \A v, w \in Workers : (held[v] = held[w] /\ v # w) => held[v] = NoJob

\* Only a job that no worker will ever finish is found in `processing', and only
\* such a job can use up its attempts without failing: no claim of a job that
\* waits for its work is rejected.
OnlyStaleJobsWedge ==
    \A j \in Jobs : /\ job[j].status = "processing" => job[j].stale
                    /\ Pending(j) => job[j].attempts < MaxAttempts

\* What the proofs use besides: a claim leaves room for itself under the CHECK.
IndInv ==
    /\ TypeOK
    /\ OneWorkerPerJob
    /\ OnlyStaleJobsWedge
    /\ \A w \in Workers : held[w] # NoJob => job[held[w]].attempts < MaxAttempts

\* A job with no attempt left that comes before j.
Wedged(j) == \E i \in Jobs : /\ <<i, j>> \in ahead
                             /\ job[i].status = "processing"
                             /\ job[i].attempts = MaxAttempts

\* A job that waits is claimed in the end, or removed, whatever comes before it,
\* also what is committed late with an earlier reading of the clock, unless that
\* is a job which can no longer be claimed.
WaitingJobsAreTried ==
    \A j \in Jobs : Pending(j) ~> (~Pending(j) \/ Locked(j) \/ Wedged(j))
=============================================================================
