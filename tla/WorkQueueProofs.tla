-------------------------- MODULE WorkQueueProofs ---------------------------
(* Locks, attempts and the order of the queue, for any number of jobs,       *)
(* workers and attempts, any lease and any delays.                           *)
(*                                                                           *)
(* What an action does to one row of the queue is in the three lemmas on the *)
(* order; a worker that commits has, by IndInv, left room for its attempt.   *)
EXTENDS WorkQueue, FiniteSetTheorems, WellFoundedInduction, TLAPS

-----------------------------------------------------------------------------
(* Rows and delays                                                           *)

\* The fields of a row, and the bounds of the configuration.
LEMMA RowFacts ==
    ASSUME TypeOK, NEW j \in Jobs
    PROVE  /\ job[j] \in JobRow
           /\ job[j].status \in Statuses /\ job[j].attempts \in 0..MaxAttempts
           /\ job[j].wait \in 0..MaxDelay /\ job[j].lease \in 0..Lease
           /\ job[j].stale \in BOOLEAN
           /\ MaxAttempts \in Nat /\ MaxDelay \in Nat /\ Lease \in Nat /\ Poll \in Nat
BY QueueAssumption DEF TypeOK, JobRow

\* A new row satisfies the CHECKs of the table.
LEMMA NewRows == ASSUME NEW s \in Statuses PROVE Row(s) \in JobRow
BY QueueAssumption DEF Row, JobRow

\* The row of a job whose last attempt failed.
LEMMA LastRow ==
    ASSUME NEW n \in 0..MaxAttempts, NEW row, row = [Row("failed") EXCEPT !.attempts = n]
    PROVE  row \in JobRow /\ row.status = "failed"
<1>1. Row("failed") \in JobRow /\ Row("failed").status = "failed"
  BY NewRows DEF Row, Statuses
<1> QED
  BY <1>1 DEF JobRow

\* A power of two is the number of subsets of a finite set, hence a natural.
LEMMA PowerOfTwo == ASSUME NEW n \in Nat PROVE 2^n \in Nat
<1>1. IsFiniteSet(1..n) /\ Cardinality(1..n) = n
  BY FS_Interval
<1>2. /\ IsFiniteSet(SUBSET (1..n))
      /\ Cardinality(SUBSET (1..n)) = 2^Cardinality(1..n)
  BY <1>1, FS_SUBSET
<1>3. Cardinality(SUBSET (1..n)) \in Nat
  BY <1>2, FS_CardinalityType
<1> QED
  BY <1>1, <1>2, <1>3

\* A job never waits longer than the longest delay.
LEMMA DelayBounded == ASSUME NEW n \in Nat PROVE Delay(n + 1) \in 0..MaxDelay
<1>1. 2^((n + 1) - 1) \in Nat
  <2>1. (n + 1) - 1 = n
    OBVIOUS
  <2> QED
    BY <2>1, PowerOfTwo
<1> DEFINE d == 2^((n + 1) - 1)
<1>2. (IF d < MaxDelay THEN d ELSE MaxDelay) \in 0..MaxDelay
  <2> HIDE DEF d
  <2>1. d \in Nat
    BY <1>1 DEF d
  <2> QED
    BY <2>1, QueueAssumption
<1> QED
  BY <1>2 DEF Delay

-----------------------------------------------------------------------------
(* The order of the queue                                                    *)

\* What TypeOK says of the order.
Ordered == /\ ahead \subseteq Lined \X Lined
           /\ \A p \in ahead : Wait(p[1]) <= Wait(p[2])

Items == Jobs \cup Handlers

\* Jobs and handlers that are in the line, and the times that are left to them.
LEMMA LinedFacts ==
    ASSUME TypeOK
    PROVE  /\ Queued \subseteq Jobs /\ stamped \subseteq Handlers
           /\ Jobs \cap Handlers = {} /\ Lined \subseteq Items
           /\ \A j \in Jobs : /\ Wait(j) = job[j].wait
                              /\ j \in Lined <=> j \in Queued
           /\ \A h \in Handlers : /\ Wait(h) = 0
                                  /\ h \in Lined <=> h \in stamped
           /\ \A x \in Items : Wait(x) \in 0..MaxDelay
<1>1. Queued \subseteq Jobs /\ stamped \subseteq Handlers /\ Jobs \cap Handlers = {}
  BY QueueAssumption DEF Queued, TypeOK
<1>2. \A j \in Jobs : Wait(j) = job[j].wait /\ job[j].wait \in 0..MaxDelay
  BY RowFacts DEF Wait
<1>3. \A h \in Handlers : Wait(h) = 0 /\ 0 \in 0..MaxDelay
  BY <1>1, QueueAssumption DEF Wait
<1> QED
  BY <1>1, <1>2, <1>3 DEF Lined, Items

\* What is placed stands behind all that is available by then.
LEMMA PlacedOrdered ==
    ASSUME TypeOK, NEW x \in Items, NEW wait \in 0..MaxDelay,
           ahead' = Placed(x, wait), Lined' = Lined \cup {x}, Wait(x)' = wait,
           \A y \in Lined \ {x} : Wait(y)' = Wait(y)
    PROVE  Ordered'
<1>1. wait \in Int /\ \A y \in Lined : Wait(y) \in Int
  BY LinedFacts
<1>2. ASSUME NEW p \in ahead' PROVE p \in Lined' \X Lined' /\ Wait(p[1])' <= Wait(p[2])'
  <2>1. CASE p \in Without(x)
    <3>1. p[1] \in Lined \ {x} /\ p[2] \in Lined \ {x} /\ p = <<p[1], p[2]>>
          /\ Wait(p[1]) <= Wait(p[2])
      BY <2>1 DEF Without, TypeOK
    <3> QED
      BY <3>1
  <2>2. CASE p \in {<<y, x>> : y \in {q \in Lined \ {x} : Wait(q) <= wait}}
    <3>1. PICK y \in Lined \ {x} : p = <<y, x>> /\ Wait(y) <= wait
      BY <2>2
    <3> QED
      BY <3>1
  <2>3. CASE p \in {<<x, y>> : y \in {q \in Lined \ {x} : Wait(q) > wait}}
    <3>1. PICK y \in Lined \ {x} : p = <<x, y>> /\ Wait(y) > wait
      BY <2>3
    <3> QED
      BY <3>1, <1>1
  <2> QED
    BY <1>2, <2>1, <2>2, <2>3 DEF Placed
<1> QED
  BY <1>2 DEF Ordered

\* What leaves the line leaves the order.
LEMMA DroppedOrdered ==
    ASSUME TypeOK, NEW x, ahead' = Without(x), Lined' = Lined \ {x},
           \A y \in Lined \ {x} : Wait(y)' = Wait(y)
    PROVE  Ordered'
<1>1. ASSUME NEW p \in ahead' PROVE p \in Lined' \X Lined' /\ Wait(p[1])' <= Wait(p[2])'
  <2>1. p[1] \in Lined \ {x} /\ p[2] \in Lined \ {x} /\ p = <<p[1], p[2]>>
        /\ Wait(p[1]) <= Wait(p[2])
    BY <1>1 DEF Without, TypeOK
  <2> QED
    BY <2>1
<1> QED
  BY <1>1 DEF Ordered

\* A job that takes the place of its handler is available when it is.
LEMMA HandedOrdered ==
    ASSUME TypeOK, NEW h \in stamped, NEW j \in Jobs \ Queued,
           ahead' = Handed(h, j), Lined' = (Lined \ {h}) \cup {j}, Wait(j)' = 0,
           \A y \in Lined \ {h} : Wait(y)' = Wait(y)
    PROVE  Ordered'
<1>1. Wait(h) = 0 /\ h \in Lined
  BY LinedFacts DEF Lined
<1>2. ASSUME NEW p \in ahead' PROVE p \in Lined' \X Lined' /\ Wait(p[1])' <= Wait(p[2])'
  <2>1. CASE p \in Without(h)
    <3>1. p[1] \in Lined \ {h} /\ p[2] \in Lined \ {h} /\ p = <<p[1], p[2]>>
          /\ Wait(p[1]) <= Wait(p[2])
      BY <2>1 DEF Without, TypeOK
    <3> QED
      BY <3>1
  <2>2. CASE p \in {<<x, j>> : x \in {q \in Lined \ {h} : <<q, h>> \in ahead}}
    <3>1. PICK x \in Lined \ {h} : p = <<x, j>> /\ <<x, h>> \in ahead
      BY <2>2
    <3>2. Wait(x) <= Wait(h)
      BY <3>1 DEF TypeOK
    <3> QED
      BY <3>1, <3>2, <1>1
  <2>3. CASE p \in {<<j, x>> : x \in {q \in Lined \ {h} : <<h, q>> \in ahead}}
    <3>1. PICK x \in Lined \ {h} : p = <<j, x>> /\ <<h, x>> \in ahead
      BY <2>3
    <3>2. Wait(h) <= Wait(x)
      BY <3>1 DEF TypeOK
    <3> QED
      BY <3>1, <3>2, <1>1
  <2> QED
    BY <1>2, <2>1, <2>2, <2>3 DEF Handed
<1> QED
  BY <1>2 DEF Ordered

\* A job whose row is written, as the line sees it: its place is for the order to
\* say, the others wait as they did.
LEMMA RowWritten ==
    ASSUME TypeOK, NEW j \in Jobs, NEW row, job' = [job EXCEPT ![j] = row]
    PROVE  /\ \A y \in (Lined \cup Items) \ {j} : Wait(y)' = Wait(y)
           /\ Wait(j)' = row.wait /\ job'[j] = row
           /\ \A i \in Jobs \ {j} : job'[i] = job[i]
           /\ Queued' = IF row.status \in {"pending", "retry_wait", "processing"}
                        THEN Queued \cup {j} ELSE Queued \ {j}
<1>1. job'[j] = row /\ \A i \in Jobs \ {j} : job'[i] = job[i]
  BY DEF TypeOK
<1>2. \A y \in (Lined \cup Items) \ {j} : Wait(y)' = Wait(y)
  BY <1>1 DEF Wait
<1>3. Wait(j)' = row.wait
  BY <1>1 DEF Wait
<1>4. \A i \in Jobs : i \in Queued' <=>
        IF i = j THEN row.status \in {"pending", "retry_wait", "processing"} ELSE i \in Queued
  BY <1>1 DEF Queued, Pending
<1>5. Queued' \subseteq Jobs /\ Queued \subseteq Jobs
  BY DEF Queued
<1> QED
  BY <1>1, <1>2, <1>3, <1>4, <1>5

\* A job that is placed stands behind those that are available by then.
LEMMA Placing ==
    ASSUME TypeOK, NEW j \in Jobs, NEW wait \in 0..MaxDelay, NEW row,
           row.wait = wait, row.status \in {"pending", "retry_wait"}, stamped' = stamped,
           job' = [job EXCEPT ![j] = row], ahead' = Placed(j, wait)
    PROVE  /\ Ordered' /\ Queued' = Queued \cup {j}
           /\ Lined' = Lined \cup {j} /\ Wait(j)' = wait
<1>1. /\ \A y \in Lined \ {j} : Wait(y)' = Wait(y)
      /\ Wait(j)' = wait /\ Queued' = Queued \cup {j}
  BY RowWritten
<1>2. Lined' = Lined \cup {j}
  BY <1>1 DEF Lined
<1> QED
  BY <1>1, <1>2, PlacedOrdered DEF Items

\* A job that leaves the queue leaves the order.
LEMMA Dropping ==
    ASSUME TypeOK, NEW j \in Jobs, NEW row, stamped' = stamped,
           row.status \notin {"pending", "retry_wait", "processing"},
           job' = [job EXCEPT ![j] = row], ahead' = Without(j)
    PROVE  Ordered' /\ Queued' = Queued \ {j} /\ Lined' = Lined \ {j}
<1>1. /\ \A y \in Lined \ {j} : Wait(y)' = Wait(y)
      /\ Queued' = Queued \ {j}
  BY RowWritten
<1>2. Lined' = Lined \ {j}
  BY <1>1, LinedFacts DEF Lined
<1> QED
  BY <1>1, <1>2, DroppedOrdered

\* A job that stays in the queue, available at the same time, keeps its place.
LEMMA Staying ==
    ASSUME TypeOK, NEW j \in Jobs, NEW row, j \in Queued, stamped' = stamped,
           row.status \in {"pending", "retry_wait", "processing"},
           row.wait = job[j].wait,
           job' = [job EXCEPT ![j] = row], ahead' = ahead
    PROVE  Ordered' /\ Queued' = Queued /\ Lined' = Lined
<1>1. /\ \A y \in (Lined \cup Items) \ {j} : Wait(y)' = Wait(y)
      /\ Wait(j)' = Wait(j) /\ Queued' = Queued
  BY RowWritten, LinedFacts
<1>2. Lined' = Lined
  BY <1>1 DEF Lined
<1>3. \A p \in ahead : p[1] \in Lined /\ p[2] \in Lined
  BY DEF TypeOK
<1> QED
  BY <1>1, <1>2, <1>3 DEF Ordered, TypeOK

\* A handler that has read the clock stands behind all that is due.
LEMMA Stamping ==
    ASSUME TypeOK, NEW h \in Handlers, ReadClock(h)
    PROVE  /\ Ordered' /\ Queued' = Queued
           /\ Lined' = Lined \cup {h} /\ Wait(h)' = 0 /\ 0 \in 0..MaxDelay
<1>1. job' = job /\ stamped' = stamped \cup {h} /\ ahead' = Placed(h, 0)
  BY DEF ReadClock
<1>2. Queued' = Queued /\ \A y : Wait(y)' = Wait(y)
  BY <1>1 DEF Queued, Pending, Wait
<1>3. Lined' = Lined \cup {h}
  BY <1>1, <1>2 DEF Lined
<1>4. Wait(h)' = 0 /\ 0 \in 0..MaxDelay
  BY <1>2, LinedFacts, QueueAssumption
<1> QED
  BY <1>1, <1>2, <1>3, <1>4, PlacedOrdered DEF Items

\* A job takes the place that the reading of the clock has given its handler.
LEMMA Handing ==
    ASSUME TypeOK, NEW h \in Handlers, NEW j \in Jobs, Enqueue(h, j)
    PROVE  /\ Ordered' /\ Queued' = Queued \cup {j} /\ Lined' = (Lined \ {h}) \cup {j}
           /\ h \in stamped /\ j \notin Queued
<1>1. /\ h \in stamped /\ j \notin Queued /\ stamped' = stamped \ {h}
      /\ job' = [job EXCEPT ![j] = Row("pending")] /\ ahead' = Handed(h, j)
  BY DEF Enqueue, Renewed, Queued, Pending
<1>2. Row("pending").status = "pending" /\ Row("pending").wait = 0
  BY DEF Row
<1>3. /\ \A y \in Lined \ {j} : Wait(y)' = Wait(y)
      /\ Wait(j)' = 0 /\ Queued' = Queued \cup {j}
  BY <1>1, <1>2, RowWritten
<1>4. Lined' = (Lined \ {h}) \cup {j} /\ j \notin Lined
  BY <1>1, <1>3, LinedFacts DEF Lined
<1> QED
  BY <1>1, <1>3, <1>4, HandedOrdered

\* A handler that gives up leaves the line.
LEMMA GivingUp ==
    ASSUME TypeOK, NEW h \in Handlers, GiveUp(h)
    PROVE  Ordered' /\ Queued' = Queued /\ Lined' = Lined \ {h}
<1>1. job' = job /\ stamped' = stamped \ {h} /\ ahead' = Without(h)
  BY DEF GiveUp
<1>2. Queued' = Queued /\ \A y : Wait(y)' = Wait(y)
  BY <1>1 DEF Queued, Pending, Wait
<1>3. Lined' = Lined \ {h}
  BY <1>1, <1>2, LinedFacts DEF Lined
<1> QED
  BY <1>1, <1>2, <1>3, DroppedOrdered

-----------------------------------------------------------------------------
(* The jobs come and go                                                      *)

\* The first state.
LEMMA Initially == Init => IndInv
<1> SUFFICES ASSUME Init PROVE IndInv
  OBVIOUS
<1>1. \A j \in Jobs : job[j] = Row("absent") /\ job[j] \in JobRow
  BY NewRows DEF Init, Statuses
<1>2. Queued = {} /\ Lined = {}
  BY <1>1 DEF Queued, Pending, Row, Lined, Init
<1>3. TypeOK
  BY <1>1, <1>2, QueueAssumption DEF Init, TypeOK
<1>4. OneWorkerPerJob
  BY DEF Init, OneWorkerPerJob
<1>5. OnlyStaleJobsWedge
  BY <1>1 DEF OnlyStaleJobsWedge, Pending, Row
<1> QED
  BY <1>3, <1>4, <1>5 DEF IndInv, Init

\* What stays when the rows of the jobs do, with their locks.
LEMMA SameJobs ==
    ASSUME IndInv, Ordered', Queued' = Queued, stamped' \subseteq Handlers,
           UNCHANGED <<job, pc, held, nap, left, crashes>>
    PROVE  IndInv'
<1> USE DEF IndInv
<1>1. TypeOK'
  BY DEF TypeOK, Ordered
<1>2. OnlyStaleJobsWedge' /\ OneWorkerPerJob'
  BY DEF OnlyStaleJobsWedge, OneWorkerPerJob, Pending
<1> QED
  BY <1>1, <1>2

\* A reading of the clock.
LEMMA ReadClockStep == ASSUME IndInv, NEW h \in Handlers, ReadClock(h) PROVE IndInv'
<1>1. TypeOK
  BY DEF IndInv
<1>2. Ordered' /\ Queued' = Queued
  BY <1>1, Stamping
<1>3. stamped' \subseteq Handlers /\ UNCHANGED <<job, pc, held, nap, left, crashes>>
  BY <1>1 DEF ReadClock, TypeOK
<1> QED
  BY <1>2, <1>3, SameJobs

\* A handler that adds no job.
LEMMA GiveUpStep == ASSUME IndInv, NEW h \in Handlers, GiveUp(h) PROVE IndInv'
<1>1. TypeOK
  BY DEF IndInv
<1>2. Ordered' /\ Queued' = Queued
  BY <1>1, GivingUp
<1>3. stamped' \subseteq Handlers /\ UNCHANGED <<job, pc, held, nap, left, crashes>>
  BY <1>1 DEF GiveUp, TypeOK
<1> QED
  BY <1>2, <1>3, SameJobs

\* A job that enters the queue has all its attempts before it.
LEMMA EnqueueStep ==
    ASSUME IndInv, NEW h \in Handlers, NEW j \in Jobs, Enqueue(h, j)
    PROVE  IndInv'
<1> USE DEF IndInv, Enqueue
<1>1. Row("pending") \in JobRow /\ Row("pending").status = "pending"
      /\ Row("pending").attempts = 0
  BY NewRows DEF Row, Statuses
<1>2. job' = [job EXCEPT ![j] = Row("pending")] /\ stamped' \subseteq Handlers
  BY DEF Renewed, TypeOK
<1>3. Ordered' /\ Queued' = Queued \cup {j}
  BY Handing
<1>4. \A w \in Workers : held[w] # j
  BY QueueAssumption DEF TypeOK, Queued, Pending
<1>5. TypeOK'
  BY <1>1, <1>2, <1>3 DEF TypeOK, Ordered
<1>6. OnlyStaleJobsWedge'
  BY <1>1, <1>2, QueueAssumption DEF OnlyStaleJobsWedge, Pending, TypeOK
<1> QED
  BY <1>1, <1>2, <1>4, <1>5, <1>6, QueueAssumption DEF OneWorkerPerJob, TypeOK, Queued

\* A job is not removed under a worker.
LEMMA RemoveStep == ASSUME IndInv, NEW j \in Jobs, Remove(j) PROVE IndInv'
<1> USE DEF IndInv, Remove
<1>1. Row("absent") \in JobRow /\ Row("absent").status = "absent"
  BY NewRows DEF Row, Statuses
<1>2. Ordered' /\ Queued' = Queued \ {j}
  BY <1>1, Dropping
<1>3. \A w \in Workers : held[w] # j
  BY DEF Locked
<1>4. TypeOK'
  BY <1>1, <1>2, <1>3 DEF TypeOK, Ordered
<1>5. OnlyStaleJobsWedge'
  BY <1>1 DEF OnlyStaleJobsWedge, Pending, TypeOK
<1> QED
  BY <1>3, <1>4, <1>5 DEF OneWorkerPerJob, TypeOK, Queued

\* A stale job keeps its place, its attempts and its worker.
LEMMA SupersedeStep == ASSUME IndInv, NEW j \in Jobs, Supersede(j) PROVE IndInv'
<1> USE DEF IndInv, Supersede
<1> DEFINE row == [job[j] EXCEPT !.stale = TRUE]
<1>1. /\ row \in JobRow /\ row.status = job[j].status /\ row.stale
      /\ row.wait = job[j].wait /\ row.attempts = job[j].attempts
  BY RowFacts DEF JobRow
<1>2. job' = [job EXCEPT ![j] = row] /\ j \in Queued
  OBVIOUS
<1> HIDE DEF row
<1>3. row.status \in {"pending", "retry_wait", "processing"}
  BY <1>1, <1>2 DEF Queued, Pending
<1>4. Ordered' /\ Queued' = Queued
  BY <1>1, <1>2, <1>3, Staying
<1>5. \A i \in Jobs : job'[i].attempts = job[i].attempts /\ job'[i].status = job[i].status
                      /\ (job[i].stale => job'[i].stale) /\ (i # j => job'[i] = job[i])
  BY <1>1, <1>2 DEF TypeOK
<1>6. TypeOK'
  BY <1>1, <1>2, <1>4 DEF TypeOK, Ordered
<1>7. OnlyStaleJobsWedge'
  BY <1>1, <1>2, <1>5 DEF OnlyStaleJobsWedge, Pending, TypeOK
<1> QED
  BY <1>5, <1>6, <1>7 DEF OneWorkerPerJob, TypeOK, Queued

-----------------------------------------------------------------------------
(* The workers                                                               *)

\* What stays when the rows do.
LEMMA SameRows ==
    ASSUME TypeOK, OnlyStaleJobsWedge, UNCHANGED Rows
    PROVE  /\ Ordered' /\ Queued' = Queued /\ OnlyStaleJobsWedge'
           /\ job' \in [Jobs -> JobRow] /\ job' = job
           /\ stamped' \subseteq Handlers
<1>1. job' = job /\ stamped' = stamped /\ ahead' = ahead
  BY DEF Rows
<1>2. Queued' = Queued /\ Lined' = Lined /\ \A x : Wait(x)' = Wait(x)
  BY <1>1 DEF Queued, Pending, Lined, Wait
<1> QED
  BY <1>1, <1>2 DEF TypeOK, OnlyStaleJobsWedge, Ordered, Pending

\* A claim takes a job that nobody holds, with an attempt left.
LEMMA ClaimStep ==
    ASSUME IndInv, NEW w \in Workers, NEW j \in Jobs, ClaimNext(w, j)
    PROVE  IndInv'
<1> USE DEF IndInv, ClaimNext
<1>1. j \in Queued /\ \A v \in Workers : held[v] # j
  BY DEF First, Claimable, Locked
<1>3. Ordered' /\ Queued' = Queued /\ OnlyStaleJobsWedge' /\ job' = job
      /\ stamped' \subseteq Handlers
  BY SameRows
<1>4. Lease \in 0..Lease /\ j # NoJob
  BY QueueAssumption
<1>5. TypeOK'
  BY <1>1, <1>3, <1>4 DEF TypeOK, Ordered
<1>6. OneWorkerPerJob'
  BY <1>1, <1>4 DEF OneWorkerPerJob, TypeOK
<1> QED
  BY <1>1, <1>3, <1>5, <1>6 DEF TypeOK

\* The steps of a worker that touch no row and no lock.
LEMMA IdleSteps ==
    ASSUME IndInv, NEW w \in Workers, UNCHANGED <<Rows, held, left, crashes>>,
           pc' = [pc EXCEPT ![w] = pc'[w]],
           pc'[w] \in {"polling", "embedding", "sleeping", "down"},
           pc[w] \in {"claimed", "embedding"} <=> pc'[w] \in {"claimed", "embedding"},
           nap' \in [Workers -> 0..Poll]
    PROVE  IndInv'
<1> USE DEF IndInv
<1>1. Ordered' /\ Queued' = Queued /\ OnlyStaleJobsWedge' /\ job' = job
      /\ stamped' \subseteq Handlers
  BY SameRows
<1>2. pc' \in [Workers -> {"polling", "claimed", "embedding", "sleeping", "down"}]
      /\ \A v \in Workers : pc[v] \in {"claimed", "embedding"} <=> pc'[v] \in {"claimed", "embedding"}
  BY DEF TypeOK
<1>3. TypeOK'
  BY <1>1, <1>2 DEF TypeOK, Ordered
<1> QED
  BY <1>1, <1>3 DEF OneWorkerPerJob

\* A worker that commits has the row of a job to itself, with room for its attempt.
LEMMA HeldFacts ==
    ASSUME IndInv, NEW w \in Workers, pc[w] \in {"claimed", "embedding"}
    PROVE  /\ held[w] \in Queued /\ held[w] \in Jobs /\ held[w] # NoJob
           /\ job[held[w]].attempts < MaxAttempts
           /\ \A v \in Workers : v # w => held[v] # held[w]
BY QueueAssumption DEF IndInv, TypeOK, OneWorkerPerJob, Queued

\* What a commit keeps, whatever row it writes, when the order is kept.
LEMMA Commits ==
    ASSUME IndInv, NEW w \in Workers, pc[w] \in {"claimed", "embedding"},
           NEW row \in JobRow, NEW order, Commit(w, row, order),
           pc' \in [Workers -> {"polling", "claimed", "embedding", "sleeping", "down"}],
           pc'[w] \notin {"claimed", "embedding"},
           \A v \in Workers : v # w => pc'[v] = pc[v],
           nap' \in [Workers -> 0..Poll],
           Ordered', Queued \ {held[w]} \subseteq Queued',
           row.status = "processing" => row.stale,
           row.status \in {"pending", "retry_wait"} => row.attempts < MaxAttempts
    PROVE  IndInv'
<1> USE DEF IndInv, Commit, Release
<1>1. /\ held[w] \in Jobs /\ held[w] # NoJob
      /\ \A v \in Workers : v # w => held[v] # held[w]
  BY HeldFacts
<1>2. job'[held[w]] = row /\ \A i \in Jobs : i # held[w] => job'[i] = job[i]
  BY <1>1 DEF TypeOK
<1>3. held' = [held EXCEPT ![w] = NoJob] /\ held'[w] = NoJob
      /\ \A v \in Workers : v # w => held'[v] = held[v]
  BY DEF TypeOK
<1>4. held' \in [Workers -> Queued' \cup {NoJob}]
  BY <1>1, <1>3 DEF TypeOK
<1>5. TypeOK'
  BY <1>1, <1>3, <1>4, QueueAssumption DEF TypeOK, Ordered
<1>6. OneWorkerPerJob'
  BY <1>3 DEF OneWorkerPerJob
<1>7. OnlyStaleJobsWedge'
  BY <1>2 DEF OnlyStaleJobsWedge, Pending
<1>8. \A v \in Workers : held'[v] # NoJob => job'[held'[v]].attempts < MaxAttempts
  BY <1>1, <1>2, <1>3 DEF TypeOK, Queued
<1> QED
  BY <1>5, <1>6, <1>7, <1>8

\* What the loop's sleep does.
LEMMA Sleeping ==
    ASSUME TypeOK, NEW w \in Workers, Sleep(w)
    PROVE  /\ pc' \in [Workers -> {"polling", "claimed", "embedding", "sleeping", "down"}]
           /\ pc' = [pc EXCEPT ![w] = pc'[w]] /\ pc'[w] = "sleeping"
           /\ \A v \in Workers : v # w => pc'[v] = pc[v]
           /\ nap' \in [Workers -> 0..Poll]
BY QueueAssumption DEF TypeOK, Sleep

\* A claim that is committed alone leaves a stale job in processing.
LEMMA LeaveStep ==
    ASSUME IndInv, NEW w \in Workers, pc[w] \in {"claimed", "embedding"},
           job[held[w]].stale, Leave(w)
    PROVE  IndInv'
<1> DEFINE j == held[w]
           row == Claimed(w)
<1>1. TypeOK /\ left[w] \in 0..Lease
  BY DEF IndInv, TypeOK
<1>2. j \in Queued /\ j \in Jobs /\ job[j].attempts < MaxAttempts
  BY HeldFacts
<1>3. job[j] \in JobRow /\ job[j].attempts + 1 \in 0..MaxAttempts
  BY <1>1, <1>2, RowFacts
<1>4. /\ row \in JobRow /\ row.status = "processing" /\ row.stale
      /\ row.wait = job[j].wait
  BY <1>1, <1>3 DEF Claimed, JobRow, Statuses
<1>5. Commit(w, row, ahead) /\ Sleep(w)
  BY DEF Leave
<1> HIDE DEF row
<1>6. Ordered' /\ Queued' = Queued
  BY <1>1, <1>2, <1>4, <1>5, Staying DEF Commit
<1> QED
  BY <1>1, <1>4, <1>5, <1>6, Sleeping, Commits

\* note_for_job and the test of the version.
LEMMA NoteForJobStep == ASSUME IndInv, NEW w \in Workers, NoteForJob(w) PROVE IndInv'
<1>1. CASE job[held[w]].stale
  BY <1>1, LeaveStep DEF NoteForJob
<1>2. CASE ~job[held[w]].stale
  BY <1>2, IdleSteps DEF NoteForJob, IndInv, TypeOK
<1> QED
  BY <1>1, <1>2

\* publish.
LEMMA PublishStep == ASSUME IndInv, NEW w \in Workers, Publish(w) PROVE IndInv'
<1>1. CASE job[held[w]].stale
  BY <1>1, LeaveStep DEF Publish
<1>2. CASE ~job[held[w]].stale
  <2> DEFINE row == Row("completed")
  <2>1. row \in JobRow /\ row.status = "completed"
    BY NewRows DEF Row, Statuses
  <2>2. pc[w] = "embedding" /\ Commit(w, row, Without(held[w]))
        /\ pc' = [pc EXCEPT ![w] = "polling"] /\ nap' = nap
    BY <1>2 DEF Publish
  <2>3. held[w] \in Jobs /\ TypeOK
    BY <2>2, HeldFacts DEF IndInv
  <2> HIDE DEF row
  <2>4. Ordered' /\ Queued' = Queued \ {held[w]}
    BY <2>1, <2>2, <2>3, Dropping DEF Commit
  <2>5. /\ pc' \in [Workers -> {"polling", "claimed", "embedding", "sleeping", "down"}]
        /\ pc'[w] = "polling" /\ \A v \in Workers : v # w => pc'[v] = pc[v]
        /\ nap' \in [Workers -> 0..Poll]
    BY <2>2, <2>3 DEF TypeOK
  <2> QED
    BY <2>1, <2>2, <2>4, <2>5, Commits
<1> QED
  BY <1>1, <1>2

\* fail_transient: the last failure ends in failed, the others in retry_wait.
LEMMA EmbedFailsStep == ASSUME IndInv, NEW w \in Workers, EmbedFails(w) PROVE IndInv'
<1> DEFINE j == held[w]
           attempts == job[j].attempts + 1
           delay == Delay(attempts)
           last == [Row("failed") EXCEPT !.attempts = attempts]
           next == [job[j] EXCEPT !.status = "retry_wait", !.attempts = attempts,
                                  !.wait = delay, !.lease = 0]
<1>1. pc[w] = "embedding" /\ Sleep(w) /\ TypeOK
  BY DEF EmbedFails, IndInv
<1>2. j \in Queued /\ j \in Jobs /\ job[j].attempts < MaxAttempts
  BY <1>1, HeldFacts
<1>3. job[j] \in JobRow /\ job[j].attempts \in Nat /\ attempts \in 0..MaxAttempts
  BY <1>1, <1>2, RowFacts
<1>4. delay \in 0..MaxDelay
  BY <1>3, DelayBounded
<1>5. IF IsFinal(attempts) THEN Commit(w, last, Without(j))
                           ELSE Commit(w, next, Placed(j, delay))
  BY DEF EmbedFails
<1>6. j = held[w]
  OBVIOUS
<1> HIDE DEF j, attempts, delay
<1>7. /\ last \in JobRow /\ last.status = "failed"
      /\ next \in JobRow /\ next.status = "retry_wait"
      /\ next.wait = delay /\ next.attempts = attempts
  <2>1. last = [Row("failed") EXCEPT !.attempts = attempts]
    OBVIOUS
  <2>2. next = [job[j] EXCEPT !.status = "retry_wait", !.attempts = attempts,
                              !.wait = delay, !.lease = 0]
    OBVIOUS
  <2> HIDE DEF last, next
  <2>3. last \in JobRow /\ last.status = "failed"
    BY <1>3, <2>1, LastRow
  <2>4. /\ next \in JobRow /\ next.status = "retry_wait"
        /\ next.wait = delay /\ next.attempts = attempts
    <3>1. 0 \in 0..Lease /\ "retry_wait" \in Statuses
      BY QueueAssumption DEF Statuses
    <3> QED
      BY <1>3, <1>4, <2>2, <3>1 DEF JobRow
  <2> QED
    BY <2>3, <2>4
<1> HIDE DEF last, next
<1>8. CASE IsFinal(attempts)
  <2>1. Commit(w, last, Without(j))
    BY <1>5, <1>8
  <2>2. Ordered' /\ Queued' = Queued \ {j}
    BY <1>1, <1>2, <1>6, <1>7, <2>1, Dropping DEF Commit
  <2> QED
    BY <1>1, <1>6, <1>7, <2>1, <2>2, Sleeping, Commits
<1>9. CASE ~IsFinal(attempts)
  <2>1. attempts < MaxAttempts
    BY <1>3, <1>9, QueueAssumption DEF IsFinal
  <2>2. Commit(w, next, Placed(j, delay))
    BY <1>5, <1>9
  <2>3. Ordered' /\ Queued' = Queued \cup {j}
    BY <1>1, <1>2, <1>4, <1>6, <1>7, <2>2, Placing DEF Commit
  <2> QED
    BY <1>1, <1>6, <1>7, <2>1, <2>2, <2>3, Sleeping, Commits
<1> QED
  BY <1>8, <1>9

-----------------------------------------------------------------------------
(* Time and crashes                                                          *)

\* Time that is left gets less, and what was no later is no later.
LEMMA SoonerFacts ==
    ASSUME NEW m \in Nat, NEW n \in 0..m
    PROVE  Sooner(n) \in 0..m /\ \A k \in 0..m : n <= k => Sooner(n) <= Sooner(k)
BY DEF Sooner

\* Time passes for all alike, so that the order is kept.
LEMMA TickStep == ASSUME IndInv, Tick PROVE IndInv'
<1>1. TypeOK /\ OneWorkerPerJob /\ OnlyStaleJobsWedge
  BY DEF IndInv
<1>2. ASSUME NEW j \in Jobs
      PROVE  /\ job'[j] \in JobRow /\ job'[j].wait = Sooner(job[j].wait)
             /\ job'[j].status = job[j].status /\ job'[j].attempts = job[j].attempts
             /\ job'[j].stale = job[j].stale
  <2>1. Sooner(job[j].wait) \in 0..MaxDelay /\ Sooner(job[j].lease) \in 0..Lease
    BY <1>1, RowFacts, SoonerFacts
  <2>2. job'[j] = [job[j] EXCEPT !.wait = Sooner(job[j].wait), !.lease = Sooner(job[j].lease)]
    BY DEF Tick
  <2> QED
    BY <1>1, <2>1, <2>2, RowFacts DEF JobRow
<1>3. Queued' = Queued /\ Lined' = Lined
  BY <1>2 DEF Queued, Pending, Lined, Tick
<1>4. ASSUME NEW x \in Lined PROVE Wait(x)' = Sooner(Wait(x)) /\ Wait(x) \in 0..MaxDelay
  <2>1. Wait(x) \in 0..MaxDelay
    BY <1>1, LinedFacts
  <2>2. CASE x \in Jobs
    BY <1>2, <2>1, <2>2 DEF Wait
  <2>3. CASE x \notin Jobs
    BY <2>1, <2>3 DEF Wait, Sooner
  <2> QED
    BY <2>2, <2>3
<1>5. Ordered'
  <2> SUFFICES ASSUME NEW p \in ahead PROVE Wait(p[1])' <= Wait(p[2])'
    BY <1>1, <1>3 DEF Ordered, TypeOK, Tick
  <2>1. p[1] \in Lined /\ p[2] \in Lined /\ Wait(p[1]) <= Wait(p[2])
    BY <1>1 DEF TypeOK
  <2>2. MaxDelay \in Nat
    BY QueueAssumption
  <2>3. Sooner(Wait(p[1])) <= Sooner(Wait(p[2]))
    BY <1>4, <2>1, <2>2, SoonerFacts
  <2> QED
    BY <1>4, <2>1, <2>3
<1>6. nap' \in [Workers -> 0..Poll] /\ left' \in [Workers -> 0..Lease]
  <2>1. \A w \in Workers : Sooner(nap[w]) \in 0..Poll /\ Sooner(left[w]) \in 0..Lease
    BY <1>1, SoonerFacts, QueueAssumption DEF TypeOK
  <2> QED
    BY <2>1 DEF Tick
<1>7. job' \in [Jobs -> JobRow]
  <2>1. job' = [j \in Jobs |-> job'[j]]
    BY DEF Tick
  <2> QED
    BY <1>2, <2>1
<1>8. TypeOK'
  BY <1>1, <1>3, <1>5, <1>6, <1>7 DEF TypeOK, Ordered, Tick
<1>9. OnlyStaleJobsWedge'
  BY <1>1, <1>2 DEF OnlyStaleJobsWedge, Pending
<1>10. \A w \in Workers : held'[w] # NoJob => job'[held'[w]].attempts < MaxAttempts
  <2> SUFFICES ASSUME NEW w \in Workers, held[w] # NoJob
               PROVE  job'[held[w]].attempts < MaxAttempts
    BY DEF Tick
  <2>1. held[w] \in Jobs
    BY <1>1 DEF TypeOK, Queued
  <2>2. job'[held[w]].attempts = job[held[w]].attempts
    BY <1>2, <2>1
  <2> QED
    BY <2>2 DEF IndInv
<1> QED
  BY <1>1, <1>8, <1>9, <1>10 DEF IndInv, OneWorkerPerJob, Tick

\* A crash gives back the lock, and the rows are as they were before the claim.
LEMMA CrashStep == ASSUME IndInv, NEW w \in Workers, Crash(w) PROVE IndInv'
<1> USE DEF IndInv, Crash, Release
<1>1. Ordered' /\ Queued' = Queued /\ OnlyStaleJobsWedge' /\ job' = job
      /\ stamped' \subseteq Handlers
  BY SameRows
<1>2. TypeOK'
  BY <1>1, QueueAssumption DEF TypeOK, Ordered
<1> QED
  BY <1>1, <1>2 DEF OneWorkerPerJob, TypeOK

\* A step that changes nothing.
LEMMA Stuttering == IndInv /\ UNCHANGED vars => IndInv'
BY DEF vars, Rows, IndInv, TypeOK, OneWorkerPerJob, OnlyStaleJobsWedge, Lined, Queued, Wait,
       Pending

\* The other steps of a worker.
LEMMA QuietSteps ==
    ASSUME IndInv, NEW w \in Workers,
           NothingDue(w) \/ Wake(w) \/ Restart(w) \/ \E j \in Jobs : ClaimRejected(w, j)
    PROVE  IndInv'
<1>1. CASE NothingDue(w)
  BY <1>1, IdleSteps, Sleeping DEF NothingDue, IndInv
<1>2. CASE Wake(w)
  BY <1>2, IdleSteps DEF Wake, IndInv, TypeOK
<1>3. CASE Restart(w)
  BY <1>3, IdleSteps DEF Restart, IndInv, TypeOK
<1>4. CASE \E j \in Jobs : ClaimRejected(w, j)
  BY <1>4, IdleSteps DEF ClaimRejected, IndInv, TypeOK
<1> QED
  BY <1>1, <1>2, <1>3, <1>4

\* The inductive invariant holds.
THEOREM Invariance == Spec => []IndInv
<1>1. Init => IndInv
  BY Initially
<1>2. IndInv /\ [Next]_vars => IndInv'
  <2> SUFFICES ASSUME IndInv, Next PROVE IndInv'
    BY Stuttering
  <2>1. CASE \/ \E h \in Handlers : ReadClock(h) \/ GiveUp(h) \/ \E j \in Jobs : Enqueue(h, j)
             \/ \E j \in Jobs : Remove(j) \/ Supersede(j)
    BY <2>1, ReadClockStep, GiveUpStep, EnqueueStep, RemoveStep, SupersedeStep
  <2>2. CASE \E w \in Workers : WorkerStep(w)
    BY <2>2, ClaimStep, QuietSteps, NoteForJobStep, PublishStep, EmbedFailsStep
       DEF WorkerStep
  <2>3. CASE \E w \in Workers : Crash(w)
    BY <2>3, CrashStep
  <2>4. CASE Tick
    BY <2>4, TickStep
  <2> QED
    BY <2>1, <2>2, <2>3, <2>4 DEF Next
<1> QED
  BY <1>1, <1>2, PTL DEF Spec

\* The rows keep the CHECKs of the table and the order is that of due times.
THEOREM TypeCorrect == Spec => []TypeOK
<1>1. IndInv => TypeOK
  BY DEF IndInv
<1> QED
  BY <1>1, Invariance, PTL

\* SKIP LOCKED keeps two workers from one job, for any lease.
THEOREM NoJobTwice == Spec => []OneWorkerPerJob
<1>1. IndInv => OneWorkerPerJob
  BY DEF IndInv
<1> QED
  BY <1>1, Invariance, PTL

\* No job that waits for its work is ever rejected by the CHECK on its attempts.
THEOREM OnlyStaleWedge == Spec => []OnlyStaleJobsWedge
<1>1. IndInv => OnlyStaleJobsWedge
  BY DEF IndInv
<1> QED
  BY <1>1, Invariance, PTL
-----------------------------------------------------------------------------
(* The queue is a line                                                       *)

\* Of two jobs, queued or about to be added, one is available before the other,
\* and the order has no cycle: ORDER BY available_at, created_at has one answer.
Line ==
    /\ \A x \in Lined : <<x, x>> \notin ahead
    /\ \A x, y, z \in Lined : <<x, y>> \in ahead /\ <<y, z>> \in ahead => <<x, z>> \in ahead
    /\ \A x, y \in Lined : x = y \/ <<x, y>> \in ahead \/ <<y, x>> \in ahead

\* The order among the others, and what is said of x itself.
LEMMA Places ==
    ASSUME TypeOK, NEW x \in Items, NEW wait, ahead' = Placed(x, wait)
    PROVE  /\ \A y, z \in Lined \ {x} : <<y, z>> \in ahead' <=> <<y, z>> \in ahead
           /\ \A y \in Lined \ {x} :
                /\ <<y, x>> \in ahead' <=> Wait(y) <= wait
                /\ <<x, y>> \in ahead' <=> Wait(y) > wait
           /\ <<x, x>> \notin ahead'
<1>1. \A p : p \in ahead' <=> \/ p \in Without(x)
                              \/ \E y \in Lined \ {x} : p = <<y, x>> /\ Wait(y) <= wait
                              \/ \E y \in Lined \ {x} : p = <<x, y>> /\ Wait(y) > wait
  BY DEF Placed
<1>2. \A p : p \in Without(x) <=> p \in ahead /\ p[1] # x /\ p[2] # x
  BY DEF Without
<1> QED
  BY <1>1, <1>2

\* What is placed among the times that are left does not break the line.
LEMMA PlacingInLine ==
    ASSUME TypeOK, Line, NEW x \in Items, NEW wait \in 0..MaxDelay,
           ahead' = Placed(x, wait), Lined' = Lined \cup {x}
    PROVE  Line'
<1>1. /\ \A y, z \in Lined \ {x} : <<y, z>> \in ahead' <=> <<y, z>> \in ahead
      /\ \A y \in Lined \ {x} :
           /\ <<y, x>> \in ahead' <=> Wait(y) <= wait
           /\ <<x, y>> \in ahead' <=> Wait(y) > wait
      /\ <<x, x>> \notin ahead'
  BY Places
<1>2. wait \in Int /\ \A y \in Lined : Wait(y) \in Int
  BY LinedFacts
<1>3. \A y, z \in Lined : <<y, z>> \in ahead => Wait(y) <= Wait(z)
  BY DEF TypeOK
<1>4. \A y \in Lined' : <<y, y>> \notin ahead'
  BY <1>1 DEF Line
<1>5. ASSUME NEW u \in Lined', NEW v \in Lined', NEW z \in Lined',
             <<u, v>> \in ahead', <<v, z>> \in ahead'
      PROVE  <<u, z>> \in ahead'
  <2>1. CASE u # x /\ v # x /\ z # x
    BY <1>1, <1>5, <2>1 DEF Line
  <2>2. CASE u = x
    <3>1. v # x /\ v \in Lined /\ Wait(v) > wait
      BY <1>1, <1>5, <2>2
    <3>2. z # x
      <4> SUFFICES ASSUME z = x PROVE FALSE
        OBVIOUS
      <4>1. Wait(v) <= wait
        BY <1>1, <1>5, <3>1
      <4> QED
        BY <1>2, <3>1, <4>1
    <3>3. z \in Lined /\ Wait(v) <= Wait(z)
      BY <1>1, <1>3, <1>5, <3>1, <3>2
    <3>4. Wait(z) > wait
      BY <1>2, <3>1, <3>3
    <3> QED
      BY <1>1, <2>2, <3>2, <3>3, <3>4
  <2>3. CASE z = x /\ u # x
    <3>1. v # x /\ v \in Lined /\ Wait(v) <= wait
      BY <1>1, <1>5, <2>3
    <3>2. u \in Lined /\ Wait(u) <= Wait(v)
      BY <1>1, <1>3, <1>5, <2>3, <3>1
    <3>3. Wait(u) <= wait
      BY <1>2, <3>1, <3>2
    <3> QED
      BY <1>1, <2>3, <3>2, <3>3
  <2>4. CASE v = x /\ u # x /\ z # x
    <3>1. u \in Lined /\ Wait(u) <= wait /\ z \in Lined /\ Wait(z) > wait
      BY <1>1, <1>5, <2>4
    <3>2. ~(Wait(z) <= Wait(u)) /\ u # z
      BY <1>2, <3>1
    <3>3. <<u, z>> \in ahead
      BY <1>3, <3>1, <3>2 DEF Line
    <3> QED
      BY <1>1, <2>4, <3>1, <3>3
  <2> QED
    BY <2>1, <2>2, <2>3, <2>4
<1>6. ASSUME NEW u \in Lined', NEW v \in Lined', u # v
      PROVE  <<u, v>> \in ahead' \/ <<v, u>> \in ahead'
  <2>1. CASE u # x /\ v # x
    BY <1>1, <1>6, <2>1 DEF Line
  <2>2. CASE u = x
    <3>1. v \in Lined /\ v # x /\ (Wait(v) <= wait \/ Wait(v) > wait)
      BY <1>2, <1>6, <2>2
    <3> QED
      BY <1>1, <2>2, <3>1
  <2>3. CASE v = x
    <3>1. u \in Lined /\ u # x /\ (Wait(u) <= wait \/ Wait(u) > wait)
      BY <1>2, <1>6, <2>3
    <3> QED
      BY <1>1, <2>3, <3>1
  <2> QED
    BY <2>1, <2>2, <2>3
<1> QED
  BY <1>4, <1>5, <1>6 DEF Line

\* Nor does one that leaves.
LEMMA LeavingTheLine ==
    ASSUME TypeOK, Line, NEW x, ahead' = Without(x), Lined' = Lined \ {x}
    PROVE  Line'
<1>1. \A y, z \in Lined' : <<y, z>> \in ahead' <=> <<y, z>> \in ahead
  BY DEF Without
<1> QED
  BY <1>1 DEF Line

\* The order once j has the place of h.
LEMMA Hands ==
    ASSUME TypeOK, NEW h \in stamped, NEW j \in Jobs \ Queued, ahead' = Handed(h, j)
    PROVE  /\ \A x, y \in Lined \ {h} : <<x, y>> \in ahead' <=> <<x, y>> \in ahead
           /\ \A x \in Lined \ {h} : /\ <<x, j>> \in ahead' <=> <<x, h>> \in ahead
                                     /\ <<j, x>> \in ahead' <=> <<h, x>> \in ahead
           /\ <<j, j>> \notin ahead'
<1>1. \A p : p \in ahead' <=> \/ p \in Without(h)
                              \/ \E x \in Lined \ {h} : p = <<x, j>> /\ <<x, h>> \in ahead
                              \/ \E x \in Lined \ {h} : p = <<j, x>> /\ <<h, x>> \in ahead
  BY DEF Handed
<1>2. \A p : p \in Without(h) <=> p \in ahead /\ p[1] # h /\ p[2] # h
  BY DEF Without
<1>3. j \notin Lined /\ \A x : <<x, j>> \notin ahead /\ <<j, x>> \notin ahead
  BY LinedFacts DEF TypeOK
<1>4. ASSUME NEW x \in Lined \ {h}, NEW y \in Lined \ {h}
      PROVE  <<x, y>> \in ahead' <=> <<x, y>> \in ahead
  BY <1>1, <1>2, <1>3
<1>5. ASSUME NEW x \in Lined \ {h}
      PROVE  /\ <<x, j>> \in ahead' <=> <<x, h>> \in ahead
             /\ <<j, x>> \in ahead' <=> <<h, x>> \in ahead
  <2>1. <<x, j>> \notin Without(h) /\ <<j, x>> \notin Without(h) /\ x # j
    BY <1>2, <1>3
  <2>2. <<x, j>> \in ahead' <=> <<x, h>> \in ahead
    BY <1>1, <2>1
  <2>3. <<j, x>> \in ahead' <=> <<h, x>> \in ahead
    BY <1>1, <2>1
  <2> QED
    BY <2>2, <2>3
<1>6. <<j, j>> \notin ahead'
  <2>1. <<j, j>> \notin Without(h)
    BY <1>2, <1>3
  <2>2. \A x \in Lined \ {h} : <<j, j>> # <<x, j>> /\ <<j, j>> # <<j, x>>
    BY <1>3
  <2> QED
    BY <1>1, <2>1, <2>2
<1> QED
  BY <1>4, <1>5, <1>6

\* Nor does a job that takes the place of its handler.
LEMMA HandingInLine ==
    ASSUME TypeOK, Line, NEW h \in stamped, NEW j \in Jobs \ Queued,
           ahead' = Handed(h, j), Lined' = (Lined \ {h}) \cup {j}
    PROVE  Line'
<1> DEFINE old(x) == IF x = j THEN h ELSE x
<1>1. h \in Lined /\ j \notin Lined
  BY LinedFacts DEF Lined
<1>2. \A x \in Lined' : old(x) \in Lined
  BY <1>1
<1>3. \A x, y \in Lined' : old(x) = old(y) => x = y
  BY <1>1
<1>4. ASSUME NEW x \in Lined', NEW y \in Lined'
      PROVE  <<x, y>> \in ahead' <=> <<old(x), old(y)>> \in ahead
  <2>1. /\ \A u, v \in Lined \ {h} : <<u, v>> \in ahead' <=> <<u, v>> \in ahead
        /\ \A u \in Lined \ {h} : /\ <<u, j>> \in ahead' <=> <<u, h>> \in ahead
                                  /\ <<j, u>> \in ahead' <=> <<h, u>> \in ahead
        /\ <<j, j>> \notin ahead' /\ <<h, h>> \notin ahead
    BY <1>1, Hands DEF Line
  <2>2. CASE x = j /\ y = j
    BY <2>1, <2>2
  <2>3. CASE x = j /\ y # j
    BY <2>1, <2>3
  <2>4. CASE x # j /\ y = j
    BY <2>1, <2>4
  <2>5. CASE x # j /\ y # j
    BY <2>1, <2>5
  <2> QED
    BY <2>2, <2>3, <2>4, <2>5
<1> HIDE DEF old
<1>5. \A x \in Lined' : <<x, x>> \notin ahead'
  BY <1>2, <1>4 DEF Line
<1>6. ASSUME NEW x \in Lined', NEW y \in Lined', NEW z \in Lined',
             <<x, y>> \in ahead', <<y, z>> \in ahead'
      PROVE  <<x, z>> \in ahead'
  <2>1. <<old(x), old(y)>> \in ahead /\ <<old(y), old(z)>> \in ahead
    BY <1>4, <1>6
  <2>2. <<old(x), old(z)>> \in ahead
    BY <1>2, <2>1 DEF Line
  <2> QED
    BY <1>4, <2>2
<1>7. ASSUME NEW x \in Lined', NEW y \in Lined', x # y
      PROVE  <<x, y>> \in ahead' \/ <<y, x>> \in ahead'
  <2>1. <<old(x), old(y)>> \in ahead \/ <<old(y), old(x)>> \in ahead
    BY <1>2, <1>3, <1>7 DEF Line
  <2> QED
    BY <1>4, <2>1
<1> QED
  BY <1>5, <1>6, <1>7 DEF Line

-----------------------------------------------------------------------------
(* What a step may do to the queue                                           *)

\* The order is kept among the same, or one leaves, or a job takes the place of
\* its handler, or one is placed.
Kept == ahead' = ahead /\ Lined' = Lined

Gone == \E x \in Items : ahead' = Without(x) /\ Lined' = Lined \ {x}

Passed == \E h \in stamped, j \in Jobs \ Queued :
            /\ ahead' = Handed(h, j)
            /\ stamped' = stamped \ {h} /\ Lined' = (Lined \ {h}) \cup {j}

\* No job is placed that was due all the while.
Came == \E x \in Items : \E wait \in 0..MaxDelay :
            /\ ahead' = Placed(x, wait) /\ Lined' = Lined \cup {x}
            /\ x \in Jobs => wait # 0
            /\ Wait(x)' = wait

\* A power of two is no less than one: the set of no element has one subset.
LEMMA PowerPositive == ASSUME NEW n \in Nat PROVE 2^n \in Nat \ {0}
<1>1. IsFiniteSet(1..n) /\ Cardinality(1..n) = n
  BY FS_Interval
<1>2. /\ IsFiniteSet(SUBSET (1..n))
      /\ Cardinality(SUBSET (1..n)) = 2^Cardinality(1..n)
  BY <1>1, FS_SUBSET
<1>3. SUBSET (1..n) # {}
  OBVIOUS
<1>4. Cardinality(SUBSET (1..n)) # 0
  BY <1>2, <1>3, FS_EmptySet
<1> QED
  BY <1>1, <1>2, <1>4, PowerOfTwo

\* A job that failed waits for a while.
LEMMA DelayPositive == ASSUME NEW n \in Nat PROVE Delay(n + 1) # 0
<1> DEFINE d == 2^((n + 1) - 1)
<1>1. d \in Nat \ {0}
  <2>1. (n + 1) - 1 = n
    OBVIOUS
  <2> QED
    BY <2>1, PowerPositive
<1>2. (IF d < MaxDelay THEN d ELSE MaxDelay) # 0
  <2> HIDE DEF d
  <2> QED
    BY <1>1, QueueAssumption
<1> QED
  BY <1>2 DEF Delay

\* What a commit of fail_transient does to the queue.
LEMMA EmbedFailsQueue ==
    ASSUME IndInv, NEW w \in Workers, EmbedFails(w)
    PROVE  Gone \/ Came
<1> DEFINE j == held[w]
           attempts == job[j].attempts + 1
           delay == Delay(attempts)
           last == [Row("failed") EXCEPT !.attempts = attempts]
           next == [job[j] EXCEPT !.status = "retry_wait", !.attempts = attempts,
                                  !.wait = delay, !.lease = 0]
<1>1. pc[w] = "embedding" /\ TypeOK
  BY DEF EmbedFails, IndInv
<1>2. j \in Queued /\ j \in Jobs /\ job[j].attempts < MaxAttempts
  BY <1>1, HeldFacts
<1>3. job[j] \in JobRow /\ job[j].attempts \in Nat /\ attempts \in 0..MaxAttempts
  BY <1>1, <1>2, RowFacts
<1>4. delay \in 0..MaxDelay /\ delay # 0
  BY <1>3, DelayBounded, DelayPositive
<1>5. /\ \/ job' = [job EXCEPT ![j] = last] /\ ahead' = Without(j)
         \/ job' = [job EXCEPT ![j] = next] /\ ahead' = Placed(j, delay)
      /\ stamped' = stamped
  BY DEF EmbedFails, Commit
<1> HIDE DEF j, attempts, delay
<1>6. CASE job' = [job EXCEPT ![j] = last] /\ ahead' = Without(j)
  <2>1. last = [Row("failed") EXCEPT !.attempts = attempts]
    OBVIOUS
  <2> HIDE DEF last
  <2>2. last.status = "failed"
    BY <1>3, <2>1, LastRow
  <2> QED
    BY <1>1, <1>2, <1>5, <1>6, <2>2, Dropping DEF Gone, Items
<1>7. CASE job' = [job EXCEPT ![j] = next] /\ ahead' = Placed(j, delay)
  <2>1. next \in JobRow /\ next.status = "retry_wait" /\ next.wait = delay
    <3>1. 0 \in 0..Lease /\ "retry_wait" \in Statuses
      BY QueueAssumption DEF Statuses
    <3> QED
      BY <1>3, <1>4, <3>1 DEF JobRow
  <2> HIDE DEF next
  <2>2. PICK i \in Jobs : i = j
    BY <1>2
  <2>3. job' = [job EXCEPT ![i] = next] /\ ahead' = Placed(i, delay) /\ stamped' = stamped
    BY <1>5, <1>7, <2>2
  <2>4. Lined' = Lined \cup {i} /\ Wait(i)' = delay
    BY <1>1, <1>4, <2>1, <2>3, Placing
  <2> QED
    BY <1>4, <2>3, <2>4 DEF Came, Items
<1> QED
  BY <1>5, <1>6, <1>7

\* A claim that is committed alone keeps the queue as it is.
LEMMA LeaveQueue ==
    ASSUME IndInv, NEW w \in Workers, pc[w] \in {"claimed", "embedding"}, Leave(w)
    PROVE  Kept
<1> DEFINE j == held[w]
           row == Claimed(w)
<1>1. TypeOK /\ left[w] \in 0..Lease
  BY DEF IndInv, TypeOK
<1>2. j \in Queued /\ j \in Jobs
  BY HeldFacts
<1>3. job[j] \in JobRow
  BY <1>1, <1>2, RowFacts
<1>4. row.status = "processing" /\ row.wait = job[j].wait
  BY <1>1, <1>3 DEF Claimed, JobRow
<1>5. job' = [job EXCEPT ![j] = row] /\ ahead' = ahead /\ stamped' = stamped
  BY DEF Leave, Commit
<1> HIDE DEF row
<1> QED
  BY <1>1, <1>2, <1>4, <1>5, Staying DEF Kept

\* Each step does one of these four things to the queue.
LEMMA QueueSteps ==
    ASSUME IndInv, [Next]_vars
    PROVE  Kept \/ Gone \/ Passed \/ Came
<1>1. TypeOK
  BY DEF IndInv
<1>2. ASSUME UNCHANGED Rows PROVE Kept
  BY <1>2 DEF Kept, Rows, Lined, Queued, Pending
<1>3. ASSUME NEW h \in Handlers, ReadClock(h) \/ GiveUp(h) \/ \E j \in Jobs : Enqueue(h, j)
      PROVE  Gone \/ Passed \/ Came
  <2>1. CASE ReadClock(h)
    <3>1. Lined' = Lined \cup {h} /\ Wait(h)' = 0 /\ 0 \in 0..MaxDelay
      BY <1>1, <2>1, Stamping
    <3>2. ahead' = Placed(h, 0) /\ h \notin Jobs /\ h \in Items
      BY <2>1, QueueAssumption DEF ReadClock, Items
    <3> QED
      BY <3>1, <3>2 DEF Came
  <2>2. CASE GiveUp(h)
    BY <1>1, <2>2, GivingUp DEF GiveUp, Gone, Items
  <2>3. CASE \E j \in Jobs : Enqueue(h, j)
    BY <1>1, <2>3, Handing DEF Enqueue, Passed
  <2> QED
    BY <1>3, <2>1, <2>2, <2>3
<1>4. ASSUME NEW j \in Jobs, Remove(j) PROVE Gone
  <2>1. Row("absent").status = "absent"
    BY DEF Row
  <2> QED
    BY <1>1, <1>4, <2>1, Dropping DEF Remove, Gone, Items
<1>5. ASSUME NEW j \in Jobs, Supersede(j) PROVE Kept
  <2> DEFINE row == [job[j] EXCEPT !.stale = TRUE]
  <2>1. row.status = job[j].status /\ row.wait = job[j].wait
    BY <1>1, RowFacts DEF JobRow
  <2>2. job' = [job EXCEPT ![j] = row] /\ UNCHANGED <<stamped, ahead>> /\ j \in Queued
    BY <1>5 DEF Supersede
  <2> HIDE DEF row
  <2> QED
    BY <1>1, <2>1, <2>2, Staying DEF Kept, Queued, Pending
<1>6. ASSUME NEW w \in Workers, NoteForJob(w) PROVE Kept
  <2>1. CASE job[held[w]].stale
    BY <1>6, <2>1, LeaveQueue DEF NoteForJob
  <2>2. CASE ~job[held[w]].stale
    BY <1>2, <1>6, <2>2 DEF NoteForJob
  <2> QED
    BY <2>1, <2>2
<1>7. ASSUME NEW w \in Workers, Publish(w) PROVE Kept \/ Gone
  <2>1. CASE job[held[w]].stale
    BY <1>7, <2>1, LeaveQueue DEF Publish
  <2>2. CASE ~job[held[w]].stale
    <3>1. Row("completed").status = "completed"
      BY DEF Row
    <3>2. /\ job' = [job EXCEPT ![held[w]] = Row("completed")]
          /\ ahead' = Without(held[w]) /\ stamped' = stamped /\ held[w] \in Jobs
      BY <1>7, <2>2, HeldFacts DEF Publish, Commit
    <3> QED
      BY <1>1, <3>1, <3>2, Dropping DEF Gone, Items
  <2> QED
    BY <2>1, <2>2
<1>8. ASSUME NEW w \in Workers, EmbedFails(w) PROVE Gone \/ Came
  BY <1>8, EmbedFailsQueue
<1>9. ASSUME Tick PROVE Kept
  <2>1. \A j \in Jobs : job'[j].status = job[j].status
    <3> SUFFICES ASSUME NEW j \in Jobs PROVE job'[j].status = job[j].status
      OBVIOUS
    <3>1. job'[j] = [job[j] EXCEPT !.wait = Sooner(@), !.lease = Sooner(@)]
      BY <1>9 DEF Tick
    <3>2. job[j] \in JobRow
      BY <1>1, RowFacts
    <3> QED
      BY <3>1, <3>2 DEF JobRow
  <2> QED
    BY <1>9, <2>1 DEF Kept, Tick, Lined, Queued, Pending
<1>10. ASSUME NEW w \in Workers, WorkerStep(w) PROVE Kept \/ Gone \/ Came
  <2>1. \/ UNCHANGED Rows \/ NoteForJob(w) \/ Publish(w) \/ EmbedFails(w)
    BY <1>10 DEF WorkerStep, ClaimNext, ClaimRejected, NothingDue, Wake, Restart
  <2> QED
    BY <1>2, <1>6, <1>7, <1>8, <2>1
<1>11. ASSUME NEW w \in Workers, Crash(w) PROVE Kept
  BY <1>2, <1>11 DEF Crash
<1>12. CASE UNCHANGED vars
  BY <1>2, <1>12 DEF vars, Rows
<1> QED
  BY <1>3, <1>4, <1>5, <1>9, <1>10, <1>11, <1>12 DEF Next

\* The order of the queue is total, and no crash, failure or retry breaks it.
THEOREM QueueIsALine == Spec => []Line
<1>1. Init => Line
  <2> SUFFICES ASSUME Init PROVE Line
    OBVIOUS
  <2>1. Lined = {}
    BY DEF Init, Lined, Queued, Pending, Row
  <2> QED
    BY <2>1 DEF Init, Line
<1>2. IndInv /\ Line /\ [Next]_vars => Line'
  <2> SUFFICES ASSUME IndInv, Line, [Next]_vars PROVE Line'
    OBVIOUS
  <2>1. TypeOK
    BY DEF IndInv
  <2>2. CASE Kept
    BY <2>2 DEF Kept, Line
  <2>3. CASE Gone
    BY <2>1, <2>3, LeavingTheLine DEF Gone
  <2>4. CASE Passed
    BY <2>1, <2>4, HandingInLine DEF Passed
  <2>5. CASE Came
    BY <2>1, <2>5, PlacingInLine DEF Came
  <2> QED
    BY <2>2, <2>3, <2>4, <2>5, QueueSteps
<1> QED
  BY <1>1, <1>2, Invariance, PTL DEF Spec
-----------------------------------------------------------------------------
(* Who is before whom                                                        *)

Before(j) == {x \in Lined : <<x, j>> \in ahead}

\* A job that is due and waits to be claimed.
DueWaits(j) == Pending(j) /\ job[j].wait = 0

\* While a job is due and waits, nothing gets before it but the job of a handler
\* that was there already, because it read the clock before that job was due: it
\* takes the place of its handler, which is gone from there.  The number of those
\* before a due job never grows, and no handler passes it twice on one reading.
OnlyEarlierClocksPass ==
    [][\A j \in Jobs : DueWaits(j) /\ DueWaits(j)' =>
         \/ Before(j)' \subseteq Before(j)
         \/ \E h \in Before(j) \cap stamped, i \in Jobs \ Queued :
               h \notin stamped' /\ Before(j)' = (Before(j) \ {h}) \cup {i}]_vars

\* One step.
LEMMA PassingStep ==
    ASSUME IndInv, [Next]_vars, NEW j \in Jobs, DueWaits(j), DueWaits(j)'
    PROVE  \/ Before(j)' \subseteq Before(j)
           \/ \E h \in Before(j) \cap stamped, i \in Jobs \ Queued :
                 h \notin stamped' /\ Before(j)' = (Before(j) \ {h}) \cup {i}
<1>1. TypeOK /\ j \in Queued /\ j \in Lined /\ Wait(j) = 0 /\ Wait(j)' = 0
  BY DEF IndInv, DueWaits, Queued, Lined, Wait
<1>2. CASE Kept
  BY <1>2 DEF Kept, Before
<1>3. CASE Gone
  BY <1>3 DEF Gone, Before, Without
<1>4. CASE Passed
  <2>1. PICK h \in stamped, i \in Jobs \ Queued :
             /\ ahead' = Handed(h, i)
             /\ stamped' = stamped \ {h} /\ Lined' = (Lined \ {h}) \cup {i}
    BY <1>4 DEF Passed
  <2>2. j \in Lined \ {h} /\ h \in Lined /\ i \notin Lined
    BY <1>1, LinedFacts DEF Lined
  <2>3. /\ \A x \in Lined \ {h} : <<x, j>> \in ahead' <=> <<x, j>> \in ahead
        /\ <<i, j>> \in ahead' <=> <<h, j>> \in ahead
    BY <1>1, <2>1, <2>2, Hands
  <2>4. CASE <<h, j>> \in ahead
    <3>1. Before(j)' = (Before(j) \ {h}) \cup {i}
      BY <2>1, <2>2, <2>3, <2>4 DEF Before
    <3> QED
      BY <2>1, <2>2, <2>4, <3>1 DEF Before
  <2>5. CASE <<h, j>> \notin ahead
    BY <2>1, <2>2, <2>3, <2>5 DEF Before
  <2> QED
    BY <2>4, <2>5
<1>5. CASE Came
  <2>1. PICK x \in Items, wait \in 0..MaxDelay :
             /\ ahead' = Placed(x, wait) /\ Lined' = Lined \cup {x}
             /\ (x \in Jobs => wait # 0) /\ Wait(x)' = wait
    BY <1>5 DEF Came
  <2>2. x # j
    BY <1>1, <2>1
  <2>3. <<x, j>> \notin ahead'
    <3>1. <<x, j>> \in ahead' <=> Wait(j) > wait
      BY <1>1, <2>1, <2>2, Places
    <3>2. ~(0 > wait)
      BY QueueAssumption
    <3> QED
      BY <1>1, <3>1, <3>2
  <2>4. \A y \in Lined \ {x} : <<y, j>> \in ahead' <=> <<y, j>> \in ahead
    BY <1>1, <2>1, <2>2, Places
  <2> QED
    BY <2>1, <2>3, <2>4 DEF Before
<1> QED
  BY <1>2, <1>3, <1>4, <1>5, QueueSteps

\* A job that is due waits only for what is before it and for those handlers
\* whose reading of the clock is earlier, however often others fail, are retried
\* or saved: with the fairness of the workers, this is why it is tried.
THEOREM DueJobsWaitForEarlierClocks == Spec => OnlyEarlierClocksPass
<1>1. IndInv /\ [Next]_vars =>
        [\A j \in Jobs : DueWaits(j) /\ DueWaits(j)' =>
           \/ Before(j)' \subseteq Before(j)
           \/ \E h \in Before(j) \cap stamped, i \in Jobs \ Queued :
                 h \notin stamped' /\ Before(j)' = (Before(j) \ {h}) \cup {i}]_vars
  BY PassingStep
<1> QED
  BY <1>1, Invariance, PTL DEF Spec, OnlyEarlierClocksPass

\* A poll finds nothing exactly if nothing is due and unlocked, and otherwise
\* one job, the same whoever polls.
OneFirst == Claimable # {} => \E j \in Claimable : \A i \in Jobs : First(i) <=> i = j

\* Among finitely many claimable jobs of a line one has none before it.
LEMMA FirstExists ==
    ASSUME Line, IsFiniteSet(Jobs), Claimable # {}
    PROVE  \E j \in Jobs : First(j)
<1> DEFINE B(j) == {i \in Claimable : <<i, j>> \in ahead}
           T == {B(j) : j \in Claimable}
           R == StrictSubsetOrdering(Jobs)
<1>1. Claimable \subseteq Jobs /\ Claimable \subseteq Lined
  BY DEF Claimable, Queued, Lined
<1>2. IsWellFoundedOn(R, SUBSET Jobs)
  BY FS_StrictSubsetOrderingWellFounded, FS_FiniteSubsetsOfFinite
<1>3. T \subseteq SUBSET Jobs /\ T # {}
  BY <1>1
<1>4. PICK b \in T : \A c \in T : <<c, b>> \notin R
  <2> HIDE DEF T, R
  <2> QED
    BY <1>2, <1>3, WFMin
<1>5. PICK j \in Claimable : b = B(j)
  BY <1>4
<1>6. ASSUME NEW i \in Claimable, <<i, j>> \in ahead PROVE FALSE
  <2>1. B(i) \subseteq B(j)
    BY <1>1, <1>6 DEF Line
  <2>2. i \in B(j) /\ i \notin B(i)
    BY <1>1, <1>6 DEF Line
  <2>3. B(i) \in SUBSET Jobs /\ B(j) \in SUBSET Jobs /\ B(i) # B(j)
    BY <1>1, <2>2
  <2>4. <<B(i), B(j)>> \in R
    <3> HIDE DEF B
    <3> QED
      BY <2>1, <2>3 DEF StrictSubsetOrdering
  <2>5. B(i) \in T
    OBVIOUS
  <2> QED
    BY <1>4, <1>5, <2>4, <2>5
<1> QED
  BY <1>1, <1>6 DEF First

\* A worker that polls claims, or sleeps because there is nothing to claim, and
\* two that poll at once would claim the same job.
THEOREM PollsAreDecided ==
    ASSUME IsFiniteSet(Jobs)
    PROVE  Spec => []OneFirst
<1>1. Line => OneFirst
  <2> SUFFICES ASSUME Line, Claimable # {}
               PROVE  \E j \in Claimable : \A i \in Jobs : First(i) <=> i = j
    BY DEF OneFirst
  <2>1. PICK j \in Jobs : First(j)
    BY FirstExists
  <2>2. \A i \in Jobs : First(i) => i = j
    BY <2>1 DEF First, Claimable, Line, Lined
  <2> QED
    BY <2>1, <2>2 DEF First
<1> QED
  BY <1>1, QueueIsALine, PTL

-----------------------------------------------------------------------------
(* Without stale jobs                                                        *)

\* Every job is of the version its note has, and none is left in processing.
NoneStale == \A j \in Jobs : ~job[j].stale /\ job[j].status # "processing"

\* A new row is not stale.
LEMMA NewRowsAreFresh ==
    ASSUME NEW s, NEW n
    PROVE  /\ Row(s).status = s /\ ~Row(s).stale
           /\ [Row(s) EXCEPT !.attempts = n].status = s
           /\ ~[Row(s) EXCEPT !.attempts = n].stale
BY DEF Row

\* A step that gives one job a new row.
LEMMA FreshRow ==
    ASSUME TypeOK, NoneStale, NEW j \in Jobs, NEW row,
           ~row.stale, row.status # "processing", job' = [job EXCEPT ![j] = row]
    PROVE  NoneStale'
<1>1. \A i \in Jobs : job'[i] = IF i = j THEN row ELSE job[i]
  BY DEF TypeOK
<1> QED
  BY <1>1 DEF NoneStale
\* fail_transient writes a row that is pending again, or final.
LEMMA EmbedFailsFresh ==
    ASSUME IndInv, NoneStale, NEW w \in Workers, EmbedFails(w)
    PROVE  NoneStale'
<1> DEFINE j == held[w]
           attempts == job[j].attempts + 1
           delay == Delay(attempts)
           last == [Row("failed") EXCEPT !.attempts = attempts]
           next == [job[j] EXCEPT !.status = "retry_wait", !.attempts = attempts,
                                  !.wait = delay, !.lease = 0]
<1>1. TypeOK /\ j \in Jobs
  BY HeldFacts DEF EmbedFails, IndInv
<1>2. job[j] \in JobRow /\ ~job[j].stale
  BY <1>1, RowFacts DEF NoneStale
<1>3. job' = [job EXCEPT ![j] = last] \/ job' = [job EXCEPT ![j] = next]
  BY DEF EmbedFails, Commit
<1> HIDE DEF j, attempts, delay
<1>4. last.status = "failed" /\ ~last.stale
  BY NewRowsAreFresh
<1>5. next.status = "retry_wait" /\ ~next.stale
  BY <1>2 DEF JobRow
<1> HIDE DEF last, next
<1> QED
  BY <1>1, <1>3, <1>4, <1>5, FreshRow

\* One step of a queue without stale jobs.
LEMMA NoneStaleStep ==
    ASSUME MaxStale = 0, IndInv, NoneStale, [Next]_vars
    PROVE  NoneStale'
<1>1. TypeOK
  BY DEF IndInv
<1>2. ASSUME UNCHANGED Rows PROVE NoneStale'
  BY <1>2 DEF NoneStale, Rows
<1>3. ASSUME NEW h \in Handlers, ReadClock(h) \/ GiveUp(h) \/ \E j \in Jobs : Enqueue(h, j)
      PROVE  NoneStale'
  <2>1. CASE ReadClock(h) \/ GiveUp(h)
    BY <2>1 DEF ReadClock, GiveUp, NoneStale
  <2>2. CASE \E j \in Jobs : Enqueue(h, j)
    BY <1>1, <2>2, NewRowsAreFresh, FreshRow DEF Enqueue, Renewed
  <2> QED
    BY <1>3, <2>1, <2>2
<1>4. ASSUME NEW j \in Jobs, Remove(j) PROVE NoneStale'
  BY <1>1, <1>4, NewRowsAreFresh, FreshRow DEF Remove
<1>5. ASSUME NEW j \in Jobs, Supersede(j) PROVE FALSE
  <2>1. {i \in Jobs : job[i].stale} = {}
    BY DEF NoneStale
  <2>2. Cardinality({i \in Jobs : job[i].stale}) = 0
    BY <2>1, FS_EmptySet
  <2>3. Cardinality({i \in Jobs : job[i].stale}) < 0
    BY <1>5 DEF Supersede
  <2> QED
    BY <2>2, <2>3
<1>6. ASSUME NEW w \in Workers, NoteForJob(w) PROVE NoneStale'
  <2>1. held[w] \in Jobs /\ ~job[held[w]].stale
    BY <1>6, HeldFacts DEF NoteForJob, NoneStale
  <2> QED
    BY <1>2, <1>6, <2>1 DEF NoteForJob
<1>7. ASSUME NEW w \in Workers, Publish(w) PROVE NoneStale'
  <2>1. held[w] \in Jobs /\ ~job[held[w]].stale
    BY <1>7, HeldFacts DEF Publish, NoneStale
  <2>2. job' = [job EXCEPT ![held[w]] = Row("completed")]
    BY <1>7, <2>1 DEF Publish, Commit
  <2> QED
    BY <1>1, <2>1, <2>2, NewRowsAreFresh, FreshRow
<1>8. ASSUME NEW w \in Workers, EmbedFails(w) PROVE NoneStale'
  BY <1>8, EmbedFailsFresh
<1>9. ASSUME Tick PROVE NoneStale'
  <2> SUFFICES ASSUME NEW j \in Jobs
               PROVE  ~job'[j].stale /\ job'[j].status # "processing"
    BY DEF NoneStale
  <2>1. job'[j] = [job[j] EXCEPT !.wait = Sooner(@), !.lease = Sooner(@)]
    BY <1>9 DEF Tick
  <2>2. job[j] \in JobRow
    BY <1>1, RowFacts
  <2> QED
    BY <2>1, <2>2 DEF JobRow, NoneStale
<1>10. ASSUME NEW w \in Workers, WorkerStep(w) PROVE NoneStale'
  <2>1. \/ UNCHANGED Rows \/ NoteForJob(w) \/ Publish(w) \/ EmbedFails(w)
    BY <1>10 DEF WorkerStep, ClaimNext, ClaimRejected, NothingDue, Wake, Restart
  <2> QED
    BY <1>2, <1>6, <1>7, <1>8, <2>1
<1>11. ASSUME NEW w \in Workers, Crash(w) PROVE NoneStale'
  BY <1>2, <1>11 DEF Crash
<1>12. CASE UNCHANGED vars
  BY <1>2, <1>12 DEF vars, Rows
<1> QED
  BY <1>3, <1>4, <1>5, <1>9, <1>10, <1>11, <1>12 DEF Next

\* No claim meets the CHECK on attempt_count, so that no worker ends by it.
ClaimsSucceed == [][\A w \in Workers, j \in Jobs : ~ClaimRejected(w, j)]_vars

\* As long as no two saves race no job is found in `processing', wedged behind
\* one whose attempts are used up, or claimed once too often.
THEOREM NothingWedges ==
    ASSUME MaxStale = 0
    PROVE  Spec => [](NoneStale /\ \A j \in Jobs : ~Wedged(j)) /\ ClaimsSucceed
<1>1. Init => NoneStale
  BY DEF Init, NoneStale, Row
<1>2. IndInv /\ NoneStale /\ [Next]_vars => NoneStale'
  BY NoneStaleStep
<1>3. IndInv /\ NoneStale => \A j \in Jobs : ~Wedged(j)
  BY DEF Wedged, NoneStale
<1>4. IndInv /\ NoneStale =>
        [\A w \in Workers, j \in Jobs : ~ClaimRejected(w, j)]_vars
  <2> SUFFICES ASSUME IndInv, NoneStale, NEW j \in Jobs, First(j)
               PROVE  job[j].attempts # MaxAttempts
    BY DEF ClaimRejected
  <2>1. Pending(j)
    BY DEF First, Claimable, Queued, NoneStale
  <2>2. job[j].attempts < MaxAttempts /\ MaxAttempts \in Nat /\ job[j].attempts \in Int
    BY <2>1, RowFacts DEF IndInv, OnlyStaleJobsWedge
  <2> QED
    BY <2>2
<1> QED
  BY <1>1, <1>2, <1>3, <1>4, Invariance, PTL DEF Spec, ClaimsSucceed
=============================================================================
