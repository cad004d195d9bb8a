\* Two jobs; two handlers, of which the one that read the clock first may commit
\* last; two workers, of which one may crash.  A lease of one poll; delays of 1 and
\* 2 before the third attempt, which is the last.
CONSTANTS
    Jobs = {j1, j2}
    Handlers = {h1, h2}
    Workers = {w1, w2}
    NoJob = NoJob
    MaxAttempts = 3
    MaxDelay = 2
    Lease = 1
    Poll = 1
    MaxStale = 1
    MaxCrashes = 1
SPECIFICATION FairSpec
INVARIANTS
    TypeOK
    OneWorkerPerJob
    OnlyStaleJobsWedge
PROPERTIES
    WaitingJobsAreTried
