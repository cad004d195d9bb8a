--------------------------- MODULE IndexingDomain ---------------------------
(* The value types of a note and of its indexing job, and the functions that *)
(* compute the next value of each (domain/notes.py, domain/indexing.py).     *)
(* A text stands for the title and the content together, as a number that    *)
(* tells one edit from another.  Clock readings are left out: whether a job  *)
(* is due, or a lease has run out, is decided by whoever uses Claimable.     *)
EXTENDS Naturals

CONSTANTS Notes,        \* note ids (UUIDs the server draws, never reused)
          MaxAttempts   \* maximum_attempts of fail_transient, and the bound of
                        \* the CHECK constraint on attempt_count (5)

ASSUME MaxAttemptsAssumption == MaxAttempts \in Nat \ {0}

SemanticStatuses == {"pending", "processing", "ready", "failed"}

JobStatuses == {"pending", "processing", "retry_wait", "failed", "completed"}

Versions == Nat         \* 0 is the version of a note that is not there
Texts == Nat            \* 0 is no text

Job == [id : Nat, note : Notes, version : Versions, status : JobStatuses,
        attempts : 0 .. MaxAttempts]

\* A row of the table, or what stands for a note not yet or no longer there.
NoteStatuses == SemanticStatuses \cup {"unwritten", "erased"}

Note == [version : Versions, text : Texts, status : NoteStatuses]

-----------------------------------------------------------------------------
CreatedNote(text) == [version |-> 1, text |-> text, status |-> "pending"]

UpdatedNote(version, text) ==
    [version |-> version + 1, text |-> text, status |-> "pending"]

\* Variant: the job is made for the version that was loaded.
PendingJobOfLoaded(id, n, version) ==
    [id |-> id, note |-> n, version |-> version - 1,
     status |-> "pending", attempts |-> 0]

PendingJob(id, n, version) ==
    [id |-> id, note |-> n, version |-> version,
     status |-> "pending", attempts |-> 0]

\* A due job, or one whose lease has run out: the clock conditions are left
\* to the moment at which a worker asks.
Claimable(job) == job.status \in {"pending", "retry_wait", "processing"}

Claim(job) == [job EXCEPT !.status = "processing", !.attempts = @ + 1]

\* Variant: a job is always tried again.
NeverGivesUp(job) == [job EXCEPT !.status = "retry_wait"]

\* Only a job that some worker claimed is ever given up or completed.
FailTransient(job) ==
    [job EXCEPT !.status = IF job.attempts >= MaxAttempts
                           THEN "failed" ELSE "retry_wait"]

Complete(job) == [job EXCEPT !.status = "completed"]

\* Variant: the retry forgets the job.
ResetForgotten(job) == job

\* What retry_failed makes of a failed job.
Reset(job) == [job EXCEPT !.status = "pending", !.attempts = 0]
=============================================================================
