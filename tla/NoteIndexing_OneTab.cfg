\* One tab edits one note while two workers index it, failing and crashing.
CONSTANTS
    Notes = {n1}
    NoNote = NoNote
    Requests = {r1}
    Workers = {w1, w2}
    MaxAttempts = 2
    MaxTexts = 3
    MaxCrashes = 2
SPECIFICATION FairSpec
INVARIANTS
    CompletedIsSearchable
    FailedIsRetryable
PROPERTIES
    IndexingSettles
    EveryRequestIsAnswered
