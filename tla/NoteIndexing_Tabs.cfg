\* Two tabs edit one note while a worker indexes it, failing and crashing.
CONSTANTS
    Notes = {n1}
    NoNote = NoNote
    Requests = {r1, r2}
    Workers = {w1}
    MaxAttempts = 2
    MaxTexts = 4
    MaxCrashes = 1
SPECIFICATION Spec
SYMMETRY Symmetry
INVARIANTS
    TypeOK
    ChunksMatchText
    CurrentVersionHasJob
    NothingLeftBehind
PROPERTIES
    CompletedIsFinal
    ImplementsIndex
