\* A retry overlaps the lost update of another tab.
CONSTANTS
    Notes = {n1}
    NoNote = NoNote
    Requests = {r1, r2}
    Workers = {w1}
    MaxAttempts = 2
    MaxTexts = 4
    MaxCrashes = 0
SPECIFICATION Spec
SYMMETRY Symmetry
PROPERTY RetryReturnsToPending
