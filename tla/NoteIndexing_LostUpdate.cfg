\* Two tabs send PATCH for the same version.
CONSTANTS
    Notes = {n1}
    NoNote = NoNote
    Requests = {r1, r2}
    Workers = {w1}
    MaxAttempts = 2
    MaxTexts = 3
    MaxCrashes = 0
SPECIFICATION Spec
SYMMETRY Symmetry
PROPERTY NoLostUpdate
