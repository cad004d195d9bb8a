\* Three notes, two to a page, and two handlers that write them.
CONSTANTS
    Notes = {1, 2, 3}
    Limit = 2
    Writers = {w1, w2}
    MaxClock = 2
    MaxWrites = 3
SPECIFICATION FairSpec
INVARIANTS
    TypeOK
    NoRepeat
    UntouchedListed
PROPERTIES
    PagingEnds
CHECK_DEADLOCK FALSE
