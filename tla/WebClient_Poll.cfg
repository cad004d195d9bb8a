\* Two tasks of one tab overlap, while other tabs and workers change its note.
CONSTANTS
    Users = {u1}
    Notes = {n1}
    Nothing = Nothing
    Tasks = {t1, t2}
    MaxChanges = 1
    MaxClicks = 2
SPECIFICATION FairSpec
INVARIANTS
    TypeOK
    PollAlive
    ViewFollowsUser
PROPERTIES
    PendingRowsSettle
CHECK_DEADLOCK FALSE
