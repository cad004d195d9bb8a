\* One chat tab; other tabs and workers change three notes.
CONSTANTS
    Notes = {n1, n2, n3}
    NoNote = NoNote
    Unknown = Unknown
    Chats = {c1}
    Limit = 2
    MaxTexts = 4
SPECIFICATION FairSpec
INVARIANTS
    TypeOK
    SourcesAsOfQuestion
    SourcesWereRetrieved
    AnswerFitsDecision
    WritesMatchAnswer
PROPERTIES
    EveryMessageIsAnswered
