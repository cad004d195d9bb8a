\* Up to three paragraphs of up to eight words, in pieces of five tokens.
CONSTANTS
    Target = 5
    Overlap = 2
    MaxTitle = 4
    MaxParagraphs = 3
    MaxWords = 8
SPECIFICATION FairSpec
INVARIANTS
    TypeOK
    PiecesFit
    PiecesCoverContent
    PiecesProgress
    PiecesAreFull
PROPERTIES
    ChunkingEnds
CHECK_DEADLOCK FALSE
