---------------------------- MODULE ChunkingInv -----------------------------
(* The inductive invariant of Chunking.                                      *)
EXTENDS Chunking

\* Where the next piece has to begin.
NextPiece == IF pieces = <<>> THEN 1 ELSE NextWord(pieces[Len(pieces)])

\* A paragraph has been read: there are words to be cut, or none at all.
Started == k > 1 \/ at = "cutting"

\* The input, and what the title leaves of the target.
InputInv ==
    /\ paragraphs = <<0>> \/ \A i \in 1..Len(paragraphs) : paragraphs[i] > 0
    /\ Len(paragraphs) > 0
    /\ at \in {"collecting", "cutting", "done"} => Limit > Overlap
    /\ at = "cutting" => k <= Len(paragraphs)
    /\ k <= Len(paragraphs) + 1

\* The words read so far end with a paragraph.
ReadInv ==
    /\ \A e \in ends : e <= read
    /\ Started => read \in ends
    /\ ~Started => pieces = <<>> /\ read = 0 /\ ends = {}
    /\ paragraphs = <<0>> => read = 0 /\ pieces \in {<<>>, <<NoWords>>}
    /\ paragraphs # <<0>> /\ Started => read > 0
    /\ at \in {"checking", "empty_note", "title_too_large"} => ~Started
    /\ at = "done" => Started

\* The piece that may still grow follows the others and holds all that was read
\* after them.
CurrentInv ==
    IF at = "collecting" /\ k > 1 /\ paragraphs # <<0>>
    THEN /\ Size(current) > 0 /\ Size(current) <= Limit
         /\ current.lo = NextPiece
         /\ current.hi = read
    ELSE current = NoWords

\* What is left of the paragraph being cut follows the pieces and has no end of
\* a paragraph but its own.
WordsInv ==
    at = "cutting" =>
        /\ words.hi = read
        /\ words.lo = NextPiece
        /\ paragraphs # <<0>> => Size(words) > 0
        /\ \A e \in ends : e < words.lo \/ e = read

\* While the function runs, the pieces hold less than what was read.
PiecesInv ==
    \A i \in 1..Len(pieces) : /\ pieces[i].hi <= read
                              /\ at # "done" => pieces[i].hi < read

IndInv ==
    /\ TypeOK
    /\ InputInv
    /\ ReadInv
    /\ CurrentInv
    /\ WordsInv
    /\ PiecesInv
    /\ PiecesFit
    /\ PiecesCoverContent
    /\ PiecesProgress
    /\ PiecesAreFull
=============================================================================
