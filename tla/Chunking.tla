------------------------------ MODULE Chunking ------------------------------
(* chunk_note: how the text of a note is cut into the pieces that are        *)
(* embedded and searched.                                                    *)
(*                                                                           *)
(* The words of the content are numbered 1, 2, 3...; a run of words is a     *)
(* record [lo, hi], which is empty when hi < lo.  A paragraph counts by its  *)
(* words only, and the title by its tokens.  A step is one round of a loop.  *)
EXTENDS Integers, Sequences

CONSTANTS Target,         \* target_tokens
          Overlap,        \* overlap_tokens
          MaxTitle,       \* bound: tokens of a title
          MaxParagraphs,  \* bound: paragraphs of a content
          MaxWords        \* bound: words of a paragraph

ASSUME ConfigurationAssumption ==
    /\ Target \in Nat /\ Overlap \in Nat /\ Overlap < Target

ASSUME BoundsAssumption ==
    MaxTitle \in Nat /\ MaxParagraphs \in Nat /\ MaxWords \in Nat

VARIABLES title,       \* input: the tokens of the title
          paragraphs,  \* input: the words of each paragraph
          at,          \* where the function is
          k,           \* the paragraph it is at
          read,        \* the words of the paragraphs before
          ends,        \* history: the words that end a paragraph
          words,       \* what is left of the paragraph being cut
          current,     \* the piece that may still grow
          pieces       \* the pieces cut so far

vars == <<title, paragraphs, at, k, read, ends, words, current, pieces>>
inputs == <<title, paragraphs>>

NoWords == [lo |-> 1, hi |-> 0]

Size(run) == run.hi - run.lo + 1

\* content_limit: what the title leaves of the target.
Limit == Target - title

\* Append(seq, current) in the source skips an empty piece.
Flushed == IF Size(current) > 0 THEN Append(pieces, current) ELSE pieces

-----------------------------------------------------------------------------

\* Variant: a title that leaves no room is not refused.
CheckTitleOnlyEmpty ==
    /\ at = "checking"
    /\ at' = IF title = 0 /\ paragraphs = <<0>> THEN "empty_note" ELSE "collecting"
    /\ UNCHANGED <<inputs, k, read, ends, words, current, pieces>>

CheckTitle ==
    /\ at = "checking"
    /\ at' = IF title = 0 /\ paragraphs = <<0>> THEN "empty_note"
             ELSE IF Limit <= Overlap THEN "title_too_large"
             ELSE "collecting"
    /\ UNCHANGED <<inputs, k, read, ends, words, current, pieces>>

\* Variant: only the new paragraph has to fit.
FitsAlone(paragraph) == Size(current) > 0 /\ paragraph <= Limit

\* Variant: a piece that would be full is ended before.
FitsBelow(paragraph) == Size(current) > 0 /\ Size(current) + paragraph < Limit

Fits(paragraph) == Size(current) > 0 /\ Size(current) + paragraph <= Limit

ReadParagraph ==
    /\ read' = read + paragraphs[k]
    /\ ends' = ends \cup {read'}

\* A paragraph joins the current piece...
Extend ==
    /\ at = "collecting" /\ k <= Len(paragraphs)
    /\ Fits(paragraphs[k])
    /\ ReadParagraph
    /\ current' = [current EXCEPT !.hi = read']
    /\ k' = k + 1
    /\ UNCHANGED <<inputs, at, words, pieces>>

\* ... or ends it, and is itself to be cut.
Flush ==
    /\ at = "collecting" /\ k <= Len(paragraphs)
    /\ ~Fits(paragraphs[k])
    /\ ReadParagraph
    /\ pieces' = Flushed
    /\ current' = NoWords
    /\ words' = [lo |-> read + 1, hi |-> read']
    /\ at' = "cutting"
    /\ UNCHANGED <<inputs, k>>

\* words[content_limit - overlap_tokens :]
AfterCut(run) == [run EXCEPT !.lo = @ + Limit - Overlap]

\* Variant: words that just fit are cut all the same.
CutAtLimit ==
    /\ at = "cutting"
    /\ Size(words) >= Limit
    /\ pieces' = Append(pieces, [words EXCEPT !.hi = words.lo + Limit - 1])
    /\ words' = AfterCut(words)
    /\ UNCHANGED <<inputs, at, k, read, ends, current>>

Cut ==
    /\ at = "cutting"
    /\ Size(words) > Limit
    /\ pieces' = Append(pieces, [words EXCEPT !.hi = words.lo + Limit - 1])
    /\ words' = AfterCut(words)
    /\ UNCHANGED <<inputs, at, k, read, ends, current>>

\* Variant: a rest that is no longer than the overlap is not kept.
KeepLongRest ==
    /\ at = "cutting"
    /\ Size(words) <= Limit
    /\ current' = IF Size(words) > Overlap THEN words ELSE NoWords
    /\ words' = NoWords
    /\ k' = k + 1
    /\ at' = "collecting"
    /\ UNCHANGED <<inputs, read, ends, pieces>>

\* Variant: words that just fit are not kept.
KeepBelow ==
    /\ at = "cutting"
    /\ Size(words) < Limit
    /\ current' = words
    /\ words' = NoWords
    /\ k' = k + 1
    /\ at' = "collecting"
    /\ UNCHANGED <<inputs, read, ends, pieces>>

Keep ==
    /\ at = "cutting"
    /\ Size(words) <= Limit
    /\ current' = words
    /\ words' = NoWords
    /\ k' = k + 1
    /\ at' = "collecting"
    /\ UNCHANGED <<inputs, read, ends, pieces>>

Finish ==
    /\ at = "collecting" /\ k > Len(paragraphs)
    /\ pieces' = IF pieces = <<>> THEN <<current>> ELSE Flushed
    /\ current' = NoWords
    /\ at' = "done"
    /\ UNCHANGED <<inputs, k, read, ends, words>>

-----------------------------------------------------------------------------

\* A content without words is one paragraph without words.
Contents ==
    {<<0>>} \cup UNION {[1..n -> 1..MaxWords] : n \in 1..MaxParagraphs}

Init ==
    /\ title \in 0..MaxTitle
    /\ paragraphs \in Contents
    /\ at = "checking"
    /\ k = 1
    /\ read = 0
    /\ ends = {}
    /\ words = NoWords
    /\ current = NoWords
    /\ pieces = <<>>

Next == CheckTitle \/ Extend \/ Flush \/ Cut \/ Keep \/ Finish

Spec == Init /\ [][Next]_vars

\* The function runs by itself.
FairSpec == Spec /\ WF_vars(Next)

-----------------------------------------------------------------------------
(* Properties                                                                *)

Run == [lo : Nat \ {0}, hi : Nat]

Ended == at \in {"done", "empty_note", "title_too_large"}

\* The types of the locals of chunk_note; the inputs are those of some note.
TypeOK ==
    /\ title \in Nat
    /\ paragraphs \in Seq(Nat)
    /\ at \in {"checking", "collecting", "cutting", "done", "empty_note",
               "title_too_large"}
    /\ k \in Nat \ {0}
    /\ read \in Nat
    /\ ends \subseteq Nat
    /\ words \in Run /\ current \in Run
    /\ pieces \in Seq(Run)

\* Every piece has a word, unless the content has none, and with the title no
\* more tokens than the target: the count stored with the chunk is within it.
PiecesFit ==
    \A i \in 1..Len(pieces) :
        /\ title + Size(pieces[i]) <= Target
        /\ Size(pieces[i]) <= 0 => paragraphs = <<0>>

\* Where the piece after `run' has to begin: with the next word at the end of a
\* paragraph, and Overlap words earlier inside one.
NextWord(run) == IF run.hi \in ends THEN run.hi + 1 ELSE run.hi + 1 - Overlap

PiecesFollow ==
    \A i \in 1..Len(pieces) :
        pieces[i].lo = IF i = 1 THEN 1 ELSE NextWord(pieces[i - 1])

\* No word is skipped and none repeated but for the overlap, which is exact and
\* never reaches across a paragraph: the first piece begins with the first word,
\* each other where the former one says, and the last one ends with the last.
PiecesCoverContent ==
    /\ PiecesFollow
    /\ at = "done" => /\ pieces # <<>>
                      /\ pieces[Len(pieces)].hi = read
                      /\ k = Len(paragraphs) + 1

\* Each piece ends with a word that no earlier piece holds: none is redundant.
PiecesProgress ==
    \A i \in 2..Len(pieces) : pieces[i].hi > pieces[i - 1].hi

\* No piece could have taken the next paragraph in: the cuts are greedy.
PiecesAreFull ==
    \A i \in 1..Len(pieces), e \in ends :
        e > pieces[i].hi => e - pieces[i].lo + 1 > Limit

\* The function returns or raises, since every cut leaves fewer words.
ChunkingEnds == <>Ended
=============================================================================
