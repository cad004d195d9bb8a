--------------------------- MODULE ChunkingProofs ---------------------------
(* The pieces of chunk_note, for every target, overlap, title and content.   *)
(*                                                                           *)
(* IndInv says where the next piece has to begin and that the piece which    *)
(* may still grow (or the paragraph being cut) begins there: only with that  *)
(* does each new piece follow the one before it.                             *)
EXTENDS ChunkingInv, SequenceTheorems, TLAPS

\* The configuration, as the leaves need it.
LEMMA Configuration == Target \in Nat /\ Overlap \in Nat /\ Overlap < Target
BY ConfigurationAssumption

\* What appending to a sequence does.
LEMMA AppendFacts ==
    ASSUME NEW S, NEW s \in Seq(S), NEW x \in S
    PROVE  /\ Append(s, x) \in Seq(S)
           /\ Len(Append(s, x)) = Len(s) + 1
           /\ \A i \in 1..Len(s) : Append(s, x)[i] = s[i]
           /\ Append(s, x)[Len(s) + 1] = x
           /\ Append(s, x) # <<>>
           /\ Len(s) \in Nat
OBVIOUS

\* The contents are sequences of numbers, empty ones aside.
LEMMA ContentTypes ==
    ASSUME NEW c \in Contents
    PROVE  /\ c \in Seq(Nat)
           /\ Len(c) > 0
           /\ c = <<0>> \/ \A i \in 1..Len(c) : c[i] > 0
<1>1. CASE c = <<0>>
  BY <1>1
<1>2. CASE c # <<0>>
  <2>1. PICK n \in 1..MaxParagraphs : c \in [1..n -> 1..MaxWords]
    BY <1>2 DEF Contents
  <2>2. n \in Nat /\ n > 0
    BY <2>1, BoundsAssumption
  <2>3. c \in [1..n -> Nat]
    BY <2>1, <2>2, BoundsAssumption
  <2>4. c \in Seq(Nat) /\ Len(c) = n
    BY <2>2, <2>3
  <2>5. \A i \in 1..n : c[i] > 0
    BY <2>1, BoundsAssumption
  <2> QED
    BY <2>2, <2>4, <2>5
<1> QED
  BY <1>1, <1>2

\* The first state.
LEMMA Initially == Init => IndInv
<1> SUFFICES ASSUME Init PROVE IndInv
  OBVIOUS
<1>1. paragraphs \in Seq(Nat) /\ Len(paragraphs) > 0
      /\ (paragraphs = <<0>> \/ \A i \in 1..Len(paragraphs) : paragraphs[i] > 0)
  BY ContentTypes DEF Init
<1>2. TypeOK
  BY <1>1, BoundsAssumption DEF Init, TypeOK, Run, NoWords
<1>3. InputInv /\ ReadInv /\ CurrentInv /\ WordsInv
  BY <1>1 DEF Init, InputInv, ReadInv, Started, CurrentInv, WordsInv
<1>4. PiecesInv /\ PiecesFit /\ PiecesCoverContent /\ PiecesProgress /\ PiecesAreFull
  BY DEF Init, PiecesInv, PiecesFit, PiecesCoverContent, PiecesFollow,
         PiecesProgress, PiecesAreFull
<1> QED
  BY <1>2, <1>3, <1>4 DEF IndInv

-----------------------------------------------------------------------------
(* The actions                                                               *)

\* The title is checked before anything is read.
LEMMA TitleStep == IndInv /\ CheckTitle => IndInv'
<1> SUFFICES ASSUME IndInv, CheckTitle PROVE IndInv'
  OBVIOUS
<1> USE Configuration DEF IndInv, CheckTitle, inputs
<1>1. TypeOK'
  BY DEF TypeOK, Run
<1>2. ~Started /\ k = 1 /\ pieces = <<>> /\ read = 0 /\ ends = {}
  BY DEF ReadInv, Started, InputInv, TypeOK
<1>3. current = NoWords
  BY DEF CurrentInv
<1>4. InputInv' /\ ReadInv' /\ CurrentInv' /\ WordsInv'
  BY <1>2, <1>3 DEF InputInv, ReadInv, Started, CurrentInv, WordsInv, NoWords, Limit, TypeOK
<1>5. PiecesInv' /\ PiecesFit' /\ PiecesCoverContent' /\ PiecesProgress' /\ PiecesAreFull'
  BY <1>2 DEF PiecesInv, PiecesFit, PiecesCoverContent, PiecesFollow,
         PiecesProgress, PiecesAreFull
<1> QED
  BY <1>1, <1>4, <1>5

\* What a handler that reads a paragraph knows of it.
LEMMA ParagraphFacts ==
    ASSUME IndInv, k <= Len(paragraphs)
    PROVE  /\ k \in 1..Len(paragraphs)
           /\ paragraphs[k] \in Nat
           /\ paragraphs # <<0>> => paragraphs[k] > 0
           /\ paragraphs = <<0>> => k = 1 /\ paragraphs[k] = 0
<1>1. k \in Nat \ {0} /\ paragraphs \in Seq(Nat)
      /\ (paragraphs = <<0>> \/ \A i \in 1..Len(paragraphs) : paragraphs[i] > 0)
  BY DEF IndInv, TypeOK, InputInv
<1>2. k \in 1..Len(paragraphs) /\ paragraphs[k] \in Nat
  BY <1>1
<1>3. CASE paragraphs = <<0>>
  <2>1. Len(<<0>>) = 1 /\ <<0>>[1] = 0
    OBVIOUS
  <2> QED
    BY <2>1, <1>2, <1>3
<1> QED
  BY <1>1, <1>2, <1>3

\* A piece is a run of words, and so is its first and last word a number.
LEMMA PieceTypes ==
    ASSUME IndInv, NEW i \in 1..Len(pieces)
    PROVE  /\ pieces[i] \in Run
           /\ pieces[i].lo \in Nat \ {0} /\ pieces[i].hi \in Nat
           /\ Len(pieces) \in Nat
<1>1. pieces \in Seq(Run)
  BY DEF IndInv, TypeOK
<1>2. pieces[i] \in Run /\ Len(pieces) \in Nat
  BY <1>1
<1> QED
  BY <1>2 DEF Run

\* A paragraph that fits leaves the piece where it begins.
LEMMA ExtendStep == IndInv /\ Extend => IndInv'
<1> SUFFICES ASSUME IndInv, Extend PROVE IndInv'
  OBVIOUS
<1> USE Configuration
<1>1. /\ k \in 1..Len(paragraphs) /\ paragraphs[k] \in Nat
      /\ paragraphs # <<0>> => paragraphs[k] > 0
  BY ParagraphFacts DEF Extend
<1>2. k > 1 /\ paragraphs # <<0>>
  <2>1. Size(NoWords) = 0
    BY DEF Size, NoWords
  <2> QED
    BY <2>1 DEF Extend, Fits, IndInv, CurrentInv
<1>3. /\ paragraphs[k] > 0
      /\ read \in Nat /\ read' = read + paragraphs[k] /\ read' \in Nat /\ read' > read
      /\ ends' = ends \cup {read'} /\ ends \subseteq Nat
      /\ read \in ends
      /\ UNCHANGED <<title, paragraphs, at, words, pieces>>
      /\ k' = k + 1 /\ k \in Nat /\ at = "collecting"
      /\ current' = [current EXCEPT !.hi = read']
      /\ current \in Run /\ title \in Nat
  <2>1. /\ paragraphs[k] > 0 /\ paragraphs[k] \in Nat /\ k > 1
        /\ read' = read + paragraphs[k] /\ ends' = ends \cup {read'}
        /\ UNCHANGED <<title, paragraphs, at, words, pieces>>
        /\ k' = k + 1 /\ at = "collecting"
        /\ current' = [current EXCEPT !.hi = read']
    BY <1>1, <1>2 DEF Extend, ReadParagraph, inputs
  <2>2. /\ read \in Nat /\ ends \subseteq Nat /\ k \in Nat
        /\ current \in Run /\ title \in Nat
    BY DEF IndInv, TypeOK
  <2>3. read \in ends
    BY <2>1, <2>2 DEF IndInv, ReadInv, Started
  <2>4. read' \in Nat /\ read' > read
    BY <2>1, <2>2
  <2> QED
    BY <2>1, <2>2, <2>3, <2>4
<1>4. \A i \in 1..Len(pieces) : pieces[i].hi \in Nat /\ pieces[i].hi < read
  BY <1>3, PieceTypes DEF IndInv, PiecesInv
<1>5. /\ Size(current) > 0 /\ Size(current) + paragraphs[k] <= Limit
      /\ current.lo = NextPiece /\ current.hi = read
      /\ current.lo \in Nat \ {0}
      /\ current'.lo = current.lo /\ current'.hi = read' /\ current' \in Run
  BY <1>2, <1>3 DEF Extend, Fits, IndInv, CurrentInv, Run
<1>n. /\ read \in Nat /\ read' \in Nat /\ read' > read
      /\ paragraphs[k] \in Nat /\ read' = read + paragraphs[k]
      /\ Limit \in Int /\ current.lo \in Nat
  BY <1>1, <1>3, <1>5 DEF Limit
<1>6. \A i \in 1..Len(pieces) : NextWord(pieces[i])' = NextWord(pieces[i])
  BY <1>3, <1>4 DEF NextWord
<1>7. NextPiece' = NextPiece
  <2>1. pieces # <<>> => Len(pieces) \in 1..Len(pieces)
    BY DEF IndInv, TypeOK
  <2>2. pieces' = pieces
    BY <1>3
  <2>3. pieces # <<>> => NextWord(pieces[Len(pieces)])' = NextWord(pieces[Len(pieces)])
    BY ONLY <2>1, <2>2, <1>6
  <2> QED
    BY ONLY <2>2, <2>3 DEF NextPiece
<1>8. TypeOK'
  <2>1. k' \in Nat \ {0} /\ ends' \subseteq Nat
    BY <1>3
  <2> QED
    BY <2>1, <1>3, <1>5 DEF IndInv, TypeOK
<1>9. InputInv'
  <2>1. k' <= Len(paragraphs) + 1
    BY <1>1, <1>3
  <2>2. Limit' = Limit /\ at' = "collecting"
    BY <1>3 DEF Limit
  <2> QED
    BY <2>1, <2>2, <1>3 DEF IndInv, InputInv
<1>10. ReadInv'
  <2>1. Started /\ Started'
    BY <1>2, <1>3 DEF Started
  <2>2. \A e \in ends' : e <= read'
    BY <1>3 DEF IndInv, ReadInv
  <2>3. read' \in ends' /\ read' > 0
    BY <1>3
  <2> QED
    BY <2>1, <2>2, <2>3, <1>2, <1>3 DEF ReadInv
<1>11. CurrentInv'
  <2>1. Size(current) = read - current.lo + 1
        /\ Size(current)' = read' - current.lo + 1
    BY <1>5 DEF Size
  <2>2. Limit' = Limit /\ Limit \in Int
    BY <1>3 DEF Limit
  <2>3. Size(current)' > 0 /\ Size(current)' <= Limit'
    BY <2>1, <2>2, <1>5, <1>n
  <2> QED
    BY <2>3, <1>2, <1>3, <1>5, <1>7 DEF CurrentInv
<1>12. WordsInv'
  BY <1>3 DEF WordsInv
<1>13. PiecesInv'
  BY <1>3, <1>4 DEF PiecesInv
<1>14. PiecesFit' /\ PiecesProgress'
  BY <1>3 DEF IndInv, PiecesFit, PiecesProgress, Size
<1>15. PiecesCoverContent'
  <2>1. ASSUME NEW i \in 1..Len(pieces), i # 1
        PROVE  NextWord(pieces[i - 1])' = NextWord(pieces[i - 1])
    BY <1>6, <2>1, PieceTypes
  <2> QED
    BY <2>1, <1>3 DEF IndInv, PiecesCoverContent, PiecesFollow
<1>16. PiecesAreFull'
  <2> SUFFICES ASSUME NEW i \in 1..Len(pieces), NEW e \in ends', e > pieces[i].hi
               PROVE  e - pieces[i].lo + 1 > Limit
    BY <1>3 DEF PiecesAreFull, Limit
  <2>1. read - pieces[i].lo + 1 > Limit
    BY <1>3, <1>4 DEF IndInv, PiecesAreFull
  <2>2. CASE e = read'
    <3>1. pieces[i].lo \in Int /\ read \in Int /\ read' \in Int /\ read' > read /\ Limit \in Int
      BY <1>n, PieceTypes
    <3> HIDE DEF Limit
    <3>2. read' - pieces[i].lo + 1 > Limit
      BY <3>1, <2>1
    <3> QED
      BY <3>2, <2>2
  <2>3. CASE e \in ends
    BY <2>3 DEF IndInv, PiecesAreFull
  <2> QED
    BY <2>2, <2>3, <1>3
<1> QED
  BY <1>8, <1>9, <1>10, <1>11, <1>12, <1>13, <1>14, <1>15, <1>16 DEF IndInv

\* What is left of a paragraph becomes the piece that may grow.
LEMMA KeepStep == IndInv /\ Keep => IndInv'
<1> SUFFICES ASSUME IndInv, Keep PROVE IndInv'
  OBVIOUS
<1> USE Configuration
<1>1. /\ UNCHANGED <<title, paragraphs, read, ends, pieces>>
      /\ at = "cutting" /\ at' = "collecting" /\ k' = k + 1 /\ k \in Nat \ {0}
      /\ current' = words /\ words' = NoWords
      /\ words \in Run /\ title \in Nat /\ read \in Nat /\ NoWords \in Run
      /\ Size(words) <= Limit /\ k <= Len(paragraphs)
      /\ Len(paragraphs) \in Nat
  BY DEF Keep, inputs, IndInv, TypeOK, InputInv, Run, NoWords
<1>2. NextPiece' = NextPiece
  BY <1>1 DEF NextPiece, NextWord
<1>3. TypeOK'
  BY <1>1 DEF IndInv, TypeOK
<1>4. InputInv' /\ ReadInv'
  BY <1>1 DEF IndInv, InputInv, ReadInv, Started, Limit
<1>5. CurrentInv'
  <2>1. CASE paragraphs # <<0>>
    BY <2>1, <1>1, <1>2 DEF IndInv, WordsInv, CurrentInv, Size, Limit
  <2>2. CASE paragraphs = <<0>>
    <3>1. read = 0 /\ pieces \in {<<>>, <<NoWords>>} /\ words.hi = 0
      BY <2>2, <1>1 DEF IndInv, ReadInv, WordsInv
    <3>2. pieces = <<>>
      BY <3>1, <1>1 DEF IndInv, PiecesInv, NoWords
    <3>3. words.lo = 1
      BY <3>2, <1>1 DEF IndInv, WordsInv, NextPiece
    <3> QED
      BY <2>2, <3>1, <3>3, <1>1 DEF CurrentInv, Run, NoWords
  <2> QED
    BY <2>1, <2>2
<1>6. WordsInv'
  BY <1>1 DEF WordsInv
<1>7. PiecesInv' /\ PiecesFit' /\ PiecesProgress' /\ PiecesAreFull'
  BY <1>1 DEF IndInv, PiecesInv, PiecesFit, PiecesProgress, PiecesAreFull, Size, Limit
<1>8. PiecesCoverContent'
  BY <1>1 DEF IndInv, PiecesCoverContent, PiecesFollow, NextWord
<1> QED
  BY <1>3, <1>4, <1>5, <1>6, <1>7, <1>8 DEF IndInv

\* A piece that begins where the next one has to keeps the order of the pieces.
LEMMA PieceAdded ==
    ASSUME IndInv, NEW p \in Run, pieces' = Append(pieces, p),
           UNCHANGED <<title, paragraphs>>,
           p.lo = NextPiece, Size(p) > 0, Size(p) <= Limit,
           pieces # <<>> => pieces[Len(pieces)].hi < p.hi,
           \A i \in 1..Len(pieces) : pieces[i].hi \in ends' <=> pieces[i].hi \in ends
    PROVE  /\ pieces' \in Seq(Run)
           /\ Len(pieces') = Len(pieces) + 1 /\ Len(pieces) \in Nat
           /\ \A i \in 1..Len(pieces) : pieces'[i] = pieces[i]
           /\ pieces'[Len(pieces) + 1] = p
           /\ PiecesFit' /\ PiecesProgress' /\ PiecesFollow'
<1> USE Configuration
<1>1. /\ pieces \in Seq(Run) /\ title \in Nat /\ Len(pieces) \in Nat
      /\ PiecesFit /\ PiecesProgress /\ PiecesFollow
  BY DEF IndInv, TypeOK, PiecesCoverContent
<1>2. /\ pieces' \in Seq(Run)
      /\ Len(pieces') = Len(pieces) + 1
      /\ \A i \in 1..Len(pieces) : pieces'[i] = pieces[i]
      /\ pieces'[Len(pieces) + 1] = p
  BY <1>1, AppendFacts
<1>3. /\ p.lo \in Nat /\ p.hi \in Nat /\ Size(p) \in Int
      /\ title + Size(p) <= Target
  BY <1>1 DEF Run, Size, Limit
<1>4. PiecesFit'
  BY <1>1, <1>2, <1>3 DEF PiecesFit
<1>5. PiecesProgress'
  <2> SUFFICES ASSUME NEW i \in 2..(Len(pieces) + 1)
               PROVE  pieces'[i].hi > pieces'[i - 1].hi
    BY <1>2 DEF PiecesProgress
  <2>1. CASE i = Len(pieces) + 1
    <3>1. Len(pieces) \in 1..Len(pieces) /\ pieces # <<>> /\ i - 1 = Len(pieces)
      BY <2>1, <1>1
    <3>2. pieces'[i - 1] = pieces[Len(pieces)] /\ pieces'[i] = p
      BY <3>1, <2>1, <1>2
    <3>3. pieces[Len(pieces)].hi \in Nat
      BY <3>1, PieceTypes
    <3> QED
      BY <3>1, <3>2, <3>3, <1>3
  <2>2. CASE i # Len(pieces) + 1
    <3>1. i \in 2..Len(pieces) /\ i \in 1..Len(pieces) /\ i - 1 \in 1..Len(pieces)
      BY <2>2, <1>1
    <3> QED
      BY <3>1, <1>1, <1>2 DEF PiecesProgress
  <2> QED
    BY <2>1, <2>2
<1>6. PiecesFollow'
  <2>1. ASSUME NEW i \in 1..Len(pieces)
        PROVE  (IF pieces'[i].hi \in ends' THEN pieces'[i].hi + 1
                                           ELSE pieces'[i].hi + 1 - Overlap)
                  = NextWord(pieces[i])
    BY <2>1, <1>2 DEF NextWord
  <2> SUFFICES ASSUME NEW i \in 1..(Len(pieces) + 1)
               PROVE  pieces'[i].lo = IF i = 1 THEN 1
                        ELSE IF pieces'[i - 1].hi \in ends' THEN pieces'[i - 1].hi + 1
                                                 ELSE pieces'[i - 1].hi + 1 - Overlap
    BY <1>2 DEF PiecesFollow, NextWord
  <2>2. CASE i = Len(pieces) + 1 /\ i # 1
    <3>1. Len(pieces) \in 1..Len(pieces) /\ pieces # <<>> /\ i - 1 = Len(pieces)
      BY <2>2, <1>1
    <3>2. p.lo = NextWord(pieces[Len(pieces)])
      BY <3>1 DEF NextPiece
    <3> QED
      BY <3>1, <3>2, <2>1, <2>2, <1>2
  <2>3. CASE i = Len(pieces) + 1 /\ i = 1
    <3>1. pieces = <<>>
      BY <2>3, <1>1
    <3> QED
      BY <3>1, <2>3, <1>2 DEF NextPiece
  <2>4. CASE i # Len(pieces) + 1
    <3>1. i \in 1..Len(pieces) /\ (i # 1 => i - 1 \in 1..Len(pieces))
      BY <2>4, <1>1
    <3>2. pieces[i].lo = IF i = 1 THEN 1 ELSE NextWord(pieces[i - 1])
      BY <3>1, <1>1 DEF PiecesFollow
    <3> QED
      BY <3>1, <3>2, <2>1, <1>2
  <2> QED
    BY <2>2, <2>3, <2>4
<1> QED
  BY <1>1, <1>2, <1>4, <1>5, <1>6

\* A cut leaves words that begin where the next piece has to.
LEMMA CutStep == IndInv /\ Cut => IndInv'
<1> SUFFICES ASSUME IndInv, Cut PROVE IndInv'
  OBVIOUS
<1> USE Configuration
<1> DEFINE p == [words EXCEPT !.hi = words.lo + Limit - 1]
<1>1. /\ UNCHANGED <<title, paragraphs, at, k, read, ends, current>>
      /\ at = "cutting" /\ pieces' = Append(pieces, p)
      /\ words' = [words EXCEPT !.lo = @ + Limit - Overlap]
      /\ words \in Run /\ title \in Nat /\ read \in Nat /\ ends \subseteq Nat
      /\ Limit > Overlap /\ Limit \in Int
      /\ words.hi = read /\ words.lo = NextPiece
      /\ \A e \in ends : e < words.lo \/ e = read
  BY DEF Cut, AfterCut, inputs, IndInv, TypeOK, InputInv, WordsInv, Limit
<1>2. /\ words.lo \in Nat \ {0} /\ words.hi \in Nat /\ Limit \in Nat \ {0}
      /\ words.hi - words.lo + 1 > Limit
  BY <1>1 DEF Run, Cut, Size
<1>3. /\ p \in Run /\ p.lo = words.lo /\ p.hi = words.lo + Limit - 1
      /\ Size(p) = Limit
  <2> DEFINE h == words.lo + Limit - 1
  <2>1. h \in Nat /\ h - words.lo + 1 = Limit
    BY <1>2
  <2> HIDE DEF h
  <2>2. p = [words EXCEPT !.hi = h]
    BY DEF h
  <2>3. p \in Run /\ p.lo = words.lo /\ p.hi = h
    BY <1>1, <2>1, <2>2 DEF Run
  <2> QED
    BY <2>1, <2>3 DEF h, Size
<1>4. p.hi \in Nat /\ p.hi < read /\ p.hi >= words.lo /\ p.hi \notin ends
  <2>1. words.lo + Limit - 1 \in Nat /\ words.lo + Limit - 1 < words.hi
        /\ words.lo + Limit - 1 >= words.lo
    BY <1>2
  <2>2. p.hi \in Nat /\ p.hi < read /\ p.hi >= words.lo
    BY <2>1, <1>1, <1>3
  <2>3. p.hi # read /\ ~(p.hi < words.lo)
    BY <2>2, <1>1, <1>2
  <2> HIDE DEF p
  <2> QED
    BY <2>2, <2>3, <1>1
<1>5. pieces # <<>> => pieces[Len(pieces)].hi < p.hi
  <2> SUFFICES ASSUME pieces # <<>> PROVE pieces[Len(pieces)].hi < p.hi
    OBVIOUS
  <2>1. Len(pieces) \in 1..Len(pieces)
    BY DEF IndInv, TypeOK
  <2>2. pieces[Len(pieces)].hi \in Nat
    BY <2>1, PieceTypes
  <2>3. words.lo >= pieces[Len(pieces)].hi + 1 - Overlap
    BY <2>2, <1>1 DEF NextPiece, NextWord
  <2>4. words.lo + Limit - 1 > pieces[Len(pieces)].hi
    <3>1. words.lo \in Int /\ Limit \in Int /\ Overlap \in Int /\ Limit > Overlap
      BY <1>1, <1>2
    <3> HIDE DEF Limit
    <3> QED
      BY <3>1, <2>2, <2>3
  <2> HIDE DEF p
  <2> QED
    BY <2>4, <1>3
<1>6. /\ pieces' \in Seq(Run)
      /\ Len(pieces') = Len(pieces) + 1 /\ Len(pieces) \in Nat
      /\ \A i \in 1..Len(pieces) : pieces'[i] = pieces[i]
      /\ pieces'[Len(pieces) + 1] = p
      /\ PiecesFit' /\ PiecesProgress' /\ PiecesFollow'
  <2>1. /\ UNCHANGED <<title, paragraphs>> /\ p.lo = NextPiece
        /\ Size(p) > 0 /\ Size(p) <= Limit
        /\ \A i \in 1..Len(pieces) : pieces[i].hi \in ends' <=> pieces[i].hi \in ends
    BY <1>1, <1>2, <1>3
  <2> HIDE DEF p
  <2> QED
    BY <2>1, <1>1, <1>3, <1>5, PieceAdded
<1>7. /\ words' \in Run
      /\ words'.lo = words.lo + Limit - Overlap /\ words'.hi = words.hi
      /\ words'.lo > words.lo
  BY <1>1, <1>2 DEF Run
<1>8. TypeOK'
  BY <1>1, <1>6, <1>7 DEF IndInv, TypeOK
<1>9. paragraphs # <<0>>
  BY <1>1, <1>2 DEF IndInv, ReadInv
<1>10. InputInv' /\ ReadInv' /\ CurrentInv'
  BY <1>1, <1>9 DEF IndInv, InputInv, ReadInv, Started, CurrentInv, Limit
<1>11. WordsInv'
  <2>1. pieces' # <<>> /\ NextPiece' = p.hi + 1 - Overlap
    <3>1. pieces' # <<>>
      BY <1>6
    <3>2. pieces'[Len(pieces')].hi \notin ends' /\ pieces'[Len(pieces')] = p
      BY <1>1, <1>4, <1>6
    <3> QED
      BY <3>1, <3>2 DEF NextPiece, NextWord
  <2>2. words'.lo = NextPiece'
    BY <2>1, <1>2, <1>3, <1>7
  <2>3. Size(words)' > 0
    <3>1. Size(words)' = words.hi - (words.lo + Limit - Overlap) + 1
      BY <1>7 DEF Size
    <3> QED
      BY <3>1, <1>2
  <2>4. \A e \in ends : e < words'.lo \/ e = read
    BY <1>1, <1>2, <1>7
  <2> QED
    BY <2>2, <2>3, <2>4, <1>1, <1>7 DEF WordsInv
<1>12. PiecesInv'
  <2> SUFFICES ASSUME NEW i \in 1..(Len(pieces) + 1)
               PROVE  pieces'[i].hi <= read /\ pieces'[i].hi < read
    BY <1>1, <1>6 DEF PiecesInv
  <2>1. CASE i = Len(pieces) + 1
    BY <2>1, <1>1, <1>4, <1>6
  <2>2. CASE i # Len(pieces) + 1
    <3>1. i \in 1..Len(pieces)
      BY <2>2, <1>6
    <3> QED
      BY <3>1, <1>1, <1>6 DEF IndInv, PiecesInv
  <2> QED
    BY <2>1, <2>2
<1>13. PiecesCoverContent'
  BY <1>1, <1>6 DEF PiecesCoverContent
<1>14. PiecesAreFull'
  <2> SUFFICES ASSUME NEW i \in 1..(Len(pieces) + 1), NEW e \in ends,
                      e > pieces'[i].hi
               PROVE  e - pieces'[i].lo + 1 > Limit
    BY <1>1, <1>6 DEF PiecesAreFull, Limit
  <2>1. CASE i = Len(pieces) + 1
    <3>1. e > p.hi /\ pieces'[i].lo = words.lo
      BY <2>1, <1>3, <1>6
    <3>2. e = words.hi
      BY <3>1, <1>1, <1>2, <1>4
    <3> QED
      BY <3>1, <3>2, <1>2
  <2>2. CASE i # Len(pieces) + 1
    <3>1. i \in 1..Len(pieces)
      BY <2>2, <1>6
    <3> QED
      BY <3>1, <1>1, <1>6 DEF IndInv, PiecesAreFull
  <2> QED
    BY <2>1, <2>2
<1> QED
  BY <1>6, <1>8, <1>10, <1>11, <1>12, <1>13, <1>14 DEF IndInv

\* A paragraph that does not fit begins a piece of its own.
LEMMA FlushStep == IndInv /\ Flush => IndInv'
<1> SUFFICES ASSUME IndInv, Flush PROVE IndInv'
  OBVIOUS
<1> USE Configuration
<1>1. /\ k \in 1..Len(paragraphs) /\ paragraphs[k] \in Nat
      /\ paragraphs # <<0>> => paragraphs[k] > 0
      /\ paragraphs = <<0>> => k = 1 /\ paragraphs[k] = 0
  BY ParagraphFacts DEF Flush
<1>2. /\ UNCHANGED <<title, paragraphs, k>>
      /\ at = "collecting" /\ at' = "cutting"
      /\ read' = read + paragraphs[k] /\ ends' = ends \cup {read'}
      /\ current' = NoWords /\ words' = [lo |-> read + 1, hi |-> read']
      /\ pieces' = Flushed /\ ~Fits(paragraphs[k])
      /\ pieces \in Seq(Run) /\ current \in Run /\ title \in Nat /\ ends \subseteq Nat
      /\ k \in Nat \ {0} /\ paragraphs \in Seq(Nat)
  BY DEF Flush, ReadParagraph, inputs, IndInv, TypeOK
<1>3. /\ read \in Nat /\ read' \in Nat /\ read' >= read /\ paragraphs[k] \in Nat
      /\ read' = read + paragraphs[k] /\ Limit \in Int
      /\ paragraphs # <<0>> => read' > read
  <2>1. read \in Nat /\ title \in Nat
    BY DEF IndInv, TypeOK
  <2>2. Limit \in Int
    BY ONLY <2>1, Configuration DEF Limit
  <2> QED
    BY <1>1, <1>2, <2>1, <2>2
<1>4. words' \in Run /\ words'.lo = read + 1 /\ words'.hi = read' /\ NoWords \in Run
  BY <1>2, <1>3 DEF Run, NoWords
<1>5. Size(NoWords) = 0
  BY DEF Size, NoWords
<1>6. InputInv'
  BY <1>2, <1>1 DEF IndInv, InputInv, Limit
<1>7. CurrentInv'
  BY <1>2 DEF CurrentInv
<1>8. \A e \in ends : e <= read
  BY DEF IndInv, ReadInv
<1>9. \A e \in ends' : e < words'.lo \/ e = read'
  <2> SUFFICES ASSUME NEW e \in ends PROVE e < read + 1
    BY <1>2, <1>4
  <2> QED
    BY <1>2, <1>3, <1>8
<1>a. Size(words)' = paragraphs[k]
  <2>1. Size(words)' = read' - (read + 1) + 1
    BY <1>4 DEF Size
  <2> QED
    BY <2>1, <1>3
<1>10. CASE ~(k > 1 /\ paragraphs # <<0>>)
  <2>1. k = 1 /\ ~Started
    BY <1>10, <1>1, <1>2 DEF Started
  <2>2. pieces = <<>> /\ read = 0 /\ ends = {} /\ current = NoWords
    BY <2>1, <1>2 DEF IndInv, ReadInv, CurrentInv
  <2>3. pieces' = <<>> /\ ends' = {read'}
    BY <2>2, <1>2, <1>5 DEF Flushed
  <2>4. TypeOK'
    BY <2>3, <1>2, <1>3, <1>4 DEF TypeOK
  <2>5. ReadInv'
    BY <2>2, <2>3, <1>1, <1>2, <1>3 DEF ReadInv, Started
  <2>6. WordsInv'
    BY <2>2, <2>3, <1>1, <1>2, <1>4, <1>9, <1>a DEF WordsInv, NextPiece
  <2>7. PiecesInv' /\ PiecesFit' /\ PiecesProgress' /\ PiecesCoverContent' /\ PiecesAreFull'
    BY <2>3, <1>2 DEF PiecesInv, PiecesFit, PiecesProgress, PiecesCoverContent,
                      PiecesFollow, PiecesAreFull
  <2> QED
    BY <2>4, <2>5, <2>6, <2>7, <1>6, <1>7 DEF IndInv
<1>11. CASE k > 1 /\ paragraphs # <<0>>
  <2>1. /\ Size(current) > 0 /\ Size(current) <= Limit
        /\ current.lo = NextPiece /\ current.hi = read
        /\ pieces' = Append(pieces, current)
        /\ read \in ends
    BY <1>11, <1>2 DEF IndInv, CurrentInv, ReadInv, Started, Flushed
  <2>2. /\ Size(current) + paragraphs[k] > Limit
        /\ Size(current) = read - current.lo + 1 /\ current.lo \in Nat
    <3>1. ~Fits(paragraphs[k]) /\ Size(current) > 0
      BY <2>1, <1>2
    <3>2. current.lo \in Nat /\ Size(current) = read - current.lo + 1
      BY <2>1, <1>2, <1>3 DEF Size, Run
    <3>3. Size(current) \in Int /\ paragraphs[k] \in Nat /\ Limit \in Int
      BY <3>2, <1>2, <1>3
    <3> QED
      BY <3>1, <3>2, <3>3 DEF Fits
  <2>3. \A i \in 1..Len(pieces) : pieces[i].hi \in Nat /\ pieces[i].hi < read
    BY <1>2, PieceTypes DEF IndInv, PiecesInv
  <2>4. /\ pieces' \in Seq(Run)
        /\ Len(pieces') = Len(pieces) + 1 /\ Len(pieces) \in Nat
        /\ \A i \in 1..Len(pieces) : pieces'[i] = pieces[i]
        /\ pieces'[Len(pieces) + 1] = current
        /\ PiecesFit' /\ PiecesProgress' /\ PiecesFollow'
    <3>1. pieces # <<>> => pieces[Len(pieces)].hi < current.hi
      <4>1. pieces # <<>> => Len(pieces) \in 1..Len(pieces)
        BY <1>2
      <4> QED
        BY <4>1, <2>1, <2>3
    <3>2. ASSUME NEW i \in 1..Len(pieces)
          PROVE  pieces[i].hi \in ends' <=> pieces[i].hi \in ends
      <4>1. pieces[i].hi # read'
        BY <2>3, <1>3, <1>11
      <4> QED
        BY <4>1, <1>2
    <3> QED
      BY <3>1, <3>2, <2>1, <1>2, PieceAdded
  <2>5. TypeOK'
    BY <2>4, <1>2, <1>3, <1>4 DEF TypeOK
  <2>6. ReadInv'
    <3>1. \A e \in ends' : e <= read'
      BY <1>2, <1>3, <1>8
    <3> QED
      BY <3>1, <1>2, <1>3, <1>11 DEF ReadInv, Started
  <2>7. NextPiece' = read + 1
    <3>1. pieces' # <<>> /\ pieces'[Len(pieces')] = current
      BY <2>4
    <3>2. current.hi \in ends'
      BY <2>1, <1>2
    <3> QED
      BY <3>1, <3>2, <2>1 DEF NextPiece, NextWord
  <2>8. WordsInv'
    BY <2>7, <1>1, <1>2, <1>4, <1>9, <1>11, <1>a DEF WordsInv
  <2>9. PiecesInv'
    <3> SUFFICES ASSUME NEW i \in 1..(Len(pieces) + 1)
                 PROVE  pieces'[i].hi <= read' /\ pieces'[i].hi < read'
      BY <2>4 DEF PiecesInv
    <3>1. CASE i = Len(pieces) + 1
      BY <3>1, <2>1, <2>4, <1>3, <1>11
    <3>2. CASE i # Len(pieces) + 1
      <4>1. i \in 1..Len(pieces)
        BY <3>2, <2>4
      <4>2. pieces'[i] = pieces[i] /\ pieces[i].hi \in Nat
        BY <4>1, <2>4, PieceTypes
      <4> QED
        BY <4>1, <4>2, <2>3, <1>3
    <3> QED
      BY <3>1, <3>2
  <2>10. PiecesCoverContent'
    BY <2>4, <1>2 DEF PiecesCoverContent
  <2>11. PiecesAreFull'
    <3> SUFFICES ASSUME NEW i \in 1..(Len(pieces) + 1), NEW e \in ends',
                        e > pieces'[i].hi
                 PROVE  e - pieces'[i].lo + 1 > Limit
      BY <2>4, <1>2 DEF PiecesAreFull, Limit
    <3>1. CASE i = Len(pieces) + 1
      <4>1. pieces'[i] = current
        BY <3>1, <2>4
      <4>2. e = read'
        BY <4>1, <2>1, <1>2, <1>3, <1>8
      <4> QED
        BY <4>1, <4>2, <2>2, <1>3
    <3>2. CASE i # Len(pieces) + 1
      <4>1. i \in 1..Len(pieces) /\ pieces'[i] = pieces[i]
        BY <3>2, <2>4
      <4>2. read - pieces[i].lo + 1 > Limit /\ pieces[i].lo \in Nat
        BY <4>1, <2>1, <2>3, PieceTypes DEF IndInv, PiecesAreFull
      <4>n. read \in Nat /\ read' \in Nat /\ read' >= read /\ Limit \in Int
        BY <1>3
      <4>3. CASE e = read'
        BY <4>2, <4>3, <4>1, <4>n
      <4>4. CASE e \in ends
        BY <4>1, <4>4 DEF IndInv, PiecesAreFull
      <4> QED
        BY <4>3, <4>4, <1>2
    <3> QED
      BY <3>1, <3>2
  <2> QED
    BY <2>4, <2>5, <2>6, <2>8, <2>9, <2>10, <2>11, <1>6, <1>7 DEF IndInv
<1> QED
  BY <1>10, <1>11

\* The last piece ends with the last word.
LEMMA FinishStep == IndInv /\ Finish => IndInv'
<1> SUFFICES ASSUME IndInv, Finish PROVE IndInv'
  OBVIOUS
<1> USE Configuration
<1>1. /\ UNCHANGED <<title, paragraphs, k, read, ends, words>>
      /\ at = "collecting" /\ at' = "done" /\ current' = NoWords
      /\ k > Len(paragraphs) /\ k = Len(paragraphs) + 1 /\ k > 1
      /\ title \in Nat /\ read \in Nat /\ ends \subseteq Nat /\ current \in Run
      /\ NoWords \in Run /\ words \in Run
  <2>1. Len(paragraphs) \in Nat /\ k \in Nat /\ Len(paragraphs) > 0
        /\ k <= Len(paragraphs) + 1
    BY DEF IndInv, TypeOK, InputInv
  <2> QED
    BY <2>1 DEF Finish, inputs, IndInv, TypeOK, Run, NoWords
<1>2. paragraphs # <<0>> => ReadInv'
  BY <1>1 DEF IndInv, ReadInv, Started
<1>3. InputInv' /\ CurrentInv' /\ WordsInv'
  BY <1>1 DEF IndInv, InputInv, CurrentInv, WordsInv, Limit
<1>4. CASE paragraphs = <<0>>
  <2>1. read = 0 /\ pieces \in {<<>>, <<NoWords>>} /\ current = NoWords /\ read \in ends
    BY <1>1, <1>4 DEF IndInv, ReadInv, CurrentInv, Started
  <2>2. pieces = <<>>
    BY <2>1, <1>1 DEF IndInv, PiecesInv, NoWords
  <2>3. pieces' = <<NoWords>>
    BY <2>1, <2>2 DEF Finish
  <2>4. /\ pieces' \in Seq(Run) /\ Len(pieces') = 1 /\ pieces'[1] = NoWords
        /\ NoWords.hi = 0 /\ NoWords.lo = 1 /\ pieces' # <<>>
    BY <2>3, <1>1 DEF NoWords
  <2>5. TypeOK'
    BY <2>4, <1>1 DEF IndInv, TypeOK
  <2>6. ReadInv'
    BY <2>1, <2>3, <1>1, <1>4 DEF IndInv, ReadInv, Started
  <2>7. PiecesInv' /\ PiecesProgress'
    BY <2>1, <2>4, <1>1 DEF PiecesInv, PiecesProgress
  <2>8. PiecesFit'
    <3>1. Limit > Overlap
      BY <1>1 DEF IndInv, InputInv
    <3>2. title + 0 <= Target
      BY <3>1, <1>1 DEF Limit
    <3> QED
      BY <3>2, <2>4, <1>1, <1>4 DEF PiecesFit, Size
  <2>9. PiecesCoverContent'
    BY <2>1, <2>4, <1>1 DEF PiecesCoverContent, PiecesFollow
  <2>10. PiecesAreFull'
    <3> SUFFICES ASSUME NEW e \in ends, e > 0 PROVE FALSE
      BY <2>4, <1>1 DEF PiecesAreFull
    <3> QED
      BY <2>1, <1>1 DEF IndInv, ReadInv
  <2> QED
    BY <2>5, <2>6, <2>7, <2>8, <2>9, <2>10, <1>3 DEF IndInv
<1>5. CASE paragraphs # <<0>>
  <2>1. /\ Size(current) > 0 /\ Size(current) <= Limit
        /\ current.lo = NextPiece /\ current.hi = read
        /\ read \in ends /\ \A e \in ends : e <= read
    BY <1>1, <1>5 DEF IndInv, CurrentInv, ReadInv, Started
  <2>2. pieces' = Append(pieces, current)
    <3>1. pieces = <<>> => Append(pieces, current) = <<current>>
      OBVIOUS
    <3> QED
      BY <3>1, <2>1 DEF Finish, Flushed
  <2>3. \A i \in 1..Len(pieces) : pieces[i].hi \in Nat /\ pieces[i].hi < read
    BY <1>1, PieceTypes DEF IndInv, PiecesInv
  <2>4. /\ pieces' \in Seq(Run)
        /\ Len(pieces') = Len(pieces) + 1 /\ Len(pieces) \in Nat
        /\ \A i \in 1..Len(pieces) : pieces'[i] = pieces[i]
        /\ pieces'[Len(pieces) + 1] = current
        /\ PiecesFit' /\ PiecesProgress' /\ PiecesFollow'
    <3>1. pieces # <<>> => pieces[Len(pieces)].hi < current.hi
      <4>1. pieces # <<>> => Len(pieces) \in 1..Len(pieces)
        BY DEF IndInv, TypeOK
      <4> QED
        BY <4>1, <2>1, <2>3
    <3>2. \A i \in 1..Len(pieces) : pieces[i].hi \in ends' <=> pieces[i].hi \in ends
      BY <1>1
    <3> QED
      BY <3>1, <3>2, <2>1, <2>2, <1>1, PieceAdded
  <2>5. TypeOK'
    BY <2>4, <1>1 DEF IndInv, TypeOK
  <2>6. PiecesInv'
    <3> SUFFICES ASSUME NEW i \in 1..(Len(pieces) + 1)
                 PROVE  pieces'[i].hi <= read
      BY <2>4, <1>1 DEF PiecesInv
    <3>1. CASE i = Len(pieces) + 1
      BY <3>1, <2>1, <2>4, <1>1
    <3>2. CASE i # Len(pieces) + 1
      <4>1. i \in 1..Len(pieces)
        BY <3>2, <2>4
      <4>2. pieces'[i].hi < read /\ pieces'[i].hi \in Nat
        BY <4>1, <2>3, <2>4
      <4> QED
        BY <4>2, <1>1
    <3> QED
      BY <3>1, <3>2
  <2>7. PiecesCoverContent'
    <3>1. pieces' # <<>> /\ pieces'[Len(pieces')] = current
      BY <2>4
    <3> QED
      BY <3>1, <2>1, <2>4, <1>1 DEF PiecesCoverContent
  <2>8. PiecesAreFull'
    <3> SUFFICES ASSUME NEW i \in 1..(Len(pieces) + 1), NEW e \in ends,
                        e > pieces'[i].hi
                 PROVE  e - pieces'[i].lo + 1 > Limit
      BY <2>4, <1>1 DEF PiecesAreFull, Limit
    <3>1. CASE i = Len(pieces) + 1
      BY <3>1, <2>1, <2>4, <1>1
    <3>2. CASE i # Len(pieces) + 1
      <4>1. i \in 1..Len(pieces) /\ pieces'[i] = pieces[i]
        BY <3>2, <2>4
      <4> QED
        BY <4>1 DEF IndInv, PiecesAreFull
    <3> QED
      BY <3>1, <3>2
  <2> QED
    BY <2>4, <2>5, <2>6, <2>7, <2>8, <1>2, <1>3, <1>5 DEF IndInv
<1> QED
  BY <1>4, <1>5

\* A step that changes nothing.
LEMMA Stuttering == IndInv /\ UNCHANGED vars => IndInv'
BY DEF vars, IndInv, TypeOK, InputInv, ReadInv, Started, CurrentInv, WordsInv,
       NextPiece, NextWord, PiecesInv, PiecesFit, PiecesCoverContent,
       PiecesFollow, PiecesProgress, PiecesAreFull, Size, Limit

-----------------------------------------------------------------------------
(* The theorems                                                              *)

\* The invariant of chunk_note holds at every round of its loops.
THEOREM Invariance == Spec => []IndInv
<1>1. IndInv /\ [Next]_vars => IndInv'
  BY TitleStep, ExtendStep, FlushStep, CutStep, KeepStep, FinishStep, Stuttering DEF Next
<1> QED
  BY Initially, <1>1, PTL DEF Spec

\* The locals of chunk_note keep their types: no piece has a negative size and
\* the loop of the cuts never indexes before the words.
THEOREM TypeCorrect == Spec => []TypeOK
<1>1. IndInv => TypeOK
  BY DEF IndInv
<1> QED
  BY Invariance, <1>1, PTL

\* Every chunk is within the target with its title and has a word, for every
\* title, content and configuration.
THEOREM PiecesFitTarget == Spec => []PiecesFit
<1>1. IndInv => PiecesFit
  BY DEF IndInv
<1> QED
  BY Invariance, <1>1, PTL

\* No word of the content is lost between two chunks or after the last one, and
\* the overlap is exact.
THEOREM Coverage == Spec => []PiecesCoverContent
<1>1. IndInv => PiecesCoverContent
  BY DEF IndInv
<1> QED
  BY Invariance, <1>1, PTL

\* Each chunk ends later than the one before it: no chunk is redundant.
THEOREM Progress == Spec => []PiecesProgress
<1>1. IndInv => PiecesProgress
  BY DEF IndInv
<1> QED
  BY Invariance, <1>1, PTL

\* No chunk could have taken in the paragraph that follows it.
THEOREM Greedy == Spec => []PiecesAreFull
<1>1. IndInv => PiecesAreFull
  BY DEF IndInv
<1> QED
  BY Invariance, <1>1, PTL
-----------------------------------------------------------------------------
(* How many pieces and how many rounds                                       *)

\* The i-th piece ends with the i-th word or later.
PieceCount ==
    paragraphs # <<0>> => \A i \in 1..Len(pieces) : pieces[i].hi >= i

\* What a round does to the pieces.
LEMMA Grows ==
    ASSUME IndInv, [Next]_vars
    PROVE  pieces' = pieces \/ \E x \in Run : pieces' = Append(pieces, x)
<1>1. words \in Run /\ current \in Run /\ pieces \in Seq(Run)
  BY DEF IndInv, TypeOK
<1>2. CASE Cut
  <2> DEFINE x == [words EXCEPT !.hi = words.lo + Limit - 1]
  <2>1. pieces' = Append(pieces, x)
    BY <1>2 DEF Cut
  <2>2. words.lo + Limit - 1 \in Nat
    <3>1. at = "cutting" /\ title \in Nat /\ words.lo \in Nat \ {0}
      BY <1>2 DEF Cut, IndInv, TypeOK, Run
    <3>2. Limit \in Int /\ Limit > 0
      BY <3>1, Configuration DEF IndInv, InputInv, Limit
    <3> QED
      BY <3>1, <3>2
  <2>3. x \in Run
    BY <1>1, <2>2 DEF Run
  <2> HIDE DEF x
  <2> QED
    BY <2>1, <2>3
<1>3. CASE Finish
  BY <1>1, <1>3 DEF Finish, Flushed
<1>4. CASE Flush
  BY <1>1, <1>4 DEF Flush, Flushed
<1>5. CASE CheckTitle \/ Extend \/ Keep \/ UNCHANGED vars
  BY <1>5 DEF CheckTitle, Extend, Keep, vars
<1> QED
  BY <1>2, <1>3, <1>4, <1>5 DEF Next

\* No chunk_note call makes more pieces than the content has words, or one if it
\* has none.
PiecesBounded == Len(pieces) <= (IF paragraphs = <<0>> THEN 1 ELSE read)

\* A piece has a word that those before it have not.
LEMMA PieceCountStep ==
    ASSUME IndInv, IndInv', [Next]_vars, PieceCount
    PROVE  PieceCount'
<1>1. paragraphs' = paragraphs
  BY DEF Next, CheckTitle, Extend, Flush, Cut, Keep, Finish, inputs, vars
<1>2. CASE pieces' = pieces
  BY <1>1, <1>2 DEF PieceCount
<1>3. ASSUME NEW x \in Run, pieces' = Append(pieces, x)
      PROVE  paragraphs # <<0>> => \A i \in 1..Len(pieces') : pieces'[i].hi >= i
  <2>0. HAVE paragraphs # <<0>>
  <2>1. pieces \in Seq(Run) /\ Len(pieces) \in Nat
    BY DEF IndInv, TypeOK
  <2>2. /\ Len(pieces') = Len(pieces) + 1
        /\ \A i \in 1..Len(pieces) : pieces'[i] = pieces[i]
        /\ pieces'[Len(pieces) + 1] = x
    BY <1>3, <2>1, AppendFacts
  <2>3. x.lo \in Nat \ {0} /\ x.hi \in Nat
    BY DEF Run
  <2>4. x.hi >= Len(pieces) + 1
    <3>1. CASE Len(pieces) = 0
      <4>1. Size(x) > 0
        BY <1>1, <1>3, <2>0, <2>2, <2>3, <3>1 DEF IndInv, PiecesFit, Size
      <4> QED
        BY <4>1, <2>3, <3>1 DEF Size
    <3>2. CASE Len(pieces) # 0
      <4>1. Len(pieces) \in 1..Len(pieces) /\ Len(pieces) + 1 \in 2..Len(pieces')
        BY <2>1, <2>2, <3>2
      <4>2. pieces[Len(pieces)].hi >= Len(pieces) /\ pieces[Len(pieces)].hi \in Nat
        BY <2>0, <4>1, PieceTypes DEF PieceCount
      <4>3. pieces'[Len(pieces) + 1].hi > pieces'[Len(pieces) + 1 - 1].hi
        BY <4>1 DEF IndInv, PiecesProgress
      <4>4. x.hi > pieces[Len(pieces)].hi
        <5>1. Len(pieces) + 1 - 1 = Len(pieces)
          BY <2>1
        <5> QED
          BY <2>2, <4>1, <4>3, <5>1
      <4> QED
        BY <2>1, <2>3, <4>2, <4>4
    <3> QED
      BY <3>1, <3>2
  <2>5. \A i \in 1..Len(pieces) : pieces[i].hi >= i
    BY <2>0 DEF PieceCount
  <2> SUFFICES ASSUME NEW i \in 1..Len(pieces') PROVE pieces'[i].hi >= i
    OBVIOUS
  <2>6. i \in 1..Len(pieces) \/ i = Len(pieces) + 1
    BY <2>1, <2>2
  <2> QED
    BY <2>2, <2>4, <2>5, <2>6
<1> QED
  BY <1>1, <1>2, <1>3, Grows DEF PieceCount

\* The pieces of a note are no more than its words: what the embedding model is
\* asked for is bounded by the note.
THEOREM PiecesAreFew == Spec => []PiecesBounded
<1>1. Init => PieceCount
  BY DEF Init, PieceCount
<1>2. IndInv /\ IndInv' /\ PieceCount /\ [Next]_vars => PieceCount'
  BY PieceCountStep
<1>3. IndInv /\ PieceCount => PiecesBounded
  <2> SUFFICES ASSUME IndInv, PieceCount PROVE PiecesBounded
    OBVIOUS
  <2>1. pieces \in Seq(Run) /\ Len(pieces) \in Nat /\ read \in Nat
    BY DEF IndInv, TypeOK
  <2>2. CASE paragraphs = <<0>>
    <3>1. pieces = <<>> \/ pieces = <<NoWords>>
      BY <2>2 DEF IndInv, ReadInv
    <3>2. Len(pieces) = 0 \/ Len(pieces) = 1
      BY <3>1
    <3>3. Len(pieces) <= 1
      <4>1. \A n \in Nat : n = 0 \/ n = 1 => n <= 1
        OBVIOUS
      <4> QED
        BY <2>1, <3>2, <4>1, Zenon
    <3> QED
      BY <2>2, <3>3, Zenon DEF PiecesBounded
  <2>3. CASE paragraphs # <<0>> /\ Len(pieces) = 0
    BY <2>1, <2>3 DEF PiecesBounded
  <2>4. CASE paragraphs # <<0>> /\ Len(pieces) # 0
    <3>1. Len(pieces) \in 1..Len(pieces)
      BY <2>1, <2>4
    <3>2. pieces[Len(pieces)].hi >= Len(pieces) /\ pieces[Len(pieces)].hi <= read
      BY <2>4, <3>1 DEF PieceCount, IndInv, PiecesInv
    <3>3. pieces[Len(pieces)].hi \in Nat
      BY <3>1, PieceTypes
    <3> QED
      BY <2>1, <2>4, <3>2, <3>3 DEF PiecesBounded
  <2> QED
    BY <2>2, <2>3, <2>4
<1> QED
  BY Invariance, <1>1, <1>2, <1>3, PTL DEF Spec

\* What is left to do: paragraphs, the loops of a paragraph, and words to cut.
ParagraphsLeft == Len(paragraphs) + 1 - k

Phase == IF at = "checking" THEN 3 ELSE IF at = "collecting" THEN 2
         ELSE IF at = "cutting" THEN 1 ELSE 0

WordsLeft == IF at = "cutting" THEN Size(words) ELSE 0

\* None of them is negative.
RoundsLeft == ParagraphsLeft \in Nat /\ Phase \in Nat /\ WordsLeft \in Nat

\* One of them gets less and those before it stay: every round makes progress,
\* above all the cut, which leaves Limit - Overlap words less.
RoundsDescend ==
    [][\/ ParagraphsLeft' < ParagraphsLeft
       \/ ParagraphsLeft' = ParagraphsLeft /\ Phase' < Phase
       \/ ParagraphsLeft' = ParagraphsLeft /\ Phase' = Phase /\ WordsLeft' < WordsLeft]_vars

\* One round.
LEMMA Descends ==
    ASSUME IndInv, Next
    PROVE  \/ ParagraphsLeft' < ParagraphsLeft
           \/ ParagraphsLeft' = ParagraphsLeft /\ Phase' < Phase
           \/ /\ ParagraphsLeft' = ParagraphsLeft /\ Phase' = Phase
              /\ WordsLeft' < WordsLeft
<1>1. paragraphs' = paragraphs
  BY DEF Next, CheckTitle, Extend, Flush, Cut, Keep, Finish, inputs
<1>2. Len(paragraphs) \in Nat /\ k \in Nat
  BY DEF IndInv, TypeOK
<1>3. CASE CheckTitle
  BY <1>1, <1>3 DEF CheckTitle, ParagraphsLeft, Phase
<1>4. CASE Extend
  BY <1>1, <1>2, <1>4 DEF Extend, ParagraphsLeft
<1>5. CASE Flush
  BY <1>1, <1>5 DEF Flush, ParagraphsLeft, Phase
<1>6. CASE Cut
  <2>1. /\ at = "cutting" /\ UNCHANGED <<at, k>>
        /\ words' = [words EXCEPT !.lo = words.lo + Limit - Overlap]
    BY <1>6 DEF Cut, AfterCut
  <2>2. words \in Run /\ title \in Nat /\ Limit > Overlap
    BY <2>1 DEF IndInv, TypeOK, InputInv
  <2>3. Limit \in Int /\ Overlap \in Int /\ words.lo \in Int /\ words.hi \in Int
    BY <2>2, Configuration DEF Run, Limit
  <2>4. words'.hi = words.hi /\ words'.lo = words.lo + Limit - Overlap
    BY <2>1, <2>2 DEF Run
  <2>5. Size(words)' < Size(words)
    BY <2>2, <2>3, <2>4 DEF Size
  <2> QED
    BY <1>1, <2>1, <2>5 DEF ParagraphsLeft, Phase, WordsLeft
<1>7. CASE Keep
  BY <1>1, <1>2, <1>7 DEF Keep, ParagraphsLeft
<1>8. CASE Finish
  BY <1>1, <1>8 DEF Finish, ParagraphsLeft, Phase
<1> QED
  BY <1>3, <1>4, <1>5, <1>6, <1>7, <1>8 DEF Next

\* No call of chunk_note goes on for ever: what is left to do is three natural
\* numbers, which descend at every round.
THEOREM RoundsEnd == Spec => []RoundsLeft /\ RoundsDescend
<1>1. IndInv => RoundsLeft
  <2> SUFFICES ASSUME IndInv PROVE RoundsLeft
    OBVIOUS
  <2>1. Len(paragraphs) \in Nat /\ k \in Nat /\ k <= Len(paragraphs) + 1
    BY DEF IndInv, TypeOK, InputInv
  <2>2. WordsLeft \in Nat
    <3>1. CASE at = "cutting"
      <4>1. words \in Run /\ words.hi = read /\ words.lo = NextPiece
            /\ (paragraphs # <<0>> => Size(words) > 0)
        BY <3>1 DEF IndInv, TypeOK, WordsInv
      <4>2. Size(words) \in Int
        <5>1. words.lo \in Int /\ words.hi \in Int
          BY <4>1 DEF Run
        <5> QED
          BY <5>1 DEF Size
      <4>3. CASE paragraphs # <<0>>
        <5>1. Size(words) \in Int /\ Size(words) > 0
          BY <4>1, <4>2, <4>3
        <5>2. Size(words) \in Nat
          BY <5>1
        <5> QED
          BY <3>1, <5>2 DEF WordsLeft
      <4>4. CASE paragraphs = <<0>>
        <5>1. pieces \in {<<>>, <<NoWords>>} /\ read = 0 /\ read \in ends
          BY <3>1, <4>4 DEF IndInv, ReadInv, Started
        <5>2. NextPiece = 1
          BY <5>1 DEF NextPiece, NextWord, NoWords
        <5> QED
          BY <3>1, <4>1, <5>1, <5>2 DEF WordsLeft, Size
      <4> QED
        BY <4>3, <4>4
    <3>2. CASE at # "cutting"
      BY <3>2 DEF WordsLeft
    <3> QED
      BY <3>1, <3>2
  <2> QED
    BY <2>1, <2>2 DEF RoundsLeft, ParagraphsLeft, Phase
<1>2. IndInv /\ [Next]_vars =>
        [\/ ParagraphsLeft' < ParagraphsLeft
         \/ ParagraphsLeft' = ParagraphsLeft /\ Phase' < Phase
         \/ /\ ParagraphsLeft' = ParagraphsLeft /\ Phase' = Phase
            /\ WordsLeft' < WordsLeft]_vars
  BY Descends
<1> QED
  BY Invariance, <1>1, <1>2, PTL DEF Spec, RoundsDescend
=============================================================================
