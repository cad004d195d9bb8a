--------------------------- MODULE SemanticIndex ----------------------------
(* What the indexing of notes promises to retrieval, with no versions, jobs, *)
(* locks or workers: at any moment the search finds a note under the text it *)
(* has now, or does not find it.  A note that is rewritten leaves the search *)
(* in the same step, and an erased note leaves nothing behind.               *)
EXTENDS Naturals

CONSTANT Notes

VARIABLES text,         \* the text of each note, 0 when there is no note
          searchable,   \* the text under which the search finds it, or 0
          last          \* the last text anybody wrote

index == <<text, searchable, last>>

Init == /\ text = [n \in Notes |-> 0]
        /\ searchable = [n \in Notes |-> 0]
        /\ last = 0

\* A created or rewritten note has a new text and is not found yet.
Write(n) ==
    /\ last' = last + 1
    /\ text' = [text EXCEPT ![n] = last']
    /\ searchable' = [searchable EXCEPT ![n] = 0]

\* The current text becomes searchable.
Publish(n) ==
    /\ text[n] # 0
    /\ searchable' = [searchable EXCEPT ![n] = text[n]]
    /\ UNCHANGED <<text, last>>

\* Indexing is asked for again, or has failed for good.
Withdraw(n) ==
    /\ searchable' = [searchable EXCEPT ![n] = 0]
    /\ UNCHANGED <<text, last>>

Erase(n) ==
    /\ text' = [text EXCEPT ![n] = 0]
    /\ searchable' = [searchable EXCEPT ![n] = 0]
    /\ UNCHANGED last

Next == \E n \in Notes : Write(n) \/ Publish(n) \/ Withdraw(n) \/ Erase(n)

Spec == Init /\ [][Next]_index
=============================================================================
