----------------------------- MODULE NotePages ------------------------------
(* GET /notes: the pages of the notes list, which a client follows from      *)
(* cursor to cursor while the owner's tabs create, edit and delete notes.    *)
(*                                                                           *)
(* A page is one query, by (updated_at, id) downwards from the cursor.  A    *)
(* handler reads the clock before its transaction and writes that time when  *)
(* it gets to it, so notes are not written in the order of updated_at; and   *)
(* save compares the version in a SELECT of its own, so updates may be lost. *)
(* An id is a number; a page is a set, as (updated_at, id) orders it.        *)
EXTENDS Integers, FiniteSets

CONSTANTS Notes,     \* the ids of notes
          Limit,     \* limit of the query
          Writers,   \* the handlers of POST and PATCH
          MaxClock,  \* bound: the last instant
          MaxWrites  \* bound: how many writes are ever begun

ASSUME NotesAssumption == Notes \subseteq Nat /\ IsFiniteSet(Notes)
ASSUME LimitAssumption == Limit \in Nat \ {0}
ASSUME BoundsAssumption == MaxClock \in Nat /\ MaxWrites \in Nat

VARIABLES clock,
          rows,    \* the notes table: what matters of each row
          pc,      \* where each writer is
          req,     \* what a writer works with
          writes,
          at,      \* where the client is
          cursor,  \* next_cursor of its last page
          seen,    \* the notes of its pages
          again,   \* history: notes that came in two of its pages
          start,   \* history: the notes when it asked for the first page
          touched, \* history: the notes written or deleted until the last one
          lost     \* history: the notes with a lost update, ever

vars == <<clock, rows, pc, req, writes, at, cursor, seen, again, start, touched, lost>>
client == <<at, cursor, seen, again, start>>
table == <<rows, touched, lost>>

Unwritten == [state |-> "unwritten", time |-> 0, version |-> 0]
Erased    == [state |-> "erased", time |-> 0, version |-> 0]

Written(time, version) == [state |-> "written", time |-> time, version |-> version]

There == {n \in Notes : rows[n].state = "written"}

Key(n) == [time |-> rows[n].time, id |-> n]

\* The order of the query.
Older(a, b) == a.time < b.time \/ (a.time = b.time /\ a.id < b.id)

-----------------------------------------------------------------------------
(* The writers                                                               *)

Goes(w, step, request) ==
    /\ pc' = [pc EXCEPT ![w] = step]
    /\ req' = [req EXCEPT ![w] = request]

NoRequest == [note |-> 0, now |-> 0, version |-> 0]

Returns(w) == Goes(w, "idle", NoRequest)

\* The row of n becomes `row'.
Writes(n, row) ==
    /\ rows' = [rows EXCEPT ![n] = row]
    /\ touched' = IF at = "next" THEN touched \cup {n} ELSE touched

Begins(w, step, n) ==
    /\ pc[w] = "idle"
    /\ writes < MaxWrites
    /\ writes' = writes + 1
    /\ Goes(w, step, [note |-> n, now |-> clock, version |-> rows[n].version])
    /\ UNCHANGED <<clock, table, client>>

\* NoteService.create: a new id, and the time that is both created_at and
\* updated_at.
Create(w, n) ==
    /\ rows[n] = Unwritten
    /\ \A v \in Writers : pc[v] = "inserting" => req[v].note # n
    /\ Begins(w, "inserting", n)

Insert(w) ==
    /\ pc[w] = "inserting"
    /\ Writes(req[w].note, Written(req[w].now, 1))
    /\ Returns(w)
    /\ UNCHANGED <<clock, writes, client, lost>>

\* NoteService.update: get, and the time of the update.
Update(w, n) == n \in There /\ Begins(w, "comparing", n)

\* save: SELECT ... WHERE version = expected_version
Compare(w) ==
    /\ pc[w] = "comparing"
    /\ IF /\ req[w].note \in There
          /\ rows[req[w].note].version = req[w].version
       THEN Goes(w, "updating", req[w])
       ELSE Returns(w)
    /\ UNCHANGED <<clock, writes, table, client>>

\* Variant: the time is written whatever became of the row.
SaveTime(w) ==
    /\ pc[w] = "updating"
    /\ Writes(req[w].note, [rows[req[w].note] EXCEPT !.time = req[w].now])
    /\ Returns(w)
    /\ UNCHANGED <<clock, writes, client, lost>>

\* save: UPDATE ... WHERE id, which an erased row fails.
Save(w) ==
    LET n == req[w].note IN
    /\ pc[w] = "updating"
    /\ IF n \in There
       THEN /\ Writes(n, Written(req[w].now, req[w].version + 1))
            /\ lost' = IF rows[n].version # req[w].version THEN lost \cup {n} ELSE lost
       ELSE UNCHANGED table
    /\ Returns(w)
    /\ UNCHANGED <<clock, writes, client>>

Delete(n) ==
    /\ n \in There
    /\ Writes(n, Erased)
    /\ UNCHANGED <<clock, pc, req, writes, client, lost>>

Tick ==
    /\ clock < MaxClock
    /\ clock' = clock + 1
    /\ UNCHANGED <<table, pc, req, writes, client>>

-----------------------------------------------------------------------------
(* The pages                                                                 *)

\* Variant: the time alone is compared, and what has the cursor's time skipped.
BeyondByTime == {n \in There : at = "next" => rows[n].time < cursor.time}

\* Variant: what has the cursor's time is read again.
BeyondAgain == {n \in There : at = "next" => rows[n].time <= cursor.time}

\* The notes that the query may return.
Beyond == {n \in There : at = "next" => Older(Key(n), cursor)}

\* The first Limit notes of the query.
IsPage(items) ==
    /\ items \subseteq Beyond
    /\ Cardinality(items) = IF Cardinality(Beyond) < Limit THEN Cardinality(Beyond)
                                                           ELSE Limit
    /\ \A i \in items, n \in Beyond \ items : Older(Key(n), Key(i))

\* The last item of the page.
IsLast(last, items) == last \in items /\ \A i \in items \ {last} : Older(Key(last), Key(i))

\* The query asked for one note more.
More(items) == Cardinality(Beyond) > Limit

List ==
    /\ at \in {"first", "next"}
    /\ \E items \in SUBSET Beyond :
          /\ IsPage(items)
          /\ seen' = seen \cup items
          /\ again' = again \cup (seen \cap items)
          /\ IF More(items)
             THEN /\ at' = "next"
                  /\ \E last \in items : IsLast(last, items) /\ cursor' = Key(last)
             ELSE at' = "done" /\ UNCHANGED cursor
    /\ start' = IF at = "first" THEN There ELSE start
    /\ UNCHANGED <<clock, table, pc, req, writes>>

-----------------------------------------------------------------------------

Init ==
    /\ clock = 0
    /\ rows \in [Notes -> {Unwritten, Written(0, 1)}]
    /\ pc = [w \in Writers |-> "idle"]
    /\ req = [w \in Writers |-> NoRequest]
    /\ writes = 0
    /\ at = "first" /\ cursor = [time |-> 0, id |-> 0]
    /\ seen = {} /\ again = {} /\ start = {} /\ touched = {} /\ lost = {}

Write(w) == Insert(w) \/ Compare(w) \/ Save(w)

Next ==
    \/ \E w \in Writers, n \in Notes : Create(w, n) \/ Update(w, n)
    \/ \E w \in Writers : Write(w)
    \/ \E n \in Notes : Delete(n)
    \/ Tick
    \/ List

Spec == Init /\ [][Next]_vars

\* The client asks for the next page until there is none.
FairSpec == Spec /\ WF_vars(List)

-----------------------------------------------------------------------------
(* Properties                                                                *)

RowRecord == [state : {"unwritten", "written", "erased"}, time : Nat, version : Nat]
RequestRecord == [note : Nat, now : Nat, version : Nat]

\* The types of the rows and of what the writers and the client hold; nothing is
\* of a later time than now, and only a row that is there has a time.
TypeOK ==
    /\ clock \in Nat /\ writes \in Nat
    /\ rows \in [Notes -> RowRecord]
    /\ \A n \in Notes : /\ rows[n].time <= clock
                        /\ rows[n].state = "unwritten" => rows[n] = Unwritten
                        /\ rows[n].state = "erased" => rows[n] = Erased
    /\ pc \in [Writers -> {"idle", "inserting", "comparing", "updating"}]
    /\ req \in [Writers -> RequestRecord]
    /\ \A w \in Writers : /\ req[w].now <= clock
                          /\ pc[w] # "idle" => req[w].note \in Notes
    /\ at \in {"first", "next", "done"}
    /\ cursor \in [time : Nat, id : Nat]
    /\ seen \subseteq Notes /\ again \subseteq Notes /\ start \subseteq Notes
    /\ touched \subseteq Notes /\ lost \subseteq Notes

\* A client that follows the cursors never gets a note twice, whatever is created,
\* edited or deleted meanwhile: only a lost update may set updated_at back, and
\* the note on to a later page.
NoRepeat == again \subseteq lost

\* It gets every note that was there when it began and that nobody wrote since:
\* edits and deletions of other notes, and notes of the same instant, move none
\* of these across the cursor.
UntouchedListed == at = "done" => start \ touched \subseteq seen

\* It comes to the last page, also when notes are created all the time.
PagingEnds == at # "done" ~> at = "done"

\* What was seen is not beyond the cursor, and nothing was before the first page.
SeenBehind ==
    /\ at = "first" => seen = {} /\ again = {}
    /\ \A n \in seen : rows[n].state # "unwritten"
    /\ at = "next" => \A n \in (seen \cap There) \ lost : ~Older(Key(n), cursor)

\* The untouched notes were seen, or they are beyond the cursor.
UntouchedAhead ==
    at = "next" => \A n \in start \ touched :
                      n \in There /\ (n \in seen \/ Older(Key(n), cursor))

\* Each insert is of an id of its own, and an update of a note that was there.
NewIds ==
    /\ \A w \in Writers : pc[w] = "inserting" => rows[req[w].note] = Unwritten
    /\ \A v, w \in Writers :
          (pc[v] = "inserting" /\ pc[w] = "inserting" /\ req[v].note = req[w].note)
             => v = w
    /\ \A w \in Writers :
          pc[w] \in {"comparing", "updating"} => rows[req[w].note].state # "unwritten"

\* A save that loses no update writes a time that is no earlier.
SaveOrder ==
    \A w \in Writers :
       (pc[w] \in {"comparing", "updating"} /\ req[w].note \in There \ lost) =>
          /\ req[w].version <= rows[req[w].note].version
          /\ req[w].version = rows[req[w].note].version
                => rows[req[w].note].time <= req[w].now

\* What the proofs use.
IndInv ==
    /\ TypeOK
    /\ NoRepeat
    /\ UntouchedListed
    /\ SeenBehind
    /\ UntouchedAhead
    /\ NewIds
    /\ SaveOrder
=============================================================================
