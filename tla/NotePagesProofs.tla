-------------------------- MODULE NotePagesProofs ---------------------------
(* The pages of the notes list, for any notes, page size and writers.        *)
(*                                                                           *)
(* What was seen stays behind the cursor and what is still to come ahead of  *)
(* it; the cursor only goes down, and only a lost update takes a note down.  *)
EXTENDS NotePages, FiniteSetTheorems, WellFoundedInduction, TLAPS

-----------------------------------------------------------------------------
(* The order and the page                                                    *)

Position == [time : Nat, id : Nat]

\* The order of the query is a strict order.
LEMMA OlderIsOrder ==
    ASSUME NEW a \in Position, NEW b \in Position, NEW c \in Position
    PROVE  /\ ~Older(a, a)
           /\ Older(a, b) => ~Older(b, a)
           /\ Older(a, b) /\ Older(b, c) => Older(a, c)
BY DEF Older, Position

\* Every note has a place in the order.
LEMMA KeyType == ASSUME TypeOK, NEW n \in Notes PROVE Key(n) \in Position
BY NotesAssumption DEF TypeOK, RowRecord, Key, Position

\* What the rows, the writers and the requests are made of.
LEMMA RowFacts ==
    ASSUME TypeOK, NEW n \in Notes
    PROVE  /\ rows[n] \in RowRecord
           /\ rows[n].time \in Nat /\ rows[n].version \in Nat
           /\ rows[n].time <= clock /\ clock \in Nat
           /\ rows[n].state \in {"unwritten", "written", "erased"}
BY DEF TypeOK, RowRecord

\* The fields of a request.
LEMMA RequestFacts ==
    ASSUME TypeOK, NEW w \in Writers
    PROVE  /\ req[w] \in RequestRecord
           /\ req[w].note \in Nat /\ req[w].now \in Nat /\ req[w].version \in Nat
           /\ req[w].now <= clock
           /\ pc[w] # "idle" => req[w].note \in Notes
BY DEF TypeOK, RequestRecord

\* A page that is followed by no other holds all that is beyond the cursor.
LEMMA LastPage ==
    ASSUME NEW items \in SUBSET Beyond, IsPage(items), ~More(items)
    PROVE  items = Beyond
<1>1. IsFiniteSet(Beyond)
  BY NotesAssumption, FS_Subset DEF Beyond, There
<1>2. Cardinality(Beyond) \in Nat
  BY <1>1, FS_CardinalityType
<1>3. Cardinality(items) = Cardinality(Beyond)
  BY <1>2, LimitAssumption DEF IsPage, More
<1> QED
  BY <1>1, <1>3, FS_Subset

-----------------------------------------------------------------------------
(* The writers                                                               *)

\* A request that begins, with the version and the time it reads.
LEMMA BeginsKeeps ==
    ASSUME IndInv, NEW w \in Writers, NEW n \in Notes,
           NEW step \in {"inserting", "comparing"}, Begins(w, step, n),
           step = "inserting" =>
              /\ rows[n] = Unwritten
              /\ \A v \in Writers : pc[v] = "inserting" => req[v].note # n,
           step = "comparing" => n \in There
    PROVE  IndInv'
<1> DEFINE new == [note |-> n, now |-> clock, version |-> rows[n].version]
<1>1. /\ TypeOK /\ NoRepeat /\ UntouchedListed /\ SeenBehind /\ UntouchedAhead
      /\ NewIds /\ SaveOrder
  BY DEF IndInv
<1>2. /\ pc' = [pc EXCEPT ![w] = step] /\ req' = [req EXCEPT ![w] = new]
      /\ writes' = writes + 1 /\ pc[w] = "idle"
      /\ UNCHANGED <<clock, rows, touched, lost, at, cursor, seen, again, start>>
  BY DEF Begins, Goes, table, client
<1>3. new \in RequestRecord /\ new.now <= clock /\ new.note = n
  BY <1>1, RowFacts, NotesAssumption DEF RequestRecord
<1>4. TypeOK'
  <2> HIDE DEF new
  <2>1. pc' \in [Writers -> {"idle", "inserting", "comparing", "updating"}]
    BY <1>1, <1>2 DEF TypeOK
  <2>2. req' \in [Writers -> RequestRecord]
    BY <1>1, <1>2, <1>3 DEF TypeOK
  <2>3. \A v \in Writers : /\ req'[v].now <= clock
                           /\ pc'[v] # "idle" => req'[v].note \in Notes
    BY <1>1, <1>2, <1>3 DEF TypeOK
  <2> QED
    BY <1>1, <1>2, <2>1, <2>2, <2>3 DEF TypeOK
<1>5. /\ NoRepeat' /\ UntouchedListed' /\ SeenBehind' /\ UntouchedAhead'
  BY <1>1, <1>2 DEF NoRepeat, UntouchedListed, SeenBehind, UntouchedAhead, There, Key
<1>6. NewIds'
  <2>1. \A v \in Writers : pc'[v] = "inserting" => rows[req'[v].note] = Unwritten
    BY <1>1, <1>2 DEF NewIds, TypeOK
  <2>2. \A u, v \in Writers :
          (pc'[u] = "inserting" /\ pc'[v] = "inserting" /\ req'[u].note = req'[v].note)
             => u = v
    BY <1>1, <1>2 DEF NewIds, TypeOK
  <2>3. \A v \in Writers :
          pc'[v] \in {"comparing", "updating"} => rows[req'[v].note].state # "unwritten"
    BY <1>1, <1>2 DEF NewIds, TypeOK, There
  <2> QED
    BY <1>2, <2>1, <2>2, <2>3 DEF NewIds
<1>7. SaveOrder'
  <2> SUFFICES ASSUME NEW v \in Writers, pc'[v] \in {"comparing", "updating"},
                      req'[v].note \in There \ lost
               PROVE  /\ req'[v].version <= rows[req'[v].note].version
                      /\ req'[v].version = rows[req'[v].note].version
                            => rows[req'[v].note].time <= req'[v].now
    BY <1>2 DEF SaveOrder, There
  <2>1. CASE v = w
    <3>1. req'[v] = new
      BY <1>1, <1>2, <2>1 DEF TypeOK
    <3> QED
      BY <3>1, <1>1, RowFacts
  <2>2. CASE v # w
    <3>1. req'[v] = req[v] /\ pc'[v] = pc[v]
      BY <1>1, <1>2, <2>2 DEF TypeOK
    <3> QED
      BY <3>1, <1>1 DEF SaveOrder
  <2> QED
    BY <2>1, <2>2
<1> QED
  BY <1>4, <1>5, <1>6, <1>7 DEF IndInv

\* The types, when w returns or goes on with the same request.
LEMMA GoesType ==
    ASSUME TypeOK, NEW w \in Writers,
           \/ Returns(w)
           \/ pc[w] # "idle" /\ Goes(w, "updating", req[w])
    PROVE  /\ pc' \in [Writers -> {"idle", "inserting", "comparing", "updating"}]
           /\ req' \in [Writers -> RequestRecord]
           /\ \A v \in Writers : /\ req'[v].now <= clock
                                 /\ pc'[v] # "idle" => req'[v].note \in Notes
           /\ \A v \in Writers \ {w} : pc'[v] = pc[v] /\ req'[v] = req[v]
<1>1. NoRequest \in RequestRecord /\ NoRequest.now <= clock
  BY DEF NoRequest, RequestRecord, TypeOK
<1>2. CASE Returns(w)
  BY <1>1, <1>2 DEF TypeOK, Returns, Goes
<1>3. CASE pc[w] # "idle" /\ Goes(w, "updating", req[w])
  BY <1>3 DEF TypeOK, Goes
<1> QED
  BY <1>2, <1>3

\* The version is compared: nothing is written yet.
LEMMA CompareKeeps ==
    ASSUME IndInv, NEW w \in Writers, Compare(w)
    PROVE  IndInv'
<1>1. /\ TypeOK /\ NoRepeat /\ UntouchedListed /\ SeenBehind /\ UntouchedAhead
      /\ NewIds /\ SaveOrder
  BY DEF IndInv
<1>2. /\ UNCHANGED <<clock, rows, touched, lost, at, cursor, seen, again, start, writes>>
      /\ pc[w] = "comparing"
      /\ Returns(w) \/ Goes(w, "updating", req[w])
  BY DEF Compare, table, client
<1>3. /\ pc' \in [Writers -> {"idle", "inserting", "comparing", "updating"}]
      /\ req' \in [Writers -> RequestRecord]
      /\ \A v \in Writers : /\ req'[v].now <= clock
                            /\ pc'[v] # "idle" => req'[v].note \in Notes
      /\ \A v \in Writers \ {w} : pc'[v] = pc[v] /\ req'[v] = req[v]
  BY <1>1, <1>2, GoesType
<1>4. TypeOK'
  BY <1>1, <1>2, <1>3 DEF TypeOK
<1>5. /\ NoRepeat' /\ UntouchedListed' /\ SeenBehind' /\ UntouchedAhead'
  BY <1>1, <1>2 DEF NoRepeat, UntouchedListed, SeenBehind, UntouchedAhead, There, Key
<1>6. pc'[w] = "idle" \/ (pc'[w] = "updating" /\ req'[w] = req[w])
  BY <1>1, <1>2 DEF Returns, Goes, TypeOK
<1>7. NewIds'
  BY <1>1, <1>2, <1>3, <1>6 DEF NewIds
<1>8. SaveOrder'
  <2> SUFFICES ASSUME NEW v \in Writers, pc'[v] \in {"comparing", "updating"},
                      req'[v].note \in There \ lost
               PROVE  /\ req'[v].version <= rows[req'[v].note].version
                      /\ req'[v].version = rows[req'[v].note].version
                            => rows[req'[v].note].time <= req'[v].now
    BY <1>2 DEF SaveOrder, There
  <2>1. req'[v] = req[v] /\ pc[v] \in {"comparing", "updating"}
    BY <1>2, <1>3, <1>6
  <2> QED
    BY <2>1, <1>1 DEF SaveOrder
<1> QED
  BY <1>4, <1>5, <1>7, <1>8 DEF IndInv

-----------------------------------------------------------------------------
(* The rows                                                                  *)

\* A row is written or erased: the client is as it was, provided that a note it
\* has seen goes no further down.
LEMMA WritesKeeps ==
    ASSUME IndInv, NEW n \in Notes, NEW row \in RowRecord, Writes(n, row),
           UNCHANGED <<clock, at, cursor, seen, again, start>>,
           row.time <= clock, row.state # "unwritten",
           row.state = "erased" => row = Erased,
           lost' \subseteq Notes, lost \subseteq lost',
           (n \in There \ lost' /\ row.state = "written") => rows[n].time <= row.time,
           n \notin There => (row.state = "written" => rows[n] = Unwritten)
    PROVE  /\ rows' \in [Notes -> RowRecord]
           /\ \A m \in Notes : /\ rows'[m].time <= clock
                               /\ rows'[m].state = "unwritten" => rows'[m] = Unwritten
                               /\ rows'[m].state = "erased" => rows'[m] = Erased
           /\ touched' \subseteq Notes
           /\ NoRepeat' /\ UntouchedListed' /\ SeenBehind' /\ UntouchedAhead'
<1>1. /\ TypeOK /\ NoRepeat /\ UntouchedListed /\ SeenBehind /\ UntouchedAhead
  BY DEF IndInv
<1>2. /\ rows' = [rows EXCEPT ![n] = row]
      /\ touched' = IF at = "next" THEN touched \cup {n} ELSE touched
      /\ rows \in [Notes -> RowRecord] /\ touched \subseteq Notes
      /\ seen \subseteq Notes /\ start \subseteq Notes
  BY <1>1 DEF Writes, TypeOK
<1>3. /\ rows'[n] = row
      /\ \A m \in Notes \ {n} : rows'[m] = rows[m]
      /\ rows' \in [Notes -> RowRecord]
      /\ touched \subseteq touched' /\ touched' \subseteq Notes
  BY <1>2
<1>4. \A m \in Notes : /\ rows'[m].time <= clock
                       /\ rows'[m].state = "unwritten" => rows'[m] = Unwritten
                       /\ rows'[m].state = "erased" => rows'[m] = Erased
  BY <1>1, <1>3 DEF TypeOK
<1>5. NoRepeat' /\ UntouchedListed'
  BY <1>1, <1>3 DEF NoRepeat, UntouchedListed
<1>6. SeenBehind'
  <2>1. \A m \in seen : rows'[m].state # "unwritten"
    BY <1>1, <1>2, <1>3 DEF SeenBehind
  <2>2. ASSUME at = "next", NEW m \in seen, rows'[m].state = "written", m \notin lost'
        PROVE  ~Older([time |-> rows'[m].time, id |-> m], cursor)
    <3>1. CASE m # n
      BY <2>2, <3>1, <1>1, <1>2, <1>3 DEF SeenBehind, There, Key
    <3>2. CASE m = n
      <4>1. rows[n].state # "unwritten"
        BY <3>2, <1>1, <2>2 DEF SeenBehind
      <4>2. n \in There
        BY <4>1, <2>2, <3>2, <1>3 DEF Unwritten
      <4>3. rows[n].time <= row.time /\ ~Older(Key(n), cursor)
        BY <4>2, <2>2, <3>2, <1>1, <1>3 DEF SeenBehind
      <4>4. /\ rows[n].time \in Nat /\ row.time \in Nat /\ cursor.time \in Nat
            /\ cursor.id \in Nat /\ n \in Nat
        BY <1>1, RowFacts, NotesAssumption DEF TypeOK, RowRecord
      <4> QED
        BY ONLY <4>3, <4>4, <3>2, <1>3 DEF Older, Key
    <3> QED
      BY <3>1, <3>2
  <2> QED
    BY <1>1, <2>1, <2>2, <1>2 DEF SeenBehind, There, Key
<1>7. UntouchedAhead'
  <2> SUFFICES ASSUME at = "next", NEW m \in start \ touched'
               PROVE  /\ m \in There'
                      /\ m \in seen \/ Older([time |-> rows'[m].time, id |-> m], cursor)
    BY DEF UntouchedAhead, Key
  <2>1. m # n /\ m \in Notes /\ m \in start \ touched
    BY <1>2
  <2> QED
    BY <2>1, <1>1, <1>3 DEF UntouchedAhead, There, Key
<1> QED
  BY <1>3, <1>4, <1>5, <1>6, <1>7

\* A new note is in no request but its own, and in no page.
LEMMA InsertKeeps ==
    ASSUME IndInv, NEW w \in Writers, Insert(w)
    PROVE  IndInv'
<1> DEFINE n == req[w].note
           row == Written(req[w].now, 1)
<1>1. TypeOK /\ NewIds /\ SaveOrder /\ lost \subseteq Notes
  BY DEF IndInv, TypeOK
<1>2. /\ pc[w] = "inserting" /\ Writes(n, row) /\ Returns(w)
      /\ UNCHANGED <<clock, writes, at, cursor, seen, again, start, lost>>
  BY DEF Insert, client
<1>3. n \in Notes /\ rows[n] = Unwritten /\ n \notin There
  BY <1>1, <1>2 DEF TypeOK, NewIds, There, Unwritten
<1>4. row \in RowRecord /\ row.time <= clock /\ row.state = "written"
  BY <1>1, RequestFacts DEF Written, RowRecord
<1>5. /\ rows' \in [Notes -> RowRecord]
      /\ \A m \in Notes : /\ rows'[m].time <= clock
                          /\ rows'[m].state = "unwritten" => rows'[m] = Unwritten
                          /\ rows'[m].state = "erased" => rows'[m] = Erased
      /\ touched' \subseteq Notes
      /\ NoRepeat' /\ UntouchedListed' /\ SeenBehind' /\ UntouchedAhead'
  <2> HIDE DEF n, row
  <2> QED
    BY <1>1, <1>2, <1>3, <1>4, WritesKeeps
<1>6. /\ pc' \in [Writers -> {"idle", "inserting", "comparing", "updating"}]
      /\ req' \in [Writers -> RequestRecord]
      /\ \A v \in Writers : /\ req'[v].now <= clock
                            /\ pc'[v] # "idle" => req'[v].note \in Notes
      /\ \A v \in Writers \ {w} : pc'[v] = pc[v] /\ req'[v] = req[v]
  BY <1>1, <1>2, GoesType
<1>7. TypeOK'
  BY <1>1, <1>2, <1>5, <1>6 DEF TypeOK
<1>8. pc'[w] = "idle" /\ \A m \in Notes \ {n} : rows'[m] = rows[m]
  BY <1>1, <1>2 DEF Returns, Goes, Writes, TypeOK
<1>9. \A v \in Writers : pc'[v] # "idle" => v # w /\ req[v].note \in Notes \ {n}
  BY <1>1, <1>2, <1>3, <1>6, <1>8 DEF NewIds, TypeOK, Unwritten
<1>10. NewIds'
  <2> HIDE DEF n, row
  <2> QED
    BY <1>1, <1>6, <1>8, <1>9 DEF NewIds
<1>11. SaveOrder'
  <2> HIDE DEF n, row
  <2> SUFFICES ASSUME NEW v \in Writers, pc'[v] \in {"comparing", "updating"},
                      req'[v].note \in There' \ lost
               PROVE  /\ req'[v].version <= rows'[req'[v].note].version
                      /\ req'[v].version = rows'[req'[v].note].version
                            => rows'[req'[v].note].time <= req'[v].now
    BY <1>2 DEF SaveOrder
  <2>1. /\ pc[v] = pc'[v] /\ req'[v] = req[v] /\ req[v].note \in Notes
        /\ rows'[req[v].note] = rows[req[v].note]
    BY <1>6, <1>8, <1>9
  <2> QED
    BY <2>1, <1>1 DEF SaveOrder, There
<1> QED
  BY <1>5, <1>7, <1>10, <1>11 DEF IndInv

\* An erased note is in no later page, and no later save finds it.
LEMMA DeleteKeeps ==
    ASSUME IndInv, NEW n \in Notes, Delete(n)
    PROVE  IndInv'
<1>1. TypeOK /\ NewIds /\ SaveOrder /\ lost \subseteq Notes
  BY DEF IndInv, TypeOK
<1>2. /\ n \in There /\ Writes(n, Erased)
      /\ UNCHANGED <<clock, pc, req, writes, at, cursor, seen, again, start, lost>>
  BY DEF Delete, client
<1>3. Erased \in RowRecord /\ Erased.time <= clock /\ Erased.state = "erased"
  BY <1>1 DEF Erased, RowRecord, TypeOK
<1>4. /\ rows' \in [Notes -> RowRecord]
      /\ \A m \in Notes : /\ rows'[m].time <= clock
                          /\ rows'[m].state = "unwritten" => rows'[m] = Unwritten
                          /\ rows'[m].state = "erased" => rows'[m] = Erased
      /\ touched' \subseteq Notes
      /\ NoRepeat' /\ UntouchedListed' /\ SeenBehind' /\ UntouchedAhead'
  BY <1>1, <1>2, <1>3, WritesKeeps
<1>5. TypeOK'
  BY <1>1, <1>2, <1>4 DEF TypeOK
<1>6. /\ rows'[n] = Erased /\ \A m \in Notes \ {n} : rows'[m] = rows[m]
      /\ rows[n].state = "written"
  BY <1>1, <1>2 DEF Writes, TypeOK, There
<1>7. NewIds'
  <2>1. \A v \in Writers : pc[v] = "inserting" =>
           req[v].note \in Notes \ {n} /\ rows'[req[v].note] = Unwritten
    BY <1>1, <1>6 DEF NewIds, TypeOK, Unwritten
  <2>2. \A v \in Writers : pc[v] \in {"comparing", "updating"} =>
           rows'[req[v].note].state # "unwritten"
    BY <1>1, <1>3, <1>6 DEF NewIds, TypeOK
  <2> QED
    BY <1>1, <1>2, <2>1, <2>2 DEF NewIds
<1>8. SaveOrder'
  <2> SUFFICES ASSUME NEW v \in Writers, pc[v] \in {"comparing", "updating"},
                      req[v].note \in There' \ lost
               PROVE  /\ req[v].version <= rows'[req[v].note].version
                      /\ req[v].version = rows'[req[v].note].version
                            => rows'[req[v].note].time <= req[v].now
    BY <1>2 DEF SaveOrder
  <2>1. req[v].note \in Notes \ {n} /\ rows'[req[v].note] = rows[req[v].note]
    BY <1>3, <1>6 DEF There
  <2> QED
    BY <2>1, <1>1 DEF SaveOrder, There
<1> QED
  BY <1>4, <1>5, <1>7, <1>8 DEF IndInv

\* A save that loses no update moves the note up, with a version of its own.
LEMMA SaveKeeps ==
    ASSUME IndInv, NEW w \in Writers, Save(w)
    PROVE  IndInv'
<1> DEFINE n == req[w].note
           row == Written(req[w].now, req[w].version + 1)
<1>1. TypeOK /\ NewIds /\ SaveOrder /\ NoRepeat /\ lost \subseteq Notes
  BY DEF IndInv, TypeOK
<1>2. /\ pc[w] = "updating" /\ Returns(w)
      /\ UNCHANGED <<clock, writes, at, cursor, seen, again, start>>
  BY DEF Save, client
<1>3. n \in Notes
  BY <1>1, <1>2, RequestFacts
<1>4. /\ pc' \in [Writers -> {"idle", "inserting", "comparing", "updating"}]
      /\ req' \in [Writers -> RequestRecord]
      /\ \A v \in Writers : /\ req'[v].now <= clock
                            /\ pc'[v] # "idle" => req'[v].note \in Notes
      /\ \A v \in Writers \ {w} : pc'[v] = pc[v] /\ req'[v] = req[v]
  BY <1>1, <1>2, GoesType
<1>5. pc'[w] = "idle"
  BY <1>1, <1>2 DEF Returns, Goes, TypeOK
<1>6. CASE n \notin There
  <2>1. UNCHANGED <<rows, touched, lost>>
    BY <1>6 DEF Save, table
  <2>2. TypeOK'
    BY <1>1, <1>2, <1>4, <2>1 DEF TypeOK
  <2>3. NoRepeat' /\ UntouchedListed' /\ SeenBehind' /\ UntouchedAhead'
    BY <1>2, <2>1
       DEF IndInv, NoRepeat, UntouchedListed, SeenBehind, UntouchedAhead, There, Key
  <2>4. NewIds'
    <3> HIDE DEF n, row
    <3> QED
      BY <1>1, <1>4, <1>5, <2>1 DEF NewIds
  <2>5. SaveOrder'
    <3> HIDE DEF n, row
    <3> QED
      BY <1>1, <1>4, <1>5, <2>1 DEF SaveOrder, There
  <2> QED
    BY <2>2, <2>3, <2>4, <2>5 DEF IndInv
<1>7. CASE n \in There
  <2>1. /\ Writes(n, row)
        /\ lost' = IF rows[n].version # req[w].version THEN lost \cup {n} ELSE lost
    BY <1>7 DEF Save
  <2>2. row \in RowRecord /\ row.time <= clock /\ row.state = "written"
    BY <1>1, RequestFacts DEF Written, RowRecord
  <2>3. lost' \subseteq Notes /\ lost \subseteq lost'
    BY <1>1, <1>3, <2>1
  <2>4. n \notin lost' => /\ rows[n].version = req[w].version
                          /\ rows[n].time <= row.time
    BY <1>1, <1>2, <1>7, <2>1 DEF SaveOrder, Written
  <2>5. /\ rows' \in [Notes -> RowRecord]
        /\ \A m \in Notes : /\ rows'[m].time <= clock
                            /\ rows'[m].state = "unwritten" => rows'[m] = Unwritten
                            /\ rows'[m].state = "erased" => rows'[m] = Erased
        /\ touched' \subseteq Notes
        /\ NoRepeat' /\ UntouchedListed' /\ SeenBehind' /\ UntouchedAhead'
    <3> HIDE DEF n, row
    <3> QED
      BY <1>1, <1>2, <1>3, <1>7, <2>1, <2>2, <2>3, <2>4, WritesKeeps
  <2>6. TypeOK'
    BY <1>1, <1>2, <1>4, <2>3, <2>5 DEF TypeOK
  <2>7. rows'[n] = row /\ \A m \in Notes \ {n} : rows'[m] = rows[m]
    BY <1>1, <1>3, <2>1 DEF Writes, TypeOK
  <2>8. rows[n].state = "written"
    BY <1>7 DEF There
  <2>9. NewIds'
    <3> HIDE DEF n, row
    <3>1. \A v \in Writers : pc'[v] = "inserting" =>
             req'[v].note \in Notes \ {n} /\ rows'[req'[v].note] = Unwritten
      BY <1>1, <1>4, <1>5, <2>7, <2>8 DEF NewIds, Unwritten
    <3>2. \A v \in Writers : pc'[v] \in {"comparing", "updating"} =>
             rows'[req'[v].note].state # "unwritten"
      BY <1>1, <1>4, <1>5, <2>2, <2>7 DEF NewIds
    <3> QED
      BY <1>1, <1>4, <1>5, <3>1, <3>2 DEF NewIds
  <2>10. SaveOrder'
    <3> SUFFICES ASSUME NEW v \in Writers, pc'[v] \in {"comparing", "updating"},
                        req'[v].note \in There' \ lost'
                 PROVE  /\ req'[v].version <= rows'[req'[v].note].version
                        /\ req'[v].version = rows'[req'[v].note].version
                              => rows'[req'[v].note].time <= req'[v].now
      BY DEF SaveOrder
    <3>1. /\ pc[v] = pc'[v] /\ req'[v] = req[v] /\ req[v].note \in Notes
      BY <1>4, <1>5
    <3>2. CASE req[v].note # n
      <4>1. rows'[req[v].note] = rows[req[v].note] /\ req[v].note \notin lost
        BY <3>1, <3>2, <2>3, <2>7
      <4> QED
        BY <3>1, <4>1, <1>1 DEF SaveOrder, There
    <3>3. CASE req[v].note = n
      <4>1. rows[n].version = req[w].version /\ n \notin lost
        BY <3>1, <3>3, <2>3, <2>4
      <4>2. req[v].version <= rows[n].version
        BY <3>1, <3>3, <4>1, <1>1, <1>7 DEF SaveOrder
      <4>3. rows'[n].version = rows[n].version + 1
        BY <4>1, <2>7 DEF Written
      <4>4. req[v].version \in Nat /\ rows[n].version \in Nat
        BY <1>1, <1>3, RequestFacts, RowFacts
      <4>5. req[v].version <= rows'[n].version /\ req[v].version # rows'[n].version
        BY ONLY <4>2, <4>3, <4>4
      <4> QED
        BY <3>1, <3>3, <4>5
    <3> QED
      BY <3>2, <3>3
  <2> QED
    BY <2>5, <2>6, <2>9, <2>10 DEF IndInv
<1> QED
  BY <1>6, <1>7

-----------------------------------------------------------------------------
(* The client                                                                *)

\* Time goes on.
LEMMA TickKeeps == ASSUME IndInv, Tick PROVE IndInv'
<1>1. /\ clock' = clock + 1
      /\ UNCHANGED <<rows, touched, lost, pc, req, writes, at, cursor, seen, again, start>>
  BY DEF Tick, table, client
<1>2. TypeOK'
  BY <1>1 DEF IndInv, TypeOK, RowRecord, RequestRecord
<1> QED
  BY <1>1, <1>2 DEF IndInv, NoRepeat, UntouchedListed, SeenBehind, UntouchedAhead,
                    NewIds, SaveOrder, There, Key

\* The client gets a page: the cursor, if there is one, goes down to its last note.
LEMMA ListKeeps == ASSUME IndInv, List PROVE IndInv'
<1>1. /\ TypeOK /\ NoRepeat /\ UntouchedListed /\ SeenBehind /\ UntouchedAhead
      /\ NewIds /\ SaveOrder
  BY DEF IndInv
<1>2. PICK items \in SUBSET Beyond :
         /\ IsPage(items)
         /\ seen' = seen \cup items
         /\ again' = again \cup (seen \cap items)
         /\ IF More(items)
            THEN /\ at' = "next"
                 /\ \E last \in items : IsLast(last, items) /\ cursor' = Key(last)
            ELSE at' = "done" /\ UNCHANGED cursor
  BY DEF List
<1>3. /\ at \in {"first", "next"}
      /\ start' = IF at = "first" THEN There ELSE start
      /\ UNCHANGED <<clock, rows, touched, lost, pc, req, writes>>
  BY DEF List, table
<1>4. items \subseteq There /\ There \subseteq Notes
  BY DEF Beyond, There
<1>5. NewIds' /\ SaveOrder'
  BY <1>1, <1>3 DEF NewIds, SaveOrder, There
<1>6. seen \cap items \subseteq lost
  BY <1>1, <1>3 DEF SeenBehind, Beyond
<1>7. NoRepeat'
  BY <1>1, <1>2, <1>3, <1>6 DEF NoRepeat
<1>8. \A m \in seen' : rows'[m].state # "unwritten"
  BY <1>1, <1>2, <1>3 DEF SeenBehind, Beyond, There
<1>9. \A m \in start' \ touched : m \in There /\ (m \in seen \/ m \in Beyond)
  BY <1>1, <1>3 DEF UntouchedAhead, Beyond
<1>10. CASE More(items)
  <2>1. PICK last \in items : IsLast(last, items) /\ cursor' = Key(last)
    BY <1>2, <1>10
  <2>2. at' = "next" /\ last \in Notes /\ Key(last) \in Position
    BY <1>1, <1>2, <1>4, <1>10, KeyType
  <2>3. TypeOK'
    <3>1. cursor' \in [time : Nat, id : Nat]
      BY <2>1, <2>2 DEF Position
    <3>2. seen' \subseteq Notes /\ again' \subseteq Notes /\ start' \subseteq Notes
      BY <1>1, <1>2, <1>3, <1>4 DEF TypeOK
    <3> QED
      BY <1>1, <1>3, <2>2, <3>1, <3>2 DEF TypeOK
  <2>4. ASSUME NEW m \in (seen' \cap There) \ lost
        PROVE  ~Older(Key(m), Key(last))
    <3>1. Key(m) \in Position /\ Key(last) \in Position /\ cursor \in Position
      BY <1>1, <1>4, <2>2, KeyType DEF TypeOK, Position
    <3>2. CASE m \in items
      <4>1. m = last \/ Older(Key(last), Key(m))
        BY <2>1, <3>2 DEF IsLast
      <4> QED
        BY <3>1, <4>1, OlderIsOrder
    <3>3. CASE m \in seen
      <4>1. at = "next" /\ ~Older(Key(m), cursor) /\ Older(Key(last), cursor)
        BY <1>1, <1>3, <3>3 DEF SeenBehind, Beyond
      <4> QED
        BY <3>1, <4>1, OlderIsOrder
    <3> QED
      BY <1>2, <3>2, <3>3
  <2>5. SeenBehind'
    BY <1>3, <1>8, <2>1, <2>2, <2>4 DEF SeenBehind, There, Key
  <2>6. UntouchedAhead'
    <3>1. ASSUME NEW m \in start' \ touched
          PROVE  m \in There /\ (m \in seen' \/ Older(Key(m), Key(last)))
      BY <1>2, <1>9, <2>1 DEF IsPage
    <3> QED
      BY <1>3, <2>1, <3>1 DEF UntouchedAhead, There, Key
  <2>7. UntouchedListed'
    BY <2>2 DEF UntouchedListed
  <2> QED
    BY <1>5, <1>7, <2>3, <2>5, <2>6, <2>7 DEF IndInv
<1>11. CASE ~More(items)
  <2>1. at' = "done" /\ cursor' = cursor /\ items = Beyond
    BY <1>2, <1>11, LastPage
  <2>2. TypeOK'
    <3>1. seen' \subseteq Notes /\ again' \subseteq Notes /\ start' \subseteq Notes
      BY <1>1, <1>2, <1>3, <1>4 DEF TypeOK
    <3> QED
      BY <1>1, <1>3, <2>1, <3>1 DEF TypeOK
  <2>3. UntouchedListed'
    BY <1>2, <1>3, <1>9, <2>1 DEF UntouchedListed
  <2>4. SeenBehind' /\ UntouchedAhead'
    BY <1>8, <2>1 DEF SeenBehind, UntouchedAhead
  <2> QED
    BY <1>5, <1>7, <2>2, <2>3, <2>4 DEF IndInv
<1> QED
  BY <1>10, <1>11

-----------------------------------------------------------------------------
(* The theorems                                                              *)

\* Every step keeps the invariant.
LEMMA StepKeeps == ASSUME IndInv, [Next]_vars PROVE IndInv'
<1>1. CASE \E w \in Writers, n \in Notes : Create(w, n) \/ Update(w, n)
  <2>1. PICK w \in Writers, n \in Notes : Create(w, n) \/ Update(w, n)
    BY <1>1
  <2>2. CASE Create(w, n)
    <3>1. /\ Begins(w, "inserting", n) /\ rows[n] = Unwritten
          /\ \A v \in Writers : pc[v] = "inserting" => req[v].note # n
      BY <2>2 DEF Create
    <3> QED
      BY <3>1, BeginsKeeps
  <2>3. CASE Update(w, n)
    <3>1. Begins(w, "comparing", n) /\ n \in There
      BY <2>3 DEF Update
    <3> QED
      BY <3>1, BeginsKeeps
  <2> QED
    BY <2>1, <2>2, <2>3
<1>2. CASE \E w \in Writers : Write(w)
  BY <1>2, InsertKeeps, CompareKeeps, SaveKeeps DEF Write
<1>3. CASE \E n \in Notes : Delete(n)
  BY <1>3, DeleteKeeps
<1>4. CASE UNCHANGED vars
  BY <1>4 DEF vars, IndInv, TypeOK, NoRepeat, UntouchedListed, SeenBehind, UntouchedAhead,
              NewIds, SaveOrder, There, Key
<1> QED
  BY <1>1, <1>2, <1>3, <1>4, TickKeeps, ListKeeps DEF Next

\* It holds of every state: what was seen is behind the cursor, the untouched rest
\* ahead of it.
THEOREM Invariance == Spec => []IndInv
<1>1. Init => IndInv
  <2> SUFFICES ASSUME Init PROVE IndInv
    OBVIOUS
  <2>1. Unwritten \in RowRecord /\ Written(0, 1) \in RowRecord /\ NoRequest \in RequestRecord
    BY DEF Unwritten, Written, NoRequest, RowRecord, RequestRecord
  <2>2. rows \in [Notes -> RowRecord]
    BY <2>1 DEF Init
  <2>3. \A n \in Notes : rows[n] = Unwritten \/ rows[n] = Written(0, 1)
    BY DEF Init
  <2>4. \A n \in Notes : /\ rows[n].time <= clock
                         /\ rows[n].state = "unwritten" => rows[n] = Unwritten
                         /\ rows[n].state = "erased" => rows[n] = Erased
    BY <2>3 DEF Init, Unwritten, Written
  <2>5. \A w \in Writers : pc[w] = "idle" /\ req[w] = NoRequest
    BY DEF Init
  <2>6. TypeOK
    BY <2>1, <2>2, <2>4, <2>5 DEF Init, TypeOK, NoRequest
  <2> QED
    BY <2>5, <2>6 DEF Init, IndInv, NoRepeat, UntouchedListed, SeenBehind, UntouchedAhead,
                      NewIds, SaveOrder
<1>2. IndInv /\ [Next]_vars => IndInv'
  BY StepKeeps
<1> QED
  BY <1>1, <1>2, PTL DEF Spec

\* The types, and that no row is of a later time than the clock's.
THEOREM TypeCorrect == Spec => []TypeOK
<1>1. IndInv => TypeOK
  BY DEF IndInv
<1> QED
  BY <1>1, Invariance, PTL

\* No note comes twice but one with a lost update, whatever the page size and
\* however many handlers write: the order of the query and save's version decide it.
THEOREM PagesDiffer == Spec => []NoRepeat
<1>1. IndInv => NoRepeat
  BY DEF IndInv
<1> QED
  BY <1>1, Invariance, PTL

\* A client that reached the last page has every note nobody wrote meanwhile.
THEOREM PagesCover == Spec => []UntouchedListed
<1>1. IndInv => UntouchedListed
  BY DEF IndInv
<1> QED
  BY <1>1, Invariance, PTL
-----------------------------------------------------------------------------
(* That the query has an answer, and that the pages come to an end           *)

\* A finite set with a strict order has an element that none precedes.
LEMMA Extreme ==
    ASSUME NEW T, IsFiniteSet(T), T # {}, NEW R,
           \A x \in T : <<x, x>> \notin R,
           \A x, y, z \in T : <<x, y>> \in R /\ <<y, z>> \in R => <<x, z>> \in R
    PROVE  \E x \in T : \A y \in T : <<y, x>> \notin R
<1> DEFINE B(x) == {y \in T : <<y, x>> \in R}
           C == {B(x) : x \in T}
           S == StrictSubsetOrdering(T)
<1>1. IsWellFoundedOn(S, SUBSET T)
  BY FS_StrictSubsetOrderingWellFounded, FS_FiniteSubsetsOfFinite
<1>2. C \subseteq SUBSET T /\ C # {}
  <2>1. PICK x \in T : TRUE
    OBVIOUS
  <2>2. B(x) \in C
    OBVIOUS
  <2>3. \A y \in T : B(y) \in SUBSET T
    OBVIOUS
  <2> HIDE DEF B
  <2> QED
    BY <2>2, <2>3
<1>3. PICK b \in C : \A c \in C : <<c, b>> \notin S
  <2> HIDE DEF C, S
  <2> QED
    BY <1>1, <1>2, WFMin
<1>4. PICK x \in T : b = B(x)
  BY <1>3
<1>5. ASSUME NEW y \in T, <<y, x>> \in R PROVE FALSE
  <2>1. B(y) \subseteq B(x) /\ y \in B(x) /\ y \notin B(y)
    BY <1>5
  <2>2. B(y) \in SUBSET T /\ B(x) \in SUBSET T /\ B(y) # B(x) /\ B(y) \in C
    BY <2>1
  <2>3. <<B(y), B(x)>> \in S
    <3> HIDE DEF B, C
    <3> QED
      BY <2>1, <2>2 DEF StrictSubsetOrdering
  <2> QED
    BY <1>3, <1>4, <2>2, <2>3
<1> QED
  BY <1>5

\* Two notes have two places, so one of them is older.
LEMMA KeysDiffer ==
    ASSUME TypeOK, NEW m \in Notes, NEW n \in Notes, m # n
    PROVE  Older(Key(m), Key(n)) \/ Older(Key(n), Key(m))
<1>1. /\ rows[m].time \in Nat /\ rows[n].time \in Nat
      /\ m \in Nat /\ n \in Nat
  BY RowFacts, NotesAssumption
<1> QED
  BY <1>1 DEF Older, Key

\* Some notes have a youngest and an oldest.
LEMMA Ends ==
    ASSUME TypeOK, NEW T \in SUBSET Notes, T # {}
    PROVE  /\ \E g \in T : \A n \in T \ {g} : Older(Key(n), Key(g))
           /\ \E last \in T : IsLast(last, T)
<1> DEFINE Down == {p \in Notes \X Notes : Older(Key(p[1]), Key(p[2]))}
           Up == {p \in Notes \X Notes : Older(Key(p[2]), Key(p[1]))}
<1>1. IsFiniteSet(T)
  BY NotesAssumption, FS_Subset
<1>2. \A x \in Notes : Key(x) \in Position
  BY KeyType
<1>3. \A x, y \in T : (<<x, y>> \in Down <=> Older(Key(x), Key(y)))
                      /\ (<<x, y>> \in Up <=> Older(Key(y), Key(x)))
  OBVIOUS
<1> HIDE DEF Down, Up
<1>4. \A x \in T : ~Older(Key(x), Key(x))
  BY <1>2, OlderIsOrder
<1>5. \A x, y, z \in T :
        Older(Key(x), Key(y)) /\ Older(Key(y), Key(z)) => Older(Key(x), Key(z))
  BY <1>2, OlderIsOrder
<1>6. \E g \in T : \A n \in T : <<n, g>> \notin Up
  <2>1. \A x \in T : <<x, x>> \notin Up
    BY <1>3, <1>4
  <2>2. \A x, y, z \in T : <<x, y>> \in Up /\ <<y, z>> \in Up => <<x, z>> \in Up
    BY <1>3, <1>5
  <2> QED
    BY <1>1, <2>1, <2>2, Extreme
<1>7. \E last \in T : \A n \in T : <<n, last>> \notin Down
  <2>1. \A x \in T : <<x, x>> \notin Down
    BY <1>3, <1>4
  <2>2. \A x, y, z \in T : <<x, y>> \in Down /\ <<y, z>> \in Down => <<x, z>> \in Down
    BY <1>3, <1>5
  <2> QED
    BY <1>1, <2>1, <2>2, Extreme
<1> QED
  BY <1>3, <1>6, <1>7, KeysDiffer DEF IsLast

\* What a page may not be without: what follows a note of it is on it or older.
IsTop(items) == \A i \in items, n \in Beyond \ items : Older(Key(n), Key(i))

\* The query has an answer: a largest top that does not exceed the limit.
LEMMA PageExists == ASSUME TypeOK PROVE \E items \in SUBSET Beyond : IsPage(items)
<1> DEFINE Tops == {S \in SUBSET Beyond : Cardinality(S) <= Limit /\ IsTop(S)}
           Rests == {Beyond \ S : S \in Tops}
           R == StrictSubsetOrdering(Beyond)
<1>1. IsFiniteSet(Beyond) /\ Beyond \subseteq Notes
  BY NotesAssumption, FS_Subset DEF Beyond, There
<1>2. Limit \in Nat /\ Limit > 0 /\ Cardinality(Beyond) \in Nat
  BY <1>1, LimitAssumption, FS_CardinalityType
<1>3. \A S \in SUBSET Beyond : /\ IsFiniteSet(S) /\ Cardinality(S) \in Nat
                               /\ Cardinality(S) <= Cardinality(Beyond)
  BY <1>1, FS_Subset, FS_CardinalityType
<1>4. IsWellFoundedOn(R, SUBSET Beyond)
  BY <1>1, FS_StrictSubsetOrderingWellFounded, FS_FiniteSubsetsOfFinite
<1>5. {} \in Tops
  BY <1>2, FS_EmptySet DEF IsTop
<1>6. PICK rest \in Rests : \A c \in Rests : <<c, rest>> \notin R
  <2>1. Rests \subseteq SUBSET Beyond /\ Rests # {}
    BY <1>5
  <2> HIDE DEF Rests, R
  <2> QED
    BY <1>4, <2>1, WFMin
<1>7. PICK S \in Tops : rest = Beyond \ S
  BY <1>6
<1>8. S \in SUBSET Beyond /\ Cardinality(S) <= Limit /\ IsTop(S)
  OBVIOUS
<1>9. Cardinality(S) = Limit \/ S = Beyond
  <2> SUFFICES ASSUME Cardinality(S) # Limit, S # Beyond PROVE FALSE
    OBVIOUS
  <2>1. rest # {} /\ rest \in SUBSET Notes
    BY <1>1, <1>7, <1>8
  <2>2. PICK g \in rest : \A n \in rest \ {g} : Older(Key(n), Key(g))
    BY <2>1, Ends
  <2>3. g \in Beyond /\ g \notin S
    BY <1>7, <2>2
  <2> DEFINE T == S \cup {g}
  <2>4. T \in SUBSET Beyond /\ Cardinality(T) = Cardinality(S) + 1
    BY <1>3, <1>8, <2>3, FS_AddElement
  <2>5. Cardinality(T) <= Limit
    BY <1>2, <1>3, <1>8, <2>4
  <2>6. IsTop(T)
    BY <1>7, <1>8, <2>2 DEF IsTop
  <2>7. T \in Tops
    BY <2>4, <2>5, <2>6
  <2>8. Beyond \ T \in Rests
    BY <2>7
  <2>9. <<Beyond \ T, rest>> \in R
    <3>1. Beyond \ T \subseteq rest /\ Beyond \ T # rest
      BY <1>7, <2>2
    <3>2. Beyond \ T \in SUBSET Beyond /\ rest \in SUBSET Beyond
      BY <1>7
    <3> QED
      BY <3>1, <3>2 DEF StrictSubsetOrdering
  <2> QED
    BY <1>6, <2>8, <2>9
<1>10. Cardinality(S) = IF Cardinality(Beyond) < Limit THEN Cardinality(Beyond) ELSE Limit
  BY <1>2, <1>3, <1>8, <1>9
<1> QED
  BY <1>8, <1>10 DEF IsPage, IsTop

\* Two answers to one query are the same: neither has a note the other lacks.
LEMMA PageUnique ==
    ASSUME TypeOK, NEW a, NEW b, IsPage(a), IsPage(b)
    PROVE  a = b
<1>1. IsFiniteSet(Beyond) /\ Beyond \subseteq Notes
  BY NotesAssumption, FS_Subset DEF Beyond, There
<1>2. /\ a \subseteq Beyond /\ b \subseteq Beyond
      /\ IsFiniteSet(a) /\ IsFiniteSet(b)
      /\ Cardinality(a) = Cardinality(b)
  BY <1>1, FS_Subset DEF IsPage
<1>3. a \subseteq b \/ b \subseteq a
  <2> SUFFICES ASSUME NEW m \in a \ b, NEW n \in b \ a PROVE FALSE
    OBVIOUS
  <2>1. Older(Key(n), Key(m)) /\ Older(Key(m), Key(n))
    BY <1>2 DEF IsPage
  <2>2. Key(m) \in Position /\ Key(n) \in Position
    BY <1>1, <1>2, KeyType
  <2> QED
    BY <2>1, <2>2, OlderIsOrder
<1> QED
  BY <1>2, <1>3, FS_Subset

\* The query has exactly one answer, and a page that is followed by another has
\* a last note, so that it has a cursor.
OnePage ==
    \E items \in SUBSET Beyond :
        /\ \A page \in SUBSET Beyond : IsPage(page) <=> page = items
        /\ More(items) => \E last \in items : IsLast(last, items)

\* The list of a client is answered in every state: no step of a writer leaves
\* the query without a page or a page without its cursor.
THEOREM EveryPageExists == Spec => []OnePage
<1>1. TypeOK => OnePage
  <2> SUFFICES ASSUME TypeOK PROVE OnePage
    OBVIOUS
  <2>1. PICK items \in SUBSET Beyond : IsPage(items)
    BY PageExists
  <2>2. \A page \in SUBSET Beyond : IsPage(page) <=> page = items
    BY <2>1, PageUnique
  <2>3. ASSUME More(items) PROVE \E last \in items : IsLast(last, items)
    <3>1. items # {}
      <4>1. Cardinality(Beyond) > Limit /\ Limit \in Nat /\ Limit > 0
        BY <2>3, LimitAssumption DEF More
      <4>2. Beyond \in SUBSET Notes
        BY DEF Beyond, There
      <4>3. Cardinality(Beyond) \in Nat
        BY <4>2, NotesAssumption, FS_Subset, FS_CardinalityType
      <4>4. Cardinality(items) # 0
        BY <2>1, <4>1, <4>3 DEF IsPage
      <4> QED
        BY <4>4, FS_EmptySet
    <3> QED
      BY <3>1, Ends DEF Beyond, There
  <2> QED
    BY <2>2, <2>3 DEF OnePage
<1> QED
  BY <1>1, TypeCorrect, PTL

\* A page that is asked for by a cursor is the last, or its own cursor is older:
\* a client comes nearer to the end with every page, also while notes are added.
CursorDescends ==
    [][\/ UNCHANGED client
       \/ at = "first"
       \/ at' = "done"
       \/ Older(cursor', cursor)]_vars

\* Every page takes the client further down.
THEOREM PagesDescend == Spec => CursorDescends
<1>1. [Next]_vars =>
        [\/ UNCHANGED client
         \/ at = "first"
         \/ at' = "done"
         \/ Older(cursor', cursor)]_vars
  <2> SUFFICES ASSUME Next
               PROVE  UNCHANGED client \/ at = "first" \/ at' = "done" \/ Older(cursor', cursor)
    OBVIOUS
  <2>1. CASE List
    <3> SUFFICES ASSUME at # "first", at' # "done" PROVE Older(cursor', cursor)
      OBVIOUS
    <3>1. at = "next"
      BY <2>1 DEF List
    <3>2. PICK items \in SUBSET Beyond : \E last \in items : cursor' = Key(last)
      BY <2>1 DEF List
    <3> QED
      BY <3>1, <3>2 DEF Beyond
  <2>2. CASE ~List
    BY <2>2 DEF Next, Create, Update, Begins, Write, Insert, Compare, Save, Delete, Tick
  <2> QED
    BY <2>1, <2>2
<1> QED
  BY <1>1, PTL DEF Spec, CursorDescends
=============================================================================
