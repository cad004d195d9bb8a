-------------------------- MODULE WebClientProofs ---------------------------
(* The types, the polling of the list and the sections of the page, for any  *)
(* number of notes, users and tasks that overlap.                            *)
(*                                                                           *)
(* A task that ends a render leaves a timer where it leaves a note in        *)
(* preparation; every other step either begins a render or keeps those that  *)
(* are under way.                                                            *)
EXTENDS WebClient, TLAPS

\* GET /auth/me is answered with a user, or fails.
UserAnswers == \A t \in Tasks :
    Arrived(t, "naming") => (Answer(t).ok <=> Answer(t).user # Nothing)

\* What the proofs use.
IndInv == TypeOK /\ PollAlive /\ ViewFollowsUser /\ UserAnswers

AnswerRecord == [ok : BOOLEAN, list : SUBSET Row, version : Nat,
                 user : Users \cup {Nothing}]

Places == {"free", "listing", "reading", "getting", "patching", "creating",
           "deleting", "retrying", "naming", "entering", "leaving"}

-----------------------------------------------------------------------------
(* Tasks and answers                                                         *)

\* The fields of a task.
LEMMA TaskFacts ==
    ASSUME TypeOK, NEW t \in Tasks
    PROVE  /\ tasks[t] \in TaskRecord
           /\ tasks[t].at \in Places /\ tasks[t].note \in Notes \cup {Nothing}
           /\ tasks[t].version \in Nat /\ tasks[t].answer \in AnswerRecord
           /\ tasks[t].answer.list \subseteq Row
           /\ tasks[t].answer.version \in Nat
           /\ tasks[t].answer.user \in Users \cup {Nothing}
           /\ tasks[t].answer.ok \in BOOLEAN
BY DEF TypeOK, TaskRecord, Places, AnswerRecord

\* A failure is an answer, and so is a success.
LEMMA Answers == Failure \in AnswerRecord /\ Success \in AnswerRecord
BY DEF Failure, Success, AnswerRecord

\* A task without a fetch.
LEMMA FreeTask == Free \in TaskRecord /\ Free.at = "free"
BY DEF Free, TaskRecord, NewForm, Form, Failure, AnswerRecord

\* A task that begins a fetch.
LEMMA FetchTask ==
    ASSUME NEW task \in TaskRecord, NEW at \in Places, NEW n \in Notes \cup {Nothing}
    PROVE  /\ Fetch(task, at, n) \in TaskRecord
           /\ Fetch(task, at, n).at = at /\ ~Fetch(task, at, n).served
<1>1. Fetch(task, at, n) =
        [task EXCEPT !.at = at, !.note = n, !.served = FALSE, !.answer = Failure]
  BY DEF Fetch
<1>2. Failure \in AnswerRecord
  BY Answers
<1>3. TaskRecord = [at : Places, from : {"listener", "bootstrap"}, note : Notes \cup {Nothing},
                    version : Nat, typed : Form, served : BOOLEAN, answer : AnswerRecord]
  BY DEF TaskRecord, Places, AnswerRecord
<1> QED
  BY <1>1, <1>2, <1>3

\* What the server lists are rows of notes that exist.
LEMMA ListedRows == ASSUME TypeOK PROVE Listed \subseteq Row
<1> SUFFICES ASSUME NEW n \in Notes, session # Nothing, notes[n].owner = session
             PROVE  notes[n].status \in {"pending", "ready", "failed"}
  BY DEF Listed, Row
<1> QED
  BY NothingAssumption DEF TypeOK, Unwritten, Erased

\* A note that is visible exists.
LEMMA VisibleNote ==
    ASSUME TypeOK, NEW n, Visible(n)
    PROVE  /\ n \in Notes
           /\ notes[n] \in [owner : Users, version : Nat \ {0},
                            status : {"pending", "ready", "failed"}]
BY NothingAssumption DEF Visible, TypeOK, Unwritten, Erased

-----------------------------------------------------------------------------
(* The slots of the tasks                                                    *)

SlotsInv == tasks \in [Tasks -> TaskRecord] /\ UserAnswers

\* A task that goes on to another fetch, or ends, waits for no user's name that
\* has arrived.
LEMMA BecomesKeeps ==
    ASSUME TypeOK, UserAnswers, NEW t \in Tasks, NEW task \in TaskRecord,
           task.at # "naming" \/ ~task.served, Becomes(t, task)
    PROVE  /\ SlotsInv'
           /\ tasks'[t] = task
           /\ \A s \in Tasks \ {t} : tasks'[s] = tasks[s]
BY DEF TypeOK, Becomes, SlotsInv, UserAnswers, Arrived, Answer

\* A task ends.
LEMMA EndKeeps ==
    ASSUME TypeOK, UserAnswers, NEW t \in Tasks, End(t)
    PROVE  /\ SlotsInv'
           /\ \A s \in Tasks \ {t} : tasks'[s] = tasks[s]
<1>1. Becomes(t, Free)
  BY DEF End
<1> QED
  BY <1>1, BecomesKeeps, FreeTask

\* A task begins another fetch.
LEMMA FetchKeeps ==
    ASSUME TypeOK, UserAnswers, NEW t \in Tasks, NEW task \in TaskRecord,
           NEW at \in Places, NEW n \in Notes \cup {Nothing},
           Becomes(t, Fetch(task, at, n))
    PROVE  /\ SlotsInv'
           /\ tasks'[t].at = at
           /\ \A s \in Tasks \ {t} : tasks'[s] = tasks[s]
<1>1. Fetch(task, at, n) \in TaskRecord /\ Fetch(task, at, n).at = at
      /\ ~Fetch(task, at, n).served
  BY FetchTask
<1>2. /\ SlotsInv' /\ tasks'[t] = Fetch(task, at, n)
      /\ \A s \in Tasks \ {t} : tasks'[s] = tasks[s]
  BY <1>1, BecomesKeeps
<1> QED
  BY <1>1, <1>2

\* A task begins a render: while it waits, the list is being polled.
LEMMA BeginKeeps ==
    ASSUME TypeOK, UserAnswers, NEW t \in Tasks, NEW task \in TaskRecord,
           BeginRender(t, task)
    PROVE  SlotsInv' /\ timer' = FALSE /\ PollAlive'
<1>1. Becomes(t, Fetch(task, "listing", Nothing)) /\ timer' = FALSE
  BY DEF BeginRender
<1>2. SlotsInv' /\ tasks'[t].at = "listing"
  BY <1>1, FetchKeeps DEF Places
<1> QED
  BY <1>1, <1>2 DEF PollAlive, Rendering

\* A task that does not render changes nothing about the polling.
LEMMA OthersPoll ==
    ASSUME PollAlive, NEW t \in Tasks, tasks[t].at \notin Rendering,
           \A s \in Tasks \ {t} : tasks'[s] = tasks[s],
           UNCHANGED <<rows, timer, strays, broken>>
    PROVE  PollAlive'
BY DEF PollAlive

\* A served fetch is still the same fetch.
LEMMA AnsweredKeeps ==
    ASSUME TypeOK, UserAnswers, PollAlive, NEW t \in Tasks, NEW answer \in AnswerRecord,
           tasks[t].at = "naming" => (answer.ok <=> answer.user # Nothing),
           Answered(t, answer), UNCHANGED <<rows, timer, strays, broken>>
    PROVE  SlotsInv' /\ PollAlive'
<1>1. /\ tasks[t] \in TaskRecord
      /\ tasks' = [tasks EXCEPT ![t] = [tasks[t] EXCEPT !.served = TRUE, !.answer = answer]]
  BY DEF Answered, TypeOK
<1> DEFINE task == [tasks[t] EXCEPT !.served = TRUE, !.answer = answer]
<1>2. task \in TaskRecord /\ task.at = tasks[t].at /\ task.answer = answer
  BY <1>1 DEF TaskRecord, AnswerRecord
<1> HIDE DEF task
<1>3. tasks \in [Tasks -> TaskRecord] /\ tasks' = [tasks EXCEPT ![t] = task]
  BY <1>1 DEF TypeOK, task
<1>4. /\ tasks' \in [Tasks -> TaskRecord] /\ tasks'[t] = task
      /\ \A s \in Tasks \ {t} : tasks'[s] = tasks[s]
  BY <1>2, <1>3
<1>5. \A s \in Tasks : tasks'[s].at = tasks[s].at
  BY <1>2, <1>4
<1>6. PollAlive'
  BY <1>5 DEF PollAlive
<1>7. UserAnswers'
  <2> SUFFICES ASSUME NEW s \in Tasks, Arrived(s, "naming")'
               PROVE  Answer(s).ok' <=> Answer(s).user' # Nothing
    BY DEF UserAnswers
  <2>1. CASE s = t
    BY <2>1, <1>2, <1>4 DEF Arrived, Answer
  <2>2. CASE s # t
    BY <2>2, <1>4 DEF Arrived, Answer, UserAnswers
  <2> QED
    BY <2>1, <2>2
<1> QED
  BY <1>4, <1>6, <1>7 DEF SlotsInv

-----------------------------------------------------------------------------
(* The server                                                                *)

NoteRecord == [owner : Users, version : Nat \ {0},
               status : {"pending", "ready", "failed"}]

TablesOK == /\ session \in Users \cup {Nothing}
            /\ notes \in [Notes -> {Unwritten, Erased} \cup NoteRecord]

\* What is left of a step that leaves the page alone.
LEMMA PageStays ==
    ASSUME IndInv, TablesOK', SlotsInv', PollAlive', UNCHANGED <<page, broken>>,
           changes' \in Nat, clicks' \in Nat
    PROVE  IndInv'
BY DEF IndInv, TypeOK, TablesOK, NoteRecord, SlotsInv, page, ViewFollowsUser

\* A note that is edited is still a note.
LEMMA EditedNote == ASSUME NEW note \in NoteRecord PROVE Edited(note) \in NoteRecord
<1> DEFINE v == note.version + 1
<1>1. v \in Nat \ {0}
  BY DEF NoteRecord
<1>2. Edited(note) = [note EXCEPT !.version = v, !.status = "pending"]
  BY DEF Edited
<1> HIDE DEF v
<1> QED
  BY <1>1, <1>2 DEF NoteRecord

\* The server answers one fetch, and writes what it is asked to write.
LEMMA ServeKeeps == ASSUME IndInv, NEW t \in Tasks, Serve(t) PROVE IndInv'
<1>1. TypeOK /\ PollAlive /\ UserAnswers /\ TablesOK
  BY DEF IndInv, TypeOK, TablesOK, NoteRecord
<1>2. UNCHANGED <<page, changes, clicks, broken>>
  BY DEF Serve
<1>3. UNCHANGED <<rows, timer, strays, broken>>
  BY <1>2 DEF page
<1>4. ASSUME NEW answer \in AnswerRecord, Answered(t, answer), TablesOK',
             tasks[t].at = "naming" => (answer.ok <=> answer.user # Nothing)
      PROVE  IndInv'
  <2>1. SlotsInv' /\ PollAlive'
    BY <1>1, <1>3, <1>4, AnsweredKeeps
  <2>2. changes' \in Nat /\ clicks' \in Nat
    BY <1>1, <1>2 DEF TypeOK
  <2> QED
    BY <1>2, <1>4, <2>1, <2>2, PageStays
<1>5. ASSUME UNCHANGED server PROVE TablesOK'
  BY <1>1, <1>5 DEF server, TablesOK
<1>6. CASE Refuse(t)
  <2>1. Failure.ok = FALSE /\ Failure.user = Nothing
    BY DEF Failure
  <2> QED
    BY <1>4, <1>5, <1>6, <2>1, Answers DEF Refuse
<1>7. ASSUME NEW n \in Notes, NEW note \in {Unwritten, Erased} \cup NoteRecord,
             Accept(t, n, note), tasks[t].at # "naming"
      PROVE  IndInv'
  <2>1. TablesOK'
    BY <1>1, <1>7 DEF Accept, TablesOK
  <2> QED
    BY <1>4, <1>7, <2>1, Answers DEF Accept
<1>8. ASSUME NEW ok \in BOOLEAN
      PROVE  LET a == [Failure EXCEPT !.ok = ok, !.list = Listed]
             IN  a \in AnswerRecord
  BY <1>1, ListedRows DEF Failure, AnswerRecord
<1>9. CASE ServeList(t)
  <2>1. [Failure EXCEPT !.ok = session # Nothing, !.list = Listed] \in AnswerRecord
    BY <1>8
  <2>2. tasks[t].at # "naming"
    BY <1>9 DEF ServeList, Waits
  <2> QED
    BY <1>4, <1>5, <1>9, <2>1, <2>2 DEF ServeList
<1>10. CASE ServeNote(t)
  <2>1. tasks[t].at # "naming"
    BY <1>10 DEF ServeNote, Waits
  <2>2. CASE Visible(tasks[t].note)
    <3>1. notes[tasks[t].note].version \in Nat
      BY <1>1, <2>2, VisibleNote
    <3>2. [Success EXCEPT !.version = notes[tasks[t].note].version] \in AnswerRecord
      BY <3>1, Answers DEF AnswerRecord
    <3> QED
      BY <1>4, <1>5, <1>10, <2>1, <2>2, <3>2 DEF ServeNote
  <2> QED
    BY <1>6, <1>10, <2>2 DEF ServeNote
<1>11. CASE ServePatch(t)
  <2>1. tasks[t].at # "naming"
    BY <1>11 DEF ServePatch, Waits
  <2>2. ASSUME Visible(tasks[t].note)
        PROVE  tasks[t].note \in Notes /\ Edited(notes[tasks[t].note]) \in NoteRecord
    BY <1>1, <2>2, VisibleNote, EditedNote DEF NoteRecord
  <2> QED
    BY <1>6, <1>7, <1>11, <2>1, <2>2 DEF ServePatch
<1>12. CASE ServePost(t)
  <2>1. tasks[t].at # "naming"
    BY <1>12 DEF ServePost, Waits
  <2>2. session # Nothing
           => [owner |-> session, version |-> 1, status |-> "pending"] \in NoteRecord
    BY <1>1 DEF TablesOK, NoteRecord
  <2> QED
    BY <1>6, <1>7, <1>12, <2>1, <2>2 DEF ServePost
<1>13. CASE ServeDelete(t)
  <2>1. tasks[t].at # "naming"
    BY <1>13 DEF ServeDelete, Waits
  <2> QED
    BY <1>1, <1>6, <1>7, <1>13, <2>1, VisibleNote DEF ServeDelete
<1>14. CASE ServeRetry(t)
  <2>1. tasks[t].at # "naming"
    BY <1>14 DEF ServeRetry, Waits
  <2>2. ASSUME Visible(tasks[t].note)
        PROVE  /\ tasks[t].note \in Notes
               /\ [notes[tasks[t].note] EXCEPT !.status = "pending"] \in NoteRecord
    BY <1>1, <2>2, VisibleNote DEF NoteRecord
  <2> QED
    BY <1>6, <1>7, <1>14, <2>1, <2>2 DEF ServeRetry
<1>15. CASE ServeMe(t)
  <2> DEFINE a == [Failure EXCEPT !.ok = session # Nothing, !.user = session]
  <2>1. a \in AnswerRecord /\ (a.ok <=> a.user # Nothing)
    BY <1>1 DEF Failure, AnswerRecord, TablesOK
  <2>2. Answered(t, a) /\ UNCHANGED server
    BY <1>15 DEF ServeMe
  <2> HIDE DEF a
  <2> QED
    BY <1>4, <1>5, <2>1, <2>2
<1>16. CASE ServeLogin(t)
  <2>1. tasks[t].at # "naming"
    BY <1>16 DEF ServeLogin, Waits
  <2>2. ASSUME NEW u \in Users, session' = u, UNCHANGED notes PROVE TablesOK'
    BY <1>1, <2>2 DEF TablesOK
  <2> QED
    BY <1>4, <1>6, <1>16, <2>1, <2>2, Answers DEF ServeLogin
<1>17. CASE ServeLogout(t)
  <2>1. tasks[t].at # "naming"
    BY <1>17 DEF ServeLogout, Waits
  <2>2. [Failure EXCEPT !.ok = session # Nothing] \in AnswerRecord
    BY Answers DEF AnswerRecord
  <2>3. TablesOK'
    BY <1>1, <1>17 DEF ServeLogout, TablesOK
  <2> QED
    BY <1>4, <1>17, <2>1, <2>2, <2>3 DEF ServeLogout
<1> QED
  BY <1>9, <1>10, <1>11, <1>12, <1>13, <1>14, <1>15, <1>16, <1>17 DEF Serve

\* Workers and other tabs change the tables alone.
LEMMA TablesKeep ==
    ASSUME IndInv, (\E n \in Notes : Index(n)) \/ OthersChange
    PROVE  IndInv'
<1>1. TypeOK /\ TablesOK /\ PollAlive /\ UserAnswers
  BY DEF IndInv, TypeOK, TablesOK, NoteRecord
<1>2. UNCHANGED <<page, tasks, clicks, broken>> /\ changes' \in Nat
  BY <1>1 DEF Index, OthersChange, TypeOK
<1>3. SlotsInv' /\ PollAlive'
  BY <1>1, <1>2 DEF SlotsInv, TypeOK, UserAnswers, Arrived, Answer, PollAlive, page
<1>4. TablesOK'
  <2>1. ASSUME NEW n \in Notes, Index(n) PROVE TablesOK'
    <3>1. notes[n] \in NoteRecord
      BY <1>1, <2>1 DEF Index, TablesOK, Unwritten, Erased
    <3>2. \A status \in {"ready", "failed"} :
             [notes[n] EXCEPT !.status = status] \in NoteRecord
      BY <3>1 DEF NoteRecord
    <3>3. PICK status \in {"ready", "failed"} :
             notes' = [notes EXCEPT ![n] = [notes[n] EXCEPT !.status = status]]
      BY <1>1, <2>1 DEF Index, TablesOK
    <3> QED
      BY <1>1, <2>1, <3>2, <3>3 DEF Index, TablesOK
  <2>2. ASSUME OthersChange PROVE TablesOK'
    <3>1. ASSUME NEW n \in Notes, Visible(n) PROVE Edited(notes[n]) \in NoteRecord
      BY <1>1, <3>1, VisibleNote, EditedNote DEF NoteRecord
    <3> QED
      BY <1>1, <2>2, <3>1 DEF OthersChange, TablesOK
  <2> QED
    BY <2>1, <2>2
<1>5. clicks' \in Nat
  BY <1>1, <1>2 DEF TypeOK
<1> QED
  BY <1>2, <1>3, <1>4, <1>5, PageStays

-----------------------------------------------------------------------------
(* The tasks resume                                                          *)

\* What is left of a step that leaves the server alone.
LEMMA ServerStays ==
    ASSUME IndInv, SlotsInv', PollAlive', ViewFollowsUser', UNCHANGED <<server, changes>>,
           clicks' \in Nat, user' \in Users \cup {Nothing}, items' \subseteq Row,
           rows' \subseteq Row, editing' \in Notes \cup {Nothing},
           timer' \in BOOLEAN, strays' \in Nat, view' \in {"auth", "notes", "chat"},
           form' \in Form \cup {Nothing}, broken' \in BOOLEAN
    PROVE  IndInv'
BY DEF IndInv, TypeOK, SlotsInv, server

\* A step of the tasks that leaves the page alone.
LEMMA TasksOnly ==
    ASSUME IndInv, SlotsInv', PollAlive', UNCHANGED <<server, page, changes, broken>>,
           clicks' \in Nat
    PROVE  IndInv'
BY ServerStays DEF IndInv, TypeOK, page, ViewFollowsUser

\* A render ends: it leaves a timer where it leaves a note in preparation.
LEMMA DisplayKeeps ==
    ASSUME IndInv, NEW t \in Tasks, NEW list \in SUBSET Row, NEW filled \in Form,
           Display(t, list, filled), UNCHANGED <<server, changes, clicks>>
    PROVE  IndInv'
<1>1. TypeOK /\ UserAnswers /\ ViewFollowsUser /\ End(t)
  BY DEF IndInv, Display
<1>2. SlotsInv'
  BY <1>1, EndKeeps
<1>3. timer' \in BOOLEAN /\ strays' \in Nat
  <2>1. timer \in BOOLEAN /\ strays \in Nat
    BY <1>1 DEF TypeOK
  <2>2. SetTimer(list)
    BY DEF Display
  <2>3. (timer' = TRUE \/ timer' = timer) /\ strays' \in {strays, strays + 1}
    BY <2>2 DEF SetTimer
  <2>4. strays + 1 \in Nat
    BY <2>1
  <2> QED
    BY <2>1, <2>3, <2>4
<1>4. PollAlive'
  BY DEF Display, SetTimer, PollAlive
<1> QED
  BY <1>1, <1>2, <1>3, <1>4, ServerStays DEF Display, TypeOK, ViewFollowsUser

\* A render fails: whoever called bootstrap is shown the form of the login.
LEMMA FailKeeps ==
    ASSUME IndInv, NEW t \in Tasks, RenderFails(t), UNCHANGED <<server, changes, clicks>>
    PROVE  IndInv'
<1>1. TypeOK /\ UserAnswers /\ ViewFollowsUser /\ End(t)
  BY DEF IndInv, RenderFails
<1>2. SlotsInv'
  BY <1>1, EndKeeps
<1>3. PollAlive'
  BY DEF RenderFails, PollAlive
<1>4. ViewFollowsUser' /\ user' \in Users \cup {Nothing}
      /\ view' \in {"auth", "notes", "chat"}
  BY <1>1 DEF RenderFails, ViewFollowsUser, TypeOK
<1> QED
  BY <1>1, <1>2, <1>3, <1>4, ServerStays DEF RenderFails, TypeOK

\* renderNotes goes on after its first fetch.
LEMMA ListKeeps ==
    ASSUME IndInv, NEW t \in Tasks, ListArrives(t), UNCHANGED <<server, changes, clicks>>
    PROVE  IndInv'
<1>1. /\ TypeOK /\ UserAnswers /\ ViewFollowsUser
      /\ tasks[t] \in TaskRecord /\ Answer(t).list \subseteq Row
  BY TaskFacts DEF IndInv, Answer
<1>2. CASE Display(t, Answer(t).list, NewForm)
  <2>1. NewForm \in Form
    BY DEF NewForm, Form
  <2> QED
    BY <1>1, <1>2, <2>1, DisplayKeeps
<1>3. CASE /\ items' = Answer(t).list
           /\ Becomes(t, Fetch(tasks[t], "reading", editing))
           /\ UNCHANGED <<user, editing, timer, strays, view, rows, form, broken>>
  <2>1. SlotsInv' /\ tasks'[t].at = "reading"
    BY <1>1, <1>3, FetchKeeps DEF Places, TypeOK
  <2>2. PollAlive'
    BY <2>1 DEF PollAlive, Rendering
  <2> QED
    BY <1>1, <1>3, <2>1, <2>2, ServerStays DEF TypeOK, ViewFollowsUser
<1>4. CASE RenderFails(t)
  BY <1>4, FailKeeps
<1> QED
  BY <1>2, <1>3, <1>4 DEF ListArrives

\* renderNotes goes on after its second fetch.
LEMMA NoteKeeps ==
    ASSUME IndInv, NEW t \in Tasks, NoteArrives(t), UNCHANGED <<server, changes, clicks>>
    PROVE  IndInv'
<1>1. /\ TypeOK /\ tasks[t].note \in Notes \cup {Nothing}
      /\ Answer(t).version \in Nat /\ items \subseteq Row
  BY TaskFacts DEF IndInv, Answer, TypeOK
<1>2. [note |-> tasks[t].note, version |-> Answer(t).version] \in Form
  BY <1>1 DEF Form
<1> QED
  BY <1>1, <1>2, DisplayKeeps, FailKeeps DEF NoteArrives

\* A task that was at a fetch other than a render's ends, or goes on to another.
LEMMA ElseKeeps ==
    ASSUME IndInv, NEW t \in Tasks, tasks[t].at \notin Rendering, SlotsInv',
           \A s \in Tasks \ {t} : tasks'[s] = tasks[s],
           UNCHANGED <<server, page, changes, clicks, broken>>
    PROVE  IndInv'
<1>1. PollAlive'
  BY OthersPoll DEF IndInv, page
<1> QED
  BY <1>1, TasksOnly DEF IndInv, TypeOK

\* saveNote sends what was typed, with the version that was just read.
LEMMA VersionKeeps ==
    ASSUME IndInv, NEW t \in Tasks, VersionArrives(t), UNCHANGED <<server, changes, clicks>>
    PROVE  IndInv'
<1>1. /\ TypeOK /\ UserAnswers /\ tasks[t] \in TaskRecord /\ Answer(t).version \in Nat
      /\ tasks[t].at \notin Rendering
  BY TaskFacts DEF IndInv, Answer, VersionArrives, Arrived, Rendering
<1>2. CASE Answer(t).ok
  <2> DEFINE fetch == Fetch(tasks[t], "patching", editing)
             task  == [fetch EXCEPT !.version = Answer(t).version]
  <2>1. fetch \in TaskRecord /\ fetch.at = "patching"
    BY <1>1, FetchTask DEF Places, TypeOK
  <2> HIDE DEF fetch
  <2>2. task \in TaskRecord /\ task.at = "patching"
    BY <1>1, <2>1 DEF TaskRecord
  <2>3. Becomes(t, task)
    BY <1>2 DEF VersionArrives, fetch
  <2> HIDE DEF task
  <2>4. SlotsInv' /\ \A s \in Tasks \ {t} : tasks'[s] = tasks[s]
    BY <1>1, <2>2, <2>3, BecomesKeeps
  <2> QED
    BY <1>1, <2>4, ElseKeeps DEF VersionArrives
<1>3. CASE End(t)
  BY <1>1, <1>3, EndKeeps, ElseKeeps DEF VersionArrives
<1> QED
  BY <1>2, <1>3 DEF VersionArrives

\* A listener begins a render, or ends with an error that it shows.
LEMMA RendersOrEnds ==
    ASSUME IndInv, NEW t \in Tasks, tasks[t].at \notin Rendering,
           \/ BeginRender(t, tasks[t])
           \/ End(t) /\ timer' = timer,
           UNCHANGED <<server, changes, clicks, items, strays, rows, form, broken>>,
           editing' \in Notes \cup {Nothing}, ViewFollowsUser',
           user' \in Users \cup {Nothing}, view' \in {"auth", "notes", "chat"}
    PROVE  IndInv'
<1>1. TypeOK /\ UserAnswers /\ PollAlive /\ tasks[t] \in TaskRecord
  BY TaskFacts DEF IndInv
<1>2. SlotsInv' /\ PollAlive' /\ timer' \in BOOLEAN
  <2>1. CASE BeginRender(t, tasks[t])
    BY <1>1, <2>1, BeginKeeps
  <2>2. CASE End(t) /\ timer' = timer
    BY <1>1, <2>2, EndKeeps, OthersPoll DEF TypeOK
  <2> QED
    BY <2>1, <2>2
<1> QED
  BY <1>1, <1>2, ServerStays DEF TypeOK

\* Saving, deleting and retrying end with a render.
LEMMA SavedKeeps ==
    ASSUME IndInv, NEW t \in Tasks, SavedArrives(t) \/ RetriedArrives(t),
           UNCHANGED <<server, changes, clicks>>
    PROVE  IndInv'
<1>1. /\ TypeOK /\ ViewFollowsUser /\ tasks[t].at \notin Rendering
      /\ editing' \in Notes \cup {Nothing}
  BY DEF IndInv, TypeOK, SavedArrives, RetriedArrives, Arrived, Rendering
<1> QED
  BY <1>1, RendersOrEnds DEF SavedArrives, RetriedArrives, TypeOK, ViewFollowsUser

\* Login and logout end with bootstrap, which asks for the user's name.
LEMMA EnterKeeps ==
    ASSUME IndInv, NEW t \in Tasks, LoginArrives(t) \/ LogoutArrives(t),
           UNCHANGED <<server, changes, clicks>>
    PROVE  IndInv'
<1>1. TypeOK /\ UserAnswers /\ tasks[t].at \notin Rendering
  BY DEF IndInv, LoginArrives, LogoutArrives, Arrived, Rendering
<1>2. [Free EXCEPT !.from = "bootstrap"] \in TaskRecord
  BY FreeTask DEF TaskRecord
<1>3. SlotsInv' /\ \A s \in Tasks \ {t} : tasks'[s] = tasks[s]
  <2>1. CASE End(t)
    BY <1>1, <2>1, EndKeeps
  <2>2. CASE Becomes(t, Bootstrap)
    BY <1>1, <1>2, <2>2, FetchKeeps DEF Bootstrap, Places
  <2> QED
    BY <2>1, <2>2 DEF LoginArrives, LogoutArrives
<1> QED
  BY <1>1, <1>3, ElseKeeps DEF LoginArrives, LogoutArrives

\* bootstrap shows the notes to a user, and the form of the login to nobody.
LEMMA UserKeeps ==
    ASSUME IndInv, NEW t \in Tasks, UserArrives(t), UNCHANGED <<server, changes, clicks>>
    PROVE  IndInv'
<1>1. /\ TypeOK /\ tasks[t].at \notin Rendering
      /\ Answer(t).user \in Users \cup {Nothing}
      /\ Answer(t).ok <=> Answer(t).user # Nothing
  BY TaskFacts DEF IndInv, UserAnswers, Answer, UserArrives, Arrived, Rendering
<1>2. ViewFollowsUser' /\ view' \in {"auth", "notes", "chat"}
  BY <1>1 DEF UserArrives, ViewFollowsUser
<1> QED
  BY <1>1, <1>2, RendersOrEnds DEF UserArrives, TypeOK

\* A task goes on with the answer it was given.
LEMMA ResumeKeeps == ASSUME IndInv, NEW t \in Tasks, Resume(t) PROVE IndInv'
BY ListKeeps, NoteKeeps, VersionKeeps, SavedKeeps, EnterKeeps, UserKeeps DEF Resume

-----------------------------------------------------------------------------
(* Timers and clicks                                                         *)

\* A timer begins a render, which leaves the older timers alone but itself.
LEMMA FireKeeps == ASSUME IndInv, NEW t \in Tasks, Fire(t) PROVE IndInv'
<1>1. TypeOK /\ UserAnswers /\ ViewFollowsUser
  BY DEF IndInv
<1>2. SlotsInv' /\ timer' = FALSE /\ PollAlive'
  BY <1>1, FreeTask, BeginKeeps DEF Fire, TimerFires, StrayFires
<1>3. strays' \in Nat
  BY <1>1 DEF Fire, TimerFires, StrayFires, TypeOK
<1> QED
  BY <1>1, <1>2, <1>3, ServerStays DEF Fire, TimerFires, StrayFires, TypeOK,
       ViewFollowsUser

\* A click on a title or a link changes what is edited and begins a render.
LEMMA OpenKeeps ==
    ASSUME IndInv, NEW t \in Tasks, NEW n \in Notes \cup {Nothing}, OpenNote(t, n),
           UNCHANGED <<server, changes, broken>>, clicks' \in Nat
    PROVE  IndInv'
<1>1. TypeOK /\ UserAnswers /\ ViewFollowsUser
  BY DEF IndInv
<1>2. SlotsInv' /\ timer' = FALSE /\ PollAlive'
  BY <1>1, FreeTask, BeginKeeps DEF OpenNote
<1>3. ViewFollowsUser'
  BY <1>1 DEF OpenNote, ViewFollowsUser
<1> QED
  BY <1>1, <1>2, <1>3, ServerStays DEF OpenNote, TypeOK

\* The other buttons start a task that begins with its own fetch.
LEMMA SendKeeps ==
    ASSUME IndInv, NEW t \in Tasks, tasks[t] = Free, NEW task \in TaskRecord,
           NEW at \in Places, NEW n \in Notes \cup {Nothing},
           Sends(t, Fetch(task, at, n)),
           UNCHANGED <<server, changes, broken>>, clicks' \in Nat
    PROVE  IndInv'
<1>1. TypeOK /\ UserAnswers /\ PollAlive /\ tasks[t].at \notin Rendering
  BY FreeTask DEF IndInv, Rendering
<1>2. SlotsInv' /\ \A s \in Tasks \ {t} : tasks'[s] = tasks[s]
  BY <1>1, FetchKeeps DEF Sends
<1>3. PollAlive'
  BY <1>1, <1>2, OthersPoll DEF Sends, page
<1> QED
  BY <1>2, <1>3, TasksOnly DEF Sends

\* The user starts a task.
LEMMA ClickKeeps == ASSUME IndInv, NEW t \in Tasks, Click(t) PROVE IndInv'
<1>1. /\ TypeOK /\ tasks[t] = Free /\ clicks' \in Nat
      /\ UNCHANGED <<server, changes, broken>>
  BY DEF IndInv, Click, TypeOK
<1>2. \A row \in rows : row.note \in Notes
  BY <1>1 DEF TypeOK, Row
<1>3. ASSUME Save(t) PROVE IndInv'
  <2> DEFINE task == [Free EXCEPT !.typed = form]
  <2>1. task \in TaskRecord
    BY <1>1, <1>3, FreeTask DEF Save, TypeOK, TaskRecord
  <2>2. CASE Sends(t, Fetch(task, "getting", editing))
    BY <1>1, <2>1, <2>2, SendKeeps DEF TypeOK, Places
  <2>3. CASE Sends(t, Fetch(task, "creating", Nothing))
    BY <1>1, <2>1, <2>3, SendKeeps DEF Places
  <2> QED
    BY <1>3, <2>2, <2>3 DEF Save
<1>4. ASSUME NEW row \in rows, Delete(t, row) \/ Retry(t, row) PROVE IndInv'
  BY <1>1, <1>2, <1>4, SendKeeps, FreeTask DEF Delete, Retry, Places
<1>5. ASSUME Login(t) \/ Logout(t) PROVE IndInv'
  BY <1>1, <1>5, SendKeeps, FreeTask DEF Login, Logout, Places
<1>6. ASSUME NEW n \in Notes \cup {Nothing}, OpenNote(t, n) PROVE IndInv'
  BY <1>1, <1>6, OpenKeeps
<1> QED
  BY <1>3, <1>4, <1>5, <1>6 DEF Click

\* Only a user is shown another section.
LEMMA ShowKeeps == ASSUME IndInv, ShowView PROVE IndInv'
<1>1. TypeOK /\ UserAnswers /\ PollAlive /\ ViewFollowsUser
  BY DEF IndInv
<1>2. SlotsInv' /\ PollAlive'
  BY <1>1 DEF ShowView, SlotsInv, TypeOK, UserAnswers, Arrived, Answer, PollAlive
<1>3. ViewFollowsUser' /\ view' \in {"auth", "notes", "chat"}
  BY <1>1 DEF ShowView, ViewFollowsUser
<1> QED
  BY <1>1, <1>2, <1>3, ServerStays DEF ShowView, TypeOK

-----------------------------------------------------------------------------
(* The theorems                                                              *)

\* The page is loaded: bootstrap asks who its user is.
LEMMA Initially == ASSUME Init PROVE IndInv
<1>1. [Free EXCEPT !.from = "bootstrap"] \in TaskRecord
  BY FreeTask DEF TaskRecord
<1>2. Bootstrap \in TaskRecord /\ ~Bootstrap.served
  BY <1>1, FetchTask DEF Bootstrap, Places
<1>3. tasks \in [Tasks -> TaskRecord] /\ UserAnswers
  BY <1>2, FreeTask DEF Init, UserAnswers, Arrived
<1>4. notes \in [Notes -> {Unwritten, Erased} \cup NoteRecord]
  BY DEF Init, NoteRecord
<1> QED
  BY <1>3, <1>4 DEF Init, IndInv, TypeOK, NoteRecord, PollAlive, ViewFollowsUser

\* The invariant holds in every state, however many tasks overlap.
THEOREM Invariance == Spec => []IndInv
<1>1. IndInv /\ Next => IndInv'
  BY ServeKeeps, ResumeKeeps, FireKeeps, ClickKeeps, TablesKeep, ShowKeeps DEF Next
<1>2. IndInv /\ UNCHANGED vars => IndInv'
  BY DEF IndInv, TypeOK, PollAlive, ViewFollowsUser, UserAnswers, Arrived, Answer,
         vars, server, page
<1> QED
  BY Initially, <1>1, <1>2, PTL DEF Spec

\* The state of the page, its tasks and the tables keep their types.
THEOREM TypeCorrect == Spec => []TypeOK
<1>1. IndInv => TypeOK
  BY DEF IndInv
<1> QED
  BY <1>1, Invariance, PTL

\* A list that shows a note in preparation is polled, whatever timers, clicks and
\* renders overlapped.
THEOREM ListIsPolled == Spec => []PollAlive
<1>1. IndInv => PollAlive
  BY DEF IndInv
<1> QED
  BY <1>1, Invariance, PTL

\* The sections of a user are shown to a user the page knows, and to no other.
THEOREM ViewIsOfUser == Spec => []ViewFollowsUser
<1>1. IndInv => ViewFollowsUser
  BY DEF IndInv
<1> QED
  BY <1>1, Invariance, PTL

-----------------------------------------------------------------------------
(* Saves of a page that is alone                                             *)
(*                                                                           *)
(* Save may replace what its form never showed (SaveReplacesWhatWasShown     *)
(* fails).  These are the only two ways to it: somebody else writes the      *)
(* note, or tasks of the page overlap.                                       *)

\* Nobody else has written, and the page runs one task at a time.
Alone == /\ changes = 0
         /\ \A s, t \in Tasks : tasks[s].at # "free" /\ tasks[t].at # "free" => s = t

Entering == {"naming", "entering", "leaving"}

\* The task wrote a note, and does not know yet.
Wrote(t) == /\ tasks[t].at \in {"patching", "creating", "deleting"}
            /\ tasks[t].served /\ Answer(t).ok

\* The form shows what is edited as it is.
FormShows == (user # Nothing /\ editing # Nothing /\ Visible(editing))
                => form = [note |-> editing, version |-> notes[editing].version]

\* What holds around the only task that runs.  A render that fails leaves the
\* form as it was, but only a note that is not visible can make it fail.
Sole(t) ==
    /\ tasks[t].at \notin Entering => user \in {Nothing, session}
    /\ tasks[t].at = "entering" => user = Nothing
    /\ Arrived(t, "naming") => Answer(t).user = session
    /\ tasks[t].at \in Entering \cup Rendering \/ Wrote(t) \/ FormShows
    /\ tasks[t].at \in {"getting", "patching"}
          => /\ user # Nothing /\ editing # Nothing
             /\ tasks[t].note = editing /\ tasks[t].typed = form
    /\ tasks[t].at = "reading" => tasks[t].note = editing
    /\ Arrived(t, "reading")
          => IF Answer(t).ok
             THEN Visible(editing) /\ Answer(t).version = notes[editing].version
             ELSE ~Visible(editing)
    /\ (Arrived(t, "listing") /\ ~Answer(t).ok) => session = Nothing

OnlyTask(t) == \A s \in Tasks \ {t} : tasks[s].at = "free"

SoleInv == \A t \in Tasks : OnlyTask(t) => Sole(t)

\* The served fetch, field by field.
LEMMA AnsweredFields ==
    ASSUME TypeOK, NEW t \in Tasks, NEW answer \in AnswerRecord, Answered(t, answer)
    PROVE  /\ tasks'[t].at = tasks[t].at /\ tasks'[t].note = tasks[t].note
           /\ tasks'[t].typed = tasks[t].typed
           /\ tasks'[t].served /\ tasks'[t].answer = answer
           /\ \A s \in Tasks \ {t} : tasks'[s] = tasks[s]
<1>1. /\ tasks[t] \in TaskRecord /\ tasks \in [Tasks -> TaskRecord]
      /\ tasks' = [tasks EXCEPT ![t] = [tasks[t] EXCEPT !.served = TRUE, !.answer = answer]]
  BY DEF Answered, TypeOK
<1> DEFINE task == [tasks[t] EXCEPT !.served = TRUE, !.answer = answer]
<1>2. /\ task.at = tasks[t].at /\ task.note = tasks[t].note
      /\ task.typed = tasks[t].typed /\ task.served /\ task.answer = answer
  BY <1>1 DEF TaskRecord
<1>3. tasks'[t] = task /\ \A s \in Tasks \ {t} : tasks'[s] = tasks[s]
  BY <1>1
<1> HIDE DEF task
<1> QED
  BY <1>2, <1>3

\* An answer that writes nothing: what the task finds when it goes on.
LEMMA ReadSole ==
    ASSUME IndInv, NEW t \in Tasks, Sole(t), ~tasks[t].served,
           NEW answer \in AnswerRecord, Answered(t, answer), UNCHANGED <<server, page>>,
           tasks[t].at = "naming" => answer.user = session,
           tasks[t].at = "reading"
              => IF answer.ok
                 THEN Visible(tasks[t].note) /\ answer.version = notes[tasks[t].note].version
                 ELSE ~Visible(tasks[t].note),
           (tasks[t].at = "listing" /\ ~answer.ok) => session = Nothing
    PROVE  Sole(t)'
<1>1. /\ tasks'[t].at = tasks[t].at /\ tasks'[t].note = tasks[t].note
      /\ tasks'[t].typed = tasks[t].typed
      /\ tasks'[t].served /\ tasks'[t].answer = answer
  BY AnsweredFields DEF IndInv
<1>2. /\ session' = session /\ notes' = notes /\ user' = user
      /\ editing' = editing /\ form' = form
  BY DEF server, page
<1>3. FormShows => FormShows'
  BY <1>2 DEF FormShows, Visible
<1>4. ~Wrote(t)
  BY DEF Wrote
<1> QED
  BY <1>1, <1>2, <1>3, <1>4 DEF Sole, Arrived, Answer, Visible

\* An answer of no note, to a fetch that is refused or writes a note.
LEMMA WriteSole ==
    ASSUME IndInv, NEW t \in Tasks, Sole(t), ~tasks[t].served,
           tasks[t].at \in {"patching", "creating", "deleting", "retrying"},
           NEW answer \in AnswerRecord, Answered(t, answer), UNCHANGED <<session, page>>,
           \/ tasks[t].at # "retrying" /\ answer.ok
           \/ \A n \in Notes : /\ notes'[n].owner = notes[n].owner
                               /\ notes'[n].version = notes[n].version
    PROVE  Sole(t)'
<1>1. /\ tasks'[t].at = tasks[t].at /\ tasks'[t].note = tasks[t].note
      /\ tasks'[t].typed = tasks[t].typed
      /\ tasks'[t].served /\ tasks'[t].answer = answer
  BY AnsweredFields DEF IndInv
<1>2. /\ session' = session /\ user' = user /\ editing' = editing /\ form' = form
  BY DEF page
<1>3. Wrote(t)' \/ FormShows'
  <2>1. CASE tasks[t].at # "retrying" /\ answer.ok
    BY <1>1, <2>1 DEF Wrote, Answer
  <2>2. CASE \A n \in Notes : /\ notes'[n].owner = notes[n].owner
                              /\ notes'[n].version = notes[n].version
    <3>1. FormShows
      BY DEF Sole, Entering, Rendering, Wrote
    <3> QED
      BY <1>2, <2>2, <3>1 DEF FormShows, Visible
  <2> QED
    BY <2>1, <2>2
<1> QED
  BY <1>1, <1>2, <1>3 DEF Sole, Arrived, Entering

\* The server answers the only task.
LEMMA ServeSole ==
    ASSUME IndInv, NEW t \in Tasks, Sole(t), Serve(t) PROVE Sole(t)'
<1>1. TypeOK /\ UNCHANGED page
  BY DEF IndInv, Serve
<1>2. CASE ServeList(t)
  <2>1. [Failure EXCEPT !.ok = session # Nothing, !.list = Listed] \in AnswerRecord
    BY <1>1, ListedRows DEF Failure, AnswerRecord
  <2>2. [Failure EXCEPT !.ok = session # Nothing, !.list = Listed].ok = (session # Nothing)
    BY DEF Failure
  <2> QED
    BY <1>1, <1>2, <2>1, <2>2, ReadSole DEF ServeList, Waits
<1>3. CASE ServeNote(t)
  <2>1. tasks[t].at \notin {"naming", "listing"} /\ ~tasks[t].served
    BY <1>3 DEF ServeNote, Waits
  <2>2. CASE Visible(tasks[t].note)
    <3> DEFINE a == [Success EXCEPT !.version = notes[tasks[t].note].version]
    <3>1. notes[tasks[t].note].version \in Nat
      BY <1>1, <2>2, VisibleNote
    <3>2. a \in AnswerRecord /\ a.ok /\ a.version = notes[tasks[t].note].version
      BY <3>1, Answers DEF AnswerRecord, Success, Failure
    <3>3. Answered(t, a) /\ UNCHANGED server
      BY <1>3, <2>2 DEF ServeNote
    <3> HIDE DEF a
    <3> QED
      BY <1>1, <2>1, <2>2, <3>2, <3>3, ReadSole
  <2>3. CASE ~Visible(tasks[t].note)
    <3>1. Answered(t, Failure) /\ UNCHANGED server /\ ~Failure.ok
      BY <1>3, <2>3 DEF ServeNote, Refuse, Failure
    <3> QED
      BY <1>1, <2>1, <2>3, <3>1, Answers, ReadSole
  <2> QED
    BY <2>2, <2>3
<1>4. ASSUME Refuse(t), ~tasks[t].served,
             tasks[t].at \in {"patching", "creating", "deleting", "retrying"}
      PROVE  Sole(t)'
  <2>1. UNCHANGED <<session, notes>>
    BY <1>4 DEF Refuse, server
  <2> QED
    BY <1>1, <1>4, <2>1, Answers, WriteSole DEF Refuse
<1>5. ASSUME NEW n, NEW note, Accept(t, n, note), ~tasks[t].served,
             tasks[t].at \in {"patching", "creating", "deleting"}
      PROVE  Sole(t)'
  <2>1. Success.ok
    BY DEF Success, Failure
  <2> QED
    BY <1>1, <1>5, <2>1, Answers, WriteSole DEF Accept
<1>6. CASE ServePatch(t)
  BY <1>4, <1>5, <1>6 DEF ServePatch, Waits
<1>7. CASE ServePost(t)
  BY <1>4, <1>5, <1>7 DEF ServePost, Waits
<1>8. CASE ServeDelete(t)
  BY <1>4, <1>5, <1>8 DEF ServeDelete, Waits
<1>9. CASE ServeRetry(t)
  <2> DEFINE n == tasks[t].note
  <2>1. tasks[t].at = "retrying" /\ ~tasks[t].served
    BY <1>9 DEF ServeRetry, Waits
  <2>2. CASE Refuse(t)
    BY <1>4, <2>1, <2>2
  <2>3. CASE Visible(n) /\ Accept(t, n, [notes[n] EXCEPT !.status = "pending"])
    <3>1. n \in Notes /\ notes[n] \in NoteRecord
      BY <1>1, <2>3, VisibleNote DEF NoteRecord
    <3>2. \A m \in Notes : /\ notes'[m].owner = notes[m].owner
                           /\ notes'[m].version = notes[m].version
      <4>1. LET note == [notes[n] EXCEPT !.status = "pending"]
            IN  note.owner = notes[n].owner /\ note.version = notes[n].version
        BY <3>1 DEF NoteRecord
      <4>2. notes' = [notes EXCEPT ![n] = [notes[n] EXCEPT !.status = "pending"]]
        BY <2>3 DEF Accept
      <4>3. notes \in [Notes -> {Unwritten, Erased} \cup NoteRecord]
        BY <1>1 DEF TypeOK, NoteRecord
      <4> QED
        BY <4>1, <4>2, <4>3
    <3> QED
      BY <1>1, <2>1, <2>3, <3>2, Answers, WriteSole DEF Accept
  <2> QED
    BY <1>9, <2>2, <2>3 DEF ServeRetry
<1>10. CASE ServeMe(t)
  <2> DEFINE a == [Failure EXCEPT !.ok = session # Nothing, !.user = session]
  <2>1. a \in AnswerRecord /\ a.user = session
    BY <1>1 DEF Failure, AnswerRecord, TypeOK
  <2>2. Answered(t, a) /\ UNCHANGED server /\ tasks[t].at = "naming" /\ ~tasks[t].served
    BY <1>10 DEF ServeMe, Waits
  <2> HIDE DEF a
  <2> QED
    BY <1>1, <2>1, <2>2, ReadSole
<1>11. CASE ServeLogin(t) \/ ServeLogout(t)
  <2>1. PICK answer \in AnswerRecord : Answered(t, answer)
    <3>1. [Failure EXCEPT !.ok = session # Nothing] \in AnswerRecord
      BY Answers DEF AnswerRecord
    <3> QED
      BY <1>11, <3>1, Answers DEF ServeLogin, ServeLogout, Refuse
  <2>2. tasks[t].at \in {"entering", "leaving"}
    BY <1>11 DEF ServeLogin, ServeLogout, Waits
  <2>3. tasks'[t].at = tasks[t].at
    BY <1>1, <2>1, AnsweredFields
  <2>4. user' = user
    BY <1>1 DEF page
  <2> QED
    BY <2>2, <2>3, <2>4 DEF Sole, Entering, Rendering, Arrived
<1> QED
  BY <1>2, <1>3, <1>6, <1>7, <1>8, <1>9, <1>10, <1>11 DEF Serve

\* A fetch, field by field.
LEMMA FetchFields ==
    ASSUME NEW task \in TaskRecord, NEW at \in Places, NEW n \in Notes \cup {Nothing}
    PROVE  /\ Fetch(task, at, n).at = at /\ Fetch(task, at, n).note = n
           /\ Fetch(task, at, n).typed = task.typed /\ ~Fetch(task, at, n).served
BY Answers DEF Fetch, TaskRecord

\* The fetch that a task begins, field by field.
LEMMA BegunFields ==
    ASSUME TypeOK, NEW t \in Tasks, NEW task \in TaskRecord, NEW at \in Places,
           NEW n \in Notes \cup {Nothing}, Becomes(t, Fetch(task, at, n))
    PROVE  /\ tasks'[t].at = at /\ tasks'[t].note = n
           /\ tasks'[t].typed = task.typed /\ ~tasks'[t].served
<1>1. tasks'[t] = Fetch(task, at, n)
  BY DEF Becomes, TypeOK
<1> QED
  BY <1>1, FetchFields

\* A task ends, and leaves the form as it should be.
LEMMA EndSole ==
    ASSUME IndInv, NEW t \in Tasks, End(t), user' \in {Nothing, session'}, FormShows'
    PROVE  Sole(t)'
<1>1. tasks'[t] = Free
  BY DEF IndInv, TypeOK, End, Becomes
<1>2. tasks'[t].at = "free"
  BY <1>1, FreeTask
<1> QED
  BY <1>2 DEF Sole, Arrived

\* A task begins a render, which will fill the form.
LEMMA BeginSole ==
    ASSUME IndInv, NEW t \in Tasks, NEW task \in TaskRecord, BeginRender(t, task),
           user' \in {Nothing, session'}
    PROVE  Sole(t)'
<1>1. tasks'[t].at = "listing" /\ ~tasks'[t].served
  BY BegunFields DEF IndInv, BeginRender, Places
<1> QED
  BY <1>1 DEF Sole, Arrived, Rendering

\* A render ends, well or not.
LEMMA RenderSole ==
    ASSUME IndInv, NEW t \in Tasks, Sole(t), ListArrives(t) \/ NoteArrives(t),
           UNCHANGED server
    PROVE  Sole(t)'
<1>1. /\ TypeOK /\ session' = session /\ notes' = notes
      /\ tasks[t].at \in Rendering /\ tasks[t].served
      /\ user \in {Nothing, session}
  BY DEF IndInv, server, ListArrives, NoteArrives, Arrived, Rendering, Sole, Entering
<1>2. CASE RenderFails(t)
  <2>1. session = Nothing \/ ~Visible(editing)
    BY <1>2 DEF RenderFails, ListArrives, NoteArrives, Sole, Arrived
  <2>2. End(t) /\ editing' = editing /\ user' \in {Nothing, user}
    BY <1>2 DEF RenderFails
  <2>3. FormShows'
    BY <1>1, <2>1, <2>2 DEF FormShows, Visible
  <2> QED
    BY <1>1, <2>2, <2>3, EndSole
<1>3. CASE ListArrives(t) /\ ~RenderFails(t)
  <2>1. CASE editing = Nothing /\ Display(t, Answer(t).list, NewForm)
    <3>1. End(t) /\ editing' = Nothing /\ user' = user
      BY <2>1 DEF Display
    <3>2. FormShows'
      BY <3>1 DEF FormShows
    <3> QED
      BY <1>1, <3>1, <3>2, EndSole
  <2>2. CASE /\ editing # Nothing /\ Becomes(t, Fetch(tasks[t], "reading", editing))
             /\ UNCHANGED <<user, editing>>
    <3>1. tasks'[t].at = "reading" /\ tasks'[t].note = editing /\ ~tasks'[t].served
      BY <1>1, <2>2, TaskFacts, BegunFields DEF Places, TypeOK
    <3> QED
      BY <1>1, <2>2, <3>1 DEF Sole, Arrived, Rendering
  <2> QED
    BY <1>3, <2>1, <2>2 DEF ListArrives
<1>4. CASE NoteArrives(t) /\ ~RenderFails(t)
  <2> DEFINE filled == [note |-> tasks[t].note, version |-> Answer(t).version]
  <2>1. Arrived(t, "reading") /\ Answer(t).ok /\ Display(t, items, filled)
    BY <1>4 DEF NoteArrives
  <2>2. filled = [note |-> editing, version |-> notes[editing].version]
    BY <2>1 DEF Sole, Arrived
  <2> HIDE DEF filled
  <2>3. End(t) /\ editing' = editing /\ user' = user /\ form' = filled
    BY <2>1 DEF Display
  <2>4. FormShows'
    BY <1>1, <2>2, <2>3 DEF FormShows
  <2> QED
    BY <1>1, <2>3, <2>4, EndSole
<1> QED
  BY <1>2, <1>3, <1>4

\* A task other than a render goes on with its answer.
LEMMA OtherSole ==
    ASSUME IndInv, NEW t \in Tasks, Sole(t), UNCHANGED server,
           \/ VersionArrives(t) \/ SavedArrives(t) \/ RetriedArrives(t)
           \/ LoginArrives(t) \/ LogoutArrives(t) \/ UserArrives(t)
    PROVE  Sole(t)'
<1>1. TypeOK /\ UserAnswers /\ session' = session /\ notes' = notes /\ tasks[t] \in TaskRecord
  BY TaskFacts DEF IndInv, server
<1>2. ASSUME End(t), user' = user, editing' = editing, form' = form, FormShows,
             user \in {Nothing, session}
      PROVE  Sole(t)'
  <2>1. FormShows'
    BY <1>1, <1>2 DEF FormShows, Visible
  <2> QED
    BY <1>1, <1>2, <2>1, EndSole
<1>3. CASE VersionArrives(t)
  <2>1. /\ Arrived(t, "getting") /\ user \in {Nothing, session} /\ FormShows
        /\ user # Nothing /\ editing # Nothing /\ tasks[t].typed = form
    BY <1>3 DEF VersionArrives, Arrived, Sole, Entering, Rendering, Wrote
  <2>2. user' = user /\ editing' = editing /\ form' = form
    BY <1>3 DEF VersionArrives, page
  <2>3. CASE End(t)
    BY <1>2, <2>1, <2>2, <2>3
  <2>4. CASE Becomes(t, [Fetch(tasks[t], "patching", editing)
                            EXCEPT !.version = Answer(t).version])
    <3> DEFINE fetch == Fetch(tasks[t], "patching", editing)
               task  == [fetch EXCEPT !.version = Answer(t).version]
    <3>0. editing \in Notes \cup {Nothing} /\ "patching" \in Places
      BY <1>1 DEF TypeOK, Places
    <3>1. /\ fetch \in TaskRecord /\ fetch.at = "patching" /\ ~fetch.served
          /\ fetch.note = editing /\ fetch.typed = tasks[t].typed
      BY <1>1, <3>0, FetchTask, FetchFields
    <3>2. tasks'[t] = task
      BY <1>1, <2>4 DEF Becomes, TypeOK
    <3> HIDE DEF fetch
    <3>3. /\ tasks'[t].at = "patching" /\ ~tasks'[t].served
          /\ tasks'[t].note = editing /\ tasks'[t].typed = form
      BY <2>1, <3>1, <3>2 DEF TaskRecord
    <3>4. FormShows'
      BY <1>1, <2>1, <2>2 DEF FormShows, Visible
    <3> QED
      BY <1>1, <2>1, <2>2, <3>3, <3>4 DEF Sole, Arrived
  <2> QED
    BY <1>3, <2>3, <2>4 DEF VersionArrives
<1>4. CASE SavedArrives(t) \/ RetriedArrives(t)
  <2>1. /\ tasks[t].at \in {"patching", "creating", "deleting", "retrying"}
        /\ tasks[t].served /\ user \in {Nothing, session} /\ user' = user
    BY <1>4 DEF SavedArrives, RetriedArrives, Arrived, Sole, Entering
  <2>2. CASE BeginRender(t, tasks[t])
    BY <1>1, <2>1, <2>2, BeginSole
  <2>3. CASE End(t) /\ ~Answer(t).ok
    <3>1. FormShows
      BY <2>1, <2>3 DEF Sole, Entering, Rendering, Wrote
    <3>2. editing' = editing /\ form' = form
      BY <1>4, <2>3 DEF SavedArrives, RetriedArrives
    <3> QED
      BY <1>2, <2>1, <2>3, <3>1, <3>2
  <2> QED
    BY <1>4, <2>2, <2>3 DEF SavedArrives, RetriedArrives
<1>5. CASE LoginArrives(t) \/ LogoutArrives(t)
  <2>1. CASE Becomes(t, Bootstrap)
    <3>1. [Free EXCEPT !.from = "bootstrap"] \in TaskRecord
      BY FreeTask DEF TaskRecord
    <3>2. tasks'[t].at = "naming" /\ ~tasks'[t].served
      BY <1>1, <2>1, <3>1, BegunFields DEF Bootstrap, Places
    <3> QED
      BY <3>2 DEF Sole, Arrived, Entering
  <2>2. CASE LoginArrives(t) /\ End(t)
    <3>1. user = Nothing /\ user' = user
      BY <2>2 DEF LoginArrives, Arrived, Sole, page
    <3>2. FormShows'
      BY <3>1 DEF FormShows
    <3> QED
      BY <2>2, <3>1, <3>2, EndSole
  <2> QED
    BY <1>5, <2>1, <2>2 DEF LoginArrives, LogoutArrives
<1>6. CASE UserArrives(t)
  <2>1. user' = session
    BY <1>6 DEF UserArrives, Sole
  <2>2. CASE Answer(t).ok
    BY <1>1, <1>6, <2>1, <2>2, BeginSole DEF UserArrives
  <2>3. CASE ~Answer(t).ok
    <3>1. user' = Nothing /\ End(t)
      BY <1>1, <1>6, <2>3 DEF UserArrives, UserAnswers
    <3>2. FormShows'
      BY <3>1 DEF FormShows
    <3> QED
      BY <3>1, <3>2, EndSole
  <2> QED
    BY <2>2, <2>3
<1> QED
  BY <1>3, <1>4, <1>5, <1>6

\* A timer or a click starts the only task.
LEMMA StartSole ==
    ASSUME IndInv, NEW t \in Tasks, Sole(t), Fire(t) \/ Click(t)
    PROVE  Sole(t)'
<1>1. /\ TypeOK /\ ViewFollowsUser /\ tasks[t] = Free /\ tasks[t].at = "free"
      /\ session' = session /\ notes' = notes
  BY FreeTask DEF IndInv, Fire, TimerFires, StrayFires, Click, server
<1>2. user \in {Nothing, session} /\ FormShows
  BY <1>1 DEF Sole, Entering, Rendering, Wrote
<1>3. ASSUME BeginRender(t, Free), user' = user PROVE Sole(t)'
  BY <1>1, <1>2, <1>3, FreeTask, BeginSole
<1>4. ASSUME NEW task \in TaskRecord, NEW n \in Notes \cup {Nothing},
             NEW at \in Places \ (Rendering \cup {"patching"}),
             Sends(t, Fetch(task, at, n)),
             at = "entering" => user = Nothing,
             at = "getting" => /\ user # Nothing /\ editing # Nothing
                               /\ n = editing /\ task.typed = form
      PROVE  Sole(t)'
  <2>1. tasks'[t].at = at /\ tasks'[t].note = n /\ tasks'[t].typed = task.typed
        /\ ~tasks'[t].served
    BY <1>1, <1>4, BegunFields DEF Sends
  <2>2. user' = user /\ editing' = editing /\ form' = form
    BY <1>4 DEF Sends, page
  <2>3. FormShows'
    BY <1>1, <1>2, <2>2 DEF FormShows, Visible
  <2> QED
    BY <1>1, <1>2, <1>4, <2>1, <2>2, <2>3 DEF Sole, Arrived, Rendering
<1>5. \A row \in rows : row.note \in Notes
  BY <1>1 DEF TypeOK, Row
<1>6. CASE Fire(t)
  BY <1>3, <1>6 DEF Fire, TimerFires, StrayFires
<1>7. ASSUME NEW n \in Notes \cup {Nothing}, OpenNote(t, n) PROVE Sole(t)'
  BY <1>3, <1>7 DEF OpenNote
<1>8. CASE Save(t)
  <2> DEFINE task == [Free EXCEPT !.typed = form]
  <2>1. task \in TaskRecord /\ task.typed = form
    BY <1>1, <1>8, FreeTask DEF Save, TypeOK, TaskRecord
  <2>2. user # Nothing
    BY <1>1, <1>8 DEF Save, ViewFollowsUser
  <2>3. editing \in Notes \cup {Nothing}
    BY <1>1 DEF TypeOK
  <2>4. {"getting", "creating"} \subseteq Places \ (Rendering \cup {"patching"})
    BY DEF Places, Rendering
  <2>5. CASE editing # Nothing /\ Sends(t, Fetch(task, "getting", editing))
    <3> HIDE DEF task
    <3> QED
      BY <1>4, <2>1, <2>2, <2>3, <2>4, <2>5
  <2>6. CASE Sends(t, Fetch(task, "creating", Nothing))
    <3> HIDE DEF task
    <3> QED
      BY <1>4, <2>1, <2>4, <2>6
  <2> QED
    BY <1>8, <2>5, <2>6 DEF Save
<1>9. ASSUME NEW row \in rows, Delete(t, row) \/ Retry(t, row) PROVE Sole(t)'
  <2>1. {"deleting", "retrying"} \subseteq Places \ (Rendering \cup {"patching"})
    BY DEF Places, Rendering
  <2> QED
    BY <1>4, <1>5, <1>9, <2>1, FreeTask DEF Delete, Retry
<1>10. CASE Login(t) \/ Logout(t)
  <2>1. {"entering", "leaving"} \subseteq Places \ (Rendering \cup {"patching"})
    BY DEF Places, Rendering
  <2>2. Login(t) => user = Nothing
    BY <1>1 DEF Login, ViewFollowsUser
  <2> QED
    BY <1>4, <1>10, <2>1, <2>2, FreeTask DEF Login, Logout
<1> QED
  BY <1>6, <1>7, <1>8, <1>9, <1>10 DEF Click

\* Workers change statuses only, and the other section shows the same form.
LEMMA QuietSole ==
    ASSUME IndInv, NEW t \in Tasks, Sole(t), (\E n \in Notes : Index(n)) \/ ShowView
    PROVE  Sole(t)'
<1>1. /\ tasks' = tasks /\ session' = session /\ user' = user
      /\ editing' = editing /\ form' = form
  BY DEF Index, ShowView, page, server
<1>2. \A m \in Notes : notes'[m].owner = notes[m].owner /\ notes'[m].version = notes[m].version
  <2>1. ASSUME NEW n \in Notes, Index(n)
        PROVE  \A m \in Notes : /\ notes'[m].owner = notes[m].owner
                                /\ notes'[m].version = notes[m].version
    <3>1. notes \in [Notes -> {Unwritten, Erased} \cup NoteRecord]
      BY DEF IndInv, TypeOK, NoteRecord
    <3>2. notes[n] \in NoteRecord
      BY <2>1, <3>1 DEF Index, Unwritten, Erased
    <3>3. PICK status \in {"ready", "failed"} :
             notes' = [notes EXCEPT ![n] = [notes[n] EXCEPT !.status = status]]
      BY <2>1, <3>1 DEF Index
    <3>4. LET note == [notes[n] EXCEPT !.status = status]
          IN  note.owner = notes[n].owner /\ note.version = notes[n].version
      BY <3>2 DEF NoteRecord
    <3> QED
      BY <3>1, <3>3, <3>4
  <2> QED
    BY <2>1 DEF ShowView, server
<1>3. \A n : Visible(n)' <=> Visible(n)
  BY <1>1, <1>2 DEF Visible
<1>4. FormShows' <=> FormShows
  BY <1>1, <1>2, <1>3 DEF FormShows, Visible
<1>5. \A n : Visible(n) => n \in Notes
  BY DEF Visible
<1> QED
  BY <1>1, <1>2, <1>3, <1>4, <1>5 DEF Sole, Arrived, Answer, Wrote

\* A task's step changes its own slot, which is not free both before and after.
LEMMA StepSlots ==
    ASSUME IndInv, NEW t \in Tasks, Serve(t) \/ Resume(t) \/ Fire(t) \/ Click(t)
    PROVE  /\ \A s \in Tasks \ {t} : tasks'[s] = tasks[s]
           /\ tasks[t].at # "free" \/ tasks'[t].at # "free"
<1>1. TypeOK /\ tasks \in [Tasks -> TaskRecord]
  BY DEF IndInv, TypeOK
<1>2. CASE Serve(t)
  <2>1. tasks[t].at # "free"
    BY <1>2 DEF Serve, ServeList, ServeNote, ServePatch, ServePost, ServeDelete,
            ServeRetry, ServeMe, ServeLogin, ServeLogout, Waits
  <2>2. \E answer : Answered(t, answer)
    BY <1>2 DEF Serve, ServeList, ServeNote, ServePatch, ServePost, ServeDelete,
            ServeRetry, ServeMe, ServeLogin, ServeLogout, Refuse, Accept
  <2> QED
    BY <1>1, <2>1, <2>2 DEF Answered
<1>3. CASE Resume(t)
  <2>1. tasks[t].at # "free"
    BY <1>3 DEF Resume, ListArrives, NoteArrives, VersionArrives, SavedArrives,
            RetriedArrives, LoginArrives, LogoutArrives, UserArrives, Arrived
  <2>2. \E task : Becomes(t, task)
    BY <1>3 DEF Resume, ListArrives, NoteArrives, VersionArrives, SavedArrives,
            RetriedArrives, LoginArrives, LogoutArrives, UserArrives, RenderFails,
            Display, BeginRender, End
  <2> QED
    BY <1>1, <2>1, <2>2 DEF Becomes
<1>4. ASSUME NEW task \in TaskRecord, NEW at \in Places \ {"free"},
             NEW n \in Notes \cup {Nothing}, Becomes(t, Fetch(task, at, n))
      PROVE  /\ \A s \in Tasks \ {t} : tasks'[s] = tasks[s]
             /\ tasks'[t].at # "free"
  <2>1. tasks'[t].at = at
    BY <1>1, <1>4, BegunFields
  <2> QED
    BY <1>1, <1>4, <2>1 DEF Becomes
<1>5. ASSUME BeginRender(t, Free)
      PROVE  /\ \A s \in Tasks \ {t} : tasks'[s] = tasks[s]
             /\ tasks'[t].at # "free"
  BY <1>4, <1>5, FreeTask DEF BeginRender, Places
<1>6. CASE Fire(t)
  BY <1>5, <1>6 DEF Fire, TimerFires, StrayFires
<1>7. CASE Click(t)
  <2>1. ASSUME NEW n \in Notes \cup {Nothing}, OpenNote(t, n)
        PROVE  /\ \A s \in Tasks \ {t} : tasks'[s] = tasks[s]
               /\ tasks'[t].at # "free"
    BY <1>5, <2>1 DEF OpenNote
  <2>2. ASSUME Save(t)
        PROVE  /\ \A s \in Tasks \ {t} : tasks'[s] = tasks[s]
               /\ tasks'[t].at # "free"
    <3> DEFINE task == [Free EXCEPT !.typed = form]
    <3>1. task \in TaskRecord
      BY <1>1, <2>2, FreeTask DEF Save, TypeOK, TaskRecord
    <3>2. editing \in Notes \cup {Nothing}
      BY <1>1 DEF TypeOK
    <3>3. \/ Becomes(t, Fetch(task, "getting", editing))
          \/ Becomes(t, Fetch(task, "creating", Nothing))
      BY <2>2 DEF Save, Sends
    <3> HIDE DEF task
    <3> QED
      BY <1>4, <3>1, <3>2, <3>3 DEF Places
  <2>3. ASSUME NEW row \in rows, Delete(t, row) \/ Retry(t, row)
        PROVE  /\ \A s \in Tasks \ {t} : tasks'[s] = tasks[s]
               /\ tasks'[t].at # "free"
    <3>1. row.note \in Notes
      BY <1>1 DEF TypeOK, Row
    <3> QED
      BY <1>4, <2>3, <3>1, FreeTask DEF Delete, Retry, Sends, Places
  <2>4. ASSUME Login(t) \/ Logout(t)
        PROVE  /\ \A s \in Tasks \ {t} : tasks'[s] = tasks[s]
               /\ tasks'[t].at # "free"
    BY <1>4, <2>4, FreeTask DEF Login, Logout, Sends, Places
  <2> QED
    BY <1>7, <2>1, <2>2, <2>3, <2>4 DEF Click
<1> QED
  BY <1>2, <1>3, <1>6, <1>7

\* A step of a page that is alone, and stays so.
LEMMA AloneStep ==
    ASSUME IndInv, SoleInv, Next, Alone, Alone'
    PROVE  SoleInv'
<1>1. ASSUME NEW t \in Tasks, Serve(t) \/ Resume(t) \/ Fire(t) \/ Click(t) PROVE SoleInv'
  <2>1. \A s \in Tasks \ {t} : tasks'[s] = tasks[s]
    BY <1>1, StepSlots
  <2>2. CASE OnlyTask(t)
    <3>1. Sole(t)
      BY <2>2 DEF SoleInv
    <3>2. Sole(t)'
      BY <1>1, <3>1, ServeSole, RenderSole, OtherSole, StartSole DEF Resume
    <3>3. ASSUME NEW s \in Tasks \ {t}, OnlyTask(s)' PROVE Sole(s)'
      <4>1. tasks'[s].at = "free" /\ tasks'[t].at = "free"
        BY <2>1, <2>2, <3>3 DEF OnlyTask
      <4>2. Sole(t)' => Sole(s)'
        BY <4>1 DEF Sole, Arrived, Wrote, Entering, Rendering
      <4> QED
        BY <3>2, <4>2
    <3> QED
      BY <3>2, <3>3 DEF SoleInv
  <2>3. CASE ~OnlyTask(t)
    <3>1. PICK s \in Tasks \ {t} : tasks[s].at # "free" /\ tasks'[s].at # "free"
      BY <2>1, <2>3 DEF OnlyTask
    <3>2. tasks[t].at = "free" /\ tasks'[t].at = "free"
      BY <3>1 DEF Alone
    <3> QED
      BY <1>1, <3>2, StepSlots
  <2> QED
    BY <2>2, <2>3
<1>2. ASSUME (\E n \in Notes : Index(n)) \/ ShowView PROVE SoleInv'
  <2>1. tasks' = tasks
    BY <1>2 DEF Index, ShowView
  <2> QED
    BY <1>2, <2>1, QuietSole DEF SoleInv, OnlyTask
<1>3. ~OthersChange
  BY DEF Alone, OthersChange
<1> QED
  BY <1>1, <1>2, <1>3 DEF Next

\* The page is loaded, and knows no user.
LEMMA InitiallySole == ASSUME Init PROVE SoleInv
<1>1. [Free EXCEPT !.from = "bootstrap"] \in TaskRecord
  BY FreeTask DEF TaskRecord
<1>2. Bootstrap.at = "naming" /\ ~Bootstrap.served
  BY <1>1, FetchFields DEF Bootstrap, Places
<1> SUFFICES ASSUME NEW t \in Tasks PROVE Sole(t)
  BY DEF SoleInv
<1>3. tasks[t] \in {Bootstrap, Free} /\ user = Nothing /\ FormShows
  BY DEF Init, FormShows
<1>4. tasks[t].at \in {"naming", "free"} /\ ~Arrived(t, tasks[t].at)
  BY <1>2, <1>3, FreeTask DEF Arrived, Free
<1> QED
  BY <1>3, <1>4 DEF Sole, Arrived, Entering

\* Only the server answers a save, and finds the note that its form showed.
LEMMA SoleSave ==
    ASSUME IndInv, SoleInv, Alone, Next, NEW t \in Tasks,
           Waits(t, "patching"), Arrived(t, "patching")', Answer(t)'.ok
    PROVE  tasks[t].typed = [note |-> tasks[t].note,
                             version |-> notes[tasks[t].note].version]
<1>1. TypeOK /\ ViewFollowsUser /\ tasks'[t] # tasks[t]
  BY DEF IndInv, Waits, Arrived
<1>2. Sole(t)
  <2>1. OnlyTask(t)
    BY DEF Alone, OnlyTask, Waits
  <2> QED
    BY <2>1 DEF SoleInv
<1>3. Serve(t)
  <2>1. ~ \E n \in Notes : Index(n)
    BY <1>1 DEF Index
  <2>2. ~OthersChange /\ ~ShowView
    BY <1>1 DEF OthersChange, ShowView
  <2>3. PICK s \in Tasks : Serve(s) \/ Resume(s) \/ Fire(s) \/ Click(s)
    BY <2>1, <2>2 DEF Next
  <2>4. s = t
    BY <1>1, <2>3, StepSlots
  <2>5. ~Resume(t)
    BY DEF Waits, Resume, ListArrives, NoteArrives, VersionArrives, SavedArrives,
           RetriedArrives, LoginArrives, LogoutArrives, UserArrives, Arrived
  <2>6. tasks[t] # Free
    BY FreeTask DEF Waits
  <2>7. ~Fire(t) /\ ~Click(t)
    BY <2>6 DEF Fire, TimerFires, StrayFires, Click
  <2> QED
    BY <2>3, <2>4, <2>5, <2>7
<1>4. ServePatch(t)
  BY <1>3 DEF Serve, Waits, ServeList, ServeNote, ServePost, ServeDelete, ServeRetry,
          ServeMe, ServeLogin, ServeLogout
<1>5. ~Refuse(t)
  <2>1. ASSUME Answered(t, Failure) PROVE FALSE
    <3>1. tasks'[t].answer = Failure
      BY <1>1, <2>1, Answers, AnsweredFields
    <3> QED
      BY <3>1 DEF Answer, Failure
  <2> QED
    BY <2>1 DEF Refuse
<1>6. Visible(tasks[t].note)
  BY <1>4, <1>5 DEF ServePatch
<1>7. /\ tasks[t].at = "patching" /\ ~Wrote(t)
      /\ user # Nothing /\ editing # Nothing
      /\ tasks[t].note = editing /\ tasks[t].typed = form
  BY <1>2 DEF Waits, Sole, Wrote
<1>8. FormShows
  BY <1>2, <1>7 DEF Sole, Entering, Rendering
<1> QED
  BY <1>6, <1>7, <1>8 DEF FormShows

\* A page that runs one task at a time, and whose notes nobody else changes, never
\* saves over what its form did not show, whatever renders fail and whoever logs in.
THEOREM SavesOfAPageAlone == Spec /\ []Alone => SaveReplacesWhatWasShown
<1>1. Init => IndInv /\ SoleInv
  BY Initially, InitiallySole
<1>2. IndInv /\ SoleInv /\ Alone /\ Alone' /\ [Next]_vars => SoleInv'
  <2>1. ASSUME IndInv, SoleInv, UNCHANGED vars PROVE SoleInv'
    <3>1. /\ session' = session /\ notes' = notes /\ user' = user
          /\ editing' = editing /\ form' = form /\ tasks' = tasks
      BY <2>1 DEF vars, server, page
    <3>2. FormShows' <=> FormShows
      BY <3>1 DEF FormShows, Visible
    <3>3. \A t \in Tasks : Sole(t) => Sole(t)'
      BY <3>1, <3>2 DEF Sole, Arrived, Answer, Wrote, Visible
    <3> QED
      BY <2>1, <3>1, <3>3 DEF SoleInv, OnlyTask
  <2> QED
    BY <2>1, AloneStep
<1>3. IndInv /\ SoleInv /\ Alone /\ [Next]_vars
         => [\A t \in Tasks :
                (Waits(t, "patching") /\ Arrived(t, "patching")' /\ Answer(t)'.ok)
                   => tasks[t].typed = [note |-> tasks[t].note,
                                        version |-> notes[tasks[t].note].version]]_vars
  BY SoleSave
<1>4. Spec => []IndInv
  BY Invariance
<1> QED
  BY <1>1, <1>2, <1>3, <1>4, PTL DEF Spec, SaveReplacesWhatWasShown

=============================================================================
