----------------------------- MODULE WebClient ------------------------------
(* One tab of the web interface (app.js) and the server it talks to.         *)
(*                                                                           *)
(* A listener or a timer starts a task, an async function that runs up to    *)
(* its next fetch.  The server serves the fetch when it gets to it, and the  *)
(* task resumes with the answer at some later time: the tasks of a tab share *)
(* `state' and the document, and each acts on what it finds there when it    *)
(* resumes.  Other tabs and the workers change the notes at any time.        *)
EXTENDS Naturals, FiniteSets

CONSTANTS Users,
          Notes,
          Nothing,     \* null: no user, no note, the form of a new note
          Tasks,       \* bound: how many tasks run at a time
          MaxChanges,  \* bound: how often others change notes or the session
          MaxClicks    \* bound: how many tasks the user ever starts

ASSUME NothingAssumption == Nothing \notin Users \cup Notes
ASSUME BoundsAssumption  == MaxChanges \in Nat /\ MaxClicks \in Nat

VARIABLES session,   \* server: whose cookie the browser holds
          notes,     \* server: [owner, version, status] of each note
          user,      \* state.user
          items,     \* state.notes
          editing,   \* state.editing
          timer,     \* state.semanticTimer has not fired
          strays,    \* older timers, which nothing can clear any more
          view,      \* the section that is not hidden
          rows,      \* the list in the document
          form,      \* what the form was filled with: [note, version], once there is one
          tasks,     \* the task in each slot
          changes, clicks,
          broken     \* history: the last render to end did so with an error

page == <<user, items, editing, timer, strays, view, rows, form>>
server == <<session, notes>>
vars == <<server, page, tasks, changes, clicks, broken>>

Unwritten == [owner |-> Nothing, version |-> 0, status |-> "unwritten"]
Erased    == [owner |-> Nothing, version |-> 0, status |-> "erased"]
NewForm   == [note |-> Nothing, version |-> 0]

\* What the server answers: a failure, or what it read.
Failure == [ok |-> FALSE, list |-> {}, version |-> 0, user |-> Nothing]
Success == [Failure EXCEPT !.ok = TRUE]

\* A task: the fetch it waits for, the handler of its errors, the note and the
\* version the fetch names, the form its listener read, and the answer.
Free == [at |-> "free", from |-> "listener", note |-> Nothing, version |-> 0,
         typed |-> NewForm, served |-> FALSE, answer |-> Failure]

Fetch(task, at, note) ==
    [task EXCEPT !.at = at, !.note = note, !.served = FALSE, !.answer = Failure]

Rendering == {"listing", "reading"}

Waits(t, at) == tasks[t].at = at /\ ~tasks[t].served

Arrived(t, at) == tasks[t].at = at /\ tasks[t].served

Answer(t) == tasks[t].answer

-----------------------------------------------------------------------------
(* The server                                                                *)

Visible(n) == n \in Notes /\ session # Nothing /\ notes[n].owner = session

Listed == {[note |-> n, status |-> notes[n].status] :
              n \in {m \in Notes : session # Nothing /\ notes[m].owner = session}}

Answered(t, answer) ==
    tasks' = [tasks EXCEPT ![t].served = TRUE, ![t].answer = answer]

Refuse(t) == Answered(t, Failure) /\ UNCHANGED server

Accept(t, n, note) ==
    /\ notes' = [notes EXCEPT ![n] = note]
    /\ Answered(t, Success)
    /\ UNCHANGED session

Edited(note) == [note EXCEPT !.version = @ + 1, !.status = "pending"]

ServeList(t) ==
    /\ Waits(t, "listing")
    /\ Answered(t, [Failure EXCEPT !.ok = session # Nothing, !.list = Listed])
    /\ UNCHANGED server

ServeNote(t) ==
    LET n == tasks[t].note
    IN  /\ Waits(t, "reading") \/ Waits(t, "getting")
        /\ IF Visible(n)
           THEN /\ Answered(t, [Success EXCEPT !.version = notes[n].version])
                /\ UNCHANGED server
           ELSE Refuse(t)

ServePatch(t) ==
    LET n == tasks[t].note
    IN  /\ Waits(t, "patching")
        /\ IF Visible(n) /\ notes[n].version = tasks[t].version
           THEN Accept(t, n, Edited(notes[n]))
           ELSE Refuse(t)

\* Bound: without an unwritten note left, the server refuses.
ServePost(t) ==
    /\ Waits(t, "creating")
    /\ \/ \E n \in Notes :
             /\ session # Nothing
             /\ notes[n] = Unwritten
             /\ Accept(t, n, [owner |-> session, version |-> 1, status |-> "pending"])
       \/ /\ session = Nothing \/ \A n \in Notes : notes[n] # Unwritten
          /\ Refuse(t)

ServeDelete(t) ==
    LET n == tasks[t].note
    IN  /\ Waits(t, "deleting")
        /\ IF Visible(n) THEN Accept(t, n, Erased) ELSE Refuse(t)

ServeRetry(t) ==
    LET n == tasks[t].note
    IN  /\ Waits(t, "retrying")
        /\ IF Visible(n) /\ notes[n].status = "failed"
           THEN Accept(t, n, [notes[n] EXCEPT !.status = "pending"])
           ELSE Refuse(t)

ServeMe(t) ==
    /\ Waits(t, "naming")
    /\ Answered(t, [Failure EXCEPT !.ok = session # Nothing, !.user = session])
    /\ UNCHANGED server

ServeLogin(t) ==
    /\ Waits(t, "entering")
    /\ \/ Refuse(t)
       \/ \E u \in Users : session' = u /\ Answered(t, Success) /\ UNCHANGED notes

ServeLogout(t) ==
    /\ Waits(t, "leaving")
    /\ session' = Nothing
    /\ Answered(t, [Failure EXCEPT !.ok = session # Nothing])
    /\ UNCHANGED notes

Serve(t) ==
    /\ \/ ServeList(t) \/ ServeNote(t) \/ ServePatch(t) \/ ServePost(t)
       \/ ServeDelete(t) \/ ServeRetry(t)
       \/ ServeMe(t) \/ ServeLogin(t) \/ ServeLogout(t)
    /\ UNCHANGED <<page, changes, clicks, broken>>

\* Variant: also of a note that was erased meanwhile.
IndexErased(n) ==
    /\ notes[n].status \in {"pending", "erased"}
    /\ \E status \in {"ready", "failed"} : notes' = [notes EXCEPT ![n].status = status]
    /\ UNCHANGED <<session, page, tasks, changes, clicks, broken>>

\* A worker ends the preparation of a note, well or not.
Index(n) ==
    /\ notes[n].status = "pending"
    /\ \E status \in {"ready", "failed"} : notes' = [notes EXCEPT ![n].status = status]
    /\ UNCHANGED <<session, page, tasks, changes, clicks, broken>>

\* Another tab of the user edits or deletes a note or logs out, or the session
\* expires.
OthersChange ==
    /\ changes < MaxChanges
    /\ changes' = changes + 1
    /\ \/ \E n \in Notes :
             /\ Visible(n)
             /\ \E note \in {Erased, Edited(notes[n])} : notes' = [notes EXCEPT ![n] = note]
             /\ UNCHANGED session
       \/ session # Nothing /\ session' = Nothing /\ UNCHANGED notes
    /\ UNCHANGED <<page, tasks, clicks, broken>>

-----------------------------------------------------------------------------
(* renderNotes                                                               *)

Becomes(t, task) == tasks' = [tasks EXCEPT ![t] = task]

End(t) == Becomes(t, Free)

\* The part before its first await: only the last timer can be cleared.
BeginRender(t, task) ==
    /\ timer' = FALSE
    /\ Becomes(t, Fetch(task, "listing", Nothing))

\* Variant: a list that did not change is not polled again.
SetTimerOnChange(list) ==
    IF list # rows /\ \E row \in list : row.status = "pending"
    THEN timer' = TRUE /\ UNCHANGED strays
    ELSE UNCHANGED <<timer, strays>>

\* The timer that is overwritten in state.semanticTimer still fires.
SetTimer(list) ==
    IF \E row \in list : row.status = "pending"
    THEN /\ timer' = TRUE
         /\ strays' = IF timer THEN strays + 1 ELSE strays
    ELSE UNCHANGED <<timer, strays>>

\* The part after its last await: the list is state.notes as it is by then.
Display(t, list, filled) ==
    /\ items' = list
    /\ rows' = list
    /\ form' = filled
    /\ SetTimer(list)
    /\ broken' = FALSE
    /\ End(t)
    /\ UNCHANGED <<user, editing, view>>

\* Variant: bootstrap shows the form and still knows the user.
RenderFailsHalfway(t) ==
    /\ ~Answer(t).ok
    /\ broken' = TRUE
    /\ End(t)
    /\ view' = IF tasks[t].from = "bootstrap" THEN "auth" ELSE view
    /\ UNCHANGED <<user, items, editing, timer, strays, rows, form>>

\* Only bootstrap and the listeners that await the render catch its error, and
\* only bootstrap does more than to show it.
RenderFails(t) ==
    /\ ~Answer(t).ok
    /\ broken' = TRUE
    /\ End(t)
    /\ IF tasks[t].from = "bootstrap"
       THEN user' = Nothing /\ view' = "auth"
       ELSE UNCHANGED <<user, view>>
    /\ UNCHANGED <<items, editing, timer, strays, rows, form>>

ListArrives(t) ==
    /\ Arrived(t, "listing")
    /\ \/ /\ Answer(t).ok /\ editing = Nothing
          /\ Display(t, Answer(t).list, NewForm)
       \/ /\ Answer(t).ok /\ editing # Nothing
          /\ items' = Answer(t).list
          /\ Becomes(t, Fetch(tasks[t], "reading", editing))
          /\ UNCHANGED <<user, editing, timer, strays, view, rows, form, broken>>
       \/ RenderFails(t)

\* Variant: while a note is edited, the list is left as it is.
NoteArrivesAlone(t) ==
    /\ Arrived(t, "reading")
    /\ \/ /\ Answer(t).ok
          /\ Display(t, rows, [note |-> tasks[t].note, version |-> Answer(t).version])
       \/ RenderFails(t)

NoteArrives(t) ==
    /\ Arrived(t, "reading")
    /\ \/ /\ Answer(t).ok
          /\ Display(t, items, [note |-> tasks[t].note, version |-> Answer(t).version])
       \/ RenderFails(t)

-----------------------------------------------------------------------------
(* The other tasks                                                           *)

\* saveNote: what was typed is sent to the note that is edited by then, with
\* the version that was just read.
VersionArrives(t) ==
    /\ Arrived(t, "getting")
    /\ IF Answer(t).ok
       THEN Becomes(t, [Fetch(tasks[t], "patching", editing)
                           EXCEPT !.version = Answer(t).version])
       ELSE End(t)
    /\ UNCHANGED <<page, broken>>

SavedArrives(t) ==
    /\ Arrived(t, "patching") \/ Arrived(t, "creating") \/ Arrived(t, "deleting")
    /\ IF Answer(t).ok THEN editing' = Nothing /\ BeginRender(t, tasks[t])
                       ELSE End(t) /\ UNCHANGED <<editing, timer>>
    /\ UNCHANGED <<user, items, strays, view, rows, form, broken>>

RetriedArrives(t) ==
    /\ Arrived(t, "retrying")
    /\ IF Answer(t).ok THEN BeginRender(t, tasks[t]) ELSE End(t) /\ UNCHANGED timer
    /\ UNCHANGED <<user, items, editing, strays, view, rows, form, broken>>

Bootstrap == Fetch([Free EXCEPT !.from = "bootstrap"], "naming", Nothing)

LoginArrives(t) ==
    /\ Arrived(t, "entering")
    /\ IF Answer(t).ok THEN Becomes(t, Bootstrap) ELSE End(t)
    /\ UNCHANGED <<page, broken>>

LogoutArrives(t) ==
    /\ Arrived(t, "leaving")
    /\ Becomes(t, Bootstrap)
    /\ UNCHANGED <<page, broken>>

UserArrives(t) ==
    /\ Arrived(t, "naming")
    /\ user' = Answer(t).user
    /\ IF Answer(t).ok THEN view' = "notes" /\ BeginRender(t, tasks[t])
                       ELSE view' = "auth" /\ End(t) /\ UNCHANGED timer
    /\ UNCHANGED <<items, editing, strays, rows, form, broken>>

Resume(t) ==
    /\ \/ ListArrives(t) \/ NoteArrives(t) \/ VersionArrives(t)
       \/ SavedArrives(t) \/ RetriedArrives(t)
       \/ LoginArrives(t) \/ LogoutArrives(t) \/ UserArrives(t)
    /\ UNCHANGED <<server, changes, clicks>>

-----------------------------------------------------------------------------
(* Timers and clicks                                                         *)

TimerFires(t) ==
    /\ tasks[t] = Free
    /\ timer
    /\ BeginRender(t, Free)
    /\ UNCHANGED <<user, items, editing, strays, view, rows, form>>

StrayFires(t) ==
    /\ tasks[t] = Free
    /\ strays > 0
    /\ strays' = strays - 1
    /\ BeginRender(t, Free)
    /\ UNCHANGED <<user, items, editing, view, rows, form>>

Fire(t) ==
    /\ TimerFires(t) \/ StrayFires(t)
    /\ UNCHANGED <<server, changes, clicks, broken>>

\* The chat may show a note, or have created it, that is erased by now.
WasOfUser(n) == notes[n] # Unwritten /\ notes[n].owner \in {user, Nothing}

\* A click on a title, on Cancel, or on a source or a created note in the chat.
OpenNote(t, n) ==
    /\ \/ view = "notes" /\ \E row \in rows : row.note = n
       \/ view = "notes" /\ n = Nothing /\ form \notin {Nothing, NewForm}
       \/ view = "chat" /\ n \in Notes /\ WasOfUser(n)
    /\ editing' = n
    /\ view' = "notes"
    /\ BeginRender(t, Free)
    /\ UNCHANGED <<user, items, strays, rows, form>>

\* The other buttons only start a fetch.
Sends(t, task) == Becomes(t, task) /\ UNCHANGED page

Save(t) ==
    /\ view = "notes" /\ form # Nothing
    /\ Sends(t, IF editing # Nothing
                THEN Fetch([Free EXCEPT !.typed = form], "getting", editing)
                ELSE Fetch([Free EXCEPT !.typed = form], "creating", Nothing))

Delete(t, row) == view = "notes" /\ Sends(t, Fetch(Free, "deleting", row.note))

Retry(t, row) ==
    /\ view = "notes" /\ row.status = "failed"
    /\ Sends(t, Fetch(Free, "retrying", row.note))

Login(t) == view = "auth" /\ Sends(t, Fetch(Free, "entering", Nothing))

Logout(t) == Sends(t, Fetch(Free, "leaving", Nothing))

Click(t) ==
    /\ tasks[t] = Free
    /\ clicks < MaxClicks
    /\ clicks' = clicks + 1
    /\ \/ \E n \in Notes \cup {Nothing} : OpenNote(t, n)
       \/ Save(t)
       \/ \E row \in rows : Delete(t, row) \/ Retry(t, row)
       \/ Login(t)
       \/ Logout(t)
    /\ UNCHANGED <<server, changes, broken>>

\* The buttons that switch between the notes and the chat.
ShowView ==
    /\ user # Nothing
    /\ \E v \in {"notes", "chat"} \ {view} : view' = v
    /\ UNCHANGED <<server, user, items, editing, timer, strays, rows, form,
                   tasks, changes, clicks, broken>>

-----------------------------------------------------------------------------

Init ==
    /\ session \in Users \cup {Nothing}
    /\ notes \in [Notes -> {Unwritten} \cup
                     [owner : Users, version : {1}, status : {"ready"}]]
    /\ user = Nothing /\ items = {} /\ editing = Nothing
    /\ timer = FALSE /\ strays = 0
    /\ view = "auth" /\ rows = {} /\ form = Nothing
    /\ \E t \in Tasks : tasks = [s \in Tasks |-> IF s = t THEN Bootstrap ELSE Free]
    /\ changes = 0 /\ clicks = 0
    /\ broken = FALSE

Next ==
    \/ \E t \in Tasks : Serve(t) \/ Resume(t) \/ Fire(t) \/ Click(t)
    \/ \E n \in Notes : Index(n)
    \/ OthersChange
    \/ ShowView

Spec == Init /\ [][Next]_vars

\* The server answers, the event loop resumes what was answered, timers fire,
\* and the workers end what they prepare; nobody has to click.
Fairness ==
    /\ \A t \in Tasks : WF_vars(Serve(t)) /\ WF_vars(Resume(t))
    /\ WF_vars(\E t \in Tasks : TimerFires(t) /\ Fire(t))
    /\ WF_vars(\E t \in Tasks : StrayFires(t) /\ Fire(t))
    /\ \A n \in Notes : WF_vars(Index(n))

FairSpec == Spec /\ Fairness

-----------------------------------------------------------------------------
(* Properties                                                                *)

Row  == [note : Notes, status : {"pending", "ready", "failed"}]
Form == [note : Notes \cup {Nothing}, version : Nat]

TaskRecord ==
    [at : {"free", "listing", "reading", "getting", "patching", "creating",
           "deleting", "retrying", "naming", "entering", "leaving"},
     from : {"listener", "bootstrap"}, note : Notes \cup {Nothing},
     version : Nat, typed : Form, served : BOOLEAN,
     answer : [ok : BOOLEAN, list : SUBSET Row, version : Nat,
               user : Users \cup {Nothing}]]

\* The types of the server's rows, of `state', of the document and of the tasks;
\* a note that exists has an owner and a version from 1 (app.js, NoteResponse).
TypeOK ==
    /\ session \in Users \cup {Nothing}
    /\ notes \in [Notes -> {Unwritten, Erased} \cup
                     [owner : Users, version : Nat \ {0},
                      status : {"pending", "ready", "failed"}]]
    /\ user \in Users \cup {Nothing}
    /\ items \subseteq Row /\ rows \subseteq Row
    /\ editing \in Notes \cup {Nothing}
    /\ timer \in BOOLEAN /\ strays \in Nat
    /\ view \in {"auth", "notes", "chat"}
    /\ form \in Form \cup {Nothing}
    /\ tasks \in [Tasks -> TaskRecord]
    /\ changes \in Nat /\ clicks \in Nat
    /\ broken \in BOOLEAN

\* The list that shows a note in preparation is being polled: a timer will fire
\* or a render is under way, however many renders, clicks and timers overlapped,
\* unless the last render ended with an error (renderNotes).
PollAlive ==
    (\E row \in rows : row.status = "pending")
        => \/ timer \/ strays > 0 \/ broken
           \/ \E t \in Tasks : tasks[t].at \in Rendering

\* The sections of a user are shown exactly while the page knows a user: no task
\* that resumes after a logout, and no render that fails, leaves the one without
\* the other (bootstrap).
ViewFollowsUser == (user = Nothing) <=> (view = "auth")

\* A note that the list shows in preparation is later shown otherwise, or no
\* longer, unless a render fails.
PendingRowsSettle ==
    \A n \in Notes :
        [note |-> n, status |-> "pending"] \in rows
            ~> \/ [note |-> n, status |-> "pending"] \notin rows
               \/ broken

-----------------------------------------------------------------------------
(* What the documents say and the code does not do                           *)

\* quickstart.md: no silent overwriting.  What Save replaces is the note and the
\* version that the form was filled with when it was sent.
SaveReplacesWhatWasShown ==
    [][\A t \in Tasks :
          (Waits(t, "patching") /\ Arrived(t, "patching")' /\ Answer(t)'.ok)
             => tasks[t].typed = [note |-> tasks[t].note,
                                  version |-> notes[tasks[t].note].version]]_vars
=============================================================================
