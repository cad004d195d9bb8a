------------------------------ MODULE ChatInv -------------------------------
(* The inductive invariant behind the safety properties of Chat.             *)
EXTENDS Chat

\* The index: no text is newer than the last, and the search finds a note
\* under the text it has, or does not find it.
IndexRows == \A n \in Notes : /\ text[n] <= last
                              /\ searchable[n] \in {0, text[n]}

\* While c is at work the notes only get fresher: a text that a note has is
\* the one it had when the message arrived, or was written since.
NotesFresh ==
    \A c \in Chats : pc[c] # "answered" =>
        /\ asked[c].last <= last
        /\ \A n \in Notes : text[n] # 0 =>
              text[n] > asked[c].last \/ text[n] = asked[c].text[n]

\* What the decision d is at the steps of each branch.
MayAwait(step, d) ==
    /\ step = "generalizing" => d.intent = "general_chat" /\ ~d.needs_clarification
    /\ step \in {"embedding", "searching", "grounding"}
          => d.intent = "rag" /\ ~d.needs_clarification
    /\ step \in {"creating", "created"} =>
          /\ d.intent = "create_note" /\ ~d.needs_clarification
          /\ d.title = "text" /\ d.content = "text"

\* What has been written and what is ready to be sent, before the answer is.
MayHaveWritten(step, count, response) ==
    /\ step \notin {"created", "answered"} => count = 0 /\ response = NoReply
    /\ step = "created" =>
          /\ count = 1
          /\ \E n \in Notes :
                response = [Answered("create_note") EXCEPT !.created_note = n]

\* A text t of note n is no older than the message that asked.
NoOlder(n, t, ask) == t > ask.last \/ t = ask.text[n]

\* What an answer with the decision d shows of the texts f that were found.
MayShow(step, d, f, response, ask) ==
    LET available == {n \in Notes : f[n] # 0} IN
    /\ step = "grounding" => \A n \in available : NoOlder(n, f[n], ask)
    /\ \A source \in response.sources :
          /\ source.note \in available /\ source.text = f[source.note]
          /\ NoOlder(source.note, source.text, ask)
    /\ (step = "answered" /\ response.status = "ok") =>
          /\ WellFormed(response)
          /\ response.intent = d.intent
          /\ response.needs_clarification = d.needs_clarification

\* A note that was written, by which decision, and how it is confirmed.
MayConfirm(step, d, response, count) ==
    /\ count <= 1
    /\ count = 1 => d.title = "text" /\ d.content = "text" /\ ~d.needs_clarification
    /\ (step = "answered" /\ response.status # "lost")
          => (count = 1 <=> response.created_note # NoNote)

HandlerInv(step, d, f, response, ask, count) ==
    /\ MayAwait(step, d)
    /\ MayHaveWritten(step, count, response)
    /\ MayShow(step, d, f, response, ask)
    /\ MayConfirm(step, d, response, count)

Handlers == \A c \in Chats :
    HandlerInv(pc[c], decision[c], found[c], reply[c], asked[c], wrote[c])

IndInv == TypeOK /\ IndexRows /\ NotesFresh /\ Handlers
=============================================================================
