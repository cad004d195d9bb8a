-------------------------------- MODULE Chat --------------------------------
(* POST /chat/messages: one message is classified, and exactly one of four   *)
(* branches answers it (services/intent.py, rag.py, retrieval.py).           *)
(*                                                                           *)
(* A step ends where the handler awaits: the model server, or the database.  *)
(* What other tabs and the index workers do to the notes meanwhile is        *)
(* SemanticIndex, which the detailed NoteIndexing implements.  The language  *)
(* model is free: any output may come back from any call.  A message is only *)
(* told apart by whether it is all blanks.                                   *)
EXTENDS Naturals, FiniteSets

CONSTANTS Notes,      \* note ids
          NoNote,     \* no note
          Unknown,    \* an id that the model makes up
          Chats,      \* handlers, one for each open chat tab
          Limit,      \* retrieval_limit: how many notes a search returns (5)
          MaxTexts    \* bound: how many texts are ever written

ASSUME NoNoteAssumption == NoNote \notin Notes /\ Unknown \notin Notes
ASSUME BoundsAssumption == Limit \in Nat /\ MaxTexts \in Nat

VARIABLES text, searchable, last,   \* the notes, as in SemanticIndex
          pc,         \* what each handler awaits
          decision,   \* what the message was classified as
          found,      \* the texts that the search returned, 0 for none
          reply,      \* the last answer
          asked,      \* history: the notes when the message arrived
          wrote       \* history: how many notes this message has written

Index == INSTANCE SemanticIndex

index == <<text, searchable, last>>
history == <<asked, wrote>>
vars == <<index, pc, decision, found, reply, history>>

Steps == {"answered", "classifying", "repairing", "creating", "created",
          "generalizing", "embedding", "searching", "grounding"}

\* Awaiting an answer of the model server.
ModelCalls == {"classifying", "repairing", "generalizing", "embedding",
               "grounding"}

-----------------------------------------------------------------------------
(* The decision of the classifier                                            *)

Intents == {"rag", "general_chat", "create_note", "clarification"}

\* null, a string of blanks, or a string with something in it.
Fields == {"null", "blank", "text"}

IntentDecision == [intent : Intents, title : Fields, content : Fields,
                   needs_clarification : BOOLEAN]

\* Output that is no JSON object of the schema.
Garbage == [intent |-> "garbage", title |-> "null", content |-> "null",
            needs_clarification |-> FALSE]

\* validate_intent_fields
Valid(d) ==
    /\ d.intent \in Intents
    /\ d.intent # "create_note" => d.title = "null" /\ d.content = "null"
    /\ d.intent = "clarification" => d.needs_clarification
    /\ d.intent \in {"rag", "general_chat"} => ~d.needs_clarification
    /\ (d.intent = "create_note" /\ ~d.needs_clarification)
          => d.title # "null" /\ d.content # "null"

CompleteCreation(d) ==
    /\ d.intent = "create_note"
    /\ ~d.needs_clarification
    /\ d.title # "null" /\ d.content # "null"

\* What classify returns at once; anything else is repaired, once.
Settled(d) == Valid(d) /\ (d.intent # "create_note" \/ CompleteCreation(d))

-----------------------------------------------------------------------------
(* Answers                                                                   *)

Source == [note : Notes, text : Nat]

Statuses == {"none", "ok", "lost", "internal_error", "classification_failed",
             "model_unavailable"}

ChatResponse == [status : Statuses, intent : Intents \cup {"none"},
                 needs_clarification : BOOLEAN, sources : SUBSET Source,
                 created_note : Notes \cup {NoNote}]

NoReply == [status |-> "none", intent |-> "none", needs_clarification |-> FALSE,
            sources |-> {}, created_note |-> NoNote]

Answered(intent) == [NoReply EXCEPT !.status = "ok", !.intent = intent]

\* __post_init__ of ChatResponse, which raises when it does not hold.
WellFormed(response) ==
    /\ response.needs_clarification
          => response.sources = {} /\ response.created_note = NoNote
    /\ response.created_note # NoNote => response.intent = "create_note"
    /\ response.intent # "rag" => response.sources = {}

Respond(c, response) ==
    /\ pc' = [pc EXCEPT ![c] = "answered"]
    /\ reply' = [reply EXCEPT ![c] = response]

Fail(c, status) == Respond(c, [NoReply EXCEPT !.status = status])

Await(c, step) ==
    /\ pc' = [pc EXCEPT ![c] = step]
    /\ UNCHANGED reply

-----------------------------------------------------------------------------
(* The handler                                                               *)

\* Room is kept for the note that each message may write.
Unwritten == {c \in Chats : pc[c] \notin {"answered", "created"}}
Room == /\ last + Cardinality(Unwritten) <= MaxTexts
        /\ Cardinality(Unwritten) <= Cardinality({n \in Notes : text[n] = 0})

Send(c, blank) ==
    /\ pc[c] = "answered"
    /\ pc' = [pc EXCEPT ![c] = "classifying"]
    /\ reply' = [reply EXCEPT ![c] = NoReply]
    /\ asked' = [asked EXCEPT ![c] = [text |-> text, last |-> last, blank |-> blank]]
    /\ wrote' = [wrote EXCEPT ![c] = 0]
    /\ decision' = [decision EXCEPT ![c] = Garbage]
    /\ UNCHANGED <<index, found>>
    /\ Room'

\* RagService.respond goes on with the decision, up to its next await.  A
\* field of blanks passes the schema, and Note.create raises on it.
Route(c, d) ==
    /\ decision' = [decision EXCEPT ![c] = d]
    /\ \/ /\ d.intent = "clarification"
          /\ Respond(c, [Answered(d.intent) EXCEPT !.needs_clarification = TRUE])
       \/ /\ d.intent = "create_note" /\ ~CompleteCreation(d)
          /\ Respond(c, [Answered(d.intent) EXCEPT !.needs_clarification = TRUE])
       \/ /\ CompleteCreation(d)
          /\ IF "blank" \in {d.title, d.content} THEN Fail(c, "internal_error")
                                                 ELSE Await(c, "creating")
       \/ /\ d.intent = "general_chat"
          /\ Await(c, "generalizing")
       \/ /\ d.intent = "rag"    \* RetrievalService.search strips the query
          /\ IF asked[c].blank THEN Fail(c, "internal_error")
                               ELSE Await(c, "embedding")

Classify(c) ==
    /\ pc[c] = "classifying"
    /\ \E d \in IntentDecision \cup {Garbage} :
          \/ Settled(d) /\ Route(c, d)
          \/ ~Settled(d) /\ Await(c, "repairing") /\ UNCHANGED decision
    /\ UNCHANGED <<index, found, history>>

\* Variant: the message is classified again until the output settles.
RepairAgain(c) ==
    /\ pc[c] = "repairing"
    /\ \E d \in IntentDecision \cup {Garbage} :
          \/ Settled(d) /\ Route(c, d)
          \/ ~Settled(d) /\ Await(c, "classifying") /\ UNCHANGED decision
    /\ UNCHANGED <<index, found, history>>

\* A creation that stays incomplete is asked about.
Repair(c) ==
    /\ pc[c] = "repairing"
    /\ \E d \in IntentDecision \cup {Garbage} :
          \/ Settled(d) /\ Route(c, d)
          \/ /\ Valid(d) /\ ~Settled(d)
             /\ Route(c, [d EXCEPT !.needs_clarification = TRUE])
          \/ /\ ~Valid(d)
             /\ Fail(c, "classification_failed")
             /\ UNCHANGED decision
    /\ UNCHANGED <<index, found, history>>

\* NoteService.create commits the note under a new id.
Create(c) ==
    /\ pc[c] = "creating"
    /\ \E n \in Notes :
          /\ text[n] = 0
          /\ Index!Write(n)
          /\ reply' = [reply EXCEPT ![c] =
                          [Answered("create_note") EXCEPT !.created_note = n]]
    /\ wrote' = [wrote EXCEPT ![c] = @ + 1]
    /\ pc' = [pc EXCEPT ![c] = "created"]
    /\ UNCHANGED <<decision, found, asked>>

\* Variant: the confirmation goes through the creation again.
ConfirmAgain(c) ==
    /\ pc[c] = "created"
    /\ pc' = [pc EXCEPT ![c] = "creating"]
    /\ UNCHANGED <<index, reply, decision, found, history>>

Confirm(c) ==
    /\ pc[c] = "created"
    /\ Respond(c, reply[c])
    /\ UNCHANGED <<index, decision, found, history>>

\* An empty completion is answered with a fixed sentence.
Generalize(c) ==
    /\ pc[c] = "generalizing"
    /\ Respond(c, Answered("general_chat"))
    /\ UNCHANGED <<index, decision, found, history>>

EmbedQuery(c) ==
    /\ pc[c] = "embedding"
    /\ Await(c, "searching")
    /\ UNCHANGED <<index, decision, found, history>>

Nothing == [n \in Notes |-> 0]

\* The notes that the search may return: it orders the chunks by similarity,
\* drops the distant ones and stops at the limit.
Hits == {hits \in SUBSET {n \in Notes : searchable[n] # 0} :
            Cardinality(hits) <= Limit}

\* Variant: without a source, the question is answered from general knowledge.
RetrieveOrGeneralize(c) ==
    /\ pc[c] = "searching"
    /\ \E hits \in Hits :
          /\ found' = [found EXCEPT ![c] =
                          [n \in Notes |-> IF n \in hits THEN searchable[n] ELSE 0]]
          /\ IF hits = {} THEN Await(c, "generalizing") ELSE Await(c, "grounding")
    /\ UNCHANGED <<index, decision, history>>

\* Variant: what the tab's last search returned is taken when there is any.
RetrieveCached(c) ==
    /\ pc[c] = "searching"
    /\ \E hits \in Hits :
          /\ found' = [found EXCEPT ![c] =
                          IF @ # Nothing THEN @ ELSE
                          [n \in Notes |-> IF n \in hits THEN searchable[n] ELSE 0]]
          /\ IF found'[c] = Nothing THEN Respond(c, Answered("rag"))
                                    ELSE Await(c, "grounding")
    /\ UNCHANGED <<index, decision, history>>

\* One SELECT; without a source the answer is that there is not enough.
Retrieve(c) ==
    /\ pc[c] = "searching"
    /\ \E hits \in Hits :
          /\ found' = [found EXCEPT ![c] =
                          [n \in Notes |-> IF n \in hits THEN searchable[n] ELSE 0]]
          /\ IF hits = {} THEN Respond(c, Answered("rag")) ELSE Await(c, "grounding")
    /\ UNCHANGED <<index, decision, history>>

Available(c) == {n \in Notes : found[c][n] # 0}

\* Variant: an id that was not retrieved is looked up among the notes.
VerifiedSourcesLookup(c, cited) ==
    {[note |-> n, text |-> text[n]] : n \in {m \in cited \cap Notes : text[m] # 0}}

\* Variant: the ids are taken as the model cites them.
SourcesAsCited(c, cited) ==
    {[note |-> n, text |-> IF n \in Notes THEN found[c][n] ELSE 0] : n \in cited}

\* None when the model cites what it was not given; no duplicates.
VerifiedSources(c, cited) ==
    IF cited \subseteq Available(c)
    THEN {[note |-> n, text |-> found[c][n]] : n \in cited} ELSE {}

\* A completion that is no JSON of the schema, that says `insufficient', whose
\* answer is blank or whose citations are not verified is not shown.
Ground(c) ==
    /\ pc[c] = "grounding"
    /\ \E cited \in SUBSET (Notes \cup {Unknown}), usable \in BOOLEAN :
          Respond(c, [Answered("rag") EXCEPT !.sources =
                         IF usable THEN VerifiedSources(c, cited) ELSE {}])
    /\ UNCHANGED <<index, decision, found, history>>

\* The model server is down, times out or answers with an HTTP error (503), or
\* with a body or a vector of another shape (500).
ModelFails(c) ==
    /\ pc[c] \in ModelCalls
    /\ \E status \in {"model_unavailable", "internal_error"} : Fail(c, status)
    /\ UNCHANGED <<index, decision, found, history>>

-----------------------------------------------------------------------------
(* What happens around a handler                                             *)

\* The process restarts, the database fails or the client goes away.
Lose(c) ==
    /\ pc[c] # "answered"
    /\ Fail(c, "lost")
    /\ UNCHANGED <<index, decision, found, history>>

\* Other tabs edit and erase notes, and workers index them.
Others ==
    /\ Index!Next
    /\ UNCHANGED <<pc, decision, found, reply, history>>
    /\ Room'

Init ==
    /\ Index!Init
    /\ pc = [c \in Chats |-> "answered"]
    /\ decision = [c \in Chats |-> Garbage]
    /\ found = [c \in Chats |-> Nothing]
    /\ reply = [c \in Chats |-> NoReply]
    /\ asked = [c \in Chats |-> [text |-> Nothing, last |-> 0, blank |-> FALSE]]
    /\ wrote = [c \in Chats |-> 0]

HandlerStep(c) ==
    \/ Classify(c)
    \/ Repair(c)
    \/ Create(c)
    \/ Confirm(c)
    \/ Generalize(c)
    \/ EmbedQuery(c)
    \/ Retrieve(c)
    \/ Ground(c)
    \/ ModelFails(c)

Next ==
    \/ \E c \in Chats : \/ \E blank \in BOOLEAN : Send(c, blank)
                        \/ HandlerStep(c)
                        \/ Lose(c)
    \/ Others

Spec == Init /\ [][Next]_vars

\* The event loop runs every handler, and each call has a timeout.
FairSpec == Spec /\ \A c \in Chats : WF_vars(HandlerStep(c))

-----------------------------------------------------------------------------
(* Properties                                                                *)

\* Values of their types; a search returns at most `limit' notes.
TypeOK ==
    /\ text \in [Notes -> Nat] /\ searchable \in [Notes -> Nat] /\ last \in Nat
    /\ pc \in [Chats -> Steps]
    /\ decision \in [Chats -> IntentDecision \cup {Garbage}]
    /\ found \in [Chats -> [Notes -> Nat]]
    /\ \A c \in Chats : Cardinality(Available(c)) <= Limit
    /\ reply \in [Chats -> ChatResponse]
    /\ asked \in [Chats -> [text : [Notes -> Nat], last : Nat, blank : BOOLEAN]]
    /\ wrote \in [Chats -> Nat]

\* A source that an answer shows is the text its note had when the message
\* arrived, or a later one: an edit or a deletion that was over before the
\* question was asked is never contradicted by the answer.
SourcesAsOfQuestion ==
    \A c \in Chats : \A source \in reply[c].sources :
        \/ source.text > asked[c].last
        \/ source.text = asked[c].text[source.note]

\* verified_sources: an answer shows nothing but what its one search returned.
SourcesWereRetrieved ==
    \A c \in Chats : \A source \in reply[c].sources :
        source.note \in Available(c) /\ source.text = found[c][source.note]

\* An answer is of the branch that was decided and keeps the rules of
\* ChatResponse, whose constructor never raises: a question to the notes is
\* never answered from general knowledge, nor the other way round.
AnswerFitsDecision ==
    \A c \in Chats : (pc[c] = "answered" /\ reply[c].status = "ok") =>
        /\ WellFormed(reply[c])
        /\ reply[c].intent = decision[c].intent
        /\ reply[c].needs_clarification = decision[c].needs_clarification

\* A message writes at most one note, and only by a complete decision; a reply
\* that confirms a note means one, and any other reply, save for a lost one,
\* means none: a message that failed may be sent again.
WritesMatchAnswer ==
    \A c \in Chats :
        /\ wrote[c] <= 1
        /\ wrote[c] = 1 => /\ decision[c].title = "text" /\ decision[c].content = "text"
                           /\ ~decision[c].needs_clarification
        /\ (pc[c] = "answered" /\ reply[c].status # "lost")
              => (wrote[c] = 1 <=> reply[c].created_note # NoNote)

\* Every message is answered, after one repair at most.
EveryMessageIsAnswered ==
    \A c \in Chats : pc[c] # "answered" ~> pc[c] = "answered"
=============================================================================
