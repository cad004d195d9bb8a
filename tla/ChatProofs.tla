----------------------------- MODULE ChatProofs -----------------------------
(* IndInv is an invariant of Chat, for any number of handlers and notes, any *)
(* limit of the search and any number of texts; the safety properties follow *)
(* from it.                                                                  *)
EXTENDS ChatInv, FiniteSetTheorems, TLAPS

\* The safety properties are parts of the invariant.
LEMMA Safety ==
    IndInv => /\ SourcesAsOfQuestion
              /\ SourcesWereRetrieved
              /\ AnswerFitsDecision
              /\ WritesMatchAnswer
BY DEF IndInv, Handlers, HandlerInv, MayShow, NoOlder, MayConfirm, Available,
       SourcesAsOfQuestion, SourcesWereRetrieved, AnswerFitsDecision, WritesMatchAnswer

-----------------------------------------------------------------------------
(* Values                                                                    *)

\* The reply before an answer: no source, no note.
LEMMA NoReplyFacts ==
    /\ NoReply \in ChatResponse
    /\ NoReply.sources = {} /\ NoReply.created_note = NoNote /\ NoReply.status = "none"
BY DEF NoReply, ChatResponse, Statuses, Intents

\* A plain answer of a branch: no source, no note, and well formed.
LEMMA AnsweredFacts ==
    ASSUME NEW intent \in Intents
    PROVE  /\ Answered(intent) \in ChatResponse
           /\ Answered(intent).sources = {} /\ Answered(intent).created_note = NoNote
           /\ Answered(intent).status = "ok" /\ Answered(intent).intent = intent
           /\ ~Answered(intent).needs_clarification
           /\ WellFormed(Answered(intent))
BY DEF Answered, NoReply, ChatResponse, Statuses, Intents, WellFormed

\* What Fail answers with.
Failure(status) == [NoReply EXCEPT !.status = status]

\* An error shows no source and confirms no note.
LEMMA FailureFacts ==
    ASSUME NEW status \in Statuses
    PROVE  /\ Failure(status) \in ChatResponse
           /\ Failure(status).sources = {} /\ Failure(status).created_note = NoNote
           /\ Failure(status).status = status
BY DEF Failure, NoReply, ChatResponse, Intents

\* The answer that asks what is missing.
Asking(intent) == [Answered(intent) EXCEPT !.needs_clarification = TRUE]

\* A question back shows no source and confirms no note.
LEMMA AskingFacts ==
    ASSUME NEW intent \in Intents
    PROVE  /\ Asking(intent) \in ChatResponse
           /\ Asking(intent).sources = {} /\ Asking(intent).created_note = NoNote
           /\ Asking(intent).status = "ok" /\ Asking(intent).intent = intent
           /\ Asking(intent).needs_clarification
           /\ WellFormed(Asking(intent))
BY DEF Asking, Answered, NoReply, ChatResponse, Statuses, Intents, WellFormed

\* Nothing is found at the start, within every limit.
LEMMA NothingFound ==
    ASSUME \A c \in Chats : found[c] = Nothing
    PROVE  \A c \in Chats : Cardinality(Available(c)) <= Limit
<1>1. ASSUME NEW c \in Chats PROVE Available(c) = {}
  BY <1>1 DEF Available, Nothing
<1>. QED
  BY <1>1, FS_EmptySet, BoundsAssumption

\* The invariant holds before the first message.
LEMMA Start == Init => IndInv
<1>. SUFFICES ASSUME Init PROVE IndInv
  OBVIOUS
<1>1. TypeOK
  <2>1. \A c \in Chats : Cardinality(Available(c)) <= Limit
    BY NothingFound DEF Init
  <2>2. Nothing \in [Notes -> Nat]
    BY DEF Nothing
  <2>3. reply \in [Chats -> ChatResponse]
    BY NoReplyFacts DEF Init
  <2>. QED
    BY <2>1, <2>2, <2>3 DEF Init, Index!Init, TypeOK, Steps
<1>2. IndexRows /\ NotesFresh
  BY DEF Init, Index!Init, IndexRows, NotesFresh
<1>3. Handlers
  BY NoReplyFacts DEF Init, Handlers, HandlerInv, MayAwait, MayHaveWritten, MayShow,
                      MayConfirm
<1>. QED
  BY <1>1, <1>2, <1>3 DEF IndInv

-----------------------------------------------------------------------------
(* Steps                                                                     *)

\* The state of the handlers other than c.
OthersKept(c) ==
    \A d \in Chats \ {c} :
        /\ pc'[d] = pc[d] /\ decision'[d] = decision[d] /\ found'[d] = found[d]
        /\ reply'[d] = reply[d] /\ asked'[d] = asked[d] /\ wrote'[d] = wrote[d]

\* The types of the notes and of the index.
IndexType == text \in [Notes -> Nat] /\ searchable \in [Notes -> Nat] /\ last \in Nat

\* The types of the next state of the handlers.
HandlersTyped ==
    /\ pc' \in [Chats -> Steps]
    /\ decision' \in [Chats -> IntentDecision \cup {Garbage}]
    /\ found' \in [Chats -> [Notes -> Nat]]
    /\ reply' \in [Chats -> ChatResponse]
    /\ asked' \in [Chats -> [text : [Notes -> Nat], last : Nat, blank : BOOLEAN]]
    /\ wrote' \in [Chats -> Nat]

\* A step of the handler c that leaves the notes alone, and the history of a
\* message that is at work.
LEMMA HandlerKeeps ==
    ASSUME IndInv, NEW c \in Chats, UNCHANGED index, HandlersTyped, OthersKept(c),
           Cardinality(Available(c)') <= Limit,
           asked'[c] = asked[c], pc[c] # "answered",
           HandlerInv(pc'[c], decision'[c], found'[c], reply'[c], asked'[c], wrote'[c])
    PROVE  IndInv'
<1>1. ASSUME NEW d \in Chats PROVE Cardinality(Available(d)') <= Limit
  <2>1. d # c => Available(d)' = Available(d)
    BY DEF OthersKept, Available
  <2>. QED
    BY <2>1 DEF IndInv, TypeOK
<1>2. TypeOK'
  BY <1>1 DEF IndInv, TypeOK, HandlersTyped, index
<1>3. IndexRows' /\ NotesFresh'
  BY DEF IndInv, IndexRows, NotesFresh, OthersKept, index
<1>4. Handlers'
  BY DEF IndInv, Handlers, OthersKept
<1>. QED
  BY <1>2, <1>3, <1>4 DEF IndInv

\* A message that arrives finds the notes as fresh as they are.
LEMMA SendKeeps ==
    ASSUME IndInv, NEW c \in Chats, NEW blank \in BOOLEAN, Send(c, blank)
    PROVE  IndInv'
<1>1. \A d \in Chats : Available(d)' = Available(d)
  BY DEF Send, Available
<1>2. TypeOK'
  BY <1>1, NoReplyFacts DEF Send, IndInv, TypeOK, Steps, index
<1>3. IndexRows' /\ NotesFresh'
  BY DEF Send, IndInv, TypeOK, IndexRows, NotesFresh, index
<1>4. HandlerInv(pc'[c], decision'[c], found'[c], reply'[c], asked'[c], wrote'[c])
  BY NoReplyFacts
     DEF Send, IndInv, TypeOK, HandlerInv, MayAwait, MayHaveWritten, MayShow, MayConfirm
<1>5. Handlers'
  BY <1>4 DEF Send, IndInv, TypeOK, Handlers
<1>. QED
  BY <1>2, <1>3, <1>5 DEF IndInv

\* The model fails or the handler is lost.
LEMMA FailKeeps ==
    ASSUME IndInv, NEW c \in Chats, pc[c] # "answered", NEW status \in Statuses \ {"ok"},
           status = "lost" \/ wrote[c] = 0,
           Fail(c, status), UNCHANGED <<index, decision, found, history>>
    PROVE  IndInv'
<1>1. HandlersTyped /\ OthersKept(c)
  BY NoReplyFacts DEF Fail, Respond, history, IndInv, TypeOK, ChatResponse, HandlersTyped,
                      OthersKept, Steps
<1>2. Cardinality(Available(c)') <= Limit
  BY DEF IndInv, TypeOK, Available
<1>3. HandlerInv(pc'[c], decision'[c], found'[c], reply'[c], asked'[c], wrote'[c])
  BY NoReplyFacts DEF Fail, Respond, history, IndInv, TypeOK, Handlers, HandlerInv,
                      MayAwait, MayHaveWritten, MayShow, MayConfirm
<1>. QED
  BY <1>1, <1>2, <1>3, HandlerKeeps DEF history

\* What RagService.respond is given is valid, and incomplete only when flagged.
LEMMA RouteKeeps ==
    ASSUME IndInv, NEW c \in Chats, pc[c] \in {"classifying", "repairing"},
           NEW d \in IntentDecision, Valid(d),
           d.intent = "create_note" => CompleteCreation(d) \/ d.needs_clarification,
           Route(c, d), UNCHANGED <<index, found, history>>
    PROVE  IndInv'
<1>. USE DEF history
<1>1. d.intent \in Intents /\ wrote[c] = 0 /\ reply[c] = NoReply
  BY DEF Valid, IndInv, Handlers, HandlerInv, MayHaveWritten
<1>. DEFINE failure == Failure("internal_error")
<1>2. \/ /\ pc'[c] = "answered" /\ reply'[c] = Asking(d.intent)
         /\ d.intent \in {"clarification", "create_note"} /\ d.needs_clarification
      \/ pc'[c] = "answered" /\ reply'[c] = failure
      \/ pc'[c] \in {"creating", "generalizing", "embedding"} /\ reply'[c] = NoReply
  BY <1>1 DEF Route, Respond, Await, Fail, Valid, CompleteCreation, IndInv, TypeOK,
              Asking, Failure
<1>3. /\ failure \in ChatResponse /\ failure.sources = {}
      /\ failure.created_note = NoNote /\ failure.status # "ok"
  BY FailureFacts DEF Statuses
<1>4. /\ Asking(d.intent) \in ChatResponse
      /\ Asking(d.intent).sources = {} /\ Asking(d.intent).created_note = NoNote
      /\ Asking(d.intent).intent = d.intent /\ Asking(d.intent).needs_clarification
      /\ WellFormed(Asking(d.intent))
  BY <1>1, AskingFacts
<1>5. reply'[c] \in ChatResponse /\ reply'[c].sources = {}
      /\ reply'[c].created_note = NoNote
  BY <1>2, <1>3, <1>4, NoReplyFacts
<1>6. HandlersTyped /\ OthersKept(c)
  <2>1. pc' = [pc EXCEPT ![c] = pc'[c]] /\ reply' = [reply EXCEPT ![c] = reply'[c]]
    BY DEF Route, Respond, Await, Fail, IndInv, TypeOK
  <2>2. pc'[c] \in Steps
    BY <1>2 DEF Steps
  <2>3. decision' = [decision EXCEPT ![c] = d]
    BY DEF Route
  <2>. QED
    BY <1>5, <2>1, <2>2, <2>3 DEF IndInv, TypeOK, HandlersTyped, OthersKept
<1>7. Cardinality(Available(c)') <= Limit
  BY DEF IndInv, TypeOK, Available
<1>8. decision'[c] = d /\ found'[c] = found[c] /\ wrote'[c] = 0
  BY <1>1 DEF Route, IndInv, TypeOK
<1>9. MayAwait(pc'[c], d)
  BY <1>2 DEF Route, Respond, Await, Fail, Valid, CompleteCreation, IndInv, TypeOK,
              IntentDecision, Fields, MayAwait
<1>10. MayHaveWritten(pc'[c], 0, reply'[c])
  BY <1>2 DEF MayHaveWritten
<1>11. MayShow(pc'[c], d, found[c], reply'[c], asked[c])
  BY <1>2, <1>5, <1>3, <1>4 DEF MayShow
<1>12. MayConfirm(pc'[c], d, reply'[c], 0)
  BY <1>5 DEF MayConfirm
<1>. QED
  BY <1>6, <1>7, <1>8, <1>9, <1>10, <1>11, <1>12, HandlerKeeps DEF HandlerInv

\* A handler goes on to its next call with nothing else changed.
LEMMA AwaitKeeps ==
    ASSUME IndInv, NEW c \in Chats, NEW step \in Steps \ {"created", "answered", "grounding"},
           pc[c] \notin {"created", "answered"}, MayAwait(step, decision[c]),
           Await(c, step), UNCHANGED <<index, decision, found, history>>
    PROVE  IndInv'
<1>1. HandlersTyped /\ OthersKept(c)
  BY DEF Await, history, IndInv, TypeOK, HandlersTyped, OthersKept
<1>2. Cardinality(Available(c)') <= Limit
  BY DEF IndInv, TypeOK, Available
<1>3. HandlerInv(pc'[c], decision'[c], found'[c], reply'[c], asked'[c], wrote'[c])
  BY DEF Await, history, IndInv, TypeOK, Handlers, HandlerInv, MayAwait,
         MayHaveWritten, MayShow, MayConfirm
<1>. QED
  BY <1>1, <1>2, <1>3, HandlerKeeps DEF history

\* The classifier decides, or its output is to be repaired.
LEMMA ClassifyKeeps ==
    ASSUME IndInv, NEW c \in Chats, Classify(c)
    PROVE  IndInv'
<1>1. PICK d \in IntentDecision \cup {Garbage} :
         \/ Settled(d) /\ Route(c, d)
         \/ ~Settled(d) /\ Await(c, "repairing") /\ UNCHANGED decision
  BY DEF Classify
<1>2. CASE Settled(d) /\ Route(c, d)
  <2>1. d \in IntentDecision
    BY <1>2 DEF Settled, Valid, Garbage, Intents
  <2>. QED
    BY <1>2, <2>1, RouteKeeps DEF Classify, Settled
<1>3. CASE Await(c, "repairing") /\ UNCHANGED decision
  BY <1>3, AwaitKeeps DEF Classify, Steps, MayAwait
<1>. QED
  BY <1>1, <1>2, <1>3

\* The repaired output is valid, and flagged when it is incomplete, or is an error.
LEMMA RepairKeeps ==
    ASSUME IndInv, NEW c \in Chats, Repair(c)
    PROVE  IndInv'
<1>1. PICK d \in IntentDecision \cup {Garbage} :
         \/ Settled(d) /\ Route(c, d)
         \/ Valid(d) /\ ~Settled(d) /\ Route(c, [d EXCEPT !.needs_clarification = TRUE])
         \/ Fail(c, "classification_failed") /\ UNCHANGED decision
  BY DEF Repair
<1>2. Valid(d) => d \in IntentDecision
  BY DEF Valid, Garbage, Intents
<1>3. CASE Settled(d) /\ Route(c, d)
  BY <1>2, <1>3, RouteKeeps DEF Repair, Settled
<1>4. CASE Valid(d) /\ ~Settled(d) /\ Route(c, [d EXCEPT !.needs_clarification = TRUE])
  <2>. DEFINE e == [d EXCEPT !.needs_clarification = TRUE]
  <2>1. e \in IntentDecision /\ Valid(e) /\ e.needs_clarification
    BY <1>2, <1>4 DEF IntentDecision, Valid, Settled
  <2>. QED
    BY <1>4, <2>1, RouteKeeps DEF Repair
<1>5. CASE Fail(c, "classification_failed") /\ UNCHANGED decision
  <2>1. wrote[c] = 0
    BY DEF Repair, IndInv, Handlers, HandlerInv, MayHaveWritten
  <2>. QED
    BY <1>5, <2>1, FailKeeps DEF Repair, Statuses
<1>. QED
  BY <1>1, <1>3, <1>4, <1>5

\* A handler answers: what the invariant asks of an answer is of the response.
LEMMA RespondKeeps ==
    ASSUME IndInv, NEW c \in Chats, pc[c] # "answered", NEW response \in ChatResponse,
           MayShow("answered", decision[c], found[c], response, asked[c]),
           MayConfirm("answered", decision[c], response, wrote[c]),
           Respond(c, response), UNCHANGED <<index, decision, found, history>>
    PROVE  IndInv'
<1>1. HandlersTyped /\ OthersKept(c)
  BY DEF Respond, history, IndInv, TypeOK, HandlersTyped, OthersKept, Steps
<1>2. Cardinality(Available(c)') <= Limit
  BY DEF IndInv, TypeOK, Available
<1>3. HandlerInv(pc'[c], decision'[c], found'[c], reply'[c], asked'[c], wrote'[c])
  BY DEF Respond, history, IndInv, TypeOK, HandlerInv, MayAwait, MayHaveWritten
<1>. QED
  BY <1>1, <1>2, <1>3, HandlerKeeps DEF history

\* What c finds, writes or answers while it is at work.
LEMMA AtWork ==
    ASSUME IndInv, NEW c \in Chats, pc[c] # "answered"
    PROVE  HandlerInv(pc[c], decision[c], found[c], reply[c], asked[c], wrote[c])
BY DEF IndInv, Handlers

\* The reply that confirms a note follows the one write of that note.
LEMMA ConfirmKeeps ==
    ASSUME IndInv, NEW c \in Chats, Confirm(c)
    PROVE  IndInv'
<1>1. PICK n \in Notes : reply[c] = [Answered("create_note") EXCEPT !.created_note = n]
  BY AtWork DEF Confirm, HandlerInv, MayHaveWritten
<1>2. /\ reply[c].sources = {} /\ reply[c].created_note = n
      /\ reply[c].intent = "create_note" /\ ~reply[c].needs_clarification
      /\ WellFormed(reply[c])
  BY <1>1 DEF Answered, NoReply, WellFormed
<1>3. /\ decision[c].intent = "create_note" /\ ~decision[c].needs_clarification
      /\ wrote[c] = 1 /\ MayConfirm(pc[c], decision[c], reply[c], wrote[c])
  BY AtWork DEF Confirm, HandlerInv, MayAwait, MayHaveWritten
<1>4. reply[c].needs_clarification = FALSE /\ decision[c].needs_clarification = FALSE
      /\ reply[c] \in ChatResponse
  BY <1>2, <1>3 DEF IndInv, TypeOK, ChatResponse, IntentDecision, Garbage
<1>5. MayShow("answered", decision[c], found[c], reply[c], asked[c])
  BY <1>2, <1>3, <1>4 DEF MayShow
<1>6. MayConfirm("answered", decision[c], reply[c], wrote[c])
  BY <1>2, <1>3, NoNoteAssumption DEF MayConfirm
<1>. QED
  BY <1>4, <1>5, <1>6, RespondKeeps DEF Confirm

\* A general answer shows no source and has written nothing.
LEMMA GeneralizeKeeps ==
    ASSUME IndInv, NEW c \in Chats, Generalize(c)
    PROVE  IndInv'
<1>. DEFINE response == Answered("general_chat")
<1>1. /\ response \in ChatResponse /\ response.sources = {}
      /\ response.created_note = NoNote /\ response.intent = "general_chat"
      /\ response.needs_clarification = FALSE /\ WellFormed(response)
  BY AnsweredFacts DEF Intents, ChatResponse
<1>2. /\ decision[c].intent = "general_chat" /\ decision[c].needs_clarification = FALSE
      /\ wrote[c] = 0
  BY AtWork DEF Generalize, HandlerInv, MayAwait, MayHaveWritten, IndInv, TypeOK,
                IntentDecision, Garbage
<1>. HIDE DEF response
<1>3. MayShow("answered", decision[c], found[c], response, asked[c])
  BY <1>1, <1>2 DEF MayShow
<1>4. MayConfirm("answered", decision[c], response, wrote[c])
  BY <1>1, <1>2 DEF MayConfirm
<1>. QED
  BY <1>1, <1>3, <1>4, RespondKeeps DEF Generalize, response

\* The query is embedded only for a question to the notes.
LEMMA EmbedQueryKeeps ==
    ASSUME IndInv, NEW c \in Chats, EmbedQuery(c)
    PROVE  IndInv'
<1>1. pc[c] = "embedding" /\ Await(c, "searching")
  BY DEF EmbedQuery
<1>2. MayAwait("searching", decision[c])
  BY <1>1, AtWork DEF HandlerInv, MayAwait
<1>. QED
  BY <1>1, <1>2, AwaitKeeps DEF EmbedQuery, Steps

\* The search reads notes that are fresh, one text of each, within the limit.
LEMMA RetrieveKeeps ==
    ASSUME IndInv, NEW c \in Chats, Retrieve(c)
    PROVE  IndInv'
<1>. DEFINE hit(hits) == [n \in Notes |-> IF n \in hits THEN searchable[n] ELSE 0]
<1>1. PICK hits \in Hits :
         /\ found' = [found EXCEPT ![c] = hit(hits)]
         /\ IF hits = {} THEN Respond(c, Answered("rag")) ELSE Await(c, "grounding")
  BY DEF Retrieve
<1>2. /\ pc[c] = "searching" /\ found'[c] = hit(hits) /\ wrote[c] = 0
      /\ reply[c] = NoReply /\ decision[c].intent = "rag"
      /\ decision[c].needs_clarification = FALSE
  BY <1>1, AtWork DEF Retrieve, HandlerInv, MayAwait, MayHaveWritten, IndInv, TypeOK,
                      IntentDecision, Garbage
<1>3. Cardinality(Available(c)') <= Limit
  <2>1. Available(c)' = hits
    BY <1>1, <1>2 DEF Available, Hits
  <2>. QED
    BY <2>1 DEF Hits
<1>4. \A n \in Notes : hit(hits)[n] # 0 => NoOlder(n, hit(hits)[n], asked[c])
  BY <1>2 DEF IndInv, IndexRows, NotesFresh, NoOlder
<1>5. LET response == Answered("rag") IN
      /\ response \in ChatResponse /\ response.sources = {}
      /\ response.created_note = NoNote /\ response.intent = "rag"
      /\ response.needs_clarification = FALSE /\ WellFormed(response)
  BY AnsweredFacts DEF Intents, ChatResponse
<1>6. HandlersTyped /\ OthersKept(c)
  <2>1. /\ pc' = [pc EXCEPT ![c] = pc'[c]] /\ pc'[c] \in Steps
        /\ reply' = [reply EXCEPT ![c] = reply'[c]] /\ reply'[c] \in ChatResponse
    BY <1>1, <1>5, NoReplyFacts DEF Respond, Await, IndInv, TypeOK, Steps
  <2>2. hit(hits) \in [Notes -> Nat]
    BY DEF IndInv, TypeOK
  <2>. QED
    BY <1>1, <2>1, <2>2 DEF Retrieve, history, IndInv, TypeOK, HandlersTyped, OthersKept
<1>7. MayAwait(pc'[c], decision'[c]) /\ MayHaveWritten(pc'[c], wrote'[c], reply'[c])
  BY <1>1, <1>2 DEF Retrieve, Respond, Await, history, IndInv, TypeOK, MayAwait,
                    MayHaveWritten
<1>8. \/ pc'[c] = "answered" /\ reply'[c] = Answered("rag")
      \/ pc'[c] = "grounding" /\ reply'[c] = NoReply
  <2>1. CASE hits = {}
    BY <1>1, <2>1 DEF Respond, IndInv, TypeOK
  <2>2. CASE hits # {}
    BY <1>1, <1>2, <2>2 DEF Await, IndInv, TypeOK
  <2>. QED
    BY <2>1, <2>2
<1>9. MayShow(pc'[c], decision'[c], found'[c], reply'[c], asked'[c])
  BY <1>2, <1>4, <1>5, <1>8, NoReplyFacts DEF Retrieve, history, MayShow
<1>10. MayConfirm(pc'[c], decision'[c], reply'[c], wrote'[c])
  BY <1>2, <1>5, <1>8 DEF Retrieve, history, MayConfirm
<1>. QED
  BY <1>2, <1>3, <1>6, <1>7, <1>9, <1>10, HandlerKeeps DEF Retrieve, history, HandlerInv

\* What is shown is among what was found, whatever the model cites.
LEMMA GroundKeeps ==
    ASSUME IndInv, NEW c \in Chats, Ground(c)
    PROVE  IndInv'
<1>1. PICK cited \in SUBSET (Notes \cup {Unknown}), usable \in BOOLEAN :
         Respond(c, [Answered("rag") EXCEPT !.sources =
                        IF usable THEN VerifiedSources(c, cited) ELSE {}])
  BY DEF Ground
<1>. DEFINE sources == IF usable THEN VerifiedSources(c, cited) ELSE {}
            response == [Answered("rag") EXCEPT !.sources = sources]
<1>2. \A source \in sources : /\ source.note \in Available(c)
                              /\ source.text = found[c][source.note]
  BY DEF VerifiedSources
<1>3. sources \subseteq Source
  BY DEF VerifiedSources, Available, Source, IndInv, TypeOK
<1>4. /\ response \in ChatResponse /\ response.sources = sources
      /\ response.created_note = NoNote /\ response.intent = "rag"
      /\ response.needs_clarification = FALSE /\ WellFormed(response)
  BY <1>3 DEF Answered, NoReply, ChatResponse, Statuses, Intents, WellFormed
<1>5. /\ pc[c] = "grounding" /\ wrote[c] = 0 /\ decision[c].intent = "rag"
      /\ decision[c].needs_clarification = FALSE
  BY AtWork DEF Ground, HandlerInv, MayAwait, MayHaveWritten, IndInv, TypeOK,
                IntentDecision, Garbage
<1>6. \A n \in Available(c) : NoOlder(n, found[c][n], asked[c])
  BY <1>5, AtWork DEF HandlerInv, MayShow, Available
<1>7. \A source \in sources : NoOlder(source.note, source.text, asked[c])
  BY <1>2, <1>6
<1>. HIDE DEF sources, response
<1>8. MayShow("answered", decision[c], found[c], response, asked[c])
  BY <1>2, <1>4, <1>5, <1>7 DEF MayShow, Available
<1>9. MayConfirm("answered", decision[c], response, wrote[c])
  BY <1>4, <1>5 DEF MayConfirm
<1>. QED
  BY <1>1, <1>4, <1>5, <1>8, <1>9, RespondKeeps DEF Ground, response, sources

\* The model server only fails while nothing has been written.
LEMMA ModelFailsKeeps ==
    ASSUME IndInv, NEW c \in Chats, ModelFails(c)
    PROVE  IndInv'
<1>1. pc[c] \in Steps \ {"answered", "created"} /\ wrote[c] = 0
  BY AtWork DEF ModelFails, ModelCalls, Steps, HandlerInv, MayHaveWritten
<1>2. PICK status \in {"model_unavailable", "internal_error"} : Fail(c, status)
  BY DEF ModelFails
<1>. QED
  BY <1>1, <1>2, FailKeeps DEF ModelFails, Statuses

\* A lost answer may follow a write: it is told apart from a failure.
LEMMA LoseKeeps ==
    ASSUME IndInv, NEW c \in Chats, Lose(c)
    PROVE  IndInv'
BY FailKeeps DEF Lose, Statuses

-----------------------------------------------------------------------------
(* Steps that change the notes                                               *)

\* A written text is newer than every message that is at work.
LEMMA WriteFreshens ==
    ASSUME IndInv, NEW n \in Notes, Index!Write(n),
           \A c \in Chats : pc'[c] # "answered" => pc[c] # "answered",
           UNCHANGED asked
    PROVE  IndexType' /\ IndexRows' /\ NotesFresh'
<1>1. last' = last + 1 /\ last \in Nat
  BY DEF IndInv, TypeOK, Index!Write
<1>2. IndexType' /\ IndexRows'
  BY <1>1 DEF IndInv, TypeOK, IndexType, IndexRows, Index!Write
<1>3. NotesFresh'
  BY <1>1 DEF IndInv, TypeOK, NotesFresh, Index!Write
<1>. QED
  BY <1>2, <1>3

\* The creation writes the first and only note of its message.
LEMMA CreateKeeps ==
    ASSUME IndInv, NEW c \in Chats, Create(c)
    PROVE  IndInv'
<1>1. PICK n \in Notes :
         /\ Index!Write(n)
         /\ reply' = [reply EXCEPT ![c] =
                         [Answered("create_note") EXCEPT !.created_note = n]]
  BY DEF Create
<1>. DEFINE response == [Answered("create_note") EXCEPT !.created_note = n]
<1>2. response \in ChatResponse /\ response.sources = {}
  BY DEF Answered, NoReply, ChatResponse, Statuses, Intents
<1>3. pc' = [pc EXCEPT ![c] = "created"] /\ pc[c] = "creating"
  BY DEF Create
<1>4. IndexType' /\ IndexRows' /\ NotesFresh'
  BY <1>1, <1>3, WriteFreshens DEF Create, IndInv, TypeOK
<1>5. wrote' = [wrote EXCEPT ![c] = 1]
  <2>1. wrote[c] = 0
    BY <1>3, AtWork DEF HandlerInv, MayHaveWritten
  <2>. QED
    BY <2>1 DEF Create
<1>6. TypeOK'
  <2>1. \A d \in Chats : Available(d)' = Available(d)
    BY DEF Create, Available
  <2>2. reply' \in [Chats -> ChatResponse]
    BY <1>1, <1>2 DEF IndInv, TypeOK
  <2>3. pc' \in [Chats -> Steps] /\ wrote' \in [Chats -> Nat]
    BY <1>3, <1>5 DEF IndInv, TypeOK, Steps
  <2>. QED
    BY <1>4, <2>1, <2>2, <2>3 DEF Create, IndexType, IndInv, TypeOK
<1>7. HandlerInv("created", decision[c], found[c], response, asked[c], 1)
  <2>1. MayAwait("created", decision[c]) /\ MayConfirm("created", decision[c], response, 1)
    BY <1>3, AtWork DEF HandlerInv, MayAwait, MayConfirm, IndInv, TypeOK
  <2>2. MayHaveWritten("created", 1, response)
    BY DEF MayHaveWritten
  <2>3. MayShow("created", decision[c], found[c], response, asked[c])
    BY <1>2 DEF MayShow
  <2>. QED
    BY <2>1, <2>2, <2>3 DEF HandlerInv
<1>8. Handlers'
  BY <1>1, <1>3, <1>5, <1>7 DEF Create, IndInv, TypeOK, Handlers
<1>. QED
  BY <1>4, <1>6, <1>8 DEF IndInv

\* What other tabs and workers do only makes the notes fresher.
LEMMA OthersKeep ==
    ASSUME IndInv, Others
    PROVE  IndInv'
<1>1. PICK n \in Notes : \/ Index!Write(n) \/ Index!Publish(n)
                         \/ Index!Withdraw(n) \/ Index!Erase(n)
  BY DEF Others, Index!Next
<1>2. IndexType' /\ IndexRows' /\ NotesFresh'
  <2>1. CASE Index!Write(n)
    BY <2>1, WriteFreshens DEF Others, history
  <2>2. CASE Index!Publish(n)
    BY <2>2 DEF Others, history, IndInv, TypeOK, IndexType, IndexRows, NotesFresh,
                Index!Publish
  <2>3. CASE Index!Withdraw(n)
    BY <2>3 DEF Others, history, IndInv, TypeOK, IndexType, IndexRows, NotesFresh,
                Index!Withdraw
  <2>4. CASE Index!Erase(n)
    BY <2>4 DEF Others, history, IndInv, TypeOK, IndexType, IndexRows, NotesFresh,
                Index!Erase
  <2>. QED
    BY <1>1, <2>1, <2>2, <2>3, <2>4
<1>3. TypeOK'
  <2>1. \A d \in Chats : Available(d)' = Available(d)
    BY DEF Others, Available
  <2>. QED
    BY <1>2, <2>1 DEF Others, history, IndexType, IndInv, TypeOK
<1>4. Handlers'
  BY DEF Others, history, IndInv, Handlers
<1>. QED
  BY <1>2, <1>3, <1>4 DEF IndInv

\* The invariant is of the variables alone.
LEMMA StutterKeeps == IndInv /\ UNCHANGED vars => IndInv'
<1>. SUFFICES ASSUME IndInv, UNCHANGED vars PROVE IndInv'
  OBVIOUS
<1>1. \A d \in Chats : Available(d)' = Available(d)
  BY DEF vars, Available
<1>. QED
  BY <1>1 DEF vars, index, history, IndInv, TypeOK, IndexRows, NotesFresh, Handlers

\* Every step keeps the invariant.
LEMMA NextKeeps == IndInv /\ [Next]_vars => IndInv'
BY SendKeeps, ClassifyKeeps, RepairKeeps, CreateKeeps, ConfirmKeeps, GeneralizeKeeps,
   EmbedQueryKeeps, RetrieveKeeps, GroundKeeps, ModelFailsKeeps, LoseKeeps, OthersKeep,
   StutterKeeps
   DEF Next, HandlerStep

-----------------------------------------------------------------------------
(* Theorems                                                                  *)

\* The invariant holds in every state that is reached.
THEOREM Invariance == Spec => []IndInv
BY Start, NextKeeps, PTL DEF Spec

\* Values stay of their types; a search never returns more than the limit.
THEOREM TypeCorrect == Spec => []TypeOK
<1>1. IndInv => TypeOK
  BY DEF IndInv
<1>. QED
  BY <1>1, Invariance, PTL

\* No answer shows a text that was replaced or erased before the question.
THEOREM SourcesAreFresh == Spec => []SourcesAsOfQuestion
BY Safety, Invariance, PTL

\* An answer shows only what its search returned.
THEOREM SourcesRetrieved == Spec => []SourcesWereRetrieved
BY Safety, Invariance, PTL

\* An answer is of the branch that was decided and keeps the rules of
\* ChatResponse.
THEOREM AnswersFit == Spec => []AnswerFitsDecision
BY Safety, Invariance, PTL

\* A message writes at most one note, and the reply tells whether it did.
THEOREM WritesAreConfirmed == Spec => []WritesMatchAnswer
BY Safety, Invariance, PTL
=============================================================================
