# Verification of the personal notes RAG application

This directory holds TLA+ models of the application under `src/app/src/notes_rag`: a FastAPI
process, one or more index worker processes, PostgreSQL with pgvector, a local Ollama server, and a
page of JavaScript. Users keep notes; workers cut each version of a note into chunks and embed them; a
chat answers from the notes that the search finds, from general knowledge, or by creating a note.

Paths below are relative to `src/app/src/notes_rag`, unless they begin with `specs/` or `migrations/`.

## 1. Inventory

| Component | Code | State | Operations | Status |
|---|---|---|---|---|
| Notes, indexing jobs, workers | `api/notes.py`, `services/notes.py`, `services/indexing.py`, `worker.py`, `runtime.py`, `persistence/repositories.py`, `domain/notes.py`, `domain/indexing.py`, migrations 002 and 003 | tables `notes`, `indexing_jobs`, `note_chunks`; the transaction of each handler and worker | create, get, update, delete, retry; claim, embed, publish, fail | modelled |
| Chat | `api/chat.py`, `services/intent.py`, `services/rag.py`, `services/retrieval.py`, `domain/chat.py`, `llm/ollama.py` | what a handler remembers across its awaits | classify, repair, create, generalize, search, ground | modelled |
| Authentication | `services/authentication.py`, `api/auth.py`, `domain/users.py`, `runtime.py` 98-157, migration 001 | tables `users`, `sessions`; the throttle in memory; two cookies | register, login, me, logout | modelled |
| Due times and leases | `repositories.py` 224-256, `worker.py`, `domain/indexing.py` 105-158, migration 003 | `available_at`, `lease_expires_at`, `attempt_count` | claim in order, back off, poll | modelled |
| Pages of the list | `repositories.py` 148-166, `api/notes.py` 64-114 | the client's cursor | list | modelled |
| Chunking | `domain/indexing.py` 18-60 | the locals of a function | `chunk_note` | modelled |
| Web interface | `web/app.js` | `state`, the document, timers | bootstrap, render, save, delete, retry, login, logout, poll | modelled |
| Row-level security | `persistence/rls.py`, policies in the migrations | a transaction-local setting | set_current_user | not modelled (section 6) |
| Startup, health, configuration | `main.py`, `config.py`, `persistence/database.py`, compose files, scripts | none of its own | wiring | not modelled (section 6) |
| Tests, tooling, documents | `tests`, `.specify`, `.agents`, `scripts/*.ps1` | | | not part of the program |

How they interact. A handler writes a note and its job in one transaction (the outbox); workers find
jobs by polling; the search joins chunks and notes on the version and the status; the chat reads
through the search and writes through the same `NoteService` as `POST /notes`. Every handler that
changes something first asks for the session of the request. The page polls the list while a note is in
preparation. Nothing but the database is shared between processes, and nothing but cookies between tabs.

What is hard here:

* Every transaction runs at READ COMMITTED, so each statement sees another state of the tables, and a
  statement that waits for a row lock goes on with the row as it finds it afterwards. The version
  check of `save` takes no lock.
* A worker keeps one transaction open over the calls to the model server, up to a minute long, and
  holds its job row all the while. `save` and `DELETE` wait for that row. `DELETE` does it while it
  holds the note's row, which the worker then wants: they can deadlock.
* A process may die, or its connection be lost, at any point.
* The model server may return anything, fail, or time out.
* Between the search of a chat and the answer that shows its sources lies another model call.
* Registration and login are several transactions each, and the throttle counts an attempt before the
  password is looked at.
* Handlers read the clock before their transaction, so rows are not written in the order of their times.
* The tasks of a page share `state` and the document, and each goes on with what it finds there after a
  fetch.

`PROJECT.json` lists each hazard at its line with the properties that are about it.

What makes each component correct, in a sentence. *Notes and indexing*: the search finds a note under
the text it has now or not at all; each version has one job that is not lost; work ends, and whoever
waits is answered. *Chat*: an answer is of the branch that the classifier decided, shows only what its
search returned, contradicts no edit that was over before the question, and writes at most the one
note it confirms. *Authentication*: one account per username, a throttle that neither leaks nor refuses
without cause, no session after its end. *Queue*: no job in two hands, and no job that waits for its
work is ever stuck. *Pages*: each untouched note once. *Chunking*: every word in some chunk, no chunk
above the target, none redundant. *Web*: a list with a note in preparation goes on being polled, the page
shows a user exactly when it knows one, and a save writes over what its form showed.

## 2. Modules

| Module | What it is |
|---|---|
| `SemanticIndex` | the abstract promise of indexing to the search: three variables, no jobs, versions, locks or workers |
| `IndexingDomain` | the values: notes, jobs, and the functions that compute the next one (`domain/notes.py`, `domain/indexing.py`) |
| `NoteIndexing` | handlers, workers and PostgreSQL, statement by statement; its properties; `Abstract`, the mapping to `SemanticIndex` |
| `Chat` | one chat message from `POST /chat/messages` to its answer, over `SemanticIndex` |
| `Authentication` | accounts, sessions, throttle, cookies |
| `WorkQueue` | the jobs in time: due times, leases, order, attempts, the loop of the workers |
| `NotePages` | the keyset cursor, over handlers that create, edit and delete notes |
| `Chunking` | `chunk_note`, round by round |
| `WebClient` | one tab of the page as tasks, timers and clicks, over an abstract server |
| `NoteIndexingInv`, `ChatInv`, `AuthenticationInv`, `ChunkingInv` | the inductive invariants `IndInv` (those of the other modules are at their ends, or at the head of their proofs); the first also has `SteadyInv`, which holds while no two saves of a note overlap, and `HeldRows`, who waits for whom |
| `...Proofs`, `NoteIndexingSafety` | the proofs that they are invariant, one lemma per action, and the theorems that follow |
| `MC...` | instances for TLC: symmetry sets |

`NoteIndexing` and `Chat` meet in `SemanticIndex`: the one implements it (`ImplementsIndex`), the other runs
over it, so what is shown of `Chat` holds above the detailed model. `WorkQueue`, `NotePages` and
`WebClient` each add to the notes one thing that `NoteIndexing` leaves out (time, order, the page) and
take from it what they need in the coarsest form that covers it.

Operators whose comment begins with "Variant" are what the operator after them would be if the code
had a plausible bug. Nothing uses them in a specification; `PROJECT.json` names for every property a
variant that breaks it.

### NoteIndexing

A step is one SQL statement that reads shared rows, waits for a row lock or commits. `notes`, `jobs`
and `chunks` hold committed rows only; `held[p]` are the job rows that the open transaction of `p` has
locked; a rollback therefore only forgets `held` and the local variables.

| Code | Actions |
|---|---|
| `POST /notes` | `CreateNote` (note and job in one commit) |
| `GET`, then `PATCH` with If-Match | `ClientGet`; `UpdateGet` (`NoteService.update`, own transaction); `SaveSelect`, `SaveScan`, `SavePurge`, `SaveFlush` (`NoteRepository.save`) |
| `DELETE` | `DeleteNote`, `CascadeRow`, `DeleteCommit` |
| `POST .../retry-indexing` | `RetryGet`; `RetrySelectNote`, `RetrySelectJob`, `RetryFlush` (`retry_failed`); `RetryReread` |
| `IndexWorker.run_once` | `ClaimNext`, `NoteForJob`, `EmbedSucceeds` or `EmbedFails`, `Publish` or `FailFlush` |
| PostgreSQL, processes | `Crash`, `DeadlockVictim` |

Choices a reader should know:

* A *text* is a number that stands for title and content; it is drawn when the edit commits
  (`RoomForText` reserves it before), so each committed edit has its own. A job carries the number of
  the text it was made for as its id.
* `SaveFlush` merges INSERT, UPDATE and COMMIT. The unique index is checked first and needs no lock of
  the note's row; the foreign key and the UPDATE do need it (`NoteLocked`).
* The DELETE of `save` picks its rows in one step and then locks them one by one; a row that was
  waited for is tested again, as READ COMMITTED does. Rows may be met in any order.
* `OrmSet`: SQLAlchemy writes a column only if the new value differs from the one it loaded, so a
  status that another transaction changed in between survives an assignment of the loaded value.
* Due times and leases are left to chance here: any claimable job may be claimed at any time, which
  covers every order that `WorkQueue` allows. A claim of a job whose attempts are used up breaks the
  CHECK constraint, raises and writes nothing: no step.
* A worker that is a deadlock victim, or meets an exception nobody catches, ends and is started again:
  the worker is idle.
* Left out: timestamps, `semantic_error_code`, similarity, users other than the owner. The status
  `processing` of a note is never set by the code.

### Chat

A step ends where the handler awaits. The environment (`Others`) is `SemanticIndex!Next`, so what is
shown about `Chat` holds above the detailed model. Ids of erased notes may be used again by a later
note, which allows more than the UUIDs of the program do.

| Code | Actions |
|---|---|
| `IntentService.classify` | `Classify`, `Repair`, and `Route`, the part of `RagService.respond` up to its next await |
| `NoteService.create`, then the answer | `Create`, `Confirm` |
| general answer | `Generalize` |
| `RetrievalService.search` | `EmbedQuery`, `Retrieve` |
| grounding and `verified_sources` | `Ground` |
| errors of the model server | `ModelFails` |
| restart, database error, client gone | `Lose` |

The classifier's output is any record of the schema or garbage; a title or content is null, blank or
not; citations are any set of ids, with one that no note has. `asked` and `wrote` are history: the
notes when the message arrived, and how many notes it has written.

### Authentication

Every call of the gateway (`runtime.py`) is a transaction of its own, so a handler is one action per call, and
goes on with what it read. The tabs of a browser share its cookies; the server sees one address for them.
A token is the number of the session it opens. The throttle is memory of the one server process.

| Code | Actions |
|---|---|
| `POST /auth/register` | `Register` (schema passed), `LookUpName`, `AddUser` (unique index, CHECKs) |
| `POST /auth/login` | `Login` (`LoginThrottle.check_and_record`), `Verify` (find user, verify, clear), `AddSession`, `Welcome` (the answer sets cookies) |
| `GET /auth/me` | `Me`, `CurrentSession`, `CurrentUser` |
| `POST /auth/logout` | `ReadCsrf` (the page), `SendLogout`, `MutationSession` (session and CSRF), `Revoke`, `Goodbye` (the answer deletes cookies) |
| clock, network, process | `Tick`, `Lose`, `Restart` |

Hashing, the strength of tokens and the text of errors are left out: a token is a value that nobody
guesses, a password is right or wrong. A display name may pass the schema and fail the rules of `User`
(`fits`). `admitted`, `created`, `out` and `unheard` are history.

### WorkQueue

A worker's `run_once` is one transaction: the claim is written at the commit, or undone by a crash. `Lease`,
`Poll` and delays are numbers of ticks. A time stamp is kept as the time that is left, so that time may go
on for ever in finitely many states, and the order of `available_at` as the relation `ahead`.

The `available_at` of a job that a creation, a save or a retry adds is the clock that the handler read before it
opened its transaction (`services/notes.py:32` and `50`, `api/notes.py:174`), and the transaction may then wait, a save
for the job row that a worker holds (`repositories.py:187`). So a handler takes its place in the order
when it reads the clock (`ReadClock`, behind all that is due), and its job has that place when it
commits (`Enqueue`), however late: it comes before jobs that have become due meanwhile, and is claimed before
them. `Lined` are the jobs in the queue and the handlers that have a place and no job yet.

| Code | Actions |
|---|---|
| `claim_indexing_job`, then `note_for_job` | `ClaimNext`, `ClaimRejected` (the CHECK on `attempt_count`), `NothingDue`, `NoteForJob` |
| `complete`, `fail_transient` | `Publish`, `EmbedFails` |
| the loop of `worker.py`, compose | `Wake`, `Crash`, `Restart` |
| creations, saves, retries, deletions | `ReadClock`, then `Enqueue` or `GiveUp` (refused, failed, lost); `Remove`, `Supersede` |

A job is *stale* when its version is no longer its note's, which takes two saves that race
(`NoteIndexing` shows how). Such a job is claimed, skipped and left in `processing` (`Leave`), again at the end
of each lease. When its attempts are used up, every further claim of it raises, and as it keeps its place in the order, the jobs behind it
wait for ever: `WaitingJobsAreTried` has to except the jobs behind one that is `Wedged`. It takes
two saves that race, five leases and no further save of that note; that nothing less does it is proved
(`OutstandingIsCurrent`, `NothingWedges`).

### NotePages

A handler is `Create`/`Insert` or `Update`/`Compare`/`Save`: the clock is read in the first step, the row
written in the last, and `Compare` is the unlocked version check, so updates may be lost here too. `Delete` and
`Tick` are single steps. `List` is one page: one query, `limit + 1` rows, `(updated_at, id)` downwards
from the cursor. Pages are sets, since the order decides how they are shown. One client lists; two would
not meet.

### Chunking

The words of the content are numbered; a piece is a run of them, a paragraph a number of words, the title a
number of tokens. `CheckTitle` is the refusal of a title that leaves no room; `Extend` and `Flush` are the
two branches for a paragraph; `Cut` and `Keep` the loop over the words of one that does not fit; `Finish` the tail.
The overlap must be smaller than the target, which `chunk_note` checks first (an assumption here). A
step is a round of a loop, so the properties hold of every intermediate state and are proved as invariants
without induction over data.

### WebClient

A task is an async function between two awaits: `Serve(t)` is the server's part of a fetch, `Resume(t)` what
the task does with the answer up to its next fetch.

| Code | Actions |
|---|---|
| `renderNotes` | `BeginRender`, `ListArrives`, `NoteArrives` (`Display`, `SetTimer`, `RenderFails`) |
| `saveNote`, delete, retry | `Save`, `Delete`, `Retry`; `VersionArrives`, `SavedArrives`, `RetriedArrives` |
| `bootstrap`, `authForm`, logout | `Login`, `Logout`; `LoginArrives`, `LogoutArrives`, `UserArrives` |
| titles, Cancel, links of the chat, views | `OpenNote`, `ShowView` |
| `setTimeout`, `clearTimeout` | `TimerFires`, `StrayFires`: a timer that was overwritten in `state` can no longer be cleared |
| other tabs, workers | `OthersChange`, `Index` |

The server is atomic here (its interleavings are `NoteIndexing`). Left out: the registration button,
which changes nothing but the status line; the chat form, which does not touch what is modelled;
pages of the list after the first, which the page never asks for.

## 3. Runs

| Run | Instance | Shows |
|---|---|---|
| `two_tabs` | 1 note, 2 tabs, 1 worker, 4 texts, 2 attempts, 1 crash (690,000 states) | types and the CHECK on attempts (`TypeOK`); chunks match the text of their version (`ChunksMatchText`); the job of the current version is never lost (`CurrentVersionHasJob`); a deletion leaves nothing (`NothingLeftBehind`); a completed job stays (`CompletedIsFinal`); refinement of `SemanticIndex` (`ImplementsIndex`) |
| `two_workers` | 1 note, 1 tab, 2 workers, 3 texts, 2 attempts, 2 crashes, fairness (12,600) | without overlapping edits, a completed job means a searchable note (`CompletedIsSearchable`) and a failed one a note that offers the retry (`FailedIsRetryable`); a pending note becomes ready or failed, or is erased (`IndexingSettles`); every handler ends with an answer (`EveryRequestIsAnswered`) |
| `chat_answers` | 3 notes, 1 chat, limit 2, 4 texts, fairness (1,240,000) | the safety properties of `Chat`; every message is answered |
| `auth` | 1 browser with 2 tabs, 1 name, 2 passwords, at most 2 attempts per window of 1, 2 sessions, 1 restart | one account per name, both halves of the throttle, sessions end, revoked tokens leave the browser |
| `queue` | 2 jobs, 2 handlers, 2 workers, 3 attempts, delays 1 and 2, lease 1, 1 stale job, 1 crash, fairness (337,000) | one worker per job, only stale jobs use up their attempts, a waiting job is tried, also when handlers commit late with an earlier clock |
| `pages` | 3 notes, 2 to a page, 2 writers, 3 writes, 3 instants (870,000) | no note twice, every untouched note once, the last page is reached |
| `chunking` | titles of up to 4 tokens, up to 3 paragraphs of up to 8 words, target 5, overlap 2 | fit, coverage with exact overlap, progress, greediness, and the end of the loops |
| `web` | 1 user, 1 note, 2 tasks at a time, 2 clicks, 1 change by others, fairness (144,000) | the list is polled, the view follows the user, rows in preparation settle |

Why these bounds are enough to be interesting. Two tabs and one worker are the least that has a lost
update, a stale publish, both deadlocks (tab against worker, tab against tab) and a retry against an
update; four texts allow a note to be created and updated three times, so that a version number is taken
back by a lost update and given out again. Two attempts let a job fail both ways. In `chat_answers`
three texts may be indexed while a fourth is kept for the message (`Room`), so that a limit of two leaves one
of three searchable notes out and still shows several sources. In `auth` a
maximum of two in a window of one tick, over four instants, lets attempts grow old one by one, and two tabs are what
a race for a name, a late answer or a logout against a login needs. In `queue` the third attempt is the last
and a lease runs out while the work goes on; two handlers and two jobs are the least in which a new job
that is due is passed by one that was stamped before it. That delays are cut to the maximum is proved (`DelayBounded`). In `pages`
three notes give two pages and a third note that may change sides, and ties in time occur. In `chunking` eight words
are cut up to five times with the smallest limit (3) and just fit or just do not at every limit. In `web` two
tasks are what an overlap needs; timers start tasks without clicks.

`CompletedIsSearchable`, `FailedIsRetryable` and `IndexingSettles` are run with one tab on purpose: with
two tabs they do not hold (see `retry_without_work` below: a note is left pending for ever). What breaks
the first two is two saves of one note that overlap, and nothing else: without that they are proved for
any number of tabs (section 5).

`NotePages`, `Chunking` and `WebClient` may stop (the client has its last page, the function has
returned, the page is idle), so their runs do not check for deadlock; all others do.

### Where documents and code differ

Each of these runs checks one sentence of the documents and finds the code not to keep it. The last column
says under which condition it is proved to be kept: the exact reach of the disagreement.

| Run | Sentence | What happens | When not |
|---|---|---|---|
| `lost_update` | `specs/001-personal-notes-rag/contracts/openapi.yaml:243` "... preventing lost updates." | two PATCHes with the same If-Match both pass the unlocked check | no two saves of the note overlap (`SavesSeeWhatTheyReplace`) |
| `retry_without_work` | `contracts/openapi.yaml:183` "... returned to pending." | a retry overlaps the lost update of another tab: it resets a job of a version that is taken back, and writes `pending` on a note whose current job is completed: no worker takes it up | no two saves of the note overlap (`RetriesLeaveWork`) |
| `logout_keeps_cookie` | `contracts/openapi.yaml:71` "Session revoked and cookies expired ..." | with Secure cookies the name has the prefix `__Host-`, and the deletion is sent without the attribute `Secure`: a browser ignores it. The session is revoked all the same | without Secure cookies (`PlainCookiesExpire`) |
| `silent_overwrite` | `quickstart.md:110` "Confirme conflito de versão sem sobrescrita silenciosa ..." | `saveNote` reads the version just before it names it in If-Match, so the conflict is never seen | the page runs one task at a time and nobody else changes its notes (`SavesOfAPageAlone`) |

Others were met while modelling, and no run is spent on them:

* `data-model.md:83` "... increments version, sets `pending` ...": `save` loads the row, waits for the worker's job row, and then
  assigns `pending` to a row it loaded as `pending`; nothing is written, and the new version keeps the
  `ready` or `failed` of the old one. With one tab the worker then repairs it (`IndexingSettles`).
* `contracts/openapi.yaml:405-406`, the 409: the loser of two updates may meet the unique index of the jobs
  instead, and the error is caught nowhere.
* `data-model.md:148` "Obsolete/deleted jobs end ...": see `WorkQueue` above.
* `spec.md:273-274` "fontes excluídas ... nunca devem ser exibidas": sources are not looked up again after
  the model call.
* `spec.md:247` and `253-254` ask for guidance when a query, a title or a content is empty. Strings of
  blanks pass the schemas and raise further in, which nobody catches (`Route`, in `Chat`).
* `state.editing` survives a logout. The next render asks for that note, and when its 404 comes back
  inside `bootstrap` the user who has just logged in is shown the form of the login again (`RenderFails`).

A sentence in the documents about restarts (`spec.md:279`) is kept in the sense of `WritesMatchAnswer`:
no message writes twice. A client that never got its answer and sends the message again does create
a second note; no request carries an idempotency key.

## 4. Fairness

`NoteIndexing!FairSpec`:

* strong fairness of the steps of a handler: uvicorn runs every coroutine, and the waits among them
  are for row locks, which PostgreSQL grants in the order of arrival;
* weak fairness of a worker's steps that wait for no lock (each model call has a timeout of 60 s), and
  strong fairness of those that do;
* strong fairness of the claim of each job: workers poll for ever, and take the job that has been due
  for longest. `WorkQueue` looks into that: a job that is due can be passed, but only by the jobs of
  handlers that read the clock before it was due and commit later, by each such handler once
  (`DueJobsWaitForEarlierClocks`), and each poll takes the one first (`PollsAreDecided`). There are finitely many such
  handlers, so every due job is tried (`WaitingJobsAreTried`), unless a wedged job comes first, which takes two saves that overlap;
* weak fairness of `DeadlockVictim`: the deadlock detector runs after `deadlock_timeout`. It is needed only where a
  note is deleted or saved twice at once (`DeadlocksNeedDeletes`).

`Chat!FairSpec` has weak fairness of each handler. `WorkQueue!FairSpec`: time passes, and a worker that can go
on does; one that ended is started again (`restart: unless-stopped`, `src/compose.yaml:9`, which the service of
the worker takes from `x-app`). No
fairness between `Publish` and `EmbedFails`, and none of `ReadClock`, `Enqueue`, `GiveUp` or `Remove`: a handler that has
read the clock may keep its place for ever without a job, which keeps nobody from being claimed. `WebClient!FairSpec`: the
server answers each fetch, the event loop resumes each task and fires timers, and pending notes
are prepared in the end, as `IndexingSettles` has it. `NotePages!FairSpec`: the client asks for the next
page. `Chunking!FairSpec`: the function runs.

No fairness is assumed of users, of success against failure, or of crashes, which are bounded
(`MaxCrashes`, `MaxRestarts`): with infinitely many no work is ever done.

## 5. Proofs

Proved with TLAPS for any number of notes, tabs, workers, attempts, texts, crashes, chats, browsers,
names, jobs, handlers, tasks, paragraphs and words, and any limits, leases, windows and page sizes:

| Module | Theorem | States |
|---|---|---|
| `NoteIndexingProofs` | `Invariance`, `TypeCorrect` | `[]IndInv`, `[]TypeOK` |
| `NoteIndexingSafety` | `ChunksAreCurrent` | `[]ChunksMatchText` |
| | `NoOrphans` | `[]NothingLeftBehind` |
| | `JobForCurrentVersion` | `[]CurrentVersionHasJob` |
| | `NoTwoJobs` | `[]OneJobPerVersion` |
| | `CompletedStays` | `CompletedIsFinal` |
| | `Refinement` | `ImplementsIndex` |
| | `SteadyInvariance` | `[]SteadyInv`, if `[]SavesApart` |
| | `CompletedSearchable` | `[]CompletedIsSearchable`, if `[]SavesApart` |
| | `FailedRetryable` | `[]FailedIsRetryable`, if `[]SavesApart` |
| | `OutstandingIsCurrent` | `[]JobVersions` (no job is stale), if `[]SavesApart` |
| | `SavesSeeWhatTheyReplace` | `NoLostUpdate`, if `[]SavesApart` |
| | `RetriesLeaveWork` | `RetryReturnsToPending`, if `[]SavesApart` |
| | `OneTab` | all five, if there is one tab |
| | `LockedRowsStay` | `[]HeldRows` |
| | `WaitsStayInANote` | `[]WaitsInANote` |
| | `DeadlocksNeedDeletes` | `[]DeadlocksTakeADelete` |
| `ChatProofs` | `Invariance`, `TypeCorrect` | `[]IndInv`, `[]TypeOK` |
| | `SourcesAreFresh` | `[]SourcesAsOfQuestion` |
| | `SourcesRetrieved` | `[]SourcesWereRetrieved` |
| | `AnswersFit` | `[]AnswerFitsDecision` |
| | `WritesAreConfirmed` | `[]WritesMatchAnswer` |
| `AuthenticationProofs` | `Invariance`, `TypeCorrect` | `[]IndInv`, `[]TypeOK` |
| | `UniqueAccounts` | `[]OneAccountPerName` |
| | `WindowSlides` | `[]ThrottleWindow` |
| | `RefusedDue` | `RefusalIsDue` |
| | `AcceptedLive` | `AcceptedIsLive` |
| | `RevokedLeaves` | `[]RevokedTokenLeaves` |
| | `PlainCookiesExpire` | `LogoutExpiresCookies`, if `~CookieSecure` |
| `WorkQueueProofs` | `Invariance`, `TypeCorrect` | `[]IndInv`, `[]TypeOK` |
| | `NoJobTwice` | `[]OneWorkerPerJob` |
| | `OnlyStaleWedge` | `[]OnlyStaleJobsWedge` |
| | `QueueIsALine` | `[]Line` |
| | `DueJobsWaitForEarlierClocks` | `OnlyEarlierClocksPass` |
| | `PollsAreDecided` | `[]OneFirst`, if there are finitely many jobs |
| | `NothingWedges` | `[](NoneStale /\ \A j \in Jobs : ~Wedged(j))`, `ClaimsSucceed`, if `MaxStale = 0` |
| `NotePagesProofs` | `Invariance`, `TypeCorrect` | `[]IndInv`, `[]TypeOK` |
| | `PagesDiffer` | `[]NoRepeat` |
| | `PagesCover` | `[]UntouchedListed` |
| | `EveryPageExists` | `[]OnePage` |
| | `PagesDescend` | `CursorDescends` |
| `ChunkingProofs` | `Invariance`, `TypeCorrect` | `[]IndInv`, `[]TypeOK` |
| | `PiecesFitTarget` | `[]PiecesFit` |
| | `Coverage` | `[]PiecesCoverContent` |
| | `Progress` | `[]PiecesProgress` |
| | `Greedy` | `[]PiecesAreFull` |
| | `PiecesAreFew` | `[]PiecesBounded` |
| | `RoundsEnd` | `[]RoundsLeft`, `RoundsDescend` |
| `WebClientProofs` | `Invariance`, `TypeCorrect` | `[]IndInv`, `[]TypeOK` |
| | `ListIsPolled` | `[]PollAlive` |
| | `ViewIsOfUser` | `[]ViewFollowsUser` |
| | `SavesOfAPageAlone` | `SaveReplacesWhatWasShown`, if `[]Alone` |

Each is of `Spec`, without fairness. Assumptions: null values are no proper values, tabs are not workers, jobs are not handlers,
maxima, leases, lifetimes and page sizes are positive numbers, the overlap is smaller than the target, note ids
of `NotePages` are finitely many numbers, bounds are numbers. They are the named ASSUMEs of the modules.

The conditions in the table are of two kinds. `MaxStale = 0`, `~CookieSecure` and finitely many jobs are values of
constants: instances, of which the last is every database there is. `[]SavesApart` and `[]Alone` are
about a behaviour: `SavesApart` says that no two saves of one note are between their SELECT and their COMMIT at
once, which leaves open saves of other notes, any saves one after the other, and everything that deletions, retries,
workers and crashes do meanwhile; `Alone`, that a page runs one task at a time and that nobody
else has changed its notes. Neither can be dropped, nor can half of `Alone`: TLC finds the property violated at once.
`MaxStale = 0` is what `OutstandingIsCurrent` shows of the detailed model.

*NoteIndexing.* None of the safety properties is inductive. That chunks match the text of their
version needs to know why a version number is never given to two texts that both get published: a
lost update can take the number back, but `ChunkRows` says that chunks rest on a completed job of
their version, `save` never deletes a completed job, and the unique index refuses a second job of that
version, so the number cannot be given out again. `JobRows` ties the job of the current version to the
current text. `Locks`, `WorkerHolds` and `RequestHolds` say which rows a transaction may hold at each of
its steps, which is what makes the two-step DELETE, the cascade and the worker's commit safe:
a worker's job row cannot vanish or be completed by anyone else while it is held. `OneDelete` keeps two
cascades of one note apart.

The proof has one lemma per action. Actions that write no table follow from `HandlerReads` and
`WorkerReads`; a worker's commit from `CommitInv`; a handler's commit from `HandlerWrites`. The refinement maps
a commit of a handler or a worker to the step of `SemanticIndex` it is, and everything else to a
stutter; `IndInv` is needed so that `Publish` puts the current text into the index.

*No two saves at once.* The six properties under `[]SavesApart` rest on `SteadyInv`, which is inductive beside
`IndInv`. `JobVersions`: no job is of a later version than its note, and an outstanding one is of the present
version. `MaySave` says why `save` keeps it so: the version tells a client which text it saw, the save still finds the version
it read, and it has locked the outstanding jobs of the note or will wait for them, so that none is left when it
commits; a job that another transaction inserts or resets meanwhile is excluded by the lock on the note's row or is one of those.
`MayRetry`: a retry holds a job of its note, by `JobVersions` the one of the present version.
`WorkersSteady` is about `OrmSet`: a worker that read the note as failed writes no status, and need not.

*Who waits.* `HeldRows` says that a locked row exists and is of the note its holder is about; so `WaitsInANote`, and a
circle of waits is about one note. A worker and a retry wait for nobody but a DELETE whose cascade is under way;
a save waits for these three or for another save. So a circle has a DELETE in it, or consists of saves, which
lock the rows of several outstanding jobs in different orders. That takes two saves at once, and a lost update
before it (with six texts TLC shows it); hence the premise of `DeadlocksTakeADelete`.

*Chat.* That a source is no older than the question needs two facts from earlier steps: while a
handler is at work every text that some note has is the one it had when the message arrived or was
written later (`NotesFresh`, which every step of `SemanticIndex` keeps because texts are numbered), and the
index finds a note under its text or not at all (`IndexRows`). So what the search returns is no older
either, and grounding shows a part of that, whatever was erased in between. `HandlerInv` says of each
step of a handler what its decision is and whether a note has been written, so that the confirmation and
every failure tell the truth. Both are stated of one handler's values, so that a step of one handler is
proved by looking at that handler alone.

*Authentication.* The throttle keeps only the attempts that may still count, so that `ThrottleWindow` is about
a history: `ThrottleInv` says that the attempts on record are the last of those admitted and all others are
old, from which both halves follow, that no window has too many and that no refusal lacks a cause. `TokenInv`
says that a token is known to one browser and to none before its login is answered; this is why no late answer
brings a revoked token back. `LogoutInv` has the revocation before the answer.

*WorkQueue.* The invariant is nearly the properties themselves: a claim needs the row lock that nobody
else has, and a worker that holds a job has, by the claim's guard, left room for its attempt. The lemmas
are about the order, which every commit must keep in step with the times that are left. `Line` says that it is a
strict total order of `Lined`, the jobs that are there and the handlers that will add one. Each step keeps the line, takes one
out of it, puts one in, or gives the place of a handler to its job (`QueueSteps`). What is put in is a handler, behind all
that is due, or a job whose work failed, behind all that is due by the end of its delay; so nothing gets before a
job that is due and waits but by taking the place of a handler that was before it (`OnlyEarlierClocksPass`). Among finitely
many jobs that may be claimed there is one first (`OneFirst`).

*NotePages.* What was seen is behind the cursor unless its update was lost (`SeenBehind`), what is untouched
is seen or ahead (`UntouchedAhead`). That a note which moves goes to the front needs `SaveOrder`: a save
that loses no update carries a time no earlier than the row's, although it may write long after it read the clock.
That a page has exactly one answer (`OnePage`) is a fact about finite sets under a strict order; that its last
note is below the cursor it was asked with (`CursorDescends`) makes the walk through the list a descent.

*Chunking.* `ReadInv`, `CurrentInv` and `WordsInv` say where each loop is: the piece that may still grow and
the words that are left begin where the last piece has it (`NextPiece`) and end with what was read.
Progress needs that a cut leaves more than the overlap, greediness that the paragraph which did not fit
is longer than what was left of the limit. `RoundsLeft` says that three numbers are
natural: the paragraphs to go, the loop the function is in, the words to cut; `RoundsDescend` has each round
lower them in lexicographic order. `PiecesBounded` follows from the progress.

*WebClient.* A render that ends sets a timer if its list needs one, and everything that clears a timer begins
a render; so the polling survives every overlap. The view needs to know that an answer to
`/auth/me` names a user exactly if it is no failure (`UserAnswers`). For a page that is alone, `SoleInv` follows its one task: the form
holds the version that the tables have, or the task is one that renders it anew or has just written.

The proof of each has one lemma per action.

Only model-checked: what is temporal under fairness (`IndexingSettles`, `EveryRequestIsAnswered`,
`EveryMessageIsAnswered`, `WaitingJobsAreTried`, `PagingEnds`, `ChunkingEnds`, `PendingRowsSettle`), which
TLAPS has no support for. Of three of them the half that is safety is proved: the loops of `chunk_note` descend
(`RoundsEnd`), and so does the cursor (`PagesDescend`), and those before a due job never get more
(`DueJobsWaitForEarlierClocks`); what is left
is that the steps are taken. Every other property that a run checks is stated by a theorem, the four of the
violation runs under the condition in section 3.

## 6. Not modelled

* *Row-level security.* The policies of the migrations let a transaction see the rows of the user it named
  with `set_current_user`, the first statement of every transaction that is about notes. The models have the rows of
  one owner, or select by owner (`WebClient`), which is what the policies come to. That they are enforced
  is PostgreSQL's doing, and a model of it would assume what it shows.
* *Startup, configuration, health.* Wiring without a state of its own. Settings are constants of the models,
  restarts are actions, the error envelope is the status of an answer.
* *Tests, tooling, documents.* Not part of the running program. The documents are what the runs of section
  3 quote.
* *Inside a component*: similarity and the ranking of a search, prompts, excerpts, hashing, formatting. No
  property is about them.
