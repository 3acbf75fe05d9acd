# Formal models of AutoPilot AI

AutoPilot AI is a FastAPI backend (`src/backend/app`) in which language-model
agents answer questions, triage a mailbox, index documents and run workflows that
pause for a human decision. This directory holds TLA+ models of the parts of it
whose correctness depends on the order in which things happen, TLC
configurations that check them on small instances, and TLAPS proofs of what
holds for every instance. Paths below are relative to `src/backend/app` unless
they start with `src/`.

## Contents

1. The system: components, state, operations, interactions, hard behaviours
2. How code becomes a model: the conventions all modules share
3. The modules, one by one
4. What is checked: runs, bounds, fairness
5. What is proved, and how
6. What the models show about the code
7. What is not modelled, and why
8. Plan

## 1. The system

One process (uvicorn, one event loop) or several replicas behind a load balancer
share one database, one file store and one vector store. Every HTTP request has
its own database session. Sessions read committed data (PostgreSQL's default),
are created with `expire_on_commit=False` (`database/engine.py:39`), and write at
commit only the columns whose value differs from the one they loaded. Nothing in
the code takes a row lock or re-reads a row after an `await`, so *every* `await`
between a read and a write is a window. That is where most of the hazards are.

| Component | State | Operations | Interacts with | Module |
|---|---|---|---|---|
| Workflow lifecycle `features/workflows/lifecycle.py` | `workflow_definitions`, `workflow_versions` (number, spec, `is_active`) | create, clone, add version, activate, resolve live version (seeds the default) | asks resolve their version through it; paused runs pin one | `WorkflowVersions`, `LiveVersion` |
| Executor `features/workflows/service.py`, graph `workflows/*.py`, asks `features/agents/*` | `workflow_runs` (status, version), `workflow_steps`, LangGraph's checkpoint | execute, interrupt at the approval gate, resume, fail | approvals, conversations, event bus | `AgentRuns` |
| Approvals `features/approvals` | `approvals.status` | create for a paused run, decide | resumes runs, records the exchange | `AgentRuns` |
| Agents and tasks `agents/*`, `features/tasks` | `tasks`; the state of one graph run | route, five workers, gate; create, edit, delete a task | memory, retrieval, calendar, web search | `Agents` |
| Conversations `features/conversations` | threads, messages with positions | create, find, read history, record exchange | asks, approvals | `Conversations` |
| Email review `features/emails/service.py` | `emails.status`, draft | triage (sync), retriage, send, discard | agent, SMTP | `EmailReview` |
| Mailbox sync `features/emails/service.py`, `infrastructure/email/imap.py` | the server's mailbox and flags, `emails.message_id` | search, fetch, store, flag | the mail server and its other clients | `MailboxSync` |
| Upload validation and extraction `features/documents/validation.py`, `infrastructure/extraction` | the OCR switch | validate, extract | upload and re-index | `Intake` |
| Documents `features/documents` | `documents.status`, `document_chunks`, files, vectors | upload, ingest, re-index, delete | event bus starts ingestion; retrieval reads the vectors | `DocumentIngestion` |
| Storage and vector stores `infrastructure/storage`, `infrastructure/vectorstore` | collections, points, files; a process's cached collection id | store, read, remove; create the collection on first use | documents, memory, retrieval | `Stores` |
| Chunking `platform/rag/chunking.py` | none | split | ingestion | `TextChunker` |
| Retrieval `features/rag`, `platform/rag` | none of its own | hybrid search, fusion, compression, answer, streamed answer | vector store, keyword index, recorder | `GroundedAnswer`, `ContextBudget` |
| Memory `features/memory` | memory rows and vectors | remember, recall, forget | general agent | `LongTermMemory` |
| Calendar `infrastructure/calendar/local.py` | events | create, delete, free slots | calendar agent | `LocalCalendar` |
| Event bus `platform/events` | subscriptions; a Redis channel between replicas | publish, mirror | everything that publishes | `EventFanout` |
| Live run status `ws/` | one bounded queue and a drop counter per connection | register, broadcast, pump, unregister | the executor's events | `RunEventStream` |
| Notifications and scheduler `features/notifications`, `features/scheduler` | notification rows, jobs | dispatch, digest, run now, pause, mark read | event bus, preferences, three channels | `Notifications` |
| Users and preferences `features/users`, `features/preferences` | one user row, one preferences row | get or create, update | every request; the dispatcher | `Workspace` |
| Database sessions `database/engine.py`, `core/dependencies.py` | the connection pool | first statement, commit, close; nested sessions | every request | `ConnectionPool` |
| MCP `mcp/*`, tool registry `platform/registry` | the registry; a session with a child process or an HTTP server | discover, call, serve | agents, `features/tools` | `McpTools` |
| Start-up and shutdown `main.py`, checkpointer `workflows/checkpointer.py` | resources started; which saver is open | start, fall back, pause, resume, stop | everything | `Startup` |
| Schema migrations `src/backend/alembic` | the schema, its recorded version | upgrade at boot, downgrade | the database | `Migrations` |
| Prompt registry, providers, analytics, metrics, most of core, frontend | constant or external | | | (section 7) |

Interactions are of four kinds: calls inside a request; **events**
(`bus.publish` awaits every handler of the replica, and mirrors to the other
replicas through Redis at most once); **shared rows** that two requests load and
write back; and **external stores** (checkpointer, vectors, files, mailbox) that
share no transaction with the database.

Hard behaviours, component by component, and the property that would be violated:

- *Lifecycle*: the swap of the live version is one transaction, but the set of
  incumbents is read before it (`ExactlyOneActive`); version numbers are read long
  before they are inserted (`NumberedInOrder`); a swap that is refused or lost half
  way must not leave a definition without a live version (`SomeActive`); a clone
  races with edits of its source (`CloneOfLive`).
- *Executor and approvals*: run row, approval row and checkpoint are written by three
  parties in separate commits. A draft must stay unpublished on every path through
  failures, retries and activations (`DraftHeld`), the pinned version must be the one
  resumed (`ResumeFindsItsGate`), a retry must not record twice or restart the step
  count (`RecordedOnceInOrder`), the stored decision must be the one that
  took effect (`DecisionTakesEffect`), a paused run must be findable
  (`PausedIsReviewable`), and everything must end (`EverythingSettles`).
- *Email*: delivery cannot be rolled back, and the row is written after it
  and races with other sends and discards of the draft (`OneOutcome`); a late triage
  overwrites a decision (`SentIsFinal`); a mail must not stay in triage (`ProcessingEnds`).
- *Mailbox*: overlapping syncs, and flags set by a number of another
  connection, which also stands for the id of a message that has none (`SeenIsStoredOnce`); lost flags that eat the batch (`MailIsStored`).
- *Documents*: three stores, four kinds of request, no coordination
  (`RowsHaveContent`, `StatusMatchesChunks`, `NoStaleVectors`, `ProcessingEnds`).
- *Live status*: a slow client must not stop the run, must know what it missed and must
  still learn how the run ended (`GapsReported`, `CatchesUp`).
- *Event bus*: a handler that raises, a Redis that is away or a connection that breaks must
  stop nobody, and what comes back over the channel, late or after a gap, must not
  be handled twice or out of order (`LocalFirstInOrder`).
- *Memory*: a row and its vector are written and deleted one after the other; an orphan
  vector must not bring a forgotten fact back, nor a row name a vector that is not there
  (`RowsDecideRecall`).
- *Retrieval*: two rankings without a common scale (`AgreementWins`), a budget in estimated
  tokens (`FilledToBudget`), and a stream in which retrieval, model and client fail
  independently (`AnswerAccounted`).
- *Chunking*: windows are cut back to a break and overlap; text between two of them must not be
  lost and short words must not be split for good (`NothingLost`).
- *Calendar*: gaps between events that nest, touch and straddle days (`SlotsAreTheGaps`).
- *Conversations*: an exchange is appended long after its history was read, at a position no constraint
  reserves (`HistoryIsAConversation`).
- *Agents*: a plan's tasks are committed before the reviewer sees the answer, and an answer must not claim
  more than was read or done (`AnswersClaimWhatWasDone`).
- *Notifications*: a channel that fails in mid-dispatch, and a digest beside events and beside itself
  (`EachChannelOnce`).
- *Users and preferences*: two first requests each find no row (`OneWorkspace`).
- *Connection pool*: a request keeps its connection while the run it waits for needs a second one
  (`NothingLostUnlessCrowded`).
- *MCP*: a server that answers late, out of order or not at all; names that collide (`ToolsAnswerForThemselves`).
- *Start-up*: a fallback to a local file that the next host does not have (`PausedRunsSurvive`,
  `ProbeNamesTheStore`); stopping in the wrong order.
- *Stores*: two processes create one collection, a server loses its data under a cached id, a reply is lost
  (`AcknowledgedIsKept`).
- *Intake*: a file admitted under one configuration and read under another (`AdmittedIsReadable`).
- *Migrations*: containers that boot at once, stop midway, or have an older image (`ServedOnItsSchema`).

`PROJECT.json` lists every hazard found, at its line, with the properties that cover it.

## 2. How code becomes a model

- **One action per stretch of code between two points where another party can act.**
  A request is a record in a function (`session`, `ask`, `decide`, `request`, `sync`,
  `work`, `client`) whose field `at` names the next such stretch. What the request
  read and uses later is kept in the record; that is exactly what can be stale.
- **A write is what the commit writes.** A column assigned the value it was loaded with is
  not written; `NewStatus` (EmailReview), `Swapped` (WorkflowVersions) and `TearDown`
  (DocumentIngestion) say so because properties depend on it.
- **Unique constraints are guards.** The loser of a race for a unique value has its
  whole transaction rolled back: a `Refuse...`/`...Conflicts` action.
- **Data are model values or small records.** Specs, mails and documents have
  no inside; a batch of chunks is one number; an answer is "draft" or "discarded".
- **Events** that start work (upload, re-index) are the work itself, because `publish`
  awaits its handlers; the mirrored copy of an event is another worker. A publish that
  only notifies is folded into the commit it follows.
- **Faults** are actions guarded by a constant set `Faults`. A fault may
  happen any number of times; the history variable `faults` records the kinds
  met, so that a property can say which kinds it excludes. History variables
  (`faults`, `raced`, `overlapped`, `wasActive`, `since`, `received`, `most`, `first`, `acked` and others, each declared as such)
  are read by properties only, never by a guard.
- **Crash** loses the requests in progress with their uncommitted writes; committed rows,
  checkpoints, files, vectors and mailbox remain. In `AgentRuns` it takes any of them, one alone too: the database may fail
  a request where no handler is (`create_run`, `_finish`, the final `aget_state`, `create_for_run`, `record_exchange`). No code looks for interrupted work at
  start-up (`main.py` lifespan), so restarting is just going on.
- Operators whose comment begins with "Mutant" are broken variants of the definition that
  follows. No specification uses them; each is there to show that the property named with
  it in `PROJECT.json` fails when the code is broken that way.

## 3. The modules

**`LiveVersion`** – the abstract promise of `lifecycle.py`: a growing list of
versions and one pointer that moves in one step.

**`WorkflowVersions`** – the two tables and the sessions of *editors* (create, clone, add,
activate) and *askers* (resolve, seeding the default). `add_version` is three steps: read
the next number, read the incumbents if the version is to be live, insert and commit;
`activate_version` is the same around its target. `Swapped` is `deactivate_all` plus the
target's flag: it clears the rows *read* as active. Listings are not modelled (reads); an
ask that finds the definition changes nothing and is not an action.

**`AgentRuns`** – `ask` goes resolve → create run → supervisor → worker → gate → (interrupt →
AWAITING_APPROVAL → approval row) or (COMPLETED → exchange recorded); `decide` goes test
PENDING → find the pinned spec and next position → load the checkpoint → gate decides →
read the final state → COMPLETED → store the decision → record the exchange. `thread` is
LangGraph's checkpoint (external: modelled by what the executor relies on, a paused thread
runs its gate and a finished one streams nothing). The graph is the default one with one
worker; a resumed graph with one gate cannot interrupt again, so that branch of `resume`
has no action.

**`EmailReview`** – `row` is status and draft; `triaging` are the mails whose sync awaits the
agent; `request` is a reviewer's retriage, send or discard with the row it loaded; `sent` counts
what SMTP accepted. An SMTP error may come after the server accepted.

**`MailboxSync`** – the server's listing, the `\Seen` flags and the table, with syncs that fetch
up to `Limit` unseen messages, check, insert and flag each. A message is flagged by the
number of the connection that searched, which an expunge moves; one that has no Message-ID (`Anonymous`) is stored
under that number. Other clients expunge, and read the messages in `Shared`, possibly before any sync has them (`opened`).

**`DocumentIngestion`** – status, committed chunk batch, file and vectors of a document, with
workers that upload (and so ingest), re-index (and so ingest) and delete. `ForeignKeys` tells
the two databases apart: PostgreSQL enforces them; SQLite, which the tests and the
single-container set-up use, does not, because nothing turns the pragma on. Flushed rows of one session
make another session's flush of the same chunk indexes wait (`Flushed(d) = {}`). A file that will not go is an `OSError` of the local
disk, which `delete_document` swallows (`RemoveFileFails`), or an `UpstreamServiceError` of the S3 adapter, which ends the
request before its vectors (`StorageRefuses`). `contested` remembers the documents at which two requests that ingest met.

**`RunEventStream`** – the executor's events as a growing list, and for every connection its
filter, bounded queue, drop counter, the message the pump holds while it awaits the socket, and
what the client received. On Python 3.12 `queue.get()` of a non-empty queue does not
yield, so taking the event and reading-and-clearing `dropped` are one step. Keepalive pings carry no state.

**`EventFanout`** – per request where it is in `publish` (`local`, one handler at a time, then `mirror`), per
replica whether its connection to the channel is up, what that holds and which event `_consume` is
handing to which handler. `handled` is the history of handler calls. The channel keeps nothing (external): a message
goes to the connections that are up. A replica that could not subscribe at start-up never consumes. What an
allow-listed type or a payload check refuses is one nondeterministic `decodes`.

**`LongTermMemory`** – the committed row of each memory (none, plain, or naming its vector), the vectors, and requests in
`remember` (flush, index, commit), `recall` (match, hydrate) and `forget` (read, delete row, delete vector). A store that
fails may have done what it was asked; a request may end after any step (`Lose`).

**`GroundedAnswer`** – one streamed question from retrieval to its last frame: `ask_stream`, `_fuse` with
reciprocal rank fusion, `_rerank`, the recorder's `chat_stream`, its fallback to `chat`, and `_record`. Rankings, the reranker's
order, the deltas and the failures are arbitrary; a retriever ranks at most `Depth` candidates. Scores are whole numbers of 1/`Scale`, a
common multiple of the denominators from 61 to 60 + `Depth`, so ties are ties.

**`ContextBudget`** – `compress`: one action per branch of its loop. A chunk is a length and a set of words; where a
cut falls is chosen among the lengths `_truncate_to_tokens` can leave.

**`TextChunker`** – `split`: one action per window. A text is its length and its visible positions, which is all that `strip`
and the search for a break look at.

**`LocalCalendar`** – events created and deleted, and `free_slots` with `_merge` and `_working_windows` as loops with a
running value (a recursive function of the rounds), in whole hours.

**`Conversations`** – one thread: created or found, its last `HISTORY_LIMIT` messages read before the run, and the exchange
appended after it at a position taken in one statement and used in others. Messages of one position are read in any order.

**`Agents`** – the specification of the live version with its validators, the supervisor's route and its fallback, what each of
the five workers reads, what its answer claims (`claims`, `grounded`, `sources`, `web`), the gate, and the task table with its
other writers. The planner's commit precedes the gate. The model's reply is any of the shapes the code tells apart.

**`Workspace`** – `get_workspace_user` and `PreferencesService.get`/`update` as read, insert, use. The user's email is unique, so the loser
of a first insert reads the winner's row (one action with its rollback and second read: nothing deletes or replaces a user, so nothing can come in between); the
preferences row has no such constraint.

**`ConnectionPool`** – what each ask holds: its own session's connection from its first SELECT to its commit or end, and a second one
for every session the executor and the recorder open. An ask of the agents creates a run, makes a call at each of its first two nodes or does
without one (a request routed by its verb, nothing found to answer from), records a step per node and finishes the run (`Follows`); an ask
of the documents makes one call or none. `Refuse` is the refusal before anything was done (an unknown thread, retrieval away),
`NodeFails` a node that raises before or after its call. A streamed ask of the documents reads in frames that are made after its session was closed
(FastAPI closes dependencies before the body, below the pinned 0.116): the connection its keyword search takes comes back only when the session
is collected (`Collect`). `POOL` is `pool_size + max_overflow`; who finds no connection
waits until `TimeOut`, which is possible only when nobody is about to return one (`Exhausted`), and loses what `GiveUp` says.

**`Notifications`** – tasks that are handlers of an event or runs of the digest job; per recipient the preference is read, the
address resolved, and every channel tried in turn. The schedule starts a job only when none runs (`max_instances=1`); "run now" always.

**`Startup`** – `create_app` and the lifespan's resources in their order, the checkpointer's choice of store with its fallback, pauses and
resumes of runs, crashes at every statement, and redeployments on a host with no local file (`Redeploy`).

**`McpTools`** – discovery over `MCP_SERVERS`, one session at a time, with a server (external) that logs, sends requests of its own, answers in any order,
partly or not at all, and exits; what `_rpc` takes for the answer; registration under a prefix; calls, and the
server side, which offers native tools only.

**`Stores`** – the five adapters behind two ports. A call looks for the collection, creates it, sends, and gets a reply or none; each process
remembers the collection it has made sure of (Chroma by id). `Wipe` and `Restart` are bounded by `MaxFaults`.

**`Intake`** – `validate_upload` over name, declared type, size and first bytes, then the extractor the stored type selects, with the setting and
the engine of OCR changing in between (`Reconfigure`).

**`Migrations`** – all 18 revisions up and down as sequences of statements, executed one at a time on Postgres (one transaction, for which the boots
beside it wait) and SQLite (statements commit by themselves until a revision has written rows). `Boot`, `Stop`,
`FirstRequest` and `Downgrade` surround them. `SchemaAt` is the schema the revisions lead to one after the other. What an object needs and is needed by decides which statement is refused.

**`WorkflowVersionsProofs`**, **`AgentRunsProofs`**, **`DocumentIngestionProofs`**, **`DeliveriesProofs`**, **`ServicesProofs`**,
**`LongTermMemoryProofs`**, **`WorkspaceProofs`**, **`PlatformProofs`** – the proofs of section 5.

**`MC*`** – the model values and symmetry sets TLC needs; those that hold instances also declare the constants of these and what is assumed of them. `MCServices`, `MCDeliveries` and `MCPlatform` each put modules together that share
no state (one extended, the others as instances) and run one of them at a time (`focus`), so that the state space
is the sum of theirs; a property of an instance is guarded by its focus where it is not already true at rest.

## 4. What is checked

| Run | States | Instance | Shows |
|---|---|---|---|
| `WorkflowVersions_edits` | 177,925 | 2 editors (symmetric), 1 asker, 2 names, 2 valid specs and an invalid one, 2 versions per name | numbering, a live version at all times, clones of what was live |
| `WorkflowVersions_one_editor` | 628,680 | 1 editor, 2 askers, 2 names, 3 versions | exactly one live version; refinement of `LiveVersion` |
| `WorkflowVersions_two_editors` | – | 2 editors | **violation** of `ExactlyOneActive` |
| `AgentRuns_faults` | 81,776 | 2 runs, 1 decision at a time, a gated and an ungated version, all faults without limit | five safety properties of a run and that it ends |
| `AgentRuns_overruled` | – | 1 run, 2 deciders, no faults | **violation** of `DecisionTakesEffect` |
| `Deliveries` | 311,963 | 1 mail with its sync and 2 reviewers, at most 2 deliveries started; 3 messages of which 2 without Message-ID and one read by others, 2 syncs, `Limit` 2; 1 connection following one or all of 2 runs, queue of 2, 6 events; all faults | one reply at most and on record for good, triage ends; seen is stored, once, and mail is stored in the end; exact gaps on a bounded queue, catching up |
| `DocumentIngestion_races` | 1,968,116 | 1 document, 1 uploader, 2 re-indexers (symmetric), 1 deleter, 3 batches, no foreign keys, an object store that refuses, pipeline errors and crashes | no dangling rows, no chunk without its vector (`RowsHaveContent`); INDEXED is searchable and FAILED is empty where no two ingestions met (`StatusMatchesChunks`) |
| `DocumentIngestion_one_ingestion` | 229,940 | 1 document, 1 worker that uploads and re-indexes, 1 deleter, 4 batches, foreign keys, all faults | no stale vectors, PROCESSING ends |
| `DocumentIngestion_deleted_meanwhile` | – | 1 uploader, 1 deleter, no faults | **violation** of `DeletedIsForgotten` |
| `Platform` | 1,316,643 | 3 first requests; 3 deployments with 2 runs; 4 tool servers, 3 lines, 1 call; 2 users, 3 channels, 2 tasks; 3 asks in a thread, history of 4; 1 ask under 3 valid graphs (and 3 refused) and 3 tasks; 2 processes, 3 calls, 1 key on 5 adapters with 1 fault; 1 upload of every kind with 2 reconfigurations; 3 asks (2 of the agents, of two nodes) on 3 connections; 3 containers, one with an older image, on databases at revision 0, 10 and 16 with 2 downgrades | the ten properties of the parts of the platform that share no state |
| `Startup_probe` | – | the boot part alone | **violation** of `ProbeNamesTheStore` |
| `Services` | 531,262 | texts of up to 8 characters with windows of up to 5; up to 3 chunks of 5 kinds in 5 budgets; up to 3 events in 5 hours of 3-hour days; 3 memories, 2 requests; 2 replicas with a request each, 2 events, 2 handlers; 3 chunks ranked by two retrievers, up to 2 deltas | the seven properties of six modules that share no state |

**Why these bounds are enough for the cases that matter.** *Two editors* are the smallest
number that race, and two versions the smallest number to swap; a third version (in the
one-editor run) lets a version be activated, replaced and rolled back to. *Two runs* let one
decider carry state from one decision to the next; runs share nothing else but the live
version. One *mail* is enough because rows, triages and deliveries of different mails share
nothing in `features/emails/service.py`; two reviewers and the sync are all three kinds of
handler. Three *messages* with `Limit` 2 make a batch that is full and a message it leaves out; two of them without Message-ID can take each other's number, and one of the two is read by another client at any time.
One *document* for the same reason as one mail; a deleter with two re-indexers and an upload is
every pair of operations, and every triple. Six *events* over a queue of two overflow
it twice while one message is in the socket. In `Services`, a *text* of 8 with windows of 5 has a second
and third window, cut back to a break or not; the *chunks* are shorter than, exactly at, just over and far over what a budget of 40 tokens
holds, alike by less than four fifths, by exactly that and entirely; three *events* nest, touch, overlap and straddle
midnight in every way; two *events* of a request with a broken connection between them arrive in every subset; three
*chunks* are enough for a tie and for a chunk both retrievers found against one that only one put first. In `Platform`, three *first requests* hold every pair of places of the
get-or-create; the four *tool servers* are one with a name of ours, one of an unknown transport, one that answers out of order and one over HTTP; two *users* and three
*channels* make a failure before, between and after others; three *asks* on three connections fill the pool exactly, and one that ends early leaves
a run on which fewer are in progress; runs have two nodes there, and the gate's third repeats the second's step without a call (the theorem holds for any number); the three *revisions* to start from are an empty database, the last with authentication, and one whose
next revision is refused when it is run again. `MaxVersions`, `MaxBatches`, `MaxSent`, `MaxRetrieved`, `MaxEvents`, `MaxRequests`, `MaxTasks`, `MaxLines`, `MaxCalls`,
`MaxFaults`, `MaxChanges`, `MaxDowngrades` and the calendar's `Horizon` bound what could go on for ever; the other constants are sets.

**Deadlock.** `CHECK_DEADLOCK FALSE` is stated where the system really may rest: when every name is
defined and full (`_edits`, where an editor that has a draft left to activate may have none),
when every mail is answered, all mail is stored and seen or the last event is sent (`Deliveries`), when the document is deleted, when a text is split, a question answered or no id left (`Services`), when every request, task and call is over (`Platform`). The other
runs check for deadlock. The asks that wait on one another for a connection are no deadlock of the model, because the pool's timeout ends the wait: what that costs is what
`NothingLostUnlessCrowded` says.

**Fairness.** `FairSpec` states weak fairness of a request's own next step, per request. It is what the event
loop gives: an accepted request's coroutine is resumed until it ends, because the agent,
embedding, SMTP and IMAP clients it awaits have timeouts. It is *not* stated of arrivals, user actions,
faults or activations. In MailboxSync fairness includes the next fetch: clients go on syncing.
In RunEventStream it covers the pump's send: a socket either drains or is closed, and closing is
always possible. Liveness properties exclude crashes explicitly, because a crash does strand work.

**Conditions in properties.** `OneOutcome`, `SentIsFinal`, `SeenIsStoredOnce`, `NoStaleVectors`
and others name the overlap or the fault they do not survive. The condition is a fact about the code:
each was first stated without it and refuted (section 6).

`NothingLostUnlessCrowded` speaks of refusals, and of the audits of answers, only while fewer asks than connections were in progress (a stream
whose connection is not collected yet counts as one), `HistoryIsAConversation` of whole exchanges
only while none overlapped, `OneWorkspace` of one value only while one request found no row, `AcknowledgedIsKept` of keys at which no calls overlapped or failed, and
`ServedOnItsSchema` of what SQLite has not kept half of; each says what does hold without its condition too.

`FilledToBudget` is stated with the token the code may overrun, and `AnswerAccounted` leaves out a client that has left.

## 5. What is proved

`WorkflowVersionsProofs` proves, for **every** set of names, specs, editors and askers and
every bound (1313 obligations, no assumption but the named ones of `WorkflowVersions`:
`DefaultName` is a name, `NoSource` is not, the default spec compiles, no request is both editor and
asker, the bound is a natural number):

| Theorem | Property | Run that checks it |
|---|---|---|
| `TypeCorrect` | `TypeOK` | `WorkflowVersions_edits` |
| `VersionsNumberedInOrder` | `NumberedInOrder` | `WorkflowVersions_edits` |
| `NeverWithoutLiveVersion` | `SomeActive` | `WorkflowVersions_edits` |
| `ClonesAreOfLiveVersions` | `CloneOfLive` | `WorkflowVersions_edits` |
| `OneEditorOneLiveVersion` | `ExactlyOneActive`, assuming one editor | `WorkflowVersions_one_editor` |
| `FlagsImplementOnePointer` | `ImplementsLiveVersion`, assuming one editor | `WorkflowVersions_one_editor` |

None of the properties is inductive. `IInv` adds `SessionInv`, what a request in progress knows about
rows that others may change under it (`Fits`): the number it read is at most one above the
rows committed since (so a commit that passes the unique constraint appends exactly the next
number), the target it will activate still exists (rows are never deleted), a draft's session clears no flag, and an asker never
edits. With it, `SomeActive` survives a swap: whatever incumbents the swap clears, its own target is active
after it. `IInvOne` adds, for one editor, that at most one row is active (`OneLive`) and that the
incumbents a session saw are still exactly the active rows when it commits (`SeenAll`), which is
the fact two editors break. The proof of a step has one lemma per action that commits (`CommitCreateInv`, `CommitAddInv`, `CommitSwapInv`); the
steps that only move a session share `EditsStartWithin` and `SessionOnly`.

A clone takes its spec long before it is committed. `IInvClone` says that an active row has been active (`ActiveHaveBeen`) and that a session about to
commit a clone holds a spec its source was live with (`CloneSessions`); rows never lose that history (`HistoryKept`), so the clone's first version is no
draft of its source even when the source was edited meanwhile.

The refinement goes step by step. The live number of a name is its one active row (`LiveIs`, from `IInvOne`). Committing a
new definition is the abstract `Define` (`CreateDefines`), an added version is `Publish`, with or without `Switch` at once
(`AddPublishes`), a swap is `Switch` (`SwapSwitches`), and every other step changes no row and stutters (`SameRowsSameLive`). With two editors
two rows may be active (`WorkflowVersions_two_editors`), and no number is *the* live one.

`AgentRunsProofs` proves, for every set of runs, decisions and versions and every set of faults (1311 obligations, no assumption but those of `AgentRuns`):

| Theorem | Property | Run that checks it |
|---|---|---|
| `DraftIsHeld` | `DraftHeld` | `AgentRuns_faults` |
| `ResumedAtItsGate` | `ResumeFindsItsGate` | `AgentRuns_faults` |
| `PausedRunsAreReviewable` | `PausedIsReviewable` | `AgentRuns_faults` |
| `OneDeciderRecordsOnce` | `RecordedOnceInOrder`, assuming one decision at a time | `AgentRuns_faults` |
| `OneDeciderTakesEffect` | `DecisionTakesEffect`, assuming one decision at a time | `AgentRuns_faults` |

The state is spread over a row, a checkpoint, an approval and a transcript, each written in a commit of its own. `IInv` relates them per run (`RunInv`: only a gated graph
pauses, and an approval means it did), says how far the ask that made the run has come (`AskInv`), and what a decision may rely on while
others decide the same run (`DecideInv`: past the resume the checkpoint holds *a* decision, not necessarily its own, which is why the last two theorems need one decision at a
time and `AgentRuns_overruled` refutes them with two). With it the first three hold for any number of decisions and any faults. `IInvOne` adds that a decision at
work is alone (`DecideAloneInv`), how many entries and steps are recorded at each of its places (`RecordsInv`), and, as long as no resume failed and nothing died (`Uncut`),
that checkpoint and row agree on it (`EffectRunInv`, `EffectDecideInv`).

`DocumentIngestionProofs` proves, for every set of documents and requests, with and without foreign keys (1766 obligations, no assumption but those of `DocumentIngestion`):

| Theorem | Property | Run that checks it |
|---|---|---|
| `ContentIsThere` | `RowsHaveContent` | `DocumentIngestion_races` |
| `VectorsAreAccountedFor` | `NoStaleVectors` | `DocumentIngestion_one_ingestion` |
| `StatusTellsWhatIsFound` | `StatusMatchesChunks` | `DocumentIngestion_races` |

What others may take from a request is the problem here: a batch of vectors is in the hands of one request until its rows are committed, and a deletion holds ids it read
earlier. The invariant gives every request the batches it holds (`WorkInv`), says no two hold the same (`Apart`), and that a batch in nobody's hands is *spent* (`Spent`), so no later
step stores it again: rows therefore never name a batch whose vectors a slower request has yet to delete (`DocInv`). `NoStaleVectors` speaks of documents nobody raced for, after no failure but a local file that would not go (a refusal of the object store leaves
every vector, section 6); `IInvAlone` says of those documents that one request at most is at work and accounts for every vector by a row or by that request (`VectorsInv`). `StatusMatchesChunks`
speaks of documents that no two ingestions met at. `IInvOne` says of each of them that the one request ingesting it finds the status where it left it, or the document deleted
(`SoleInv`, `StatusInv`), beside any number of deletions; an ingestion that arrives while another is at work makes the document contested and leaves the invariant true of nothing but the others.

`DeliveriesProofs` proves, for every set of mails, reviewers, connections, runs, messages and syncs, every set of faults, every queue size and limit and every number of events
(1864 obligations, assuming `QueueAssumption`, that a queue holds at least one message: `QUEUE_SIZE` is 100):

| Theorem | Property | Run that checks it |
|---|---|---|
| `OneReplyOnRecord` | `OneOutcome` | `Deliveries` |
| `SentStaysSent` | `SentIsFinal` | `Deliveries` |
| `EveryGapIsReported` | `GapsReported` | `Deliveries` |
| `WhatIsSeenIsStoredOnce` | `SeenIsStoredOnce` | `Deliveries` |

*The review of mail.* `OneOutcome` counts deliveries and says nothing of who is about to make one. The invariant adds what lets a handler in and what it may
rely on: a request at work has loaded a status that admits it (`Admitted`, with a delivery behind every request that is to record one); at a mail that was
never raced for at most one handler is at work and the row is still the one it loaded (`Alone`); and then one delivery is on record or about to be
(`Accounted`). `OnlyRows` says that nobody handles a mail that is not stored. A step at one mail leaves the others as they are
(`OtherRows`); `raced` grows exactly when `Alone` would fail.

*Live status.* Queue and counter account for every followed event since the last one that left the queue (`Queued`): the queue holds the newest of them in order, and the counter is the
number of the others; the message in the socket and those received carry exact counts already (`InTheSocket`, `Received`, `Exact`). A full queue gives up its head *and counts it*, which
keeps the count because the head is the oldest that waits.

*The mailbox.* A message is stored under one name at a time (`NamedOnce`), and while no other client expunges, the place a sync
fetched a message at is still that message's (`Unmoved`, `InPlace`), so what it flags is what it stored (what is flagged beside that, another client has opened); with expunges the property claims less, and less is shown.

`ServicesProofs` proves of the modules that `MCServices` holds, for every value of its constants (3739 obligations):

| Theorem | Property | Run that checks it |
|---|---|---|
| `NothingIsLost` | `NothingLost` | `Services` |
| `BudgetIsFilled` | `FilledToBudget` | `Services` |
| `SlotsAreFound` | `SlotsAreTheGaps` | `Services` |
| `EventsComeInOrder` | `LocalFirstInOrder` | `Services` |
| `MemoriesGoByRows` | `RowsDecideRecall` | `Services` |
| `AnswersAreAccountedFor` | `AnswerAccounted` | `Services` |
| `AgreementIsAhead` | `AgreementWins`, assuming at most 61 candidates per retriever | `Services` |

*The chunker*, for texts, windows and overlaps of every size, without an assumption.
`NothingLost` speaks of the end of the loop only. The invariant `CoveredSoFar` says of every round that a stretch no
longer than the overlap starts at or after the next window or is whole in a chunk. A round either has the stretch in its window
(`StretchInWindow`: strip takes no visible character, so it is in the chunk) or the window ends before the stretch does, and then the next
window, which starts `chunk_overlap` before that end, starts no later than the stretch (`CutStretchIsAhead`).

*Compression* (`TextsAssumption`: a retrieved chunk has characters, since the chunker emits none that is empty; `BudgetsAssumption`: budgets are whole numbers, negative ones too).
What is used is the sum of what the kept chunks cost. The sum is defined by recursion over the kept chunks, so `BudgetInv` carries *some* function of running sums
that starts at 0 and grows by each chunk (`Running`); a kept chunk extends it by one place, and `CostIs` shows that it is the one the definition names, by the least place at
which two such functions would differ. That a cut overruns the limit it was made for by at most one token (`CutFits`) is arithmetic on the 3.5 characters a token has. What was passed over stays so
because what is left only shrinks and what is kept only grows (`PassedOver`).

*The calendar* (`DayAssumption`: a day has a whole number of hours, at least one, and the horizon is a whole number). The state hardly matters: the invariant
`CalendarInv` is that events end after they begin, and what is to be shown is that the search is right for every such set and every question. It follows the code's loops.
Sorting has an answer (`CanBeSorted`) and it is sorted (`OrderedIsSorted`). After each round of `_merge` the intervals cover the same hours as the events merged so far, and are apart with at least one free
hour between two (`JoinsOne`, `MergeKeeps`), so an hour is free exactly if no merged interval has it (`BusyCovers`). After each round of the search of a window (`PassesOne`) the slots found are exactly the *holes* before the
cursor, where a hole is a run of hours that no interval so far has and that no longer run contains; an interval closes at most one of them and
changes none before it (`HoleStays`, `HoleWas`, `HoleIsNew`). Two windows never touch the same day (`DaysApart`), so one more day adds its own slots behind the others
(`OneMoreDay`), and a hole of a window is a slot of the property and conversely (`HoleIsSlot`, `SlotIsHole`): working hours do not reach over the window's ends.

*The event bus* (assuming `PlacementAssumption`, every request runs on a replica, and `HandlersAssumption`, there is a handler). `FanoutInv` says per request that at its home exactly the calls it has
got to are in the log (`HomeInv`), and per replica that its log is in order (`LogInv`), that what is still buffered for it is newer than all it has handled, in order, and mirrored
from elsewhere (`BufferInv`), and that so is the event its consumer has in hand (`ConsumerInv`). A broken connection only takes from the buffer. That events of a request are mirrored
one after the other, each before the next is published, is what keeps a buffer in order; the origin filter keeps home out of it.

*A streamed question.* `AnswerInv` says for each place of the pipeline which frames have been sent and whether the one call has its record. *Fusion*
(`ScaleAssumption`: scores are exact). A chunk both retrievers found weighs at least 2/(60 + depth), one that one found at most 1/61; `TwoBeatOne` shows the first larger up to a depth of 61. At 62 they tie and
the ids decide, so the theorem's hypothesis is exact; the setting (`rerank_candidates`, 20) and `top_k` (at most 20) are below it.
`FusionInv` says at which places the candidates are the fused order.

*Memory* is the invariant of `LongTermMemoryProofs` below, at the instance.

`WorkspaceProofs` proves what a user's session rests on: the user's two rows, the thread, the agents that answer, and their tools, what they are notified of and what
their requests hold of the pool (4207 obligations):

| Theorem | Property | Run that checks it |
|---|---|---|
| `OneUserOneRow` | `OneWorkspace` | `Platform` |
| `HistoriesAreConversations` | `HistoryIsAConversation` | `Platform` |
| `AnswersAreTrue` | `AnswersClaimWhatWasDone` | `Platform` |
| `ToolsAnswer` | `ToolsAnswerForThemselves` | `Platform` |
| `OnceOnEveryChannel` | `EachChannelOnce` | `Platform` |
| `EnoughConnectionsLoseNothing` | `NothingLostUnlessCrowded` | `Platform` |

*The two rows* (`RequestsAssumption`: the requests are finitely many). The number of rows is bounded by the number of requests that found none because the requests that are about to insert count
as well (`RowsAreAccounted`: rows plus requests at "add row" are at most those that found none, and who has not looked yet is not among these). When only one ever found
none and is about to insert, there is no row, and the value last asked for is the default it inserts; an update that began from the current value leaves
the only row with its own (`LastIsKept`).

*The thread* (`HistoryAssumption`: the limit is even; the code's is 10). What an ask read stays true because messages are only added (`MessagesInv`: who has recorded has exactly
its two messages there). A history is the last messages by position, so whole exchanges only if the cut falls between two: `InPairs` says that while appends came one after another the positions
are 0 to 2k - 1, each used once, questions at the even ones with their replies behind them. Then the last `HISTORY_LIMIT` of them begin at an even position, which is where an even limit is needed.
The append under way holds position 2k, and a second one beside it is an overlap.

*Agents* (`AsksAssumption`: a task no ask planned belongs to none; `MAX_TASKS` a natural number). `WorkedInv` follows an ask from the route: nothing is planned, and nothing claimed, until the planner's commit; from there
on what the answer claims is what was planned unless a reviewer rejected it or the request failed (`Honest` for what an answer says of its readings). New tasks get numbers nobody has
(`WorkTypeOK`: the numbers in use have a largest), so a task of an ask is one it planned.

*Tools* (`ServersAssumption`: `MCP_SERVERS` is a list). The session with a server sends two requests and takes the last response it reads. `InOrder` says of an orderly server that its last response is to the
second request if and only if nothing is left to be answered, so one that has answered everything was not mistaken for another. `NamesInv` gives every name in the registry the
first server that was read and offers it, and says that whatever a server that was read offers is registered: a collision is refused in favour of a name that is there. `CountsInv` accounts for the definitions.

*Notifications* (`ActiveAssumption`: users are counted; `ChannelsAssumption`: channels are a list without repetition, not empty: `in_app` is always built). `NoteInv` says where a task is in its list: users it has not come to are
unheard, the one at work was tried on exactly the channels before the next, and the others were passed over or tried on all; that the count of deliveries is the number of users addressed follows.

*Connections* (`POOL` a natural number; `RequestsAssumption`). `CountedInv` bounds the connections held by the pool's, and the asks that hold one or wait for one by `most`. What a request that runs has on record is every use it is
past, in order, audits excepted once asks were as many as connections; what a refused one has, while they were fewer, is all of that and the failure of a run it began (`RecordInv`). No length or sequence of uses is assumed: a request may
have made every call, some or none. Exhaustion needs every connection held and no second one in use, hence as many asks as connections (`HoldersInv` says who holds what, after the end too), so a request
is timed out only when `most` has reached `POOL`.

`PlatformProofs` proves of the modules that `MCPlatform` holds, for every value of its constants (4371 obligations):

| Theorem | Property | Run that checks it |
|---|---|---|
| `PausedRunsAreKept` | `PausedRunsSurvive` | `Platform` |
| `WhatIsAdmittedIsReadable` | `AdmittedIsReadable` | `Platform` |
| `StoresKeepTheirPromise` | `AcknowledgedIsKept` | `Platform` |
| `ServedSchemaIsTheVersions` | `ServedOnItsSchema` | `Platform` |

*Start-up* (`ConfigurationsAssumption`: a deployment's database is SQLite or PostgreSQL). `BootInv` says which resources are held at each statement of the lifespan (`HeldOpen`) and that, while no
deployment fell back, checkpoints are where the rows are: a paused run, or one whose pause is not committed yet, has its checkpoint in that store.

*Intake* (`MAX_PAGES` a natural number). What is stored was admitted (`StoredInv`); what failed or was indexed was so for its content, or the deployment has changed (`FailedInv`, `IndexedInv`).

*Stores* (`CallsAssumption`: every call runs in one of finitely many processes; `KeysAssumption`: there is a key). `LockInv` makes the lock of a process and the call that makes sure of the collection the same fact; `KnownInv` says a
known collection is there unless the data was wiped, and `ConflictInv` that a conflict needs a second process. `KeptInv` is the promise with what is in flight: at a key nobody raced for, one call changes it at most,
its effect is there before its acknowledgement, and apart from that the store holds exactly what was acknowledged.

*The schema* (`VersionsAssumption`: the versions to start from are versions of the chain; `ReplicasAssumption`: no container is called "nobody" or "operator"). The run starts from three
versions; the theorem from any, with any containers and bounds. The 18 revisions are one concrete chain, and their content is read off once: every object but the role gets the place in the chain at which it
is created (`Born`, `EachIsCreated`, `EachCreatesAndDrops`), those that went with authentication the place at which they are dropped (`Gone`, `Removes`), and nothing is needed before it is there (`Needed`). From there on the schema
*at a time* is a set of two inequalities (`Stage`): each statement of an upgrade leads from one time to the next (`UpWrites`) and finds what it
needs (`UpPossible`), each statement of a downgrade undoes one more (`Restored`, `DownPossible`), and `SchemaAt` is the stage at the end of a revision (`SchemaAtIs`).
The invariant `SchemaInv` says what each container and the operator may be doing (`MovingInv`), where the reserved email is healed (`EmailInv`), and the schema at *every statement*, committed and not, for a crash may come at each: on
PostgreSQL the stage but for types a downgrade left (`PostgresInv`); on SQLite the stage, or, once an upgrade was stopped midway, a schema with an object of a revision later than the stamped one (`SqliteInv`, `Later`).
That object is what keeps the second case closed: the next attempt meets it at its own statement at the latest and is refused there, so the container fails and the version never catches up with a schema that is not its own.

`LongTermMemoryProofs` proves, for every set of memories and requests and every `TopK` (402 obligations, no assumption),
the theorem `RowsDecide`: `RowsDecideRecall` of `LongTermMemory` always holds; `MemoriesGoByRows` takes it to the instance that `Services` checks.

The invariant says of each request what it may rely on while others go on (`Knows`): what it remembers has no row yet and is remembered by
nobody else (`Apart`); what it forgets was given out and is remembered by nobody, so no later commit can bring it back; a vector it has to delete
belongs to no row, so a row never loses the vector it names (`Named`); and what was forgotten when its recall began still is
(`Forgotten` only grows). `Goes` proves for every step at once that the other requests keep all this.

The library's induction theorems take an operator as a parameter, which the provers cannot instantiate. That a finite set of numbers has a least and a largest element follows from the
well-foundedness of `<` (`Least`, `Largest`), and an induction over a data structure becomes an argument by its least counterexample. Where a loop is a recursive function of the rounds,
the induction is stated over the *set* of rounds after which a fact holds (`ByInduction`: a set with 0 and the successor of each of its numbers holds all numbers), which is a parameter the provers can take; `Rounds` and `AfterIs`
show from it that such a function exists and has the values its equations say.

Every invariant and action property of the passing runs, and the refinement of `LiveVersion`, is stated by a theorem; those about one editor or one decision at a time, and `AgreementWins`, under the hypothesis
named in the tables.
Only model-checked: that a sorted order exists for every set of scores (`Fuse` takes any that is sorted), and all liveness properties (`EverythingSettles`, `ProcessingEnds`, `CatchesUp`, `MailIsStored`),
which the prover does not treat, nor `ENABLED`.

## 6. What the models show about the code

Runs that end in a violation, with the sentence of the repository that says otherwise quoted in
`PROJECT.json`:

- **Two versions can be live** (`WorkflowVersions_two_editors`). `deactivate_all` clears what its own
  session read as active. `lifecycle.py:8` promises "never zero or two"; zero is proved impossible,
  two is not. A partial unique index on `(definition_id) WHERE is_active` would refuse the second.
- **A decision can be overruled after it took effect** (`AgentRuns_overruled`). `decide` tests
  PENDING before the resume and writes the status after it; of two overlapping decisions
  the first to resume the graph wins the answer, the last to commit wins the row. The exchange
  is then recorded twice as well (`RecordedOnceInOrder` fails with two deciders).
- **A deleted document can still be retrieved** (`DocumentIngestion_deleted_meanwhile`). Deleting
  while its vectors are stored and their rows uncommitted finds no ids to delete; the vector half of
  retrieval never asks the database.
- **The readiness probe names a store that is not in use** (`Startup_probe`). On Postgres without the checkpointer's package (an extra the image
  does not install) `start` falls back to a local SQLite file, and `checkpointer.py:61`, "Which store checkpoints land in", goes on answering by
  `DATABASE_URL`. Until somebody looks at the log, paused runs are lost with the container. `src/DEPLOYMENT.md:92` says that the checkpointer is
  always on the ephemeral disk, which is so of these deployments only.

Conditions the passing properties need, each of them refuted without it on the same models:

- a crash in mid-run, or a database error outside the executor's handler (`workflows/service.py:155`), leaves it RUNNING (`EverythingSettles`); either between the interrupt and the approval row leaves a paused
  run nobody can find (`PausedIsReviewable`); a resume that fails or dies after the graph took
  the decision makes the retry keep the first decision (`DecisionTakesEffect`);
- two overlapping sends deliver twice (`OneOutcome`); a triage that ends after a reply was recorded reopens the mail
  (`SentIsFinal`), because `_triage` writes over whatever the row has become;
- `Limit` messages that lost their flag hide all newer mail (`MailIsStored`), because a stored message
  is skipped before it would be flagged; `features/emails/service.py:118` calls a lost flag harmless;
- a message another client reads before a sync has it is never stored: a sync searches the unseen (`MailIsStored`, `SeenIsStoredOnce`);
- a sequence number used on a second connection flags another message after an expunge, and a message without a Message-ID passes for the
  one stored under its number (`SeenIsStoredOnce`);
- two ingestions of one document (`StatusMatchesChunks`): `ingest` tests the status it loaded and claims the document without looking again, and every re-indexing
  sets the status back to UPLOADED, so two pass a guard whose comment says "replayed/duplicate events are no-ops" (`ingestion.py:65`). The flush of the second meets the
  chunks of the first, and it marks FAILED what retrieval finds; no fault is needed. A re-indexing that loaded UPLOADED, in turn, takes the chunks of an INDEXED document, leaves its
  status, and has its own ingestion refused;
- an object store that refuses to remove a file (`NoStaleVectors`): "then file + vectors best-effort" (`documents/service.py:103`) holds on a local disk, but the S3 adapter's
  `UpstreamServiceError` (`s3.py:143-144`, `s3.py:173-177`) is not caught at `documents/service.py:115`, and every vector of the deleted document stays where retrieval searches;
- two first reads of the preferences insert two rows, and which one a later read gets is open (`OneWorkspace`); an `update` equal to the value its
  request loaded is not written although another request has changed the row since;
- two exchanges that take the same position interleave (`HistoryIsAConversation`; that two overlapping decisions record one exchange twice is `AgentRuns`' to show);
- as many asks at once as the pool has connections wait for one another until the pool's 30 seconds are over: audits are lost, a run stays RUNNING
  because its failure could not be written either, or was never created (`NothingLostUnlessCrowded`). One ask fewer than connections is enough for all of them to finish, the connections counted that streams have left to the garbage collector;
- a server that loses its collection makes every call of a running process fail for good, Chroma because its id is cached, Qdrant because its
  name is; of two processes that create a Qdrant collection at once one gets the other's conflict as its error (`AcknowledgedIsKept`);
- an upgrade stopped in mid-revision on SQLite, and a downgrade on Postgres, which leaves the enum types behind, make the next upgrade fail on what is
  there already (`ServedOnItsSchema`).

What the models show beside their properties:

- `compress` may exceed its budget by one token: the mark of a cut is added after the cut was made to the limit, and a text of
  exactly the limit is kept whole, counted one token more than the limit allows, and reported as truncated;
- "agreement between two independent methods is the signal" (`fusion.py`) holds up to 61 candidates per retriever: with 62, 2/122 is no more than 1/61. `rerank_candidates`
  has no upper bound;
- an event is handled at most once per *replica*, and so up to once per replica in all: a handler that
  writes (re-indexing, notifications) acts that often;
- orphan vectors take places among the `top_k` matches of a recall before they are skipped, so a recall may answer less than there is;
- a client that leaves while a provider without streaming is answering leaves no audit record: `CancelledError` is no `Exception`;
  one that leaves in mid-stream leaves a record without an error;
- a rejected answer keeps the `web_sources` of the draft it replaced (the gate rewrites the answer, its grounding and its document sources), while an approved one is
  recorded without them (`approvals/service.py:115–134` does not pass them, `agents/router.py:118–129` does);
- an MCP server that exits after its handshake makes a call return `{}` rather than fail, and a tool listed without a schema is called without
  its arguments although `mcp/adapter.py:51` means it to accept anything (`McpTools`);
- an image admitted while OCR was on fails at its re-indexing after OCR was switched off, although the comment at
  `extractors.py:141–143` says that whoever reaches the reader had it enabled (`Intake`).

## 7. What is not modelled, and why

Listed per component in `PROJECT.json`. In short:

- *Language-model, embedding, reranking and search providers*: clients of external services without state; that they fail, or answer late, is a
  fault of the module that calls them.
- *Prompt registry*: a constant table and lookups. *Metrics*: in-process counters updated between awaits. *Analytics and dashboard*, and all listings: reads.
- *Core*: what `create_app` requires of the settings is in `Startup`; middleware, error mapping and logging keep no state.
- *Frontend*: a client of the API; every request it can send is an action of a module.
- *Partly modelled*: the unstreamed `ask` of retrieval is the streamed pipeline without its frames and no module of its own; BM25 scores are any ranking; the memory
  manager's forwarding to other components; the Google calendar, which forwards to a service; the registries of agents and providers, filled by one thread at import time.

Of *connections*, `ConnectionPool` leaves out the sessions of event handlers and jobs, the other endpoints, and clients that leave a stream. An event mirrored to another replica
that re-indexes is a re-indexer of `DocumentIngestion`; a mirrored upload event, which would ingest twice, meets the same guard as two re-indexings and has no action of its own.

Retries inside SQLAlchemy or HTTP clients, and PostgreSQL's deadlock detector, are not modelled: a transaction it
aborts is an `Abort`/`Crash`/`Lose` of the models. Parsers, OCR, cosine similarity and request signing are libraries or arithmetic no property depends on.

The modules are checked one beside another wherever the code lets them share no state. Where two components do share state they are in one module: runs with approvals
(`AgentRuns`), rows with vectors (`DocumentIngestion`, `LongTermMemory`), agents with the task list (`Agents`), the scheduler with notifications.

## 8. Plan

Done, in this order: the live version, the human gate, the mailbox, the documents, the live status; the event bus, memory, retrieval and the algorithms; then
the parts around them: start-up, sessions and pool, workspace, conversations, agents, notifications, tools, stores, intake and migrations. What is left:

1. The unstreamed ask in `GroundedAnswer`, and the order of the HTTP middlewares around a failing request.
2. A composition of `Notifications` over `EventFanout`: what one event delivers over several replicas, with a set of pending deliveries as
   the abstract specification.
