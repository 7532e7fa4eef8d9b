# ChatDBA in TLA+

TLA+ models, TLC runs and TLAPS proofs for ChatDBA, the assistant that optimises
SQL statements and diagnoses database faults over DingTalk, HTTP and a binlog of
alarms. Paths such as `tasks/service.py` are relative to `src/chatdba` of the
repository.

- [Parts of the system](#parts-of-the-system)
- [Modules](#modules)
- [Runs](#runs)
- [Proofs](#proofs)
- [Disagreements found](#disagreements-found)
- [Not modelled](#not-modelled)
- [Plan](#plan)

## Parts of the system

Three processes (`docker-compose.prod.yml`) share one Postgres database: the HTTP
API, the DingTalk client and the alarm worker. Each is restarted when it dies
(`restart: unless-stopped`). The last two run the task services in their own
process; the API builds them on first use.

| Part | State | Operations | What is hard |
|---|---|---|---|
| Alarm worker `alarm_binlog/` | checkpoint file; per session: anchor, loop checkpoint, column names, reader position; per alarm: attempt | connect, anchor, read event, deliver (diagnose, push, save), retry, reconnect | crash and restart, duplicate binlog events, ids that commit out of order, a push whose answer is lost |
| Task services `tasks/`, `worker/` | `optimization_tasks`, `optimization_events`, `agent_token_usage` rows | `run_sql`, `run_diagnosis`, `create_task_record`, `get_task` | several threads on one service; every statement may fail and is only logged; two statements per event |
| Qwen gateway `models/` | thread-local task id, usage records, operation | start/finish collection, calls | shared by all threads |
| SQL workflow `workflow/sql_optimization.py`, `report_builder.py` | graph state per task; the composer's last retrieval debug, shared | parse, collect, block or diagnose, compose with Qwen or fall back | shared composer, degraded evidence |
| Fault workflow `workflow/fault_diagnosis.py` | graph state per task | parse input, TopSQL, metrics, adjudicate, report, each with a fallback | partial failures of four services |
| DingTalk conversation `dingtalk/handler.py`, `channel.py`, `progress.py` | pending schema request per conversation; text buffer per message | route, run, ask for the schema, resume, reply | a thread per message on shared state, read-then-act |
| DingTalk delivery `dingtalk/sender.py`, `responder.py` | card state and text fallback per message | create, stream, finish card; webhook fallback | half-failed cards, order of chunks |
| DingTalk runtime `dingtalk/runtime.py`, `sdk_runtime.py` | none of its own | acknowledge and start a thread | acknowledgement before the work, redelivery |
| HTTP API `app/main.py` | lazily built services; a queue per stream | `/v1/stream`, task endpoints | worker thread and generator, client disconnect, cached fallback service |
| Routing and evidence `db/` | connection per call | resolve tables to one instance, collect EXPLAIN and DDL | ambiguous tables, several instances, partial evidence |
| Evidence agents `fault/` | MCP session shared by threads | TopSQL, metrics by MCP then HTTP, CMDB | session reuse, interleaved responses |
| Case retrieval `cases/` | none | filter, score, deduplicate; vector search with fallback | agreement of the two paths |

What makes each of them correct:

- **Alarm worker**: an alarm is pushed a bounded number of times whatever
  happens; it counts as processed only after a push; the checkpoint never goes
  back, and within a session it never rises past an alarm that was not pushed; rows
  the reader delivers are not skipped; the worker comes back after whatever fails.
- **Task services**: a task ends once and its record moves forward; the record
  never contradicts the answer; a poller never sees a status without its event;
  tokens are booked on the task that spent them; every call returns.
- **Conversation**: a schema reply continues the statement it answers; a
  conversation does not stay in the reply state; every message gets an answer.
- **Delivery**: a report is delivered by card or by text, not by halves of both,
  and its stream is finished once.
- **SSE stream**: one final event, after everything else, and then `done`.
- **Routing**: evidence is only collected from an instance that holds all the
  tables of the statement; the evidence status says what was really collected.
- **MCP client**: a caller gets the response to its own request.

The `hazards` of `PROJECT.json` list the places in the code where this can go
wrong, with the properties that watch them.

## Modules

A module per part. Where parts interact through shared state they are in one
module (the threads of a service, the deliveries of a message, the diagnoses on
one MCP client) or one extends the other (`SqlWorkflow` extends the router and the
retriever). Where one part is called by another and returns, the caller's module
takes the outcome as an input and the callee's module says which outcomes there
are: `Conversation` and `SseStream` take the ends of a task from `TaskService` and
`SqlWorkflow`, `FaultDiagnosis` takes the metrics from `MetricAgent`, and what
`Conversation` says is what `CardStream` sends.

| Module | Extends | Code |
|---|---|---|
| `AlarmDelivery`, `AlarmBinlog`, `MCAlarm`, `AlarmBinlogProofs` | | `alarm_binlog/` |
| `TaskLifecycle`, `TaskService`, `MCTask`, `TaskServiceProofs` | | `tasks/`, `worker/`, `models/` |
| `Conversation`, `ConversationProofs` | | `dingtalk/handler.py`, `channel.py`, `schema_qualification.py`, `runtime.py` |
| `CardStream`, `CardStreamProofs` | | `dingtalk/sender.py`, `responder.py`, `progress.py` |
| `SseStream`, `SseStreamProofs` | | `app/main.py` |
| `MetadataRouter` | | `db/metadata_router.py` |
| `CaseRetrieval` | | `cases/retriever.py`, `cases/pgvector_retriever.py` |
| `SqlWorkflow`, `SqlWorkflowProofs` | `MetadataRouter`, `CaseRetrieval` | `workflow/sql_optimization.py`, `workflow/report_builder.py`, `db/routed_collector.py` |
| `FaultDiagnosis`, `FaultDiagnosisProofs` | | `workflow/fault_diagnosis.py`, `fault/cmdb.py` |
| `MetricAgent`, `MetricAgentProofs` | | `fault/agents.py` |
| `MCMessage` | `SqlWorkflow`, `FaultDiagnosis`, `MetricAgent`, `CardStream` | instances for TLC |
| `MCHttp` | `SseStream`, `MetricAgent` | instances for TLC |

### AlarmDelivery, AlarmBinlog, AlarmBinlogProofs

`AlarmBinlog` is the alarm worker: one thread in `run_alarm_binlog_service` with
`anchor_to_latest_id`, `stream_insert_events`, `extract_inserted_alarm_records`,
`retry_deliver_alarm`, `deliver_alarm`, the checkpoint store and the webhook.
`pc` says where the thread stands; there is an action for each call that can fail
or during which the world can change, and one for each way it fails. The local
variables of the code keep their names (`checkpoint`, `latest_id`, `alarms`,
`alarm`, `attempt`).

The environment is the MySQL server: `Insert(rows)` commits one statement's rows
and logs them as one event, `RotateBinlog` starts a new binlog file, and
`OpenStream` shows the reader the events of the current file only, which is what
`BinLogStreamReader` does without a position. `StreamReplays` is the reader's own
reconnection. Faults (a call that raises, a push whose answer is lost, a crash)
are actions limited by `MaxFaults`. Rows of one statement carry ascending ids.
The lengths of the sleeps are left out.

The checkpoint is written twice, in the file by `deliver_alarm` (`SaveCheckpoint`)
and in the loop after it and `retry_deliver_alarm` have returned (`AlarmProcessed`),
so that the two differ in between. `pushes` counts the POSTs that reached the robot
and `shown` holds the alarms the group has seen: the robot may answer HTTP 200 and
refuse the message in the body, which the sender does not read (`SendRefused`).
`ProcessedWasPushed` and `SavedWasPushed` are about the POST, and `ProcessedWasShown`
shows the difference.

`AlarmDelivery` is what the worker promises of the alarms it takes in hand: one
at a time, each at most once, pushed at most `limit` times, closed as processed
only after a push. `ImplementsDelivery` states that `AlarmBinlog` implements it
with `limit <- retry_max`, `fate` and `pushes` being the same variables.

### TaskLifecycle, TaskService, MCTask, TaskServiceProofs

`TaskService` is `OptimizationTaskService` and `FaultDiagnosisTaskService` over
the Postgres repository, used by several threads, and `get_task`, used by a
poller. Every SQL statement of the repository is a step, because asyncpg commits
each of them: `InsertEvent` and `UpdateStatus` are the two halves of
`append_event`, and `ReadRow` and `ReadEvents` those of `get_task`. `InsertRefused`
is the foreign key of `migrations/001_initial.sql`: if the row of a task could
not be created, none of its events can be stored.

The workflow graph is reduced to its outcomes (blocked by routing, done, error)
and to the state it shares between threads: the composer's
`last_case_retrieval_debug` and the usage slot of the gateway. A Qwen call appears
as an answer with usage (`QwenAnswers`), at most `MaxCalls` per task.
LangGraph runs a node in the thread that invoked the graph, so that the
thread-local slot seen by the calls is that of the task.

`TaskLifecycle` is what a poller may rely on: the events of a task go strictly
forward through received, parsing, diagnosing, generating, retrieving, and one end,
and the status column only takes the value of the newest event.

### Conversation, ConversationProofs

`Conversation` is what happens to a DingTalk message between the callback and the
last word of its handler. Callbacks are numbered in the order in which they
arrive, and so are the statements they bring; a redelivered message is one more
callback. A thread reads the store twice, in the router (`Route`) and in the SQL
handler (`ReadPending`), and clears it in a step of its own (`ClearAnswered`), so
that the other threads of the conversation come in between. `SqlBlocked`,
`SqlCompletes` and `SqlFails` are the ends of `run_sql`; `TablesUnreadable` is the
end of a thread whose exception only the log sees. Messages are reduced to what
the patterns of `channel.py`, `handler.py` and `schema_qualification.py` make of
them (`Text`): a SELECT, a statement that begins with WITH, which is taken for
SQL only while a request is pending, a prefix with nothing behind it, which is an empty
statement for one handler and a text for the other, a database name, and so on. A
SELECT in parentheses is refused by `validate_select_only` like any statement that is no
SELECT. Progress, the started reply and the chunks of a report are left out: only
the last word of a handler (`LastWord`) tells the user what to do next. A restart
empties the store.

`chat` and `undisturbed` are history variables: `StoreMatchesChat` compares the
store with what the chat shows (`OpenQuestion`) for as long as messages are
handled one after the other, and `PromptIsBacked` drops that condition. A question
is settled by a report, by another prompt, or by the acceptance of a name; a
statement whose continuation fails is no longer pending, and no longer asked
about.

### CardStream, CardStreamProofs

One message and the sender's entries for it: `state` is `_states[message_id]`,
`fallback` is `_text_fallback_buffers[message_id]`, `rendered` the text a card
entry has accumulated. A worker is one delivery of the message; a redelivered
message is a second worker on the same entries, without a lock between them.
What a handler says is a sequence of chunks `<<worker, n>>`: the first reply,
progress through the buffer of `StreamingProgressBridge` (`Emit` lets a chunk wait
or sends it with those that wait), the chunks of the report, a last word. A step
is what CPython 3.11 cannot interrupt in a way that another worker could see: it
changes threads at calls and at backward jumps only, so that reading an entry and
using it are separate steps exactly when a call lies between them (`ReadRendered`
and `StoreRendered`; `DropState`, `RescueText`, `ReadFallback` and `StoreFallback`, the
way from a failed card to the text that replaces it). A call of DingTalk that raises
may still have reached the card (`StreamFails`).

How chunks are joined is left out. A message without anything to work on (`wordless`) gets the
usage text, after which the handler returns without finishing the stream, so that its
card stays open and, if the card fails, the text is never sent. The model has this
behaviour; the properties say where they exclude it, and `UsageGuidanceIsSent` reports
it. The webhook of the session counts as having shown what it accepted: like the robot
of the alarms it does not read the body of an answer.

### SseStream, SseStreamProofs

`POST /v1/stream` and `POST /internal/tasks/sql-optimization`. A request has a
worker thread (`pc`), a queue (`events`) and a client (`client`, `sent`). The
worker is started when the generator is asked for its first event (`Open`), gets
its service from the provider (`GetWithoutLock`, `TakeLock`, `Build`: the double
check of `TaskServiceProvider.get`) and puts progress, report, verdict and `done`
into the queue; the generator takes them out one at a time (`Yield`). A client may
leave at any point and nobody tells the worker. A factory that raises leaves an
`OptimizationTaskService` in the provider, for good; for an alert that service has
no `run_diagnosis`, so that every later stream of alerts ends with an error.
Heartbeats are left out: they carry nothing and the generator sends them only
while the queue is empty.

### MetadataRouter, CaseRetrieval, SqlWorkflow, SqlWorkflowProofs

`MetadataRouter` is `resolve_with_tables` as operators over a set of routing rows:
its five checks in their order, the plan per instance, the preferred plan. Rows are
matched to the tables of a statement without regard to case; the schemas of two rows
are compared as they are spelled. Names are numbers here, ordered as the code sorts
them, which assumes that the routing table spells a schema in one way.

`CaseRetrieval` is `retrieve_cases` (hard filters, score, order, at most two cases
of a root cause) and the merge with the vector hits in
`PgVectorCaseRetriever.retrieve`. The loop of `_dedupe_by_root_cause` is a recursive
function over the ranked cases with `OneMore` as its body, so that it can be reasoned
about; the order in which the hits are appended, which decides between hits of equal
rank, is left open.

`SqlWorkflow` takes one statement through the graph: tables are resolved with the
schema that came with it, routed, EXPLAIN and SHOW CREATE TABLE are collected (each
may fail, the second after some tables), a blocker ends the run and the user's
answer starts it again, or the report is made, by Qwen or by the fallback, from a
retrieval that is repeated when Qwen fails. `read` is a history variable, what the
source database really returned, against which the report is held. When the router
raises because the metadata database is down the task fails (`MetadataDown`): the
degradation to `sql_only` covers the source database only. The routing rows are
forgotten once the routing decision has been used (`Diagnose`), because nothing
reads them again. Common table expressions are left out: they are not tables.

### FaultDiagnosis, FaultDiagnosisProofs

The five nodes of `build_fault_diagnosis_graph`. An address is `<<network, host>>`
so that "of one host" can be said; the CMDB maps a management address to the
business address of the same host if it has the row. A Markdown text is a sequence
of its parts (headings, the TopSQL list in full or shortened, the time line, the
list of gaps), which is what the four repairs of Qwen's report look for, and
`Drafts` are all texts of up to `MaxParts` parts, in which a part may be repeated: a
section begins at the first of its headings and ends at the next one. `Removed` is what
`_strip_removed_report_sections` takes out, as places in the text, and `At` is the text
at the places that stay. The alerts and the profiles that Qwen returns are given by
`MCMessage`, and may be any of the right form (`FaultAssumption`). A window that cannot be
converted raises in the metrics node and fails the task. `MetricsNotConfigured` is the
`EmptyMetricAgent` of a graph built without a metric agent; the services always bring
one.

### MetricAgent, MetricAgentProofs

`PrometheusMetricAgent.analyze` on several threads that share one
`PrometheusMcpClient`: its session, tool name and stream (`mcp`), without a lock. An
answer to a request is either in the response of the POST or comes on the stream of
the session, where any thread that waits may read it and throws away what is not
its own; two threads on one stream may tear a message between them (`ReadTorn`).
`session` stands for `_session_id` and `_messages_url`, which are set together. The
server answers in any order or never, ends streams, and pings until it falls
silent; the read timeout of a stream fires only without pings. Whatever raises
leads to the HTTP client, and without data there the metric is missing.

### MCMessage, MCHttp, MCAlarm

Three instances for TLC that put several modules into one run: a behaviour is a
behaviour of one of them while the variables of the others stay as they begin
(`SqlStep`, `FaultStep`, `AgentStep`, `CardStep`; `StreamStep`, `AgentStep`; `LoopStep`,
`TaskStep`, which is possible while the loop waits for a first alarm and owes no step,
`AtRest`). The modules share no variable, so that this explores each of them
completely and nothing else. It is one run for one question: what becomes of a message,
of a request, of an alarm and the task that diagnoses it. The types of `SqlWorkflow` and
`CardStream` are checked in `message`; those of `FaultDiagnosis` and `MetricAgent` are
left to their theorems.

## Runs

All runs use deadlock checking off, because every model has states in which
nothing has to happen: the binlog reader waits for a bounded environment, all
requests of a bounded set have been answered.

| Run | Question | Bounds | Result |
|---|---|---|---|
| `alarm` | safety and progress of the alarm worker, and of the tasks it runs | `AlarmBinlog`: 3 ids that commit in any order, all matching, retry limits 0 and 2, 3 faults; `TaskService`: 1 task, 2 faults | holds |
| `alarm_resume` | README.md:422 | 2 ids, 1 fault | violated |
| `alarm_rotation` | README.md:418 | 2 ids, no fault | violated |
| `alarm_refused` | README.md:421 | 2 ids, limit 1, 1 fault | violated |
| `task_safety` | safety of the task record | 2 threads, 2 tasks of any kind, 1 Qwen call each, 1 fault | holds |
| `task_debug` | test_optimization_task_service.py:167 | 2 threads, 2 tasks, no fault | violated |
| `conversation` | the pending request and the answers | 3 messages of one conversation, 1 fault | holds |
| `conversation_prompt` | dingtalk/handler.py:52 | 2 messages of one conversation, no fault | violated |
| `message` | a statement or an alert on its way to the chat | `SqlWorkflow`: 2 tables, 2 schemas, 2 instances, 3 routes, 6 cases; `FaultDiagnosis`: alerts of 2 addresses, 2 metrics, reports of 3 parts; `MetricAgent`: 2 threads with 2 and 1 metrics, 2 streams; `CardStream`: 1 or 2 deliveries, 1 fault | holds |
| `http` | requests of the API and metric queries come to their ends | `SseStream`: 2 requests of any kind, 1 progress event, reports of 2 chunks; `MetricAgent`: 2 threads with 1 metric, 2 streams | holds |
| `fault_gaps` | README.md:555 | as `message` | violated |
| `usage_reply` | dingtalk-e2e-design.md:142 | as `message` | violated |

Why the bounds suffice. *Alarms*: an anomaly of the checkpoint needs two ids in
the wrong order and one between them; two alarms of one event and a third in
another one are possible with 3 ids; 3 faults allow a failed retry loop and a crash
or a replay in one behaviour. Limit 0 is the degenerate loop, 2 allows a
success after a failure. *Tasks*: threads interact through the composer and the
gateway only, two at a time; the task record of a task is written by one thread.
*Conversation*: conversations share nothing but the restart, since
the store is a dictionary by conversation id, so that one is enough; a statement
that is blocked, another one and a database name are the three messages that the
questions about the store need.
*Routing*: 2 tables, schemas and instances are the smallest case in which each of
the five checks can be the one that decides; a third route makes a table ambiguous
while the other one is found. *Retrieval*: the six cases contain three of one root
cause, one of another version, one of another scenario and one without tags, so
that each filter and the limit of two apply; a hit may be unknown to the process.
*Faults*: two addresses with their labels decide which pattern of
`_extract_first_ip` matches first; three parts are a heading, its section and what
the next repair finds after it. *Metrics*: two threads interfere on a stream, the
second metric of one of them meets the late answers to the first, the second stream
replaces one that another thread still reads. *Cards*: deliveries of a message share
its entries only, two at a time; one fault is enough for a card to turn into text
in every place, and with two deliveries in the middle of the other one. *Streams*:
requests share the providers only; a second one arrives while the first builds.
The proofs remove the bounds for the theorems listed below.

Fairness. `AlarmBinlog!FairSpec` has weak fairness on the steps of the worker's
single thread as a whole (`Work`), which is the scheduling of a running process
whose calls return or raise; neither inserts nor faults nor rotation are fair.
`TaskService!FairSpec` has weak fairness on the steps of each thread: the
operating system schedules threads independently, and the HTTP clients have
timeouts. No request has to arrive. `Conversation!FairSpec` has weak fairness on each
thread for the same reason; that `run_sql` returns is `EveryTaskReturns`.
`SseStream` has weak fairness on the worker of each request and on its generator,
which the server pulls while the client is connected; no request has to arrive and
no client has to leave. `MetricAgent` has weak fairness on each thread. The MCP
server owes nothing: `EveryAnalysisEnds` is promised only from the moment at which
it stops pinging, because a thread whose answer was thrown away by another one
waits on a stream that the pings keep alive.

Where the liveness properties end. `AheadIsProcessed` promises nothing once the session
ends, and faults are bounded for `CatchesUp`: an alarm whose delivery always fails ends
one session after another, is skipped by the next anchor (`alarm_resume`), and is covered
by neither. `EveryCallbackIsAnswered` accepts the end of a thread whose exception only
the log sees, when nobody can name the tables of a statement with a database name in
front.

Each property has a mutant in `PROJECT.json`: a variant of one definition with a
plausible bug, which makes that property fail.

## Proofs

No constant is given a value and no bound is used in what follows: the theorems
hold for every value of the constants that satisfies the assumptions named at the
end of this section.

**`AlarmBinlogProofs`** proves, for every number of ids, every filter, every set of
retry limits, any order of commits and any number of faults:

- `TypeCorrect`: `Spec => []TypeOK`
- `PushesAreBounded`, `ProcessedAlarmsWerePushed`: no alarm is pushed more
  often than the limit, and none counts as processed without a push
- `SavedIsMonotone`: the checkpoint never goes back
- `NoRowIsPassedOver`: with ids committed in order, no row that the reader delivers
  is passed over
- `SavedRowsWerePushed`: with ids committed in order, the file has risen past no row of
  the session that was not pushed, whatever failed
- `Refinement`: `Spec => Delivery!Spec`

The argument. None of the invariants is inductive alone. `PushesBounded` needs to
know that an alarm whose fate is decided never comes back, which holds because
every alarm ever taken is at most the largest committed id (`Committed`) and the
anchor lies above all of those, so that the filter `a > checkpoint` drops it, in
every session (`Covered`); within an event, what is left to do lies above what was
done (`Ascending`). `InHand` says which alarm the retry loop holds and that it is
the only one with fate "taken"; `Counted` relates its pushes to its attempt.
`IInv` is their conjunction with `TypeOK`; `InitInv` and `StepInv` show it
inductive, action by action, and the theorems follow from it. `DeliveryStep` maps
every step to a step of `AlarmDelivery` or to a stutter. For `NoRowIsPassedOver` the
strengthening `Followed` adds the order of the binlog: events carry ascending ids,
what waits comes from the event read last, and everything before it lies at or
below the checkpoint. It holds for as long as ids commit in order (`InIdOrder`), which
is the premise of the property too: otherwise a late small id is below the checkpoint
already. A log out of order stays so (`LogStep`), so that the invariant is needed only
where the premise holds.

**`TaskServiceProofs`** proves, for any sets of threads and tasks, any number of Qwen
calls and any number of failing statements and crashes:

- `TypeCorrect`: `Spec => []TypeOK`
- `RecordAgrees`, `TokensAreOwn`, `PollIsExplained`, `RecordsAreComplete`: the
  invariants of `task_safety`
- `Refinement`: `Spec => Lifecycle!Spec`

The argument. A task is written by one thread (`Owned`), so that what a step must
preserve is a fact about one thread and its task, and `StepIsLocal` (every step of
a thread leaves the other threads and their tasks alone) carries it over to the
others. `InOrder` is why the record moves forward: at each place of the program
there is a `Floor`, a rank below which nothing will be emitted any more; what is
on record lies below the event being written, and that below the floor. An event
whose INSERT failed leaves a gap and not a disorder. `Agreed` says that an end
which is on record, or about to be, is the one that the outcome of the graph
(`OutcomeKnown`) will make the caller see. `Backed` ties status to events, which
gives `StatusIsExplained` because rows are read before events and events only
grow. `Booked` follows each usage record from the thread's slot over the list
being stored into the table and counts it on the way. `RecordIsComplete` is about
what a record owes as long as nothing has failed, and that depends on the place of
the program: the row exists (`Present`), the status is that of the last event
(`Synced`), the verdict follows from the outcome (`Verdict`), the end is being
written or is on record (`Ending`, `Ended`) and the usage is in the slot, in the
list or in the table (`Paid`). `StepKinds` sorts the steps by what they do to
`append_event` (call it, end it, neither), so that the preservation proofs have a
case per kind; `TypeStep`, `OwnedStep` and `OutcomeStep` have one per action.

**`ConversationProofs`** proves, for any number of callbacks, conversations and
faults:

- `TypeCorrect`: `Spec => []TypeOK`
- `StoreFollowsChat`: what is pending is what the chat asks, while messages are
  handled one after the other
- `PendingIsReadable`: what is pending can be qualified

The argument. While a conversation is undisturbed at most one of its callbacks is
between its beginning and its end (`Alone`), and the store agrees with the chat
except for the step that the one thread has still to make (`InStep`): it has put its
statement and not yet asked, or it has had its report and not yet cleared the store
(`Clearing`). `OneMoreWord` says what one more word of the chat does to the open
question, and is used by every action that speaks.

**`CardStreamProofs`** proves, for any number of deliveries of a message, any numbers
of chunks and any number of failing calls:

- `TypeCorrect`: `Spec => []TypeOK`
- `NothingIsKept`: once every delivery has finished the stream, the sender keeps
  neither card nor text of the message
- `CardsAreClosed`: a message delivered once leaves no open card, unless the card
  failed
- `WholeAnswersAreShown`: a message delivered once gets its whole answer, in order and
  in one place; the usage text only as long as its card does not fail

The argument. `Inv` is `Typed` with what the control needs: how many chunks a handler
has said where it stands (`Budget`), where the sender returns to (`Routed`), that it has
something to send and a card to send it to (`Equipped`). `NothingLeftBehind` is about
workers that disturb each other, and holds because whatever is kept will be taken by
somebody (`Kept`): a fallback by any worker that still has to finish the stream, a card
entry by one that will find no fallback, for which two are needed as long as there is a
fallback. The other two are about one worker, and `AloneBefore` says that such a worker
was always alone. `Closing` follows the one card to its end. `Placed` is the invariant
of the whole answer: what the user sees or will see of what is kept (`Out`), followed by
what is in hand and what waits in the progress buffer, is at every place everything
that was said (`Words`), and `Shape` says which of the places are occupied, so that
nothing is there twice. This is where the model's two kinds of failure matter: a call
that raises may have reached the card, and the text that comes instead has to start
from the beginning (`seen`).

**`FaultDiagnosisProofs`** proves, for any alerts, any CMDB, any profiles and drafts of
any length that Qwen may return:

- `FaultTypeCorrect`: `FaultSpec => []FaultTypeOK`
- `EvidenceOfOneHost`: TopSQL and metrics are of one host, as long as Qwen named no
  address
- `ReportsKeepTheirShape`: the four repairs leave the time once, no unwanted section and
  the statements in full

The argument. Which host the evidence is of is settled when the profile is made
(`OneHost`): the fallback takes the first address of the alert and what the CMDB says of
its host (`FallbackOfOneHost`), and merging a profile without addresses changes none of
them (`MergedOfOneHost`). The reports are a fact about operators: `Timed` and `InFull`
are what each repair establishes, and there is a lemma per repair that it does, and that
it keeps what the repairs before it did. The one line with the time is the one that was
put in, because all others were taken out (`EnsureTimeTimed`), and it stands before the
place from which the repair of the findings replaces text (`EnsureFindingShaped`).

**`MetricAgentProofs`** proves, for any threads, metrics and number of streams:

- `AgentTypeCorrect`: `AgentSpec => []AgentTypeOK`
- `MetricsBelongToTheirDiagnosis`: `AgentSpec => []MetricsAreOwn`

The argument. That no answer is taken for another's would be immediate from the
name of the request; that no metric is shown twice and none is lost needs to know
where a thread stands in its list: everything before its `turn` is settled, shown
or missing and not both, and nothing at or after it (`Settled`, `Turned`); the client
has a stream whenever it has a session (`Connected`). Steps are sorted by what they
do to the thread's own lists (`StepKinds`: `Quiet`, `Finds`, `Misses`), and `PastStep`
moves `Settled` from one metric to the next.

**`SseStreamProofs`** proves, for any number of requests, of progress events, and any
lengths of reports:

- `TypeCorrect`: `Spec => []TypeOK`, which includes that a lock is held only while
  its factory runs
- `OneService`: a factory runs once and everybody uses its service
- `StreamsAreWellFormed`: the order of a stream, and that an ended stream is whole
- `VerdictsFit`: a verdict never contradicts what was shown before it

The argument. For the provider: whoever builds holds the lock, and the factory has
run if and only if there is a service (`Building`, `CalledOnce`, `UsedIsStored`); the
second look with the lock is what makes the step to "build" keep this. For the
stream, `sent[r] \o events[r]` is the whole of what the worker has put so far,
because the generator only moves events from one to the other, except that it turns
`done` into `end`. Each place of the worker has a `Ceiling`, a rank which that whole
does not exceed (`Below`), so that what is put next may follow (`InOrder`, `AllBefore`);
a verdict is there when the worker is past it, and it is the last but one when the
stream has ended (`Has`). `Held` says what a client that leaves or is answered can
have been sent. For the verdicts, `Told` is about the same whole: its chunks are numbered
without a gap (`Numbered`) while the report is put, all of them are there when a
completed task is announced (`Complete`), and before a failure there is at most the
question to the user (`Blank`, `Prompted`). Since the generator renames nothing but
`done`, the client sees the same words (`SameWords`).

**`SqlWorkflowProofs`** proves, for any finite number of tables, schemas and
instances and any routing rows over them:

- `StatementsAreRouted`: evidence is collected exactly for the statements whose
  tables have one place
- `EvidenceBelongs`: what is read belongs to the statement
- `AnswersSettle`: a named schema is the last one asked for
- `ReportsAreTruthful`: the program's own report says what was read and what was not
- `SqlTypeCorrect`: `SqlSpec => []SqlTypeOK`
- `CasesFit`, for any library and any hits of the vector search: the cases shown fit the
  statement, are different, at most three and at most two of a root cause
- `RulesDecideWithoutHits`: without vectors the rules alone decide, however many
  candidates are asked for first

The argument has three parts. The router is a function, and is treated as one. A plan
is for an instance that holds all the tables (`PlanServes`), an instance that holds
them has a plan (`PlanExists`), and the choice between plans is defined because
instances are numbered, so that every set of them has a first (`Smallest`,
`BestPlan`). A table that is not ambiguous has one home (`OneHome`, the only place
where cardinality matters), hence a route is found if and only if the tables have one
place (`RoutedIffHasPlace`) and serves each of them (`RouteServes`); when every table
names its schema only the check of the instances can fail (`OnlyInstancesRemain`). The
graph then keeps four facts: the statement and the catalog are there until routing is
over (`Given`), the envelope carries the router's answer for the tables asked about
(`Looked`), its status and gaps are functions of what was read (`Told`, which gives the
whole envelope while it is under construction), and a report repeats the envelope
(`Reported`); `Shaped` adds the types. `StatusIsTruthful` needs `Told` because the status is computed once, after
SHOW CREATE TABLE, from fields that were set two steps before.

The third part is the retrieval. Ranking puts one case at each place: the order is total
because equal cases keep their places, so that a case that comes `n`-th is one with
`n - 1` before it (`PlacesAreFilled`), and the result is a sequence of different cases
that pass the filters (`RankedFits`). What the loop has selected after `n` cases has the
wanted form, if it had it after `n - 1` (`OneMoreFits`), and a selection with a larger
limit, cut to the smaller one, is the selection with the smaller one (`DedupeIsCut`);
this is why asking for more candidates than wanted does no harm
(`RulesDecide`). `Retrieved` is the invariant: the cases fit the query and, without
hits, are those the rules choose. That it survives the retrieval which is repeated after
a failure of Qwen needs that the two queries of a statement agree in everything the hard
filters look at (`ChosenForBoth`).

**Loops and recursion.** An induction theorem takes the fact to be shown as a parameter,
which the installed provers cannot instantiate. What a recursive function computes is
therefore shown by the smallest counterexample: the arguments for which the fact fails
are a set of natural numbers, a nonempty one has a smallest element (`Smallest`, from the
well-foundedness of `<`), and the equation of the function refutes it. That the function
exists at all, which its definition by CHOOSE does not say, is shown in the same way
(`FlattensExists`, `TakesExists`, `SelectsExists`). `Smallest` is stated in each module that needs
it.

The only assumptions are the named ones of the component modules: the
`ConstantsAssumption`s of `AlarmBinlog`, `TaskService`, `Conversation` and `CardStream`,
`AgentAssumption`, `HttpAssumption`, `WorkflowAssumption`, `NoSchemaAssumption`,
`FaultAssumption`, `RetrievalAssumption` and `LibraryAssumption`. They say that the
constants have their types, that `NoTask` is no task and `NoSchema` no schema, that no
metric is asked for twice, that tables, schemas and instances are finitely many, and that
the cases of the library have ids of their own (the primary key of the table). TLC
evaluates them in the runs.

Only model-checked is liveness, which is out of the prover's reach: `AheadIsProcessed`,
`CatchesUp`, `EveryTaskReturns`, `EveryCallbackIsAnswered`, `EveryRequestEnds` and
`EveryAnalysisEnds`. Every invariant and action property of a passing run is a theorem.

## Disagreements found

1. *The worker does not resume from its checkpoint* (`alarm_resume`).
   README.md:422 says it does. `anchor_to_latest_id` overwrites the file with the
   largest committed id on every connect (`alarm_binlog/service.py:128`), and
   `AlarmCheckpointStore.load` has no caller. Alarms between the two are skipped.
   The same line contradicts README.md:421, which says that the checkpoint is
   saved only after a push. The refinement shows what re-anchoring buys: no alarm
   is handled twice.
2. *Rows committed after the start can be missed* (`alarm_rotation`). README.md:418
   promises the alarms inserted after the start; the stream starts with the binlog
   file that is current when it is opened (`alarm_binlog/binlog_worker.py:64`).
3. *Retrieval debug of a task is lost or mixed up* (`task_debug`). The composer
   keeps it in one attribute that all threads share
   (`workflow/report_builder.py:86`); the test at
   `tests/unit/test_optimization_task_service.py:167` expects it after every
   success.
4. *A prompt may promise what is no longer true* (`conversation_prompt`). The
   prompt at `dingtalk/handler.py:52` says that a database name continues the
   statement; a statement of the same conversation that completes at the same time
   has cleared the request (`dingtalk/handler.py:284`), and the name is diagnosed as
   a fault.

5. *A report can lose its list of gaps* (`fault_gaps`). README.md:555 says that a
   report lists the missing metrics and the reason why there is no TopSQL. A report
   written by Qwen is repaired section by section
   (`workflow/fault_diagnosis.py:340`): the list is not appended when the text
   already has the heading 证据采集缺口, whatever stands under it (lines 529-531); and the
   repair of the TopSQL section, which comes last, replaces everything up to the
   heading of section five, or to the end of the text when that heading is missing,
   and with it the list just appended.
6. *A checkpoint may be saved for a message nobody saw* (`alarm_refused`). README.md:421
   saves the checkpoint only after a successful push. `webhook_sender.py:43-53` returns
   when the status of the answer is not an error and does not read the body, in which
   the robot says whether it took the message; a refused alarm is processed and not
   pushed again.
7. *The usage text may be lost* (`usage_reply`). The design
   (`docs/superpowers/specs/2026-04-23-dingtalk-e2e-design.md:142`) says that usage
   guidance is sent for a message without a statement. When its card fails the sender
   keeps the text for the end of the stream (`dingtalk/sender.py:138`), and the handler
   returns without finishing the stream (`dingtalk/handler.py:143`).

## Not modelled

- Text: prompts, Markdown layout, parsing of SQL by sqlglot, rules over parsed
  statements, EXPLAIN features, the problem profile. They are pure functions of
  their input and appear through their results (the tables of a statement and
  their qualification, the full-scan finding, the tags of the retrieval query) or
  not at all.
- Configuration and start-up checks; their limits are CONSTANTS. The scripts under
  `scripts/`: the backfill of case embeddings and the local checks.
- `InMemoryTaskRepository`, which production does not use.
- Heartbeats of streams and the health endpoints, which keep no state.
- The order of cases that are equal in everything, and of hits of the same rank.
- Routing rows that spell one schema in several ways. The code matches them all to a
  statement, but takes them for different schemas where it compares them with each
  other (`db/metadata_router.py:281`, 337, 360).
- In reports: the words. Qwen's own evidence status is taken as it comes, and
  nothing is said about it: the code does not check it.

What the models contain, no property forbids, and a reader may not expect:

- A statement whose qualified tables are all found on several instances is routed
  to the one whose id comes first, without a question.
- When the metadata database cannot be reached the task fails instead of going on
  with the statement alone.
- Evidence of a fault may be of two hosts when Qwen brings an address into the
  profile: fields are merged one by one. `EvidenceIsOfOneHost` holds without it.
- After a failed factory the API answers every alert with an error until it is
  restarted.
- A process that dies leaves its tasks in a running status; nothing resumes or
  closes them.
- The card of a usage reply is never finished, and if it fails the text is lost.
- The report keeps its time, its sections and its statements through the four repairs
  (`ReportKeepsItsShape`); the list of gaps it may lose (item 5).
- A statement whose tables have one schema each but lie on several instances is asked
  about with the prompt for a schema, and an answer does not help:
  `AnswerSettlesSchema` is about the two blockers that a schema can settle.

## Plan

All of the modules first planned are there, and every safety property that a run checks
is proved. What could follow, in order of importance:

1. Abstract specifications of the card (a message is shown once, by card or as text) and
   of a stream (words of one task, then the end), with `CardStream` and `SseStream`
   shown to implement them.
2. The premises of liveness that are safety: that a thread which waits for something is
   waited for by somebody who can move.
3. More of the text processing as operators over parsed statements, in so far as
   a property depends on it.
