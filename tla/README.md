# bb2: models and proofs

bb2 is a pluggable agentic-AI backend (`backend/app`), an MCP tool server (`mcp`) and a
browser front end. A chat request enters a FastAPI route, is turned by the session
service into a turn of a stored conversation, is answered by the orchestration runtime
(strategy, agent, LLM, tools, memory, policy) and leaves as one JSON answer or as a
stream of server-sent events. This directory keeps TLA+ models of the parts in which
the order of events decides what is right: the turns and resets of a session over its
versioned row in SQLite, one streamed turn through its three nested generators, a turn
of the bounded planner within its limits, the calls of the LLM gateway and of the tool
gateway with their retries, the trace store, the reporting tool of the MCP server, and
the chat page in the browser.

## 1. Inventory

| Component | State | Operations | Interacts with |
|---|---|---|---|
| Session service `session/` | none of its own; the turn's draft document | `handle_chat`, `stream_chat`, `reset_session`, `delete_session`, lists | workflow-state store (awaits threads), runtime (generator), artifact store, trace |
| Workflow-state store `persistence/sqlite_workflow_state_store.py` | tables of sessions, current rows with a version, reset audit | load, save with expected version, reset, delete, list | worker threads, one SQLite transaction per operation |
| SSE route `api/routes_chat.py`, `api/sse.py` | one task per awaited event, response bytes | stream, heartbeat, disconnect poll, error event | drains `stream_chat`, cancels it |
| Orchestration runtime `orchestration/runtime.py` | one turn: limits, parts of the answer, calls, result | `handle_turn`, `stream_turn`, fallback | policy, strategies, trace |
| Strategies `orchestration/strategies/` | local | direct answer, retrieval, tools, router, memory update, planner, fallback | agents, tools, memory |
| Turn limits `orchestration/limits.py` | counters and start of one turn | `consume_*`, `check_duration` | strategies, runtime |
| Bounded planner `strategies/bounded_planner.py` | assessment, plan, position, executed steps | assess, plan, validate, run each step, fall back | limits, agents, LLM, tools, memory, policy, trace |
| Agents `agents/` | none | `run`, `stream` | LLM gateway, prompts |
| LLM gateway `llm/` | none (clients per profile) | `complete`, `stream` with retries and fallback profiles | HTTP providers |
| Tool gateway `tools/gateway.py` | none shared; one call's attempts | `execute`, `stream_execute` with retries | policy, MCP client, trace |
| MCP client `tools/mcp/` | OAuth token and its lock | fetch a token, open a session, call | MCP server, token endpoint |
| Policy `policy/` | decision cache, audit | `evaluate` | every gateway |
| Memory `memory/` | lazily built service | search, write | external library |
| Visualization `visualization/` | artifacts per session with a time to live | save, look up, slice, clear | tools, session reset |
| Observability `observability/` | none | record, number a read's events | everyone |
| Trace store `persistence/sqlite_trace_store.py` | trace runs, numbered events, retention log, schema version | record a batch, read, clean up, migrate | worker threads, one SQLite transaction per operation |
| Configuration, contracts, foundation, deployment | read at start-up | load, wire, restart | - |
| MCP server `mcp/app` | tool registry, rate limiter | dispatch | plugins |
| MCP reporting tool `mcp/tools/reporting` | dataset cache, circuit breaker, semaphore | `query_metric_series`, health | providers |
| Chat page `frontend/app/static/js/chat` | active session, flags, last request, what is shown | send, stream, retry, stop, sessions, histories, resets | the API through the front end's proxy |
| Front end's proxy and admin pages | none | - | the API |

What is hard, and what makes each part correct:

- *Session service and store.* Turns of one session overlap, because a turn waits
  seconds for an answer between its load and its save. Only the expected version
  protects one turn from another, from a reset and from its own closing checkpoint
  (a cancelled final save may still commit in its thread). Correct: a completed turn
  stays in the conversation until a reset; a turn saves once; a save only extends what
  is stored; nothing drafted before a reset is stored after it; every request ends.
- *Streamed turn.* Three generators are nested, each translating the exceptions of the
  one below, and a limit, a failure, an encoding error or a disconnect strikes at any
  await or yield. Correct: one strategy speaks, texts are shown in order, the answer
  called complete was stored and is the one shown, one closing event, the stream ends.
- *Artifact store.* A reset clears artifacts in a second step, after the state.
- *LLM gateway.* A provider, the policy or the trace store fails, the task is cancelled
  or the consumer drops the generator at any point of a call with retries and fallback
  profiles. Correct: all text comes from one attempt; attempts are made in the plan's
  order and only with permitted profiles; the caller is told what happened; calls end.
- *Tool gateway and token.* Answers are lost after the tool ran, streams are dropped
  between two events, and calls of many turns share one token that must be fetched by
  one of them. Correct: a call without a key and with an effect runs once; a consumer
  hears one attempt; one fetch per token; the lock is never left taken; the trace
  settles a call as its caller is told; calls end.
- *Policy cache.* A decision is kept under a key that leaves out part of what it looked
  at, and lapses by the wall clock.
- *Limits and planner.* Each step may fail, be denied, be cancelled, outlast the turn or
  exceed a limit, and each failure is handled elsewhere. Correct: limits hold; the plan
  is followed; the trace tells what the caller was told; the turn ends.
- *Trace.* The trace store is required by default (`config/schemas.py:1868`), so every
  record can raise, at a point where nobody expects an exception. Correct: a turn or
  call whose record fails still ends, and is still what its caller was told.
- *Trace store.* Counters are moved statement by statement beside the events they
  count; threads write one trace in any order; reads make two queries; a migration in
  two transactions meets a crash. Correct: summaries agree with events, no event is
  lost or stored twice, reads fit their summary, cleanups take the oldest.
- *Reporting tool.* A timer around the whole query fires in every wait. Correct: permits
  are neither lost nor lent twice, the circuit bounds failures, queries end.
- *Chat page.* Answers, histories and lists arrive after the user went elsewhere.
  Correct: one handler at a time, answers of the active session, nobody but the user or
  the backend takes the session away, the page is never locked for ever.

## 2. Modules

    ConversationDocument      the stored conversation and what a turn does to it
      WorkflowStateStore      tables, versions; commits of save, reset, delete
        SessionTurns          turns, worker threads, resets, deletions, crashes
          SessionTurnsProps   properties, inductive invariant, refinement
            MCSessionTurns    symmetry for TLC
            SessionTurnsProofs
    SessionLog                abstract: one log per session
    TurnStream                a streamed turn: runtime, session service, route
      TurnStreamProps         properties, inductive invariant, refinement
        MCTurnStream          instance for TLC
        TurnStreamProofs
    StreamContract            abstract: what a stream promises its client
    LlmGateway                a call of the LLM gateway, complete or stream
      LlmGatewayProps         properties, inductive invariant, refinement
        MCLlmGateway          instance for TLC
        LlmGatewayProofs
    GatewayPromise            abstract: what one call of the gateway promises
    TurnLimits                the counters of one turn
      PlannedTurn             a turn of the bounded planner, run by run_turn
        PlannedTurnProps      properties
          MCPlannedTurn       plans, assessments and limits for TLC
          PlannedTurnProofs
    PolicyDecisionCache       the cache of the policy's decisions
      ToolCalls               concurrent tool calls, the token and its lock
        ToolCallsProps        properties
          MCToolCalls         requests for TLC
          ToolCallsProofs
    TraceStore                batches, reads, cleanups, migration, crashes
      TraceStoreProps         properties, refinement
        MCTraceStore          events and batches for TLC
        TraceStoreProofs
    TraceLog                  abstract: the logs the trace store promises
    ReportingQueries          concurrent queries of the reporting tool
      ReportingProps          properties
        ReportingProofs
    ChatClient                the chat page
      ChatClientProps         properties
        ChatClientProofs

### ConversationDocument, WorkflowStateStore, SessionTurns

A document is the sequence of its messages, each the role and the turn it belongs to,
and the workflow step. `PrepareForChat`, `Answered` and `Closed` are
`prepare_state_for_chat`, `apply_orchestration_result` and `mark_stream_interrupted` /
`mark_stream_failed` of `session/lifecycle.py`. A row (`current[s]`) holds a version,
a document, the reset generation it was written in, and the store's `resetCount` and
`audit` stand for the session row and the reset rows. `CommitSave`, `CommitReset` and
`CommitDelete` are whole transactions; SQLite makes each atomic. `epoch[s]` counts
how often a row was removed: it is history, read by properties only, like
`generation` in a loaded record and `interrupted`.

In `SessionTurns` a turn's coroutine is `pc[t]`, its loaded record `base[t]` and its
two possible saves `saveJob[t]["final"]` and `["closing"]`. A save is a job of a
thread pool: handed out, taken by a thread, then committed, refused for its version or
failed. Cancelling the coroutine (`InterruptStream`, `InterruptClosing`, `CancelChat`)
drops a queued job; a running one goes on with nobody waiting (`Abandoned`). What the
caller was told is `outcome`, what the trace was told last is `event`. A reset runs
`loading`, `resetting`, `clearing`; cancelled while its thread works it is `detached`.
The visualization artifacts are a set of turns per session: `SaveArtifact` while a
turn runs, `ClearArtifacts` as the reset's second step, `ExpireArtifacts` any time.
`Crash` loses every coroutine and uncommitted job and keeps the tables.

Records can fail: `StartUnrecorded` is the record that a stream started, `EndRecorded` the
last one of a stream that did not complete (its error then replaces the outcome),
`FinishChat` and `DrainStream` those after an answer was saved, which turn a stored chat
into a failed one and a completed stream into one recorded as failed.

Constants choose the deployment: `ResetMode` (`reset_mode`, default
`replace_with_empty_state`), `SavePolicy` (`save_on_stream_cancellation`, `_failure`,
both default true), `DeleteEnabled` (`delete_enabled`, default false),
`SeededSessions` (those that already have a row), `ChartTurns`. `MaxDeletes` and
`MaxCrashes` are bounds of the exploration only; the proofs hold for all their values.

Assumed: `save_on_*_completion` is left at its default, true; an answer adds one
assistant message; one user owns the session's artifacts; the conversation trimming
that keeps a document small does not strike in so short a history. A load that fails
does so with an error of the store, which is not recorded; the error of a failing record
that replaces a turn's end is one ending (`failed`), whatever its class.

### TurnStream

One turn. `at` is the point the innermost generator has reached: the runtime's
(`authorizing` ... `degrading`), the service's (`saving`, `announced`, `failing`,
`cancelling`) or `over`. `outbox` holds the session events that are ready: with a
non-empty outbox the generators are parked at a `yield`, with an empty one they work at
an await. `spoken` is the runtime's `answer_parts`, `gathered` the accumulator's,
`journal` the runtime's trace records in order, `shown` and `ended` what the route
wrote. `failure` classes an exception the way `decide_fallback` tells them apart.
`overtime` becomes true at any time (`TimePasses`), which stands for the clock.
`NoticeParked` ... `NoticeClosing` say what a cancellation becomes at each place it can
land: it passes the runtime's own awaits, an agent turns it into `AgentCancelledError`,
the LLM gateway into an error of its own, the fallback strategy swallows it, and a save
in its thread may commit all the same. The server may cancel again while the first
cancellation is handled, which is why `Notice` stays enabled with the route `closing`.

`RecordFails` is a record that raises: the session service's own before the runtime
starts and those of the runtime's exception handler end the stream, the others look to
the runtime like the failure of a dependency, which the fallback may still answer.

Assumed: the stream policy allows every event (a refusal is `DeliverFails`); a withheld
event is delivered like a shown one; a save that fails does so with an error of the
store; a record that raised is not in the trace (a store
that is not required only loses records, which no action depends on).
`FallbackConfigured` is `fallback_strategy` (default `fallback_answer`), which reaches
the runtime only before anything was said.

### LlmGateway

One call. `at` is where `complete` or `stream` stands: `resolving` the profile,
`authorizing` it, `starting` an attempt (its record), `calling` the provider, `offering`
an event at a `yield`, `reporting` the end of the attempt, `excusing` a failure with an
error event, `over`. `profile` and `attempt` index the execution plan, `feed` is how far
the adapter's stream has come, `sawDelta` the gateway's `saw_delta`, `record` the last
trace record of each attempt. `spoke`, `completions` and `excused` are history: what the
consumer got. The adapter reads on after a chunk with a finish reason and yields what
comes, texts and further completions, until the stream ends (`TextArrives`,
`CompletionArrives` in a `finished` feed), and the gateway passes all of it on; only a
completion it makes up itself, for a stream that had none, is the last event.
`closing` means the consumer dropped the generator: `GeneratorExit` is
caught by the handler of provider failures (`except BaseException`), and the call goes
on until its next `yield` fails. `CancelOutside`, `CancelCall` and `CancelHandler` are a
cancelled task's await before an attempt, within one, and in its failure handler.

`GatewayPromise` is the call without its handlers: which profiles were allowed, which
attempts were made, which were heard and which announced as complete, whether the consumer
left, and what it was told in the end. Its `Truthful` says what may be told when. It does
not promise that an attempt falls silent once it is announced as complete: nothing in the
gateway makes it.

Constants: `LastProfile`, the number of fallback profiles, and `Retries`, each
profile's `max_retries`. A provider's errors are told apart as transient (retried, and
taken to the next profile) or permanent. The adapter is the OpenAI-compatible one;
Google's and the custom one raise at once. Assumed: sizes of requests
and texts do not matter; a timeout is a failure of the provider.

### TurnLimits, PlannedTurn

A turn that `run_turn` gives to the bounded planner. `at` is the await the turn is in, or
one of four points between awaits (`beginning`, `validating`, `stepping`, `over`); a
transition between awaits is one step. `request` is what the request brings: a
task-first use case, an assessment or plan in its metadata, a message that looks like a
request for a chart. `Begin` counts the assessment or the plan as a first step,
`Judge` adds the chart step, `Valid` is `_validate_plan`, `TakeStep` takes the next step
within the step and loop limits, `Permit` counts a call before the policy is asked,
`Block` and `Close` end the task. `Raise` classes every exception the way the two
handlers of `run_turn` and `decide_fallback` do: a limit, an invalid plan and a denial
are final, what an agent or a dependency raises may degrade, and a turn out of time may
degrade as well. `Escape` is the task's cancellation at an await whose exception passes
every handler; within an agent, a tool call or an LLM call it becomes an ordinary failure.
`Unrecorded` is a record that raises after those before it were made.

`used` counts what `OrchestrationLimitTracker` counts, `calls` and `agentCalls` are the
calls really made. Assumed: no caller sets the cancellation token (none in the backend
does); prompts, texts and the results steps pass to each other do not matter; memory
writes are made by no step of a plan. The metadata of a request
hands over both an assessment and a plan, or neither (`given`).

### PolicyDecisionCache, ToolCalls

Turns make tool calls one after the other, and turns run at once. `Ask` is the preparation and
the policy, whose decision comes from the cache under the code's key; `Open`, `Acquire`,
`Fetch` and `FetchFails` are the token provider, with its lock as a holder and a line of
waiters; `Connect`, `Run` and `Answer` are the session with the server, in which the
server runs the tool before it answers, so that `Fail` may strike before and after;
`Handle` is the gateway's handler of what an attempt raises. `Drop` is a consumer that
closes the stream at a yield, `CancelAttempt` and `CancelOutside` a cancelled task within
an attempt and outside. `ran` and `heard` are history: how often the server ran the tool
for a call, and which attempts the consumer of a stream heard.

In the cache an evaluation is one step: `evaluate()` does not give up the event loop
between the lookup and the store. `Lapse` lets any entry expire, since expiry is an
instant of a wall clock that may be set back. `Kept` is the dictionary after some of its
entries were popped, in the order it had; it picks them by rank (`Nth`), so that what it
keeps can be proved.

### TraceStore

`db` is what is committed: a run (the summary) and a sequence of events for each
trace. A write is a worker thread's transaction: `Record` hands the batch over, `Begin`
takes SQLite's write lock, `Insert` adds one event with its upsert of the run to the
`draft`, `Commit` publishes it, `Fail` rolls it back. A read makes its two queries in
`ReadSummary` and `ReadEvents`. `CleanUp` is a whole retention transaction. `Resolve` renames
the first schema's table, which commits at once, and `Migrate` copies its rows and sets
the schema version; a `Crash` between them leaves the backup table, which the next
start finds. `Tick` is the clock. `carried` is history: the batch the writer began with.

`TraceLog` has none of this: one log for each trace, to which a batch is added whole by
`Store` or dropped by `Drop`, which takes the first schema's rows over once (`Adopt`) and
from which `Forget` takes the oldest traces whose time is over.

Assumed: `foreign_keys` is on (the default), so deleting a run deletes its events;
`journal_mode` is WAL, so readers see what is committed. An event keeps its status,
severity, time and whether its error is typed; the other columns decide nothing here.

### ReportingQueries

Callers of `query_metric_series`. `AskRefused` and `Ask` are the part before the first wait:
validation and rate limit (a choice), the cache, the circuit; `Enter` takes a permit or a
place in the semaphore's line; `Start` goes on with a permit that was handed over;
`Retry`, `TryAgain`, `Answer` and `GiveUp` are the attempts. `TimeOut` is the timer of the
tool's wrapper (`mcp/app/tools_base/decorators.py:101`). It has the same length as an
attempt's and starts earlier, so the attempt's own never decides.
The provider is any `ReportingProvider`; the fixture that ships answers without waiting.

### ChatClient

The page's handlers, each from one await to the next in one step. `at` is what the handler
under way awaits, `target` the session it is about, `shown` the sessions whose answers
are on the page. `Send`, `Retry`, `Name`, `Delta`, `Answer`, `EndsShort`, `Breaks`, `Stop`
and `PostFails` are `chat/requests.js`; `Open`, `NewChat`, `HistoryEnds`, `Question`,
`Confirm`, `ResetDone`, `RereadEnds`, `DeleteDone` and `ChangeFails` are
`chat/sessions.js`; lists of sessions arrive in slots, one awaited (`Main`) and others
that nobody waits for. `strayed` is history: the page was not cleared since a retry went to
another session, or since it was left with answers and no session (its own was dropped by
a list meanwhile, or no frame named the one of the stream). `Elsewhere` is the request
of such a retry.

Assumed: a history is of the session as it is when it arrives, `BackendChanges` being
free to come before; that the page lists the latest 20 sessions only (`sessions.js:12`) is
one of the ways in which a session comes to be missing from a list.

## 3. Runs

| Run | Instance | States | Question |
|---|---|---|---|
| `SessionGuarded` | 2 turns, 1 session with its row, 1 reset, 1 crash | 593k | No completed turn is lost, one save per turn, no stale draft after a reset, saves extend the conversation, events are true, `Inductive` holds, `SessionLog` is implemented. |
| `SessionOpen` | 2 turns, no row, row-deleting reset, 1 deletion | 1.08M | What still holds without that protection: the audit's count, one document per version of a row's lifetime, and messages are lost only to resets, deletions and saves that expect no version or a removed row's. |
| `SessionLive` | 1 turn with a chart, 1 reset, 1 crash, fair | 6.9k | Every request ends and leaves no job behind. |
| `StreamServed` | 3 texts, 2 artifacts, fallback, fair | 5.6k | The stream's invariant, `StreamContract` is implemented, every stream ends. |
| `GatewayCalls` | 3 profiles with 2, 0 and 1 retries, fair | 6.0k | The gateway's invariant, one attempt speaks, `GatewayPromise` is implemented, every call ends. |
| `PlannedTurn` | all plans of up to 3 steps, 27 of 4, 4 invalid; limits 4 steps, 2 tool calls, 1 of each other kind; fair | 159k | Limits hold, the plan is followed, the trace tells the outcome, the turn ends. |
| `ToolCalls` | 2 turns, a streamed read, a write without a key and a refused destructive call, 1 retry, 1 stale token, 1 cache entry, fair | 202k | The lock is accounted for, one fetch per token, effects happen once, caller and trace are told truly, cached decisions are the policy's and heeded, calls end. |
| `TraceRecords` | 2 writers, 1 reader, 2 traces, 3 events, 1 legacy row, 1 crash | 520k | Summaries agree, events are accounted for, reads fit, `TraceLog` is implemented. |
| `ReportingQueries` | 3 queries, 1 permit, 2 attempts, threshold 2, fair | 66k | Permits are accounted for, failures bounded, queries end. |
| `ChatClient` | 2 sessions, 1 list in the background, fair | 510k | One handler at a time, answers of the active session, the session is changed by the user, a list without it or a retry elsewhere alone, no lasting lock. |
| `FreshLostTurn` | 2 first turns | | Expected violation: a completed exchange is lost. |
| `FallbackAfterEffect` | as `PlannedTurn` | | Expected violation: a turn whose external tool has answered falls back. |

*Why the bounds are enough.* A version conflict needs two writers, so two turns and a
reset give every pair; a third turn would only repeat one of the two as seen from the
others, and the proofs cover any number. Sessions share nothing but the tables, one is
enough. One crash falls between every two steps. One reset shows every order with a
turn; a second one is covered by proof. Two texts would show their order and three
leave room for a middle one; an artifact makes two events, so two give an outbox that is
cut in the middle by a disconnect. Three profiles are a first, a middle and a last one,
with two, no and one retry, so that a retry is the last of its profile or not and a
fallback follows an attempt or a retry. Plans of three steps contain every pair of
actions and a step between, and plans of four meet the step limit because the plan
itself is the first step; the limits are small enough that every one of them is met. Two
callers are one that fetches the token and one that waits, and a second turn overtakes
or is overtaken by the first; one stale token is one renewal. A cache of one entry is full
after the first decision, so every other evicts, and each turn asks of three calls, one of
them refused. The run's calls are tried again only before an answer could be lost, and
none carries a key; that a keyed write may run twice and an unkeyed one may not, and what
a key does to a cached approval, is in `EffectsHappenOnce` and `DecisionsAreHeld`, for
all requests. Two writers and two traces
make batches that cross, three events give one before, one within and one after a
read, a cleanup or a crash. Three queries of one permit are one that holds it, one that
is handed it and one behind it. Two sessions are the one shown and another.

No counter bound guards a handler: `MaxDeltas` ends the strategy's stream, and
`MaxDeletes`, `MaxCrashes`, `MaxAged`, `MaxEvents`, `MaxTime` and the number of `Slots`
bound the environment.

*Fairness.* Each turn's and reset's coroutine, each thread job, and in the stream the
runtime's step, the service's step and the reading of a ready event are weakly fair:
the event loop runs a ready coroutine, the pool runs a queued job, and every await
below has a timeout of its own (LLM, tool and SQLite settings). In the LLM gateway the
steps of the gateway, the provider and the consumer are weakly fair, and the completion
and the end of a stream strongly (a provider limits its output tokens, so a stream that
could go on forever with texts, before its completion or after it, does not). In `ToolCalls` the work of each turn is weakly fair: the
answer of the server or a timeout of the session ends a wait for it. In `PlannedTurn` the
turn's work is. In `ReportingQueries` the start of a query that was handed its
permit, the next attempt and the end of a wait for the provider are weakly fair; a
query that waits for a permit is not helped by its own timer. In `ChatClient` the ends of
requests, of session operations and of awaited lists are weakly fair, for the proxy's
timeouts. Nobody is obliged to cancel, disconnect, notice a disconnect, drop a stream,
stop, delete, expire, clean up or crash. `TraceRecords` checks safety only.

*Deadlock* is checked in every run; the modules of one session, turn, stream or call
stutter only once everything ended, the others go on for ever or until their bounds.

## 4. Findings

1. `FreshLostTurn`: the version is compared only if one is expected
   (`sqlite_workflow_state_store.py:500`), and a session without a row loads none.
   Two first turns both succeed and one exchange disappears.
2. `FallbackAfterEffect`: whether a side effect may have started is read from metadata no
   code sets (`runtime.py:1528`), so `backend/config/README.md:495`, "Fallbacks are not
   allowed after external-side-effect operations", is not what happens.

Met while modelling and not run, with the action that takes the step:

- Sessions. In mode `delete_state_row` versions start over at 1
  (`sqlite_workflow_state_store.py:684`), so an old turn's expected version can match
  after the reset. A closing checkpoint that conflicts raises out of the handler
  (`service.py:427`) before `STREAM_CANCELLED` is recorded. Artifacts are cleared once
  (`service.py:617`), so a turn in flight adds its chart after the reset.
- Stream. A disconnect during an agent's await ends as a failed stream, because the
  accumulator raises a plain `RuntimeError` (`session/streaming.py:217`). After a
  disconnect the route still writes an error event (`routes_chat.py:522` catches only
  two exceptions) to a response nobody reads. The fallback strategy can start an LLM
  call for a client already gone. A limit that strikes at `runtime.py:669` leaves
  `orchestration_completed` and then `orchestration_failed` in the trace. An error of the
  policy service in `enforce_fallback_policy` leaves no failure record of the turn.
- LLM gateway. Only text forbids a retry (`llm/gateway.py:308`), so an answer of tool
  calls whose connection breaks after its completion is asked for again. Texts and
  completions that a provider sends after a finish reason are passed on
  (`openai_compatible.py:219-248`), so a consumer that stops at the first `completed` event
  may miss the end of the answer the trace records.
- Policy. The decision cache's key leaves out whether a call carries an idempotency key,
  on which the decision depends where approval is required (`CacheKey`). An unkeyed write
  is then run without the approval it needs after a keyed one of the same turn was allowed.
  `PolicyHeeded` names that case (`Overlooked`), and `DecisionsAreHeld` proves that it is
  the only one in which a call is attempted against the policy.
- Planner. `max_llm_calls` does not count the calls an agent makes
  (`strategy_steps.py:183`), although `backend/config/README.md:65` bounds the turn's.
  The handler of the assessment (`bounded_planner.py:1243`) swallows denials, limits and
  cancellations when the message looks like a request for a chart.
- Trace store. The contract counts typed errors, the store failed events and those of
  severity error, so a migrated row and a recorded event can count differently
  (`Failed`, `Flawed`). Retention goes by a trace's start, so a trace whose turn still
  writes can be cleaned up and begins again with number 1. With `foreign_keys` off a
  cleanup would leave events without a run.
- Reporting tool. The wrapper's timer hides an attempt's own (`service.py:407`): a
  provider that hangs is never counted by the circuit, and never retried.
- Chat page. A retry goes to the last request's session, not the one on the page
  (`composer.js:139`). A list asked for before a session was made drops it from the page
  when it arrives afterwards (`sessions.js:232`). A history is shown on a page whose
  session a list has dropped meanwhile (`sessions.js:277`), and a stream that no frame tied
  to a session, or that failed, leaves its texts on a page without one.

## 5. Proofs

`SessionTurnsProofs`, for any finite or infinite sets of turns, sessions and reset
requests. `TypeCorrect`, `VersionsTellDocuments`, `AuditsAgree` and
`EventsAreTrue` hold in every deployment, whatever resets and deletions remove. The others
assume `Guarded`: every session has its row from the start (`SeededSessions`) and nothing
removes one (`RowsStay`: `replace_with_empty_state`, deletion disabled: the defaults).
`FreshLostTurn` and section 4 show why the assumption is needed, and two theorems
without it say how much is lost. `LossesAreBlind`, in every deployment: messages leave a
conversation only at a reset, at a deletion, or at a save that expects no version or one
of a row removed since. `FirstTurnsAlone`, where rows stay: a completed exchange is missing
only if another turn of its session, which loaded no row, has saved; so the first turns
of a session are its only hazard.

The safety properties are not inductive: they do not say what a worker may still do.
`Inductive`, which `Protected` proves wherever rows stay, and of which the guarded
deployment is the special case that no turn ever expects no version, adds that each row is stamped with its session's reset count
(`RowsAreStamped`), that whoever may save loaded a version (`WorkersAreBased`), that
what a turn loaded is the stored document or has an older version (`BasesAreBehind`),
that the version a committed save expected is gone for good (`SavedBasesArePassed`),
which is why the second save of the same turn conflicts, and that a completion follows
its commit (`CompletionsAreSaved`). Most steps are *quiet*: they leave the rows and the
commits alone, and `QuietKeepsStore` and `TurnsAreSound` reduce them to the one turn
that moves. `CommitsKeepInvariants`, `ResetsKeepInvariants` and
`LoadingKeepsInvariants` are the three real cases. From it follow `CompletedTurnsStay`,
`TurnsSaveOnce`, `ResetsStandFirm`, `ConversationsGrow`, and `PromiseKept`: a load maps to
`Begin`, a commit to `AddAnswer` or `AddQuestion`, a reset to `Clear`, a completion to
`Acknowledge`, every other step to a stutter. Without `Guarded`, `VersionsTellDocuments`
compares versions only within one lifetime of a row (`Aged`: what a turn loaded is of an
earlier lifetime, of an older version, or the stored document), and `EventsAreTrue` rests on
`TrueEvent`, which adds what a turn that still completes has already committed.

`TurnStreamProofs`, for any number of texts and artifacts, with or without a fallback:
`StreamsAreSound` proves `StreamSound` itself inductive (what waits in the outbox is at
most one text followed by events without text, so what was gathered is what was shown
and that text); `CompletionsAreRecorded` follows, and `StreamsKeepContract` maps `Deliver`,
the saves and the closing steps to those of `StreamContract`.

`LlmGatewayProofs`, for every plan of profiles and every number of retries:
`GatewayIsSound` proves `GatewaySound` inductive. It says which attempts have which last
record (`AttemptsInOrder`), which is what makes the current attempt a fresh one, and that
whatever text was shown came from the current attempt (`SpeechFits`), which needs that a
dropped generator (`closing`) has shown none and never comes to show any.
`GatewaySpeaksOnce` and `GatewayOutcomes` follow. `GatewayKeepsPromise` maps the call to
`GatewayPromise`: the attempts made are those up to the current one once its record is
made, a profile is allowed when its check passes, an event that is offered is heard or
announced, and the attempts before a position of the plan are exactly the ones an
advancing call has behind it, for any number of fallbacks and retries. What a
cancellation or a failing record may leave half done is in the promise (`EndTrying`,
`EndPlan`), and nothing else is.

`PlannedTurnProofs`, for any plans, assessments and limits: `TypeCorrect`, `LimitsAreKept`,
`PlanIsFollowed` and `TraceIsTrue`. `LimitsHold` says what was used, and needs `Followed`, which speaks of
the steps *begun* (one more than those that ended), and `Place`, which says at each
point what is already true of the plan: it is valid from its adoption on, no step begun
is terminal while the loop runs, and `loops` is the number of tool calls just begun in a row.
`TraceIsTrue` needs `Telling`: what the trace may hold at each point, namely nothing that
settles the turn before its last record, and nothing about the task but what the plan's
end said.

`ToolCallsProofs`, for any turns, requests, profiles, retries, tokens and size of the cache:
`LockIsAccounted`, `FetchedOnce`, `EffectsHappenOnce`, `CallsAreToldTruly` and
`DecisionsAreHeld`, from invariants that hardly touch. `Calls` is about each call by
itself: how its point, its attempts, its runs and its records go together. `Lock` is
`LockAccounted` with its types; most steps stay away from the lock (`AwayFromLock`), the
others hand it on. The third is `OneFetchPerToken`. `Cache` says that the cache has one
entry for a key, within its size, each with a decision the policy takes of some call
under that key. It rests on `NthOf`, that a set of positions has an n-th smallest, proved
by the least number with enough positions at or below it (`Least`), and on `KeptIs`, that
what is left of the dictionary is entries of it, no two the same. `SameKey` then says what
an allowed call tells of another under its key, which is `PolicyHeeded`.

`TraceStoreProofs`, for any traces, batches, limits, cleanups and crashes:
`SummariesAreTrue`, `EventsAreKept`, `ReadsAreFit`, `OldestGoFirst` and `StoreKeepsLog`.
The invariant of the first three adds to
the types and the three state properties that only an open store has work
(`Working`), that a draft holds what is committed and the events inserted
(`Drafted`), and that a summary read is the summary of the trace's *first* events
(`ReadsHold`), which is what lets events arrive between the two queries. `StoreKeepsLog`
maps `Commit` to `Store`, `Migrate` to `Adopt`, `CleanUp` to `Forget`, failures, refusals
and crashes to `Drop`, and the rest of the store's steps to a stutter. It needs `Carrying`:
the draft is what is committed and the events taken so far, in the order of the batch
the writer began with, and what is pending is the rest of that batch.

`ReportingProofs`, for any callers, permits and attempts: `QueriesAreSound` and
`FailuresAreBounded`; the bound needs that a query fails and leaves in one step, and
that none is let in while the circuit is open.

`ChatClientProofs`, for any sessions and any number of lists under way: `PageIsSound`,
`ShownBelongs` and `ConversationsAreKept`. `Flags` says which of the two flags each await
holds, which is what keeps handlers apart; `Aimed` ties the request under way to the page:
what the inspector knows while a stream runs is the active session or the request's, and a
request is aimed at the active session unless something strayed or that one was dropped.
`Returning` does the same for a history that is read and for a reset from its dialog on.
From the two, `EndsWhereItBegan`: whatever session a handler ends with is the one the page
has, if it still has one.

The types of `SessionTurns`, `ToolCalls`, `PlannedTurn` and `TraceStore`, and
`OldestGoFirst`, `GatewayOutcomes` and `FirstTurnsAlone`, are proved and have no run of
their own.
No theorem takes anything on trust beyond the constants' assumptions
(`StoreAssumption`, `TurnsAssumption`, `StreamAssumption`, `GatewayAssumption`,
`LimitsAssumption`, `PlannerAssumption`, `CacheAssumption`, `ToolsAssumption`,
`TraceStoreAssumption`, `ReportingAssumption`, `ClientAssumption`).

*Model-checked only.* Liveness (`RequestsEnd`, `StreamsEnd`, the two `CallsEnd`, `TurnEnds`,
`QueriesEnd`, `Unlocks`), which is out of this prover's reach, as are ENABLED and
induction over data (where a count over a finite set had to be reasoned about, the least
element of a set of naturals stands for it). Every invariant and action property of a passing run is proved, those
of `SessionGuarded` under `Guarded`.

## 6. Not modelled

Most of the repository's lines are not about the order of events, and have no module:

- *Configuration* (`config/`, the largest part) and the contracts: parsing, defaults and
  validation at start-up. The settings that matter are constants of the modules.
- *Chart agent, visualization gateway, prompts, normalization of tool results*: functions of
  one request. The only state, the artifact store, is a set per session in `SessionTurns`.
- *Memory*: adapters translate requests for an external library; a search or a write
  is a call that answers or fails in `PlannedTurn`. Lazy initialization is its only state.
- *Other strategies* (retrieval, tools, router, memory update): `TurnStream` has what
  `stream_turn` can see of one, not its branches.
- *Policy rules* beyond that of tools are choices of the modules that ask.
- *Views*: lists of sessions, histories, searches of traces and health change no state.
- *Redaction, metrics, logging, admin pages, the front end's proxy, the MCP server's
  loading of plugins, wiring and deployment.*

## 7. Plan

1. Abstract promises, with refinement proofs, of a tool call (what `GatewayPromise` is for
   an LLM call) and of a planned turn, so that the two can be composed over them.
2. The reporting tool's circuit and permits as a refinement of a bounded pool.
3. `ChatClient` composed with `SessionTurns`, so that the page's retries meet the turns they
   repeat.
4. The remaining strategies in `PlannedTurn`'s manner, over `TurnLimits`.
5. The artifact store with users, lookups and expiry, composed with resets and deletions.
