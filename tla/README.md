# Verification of harnas-python

TLA+ models of harnas, an agent harness: a loop that turns an append-only log
into a provider request, ingests the answer, dispatches the tool calls in it and
goes round again.  TLC checks the models on small instances; TLAPS proves the
theorems for every value of the constants.  `PROJECT.json` lists components,
runs, mutants, findings, hazards and theorems, and maps each definition to the
lines it stands for.

To check one run: `tlc -config <cfg> <module>` as listed under "Runs".  To check
the proofs: `tlapm M.tla` for `AgentLoopProofs`, `AgentLoopRuns`,
`CompactionProofs`, `McpProofs`, `StreamingProofs`, `BashProofs`, `StorageProofs` and `GuardsProofs`.

## 1. Inventory

Paths are under `src/src/harnas/`.

| Component | State | Operations | What makes it correct | Here |
|---|---|---|---|---|
| Agent loop (`agent_loop.py`) | turn and attempt counters, scan index, fulfilled ids, the batch's decisions | `run`, `_run_turn`, provider retry, close of an incomplete batch, dispatch of pending tools | a tool_use runs at most once and is answered once; every call sent has its uses paired; reported outcomes are true; a run ends | `AgentLoop` |
| Approval calls (`approval.py`) | none; they append to the log | `approve`, `deny` | only unresolved uses are resolved, once | `AgentLoop` |
| Reports (`agent.py`, `cli.py`) | none; they read the log | response of a chat, exit status, status line | they agree with how the run ended | `AgentLoop` |
| Hooks (`hooks.py`) | handlers per hook point | `on`, `off`, `invoke`, failure isolation, `fail_turn` | one handler's failure never turns a hold into an allow | `AgentLoop`, `Manifest`, `Guards` |
| Permission strategies (`strategies/permission/`) | none | a decision per tool_use | holds and refusals win over allows | `AgentLoop` |
| Guard, sandbox and credential strategies (`strategies/guard/`, `sandbox/`, `credential/`) | counters of failures, rejections, strikes, checks; budgets; a deadline | handlers at `pre_projection`, `pre_tool_use`, `post_tool_use` | the provider is never called past a limit; nothing refused is carried out unless declared so | `Guards` |
| Manifest (`manifest.py`) | the agent under construction | validate, build, resolve, install with `on_error` | what is handed out is what was declared, or nothing is | `Manifest` |
| Runner and registry (`tools/runner.py`, `tools/registry.py`) | the registered tools | `run`, `agent_spawn` | one result per call, an error result for an unknown name | `AgentLoop`, `Manifest` |
| Middleware (`tools/middleware.py`) | attempt counts, times of calls, hash of the last read | `retried`, `RateLimiter`, `StaleReadGuard` | the limit holds over every window; no unseen change is written over, also when another process deletes or restores the file | `Middleware` |
| Retry policy (`providers/retry_policy.py`) | none | `decide` | attempts are numbered without a gap, the last is terminal | `AgentLoop`, `Streaming` |
| Streaming (`providers/streaming.py`) | per provider: blocks, tools, stop reason, what was shown | one handler per frame, `complete`, `fail` | what is logged is what was shown; a failed attempt logs nothing | `Streaming` |
| Log, session (`log.py`, `session.py`) | events; metadata | `append`, `fork`, `save`, `load` | events are never changed; what was saved is what is loaded | `AgentLoop`, `Storage` |
| Storage (`storage.py`) | rows in memory or in a file | fenced `append_event`, `save_header`, `events_since`, loads | no acknowledged row is lost or renumbered by a write that was not cut short; a follower sees each once | `Storage` |
| Mutations and compaction (`mutations.py`, `compaction/`, `strategies/compaction/`) | none beyond the log | `apply`, `compact`, `revert`, four strategies | tool pairs stay whole; nothing is lost or told twice; a revert gives back exactly what was taken | `Compaction` |
| Projections (`projections/`, `content_blocks.py`, `capabilities.py`) | none | effective log to request | a request is well paired for its provider; attachments reach the model or are named | `Projections`, `Media` |
| Ingestors (`ingestors/`) | Gemini: a counter that mints ids | answer to events | ids do not repeat; OpenAI's carrier says what the log says | ids in `AgentLoop` and `Compaction`, carrier in `Projections` |
| Bash session (`tools/builtin.py`) | ring buffers, current command, condition; two readers, a waiter, the shell | `run`, `status`, `kill`, `close` | an answer is the command's own output, background jobs aside; nobody waits for ever unless the session is wedged | `BashSession` |
| MCP stdio client (`mcp/stdio_client.py`) | next id, pending map, reader thread | request, notify, close | each response reaches its own request; every request ends unless the server stops reading; close leaves no server | `McpStdio` |
| Delegation, observation, HTTP, attachments' files, skills, usage, canonical JSON, conformance and smoke drivers | none that outlives a call, or I/O | | | section 14 |

**Interaction.**  The log is the only state the components share.  The host (the
`Agent` facade, the CLI, a service) appends a user message and calls `run`;
`run` invokes hooks, whose handlers (guards, permission and compaction strategies)
read the log and append to it; it projects the log, calls the provider and
appends the events of the ingested answer; it asks the `pre_tool_use` handlers
about every pending tool_use, and then pauses the batch or sends it to the runner,
which appends results.  Between two runs the host may call `approve` or `deny`,
revert a compact, fork the session, or end and continue the saved log in another
process.

**What is hard here.**  The loop is one thread, so its difficulties are not
interleavings but *where it stops*: between any two appends
(`KeyboardInterrupt` and other `BaseException`s are not caught by the loop, the
hooks or the runner), in the middle of a tool, at a pause, at a guard, between two
frames of a stream.  What it
remembers in its attributes then meets a log that others have written to.  The
bash session, the MCP client and the file storage are truly concurrent.  The
mutable view of the log (compacts over compacts and reverts) is a protocol
between strategies that do not know of each other.

## 2. Plan

In the order of importance.  All eight are built.

1. `ToolLedger`, `AgentLoop`, `AgentLoopProofs`, `AgentLoopRuns` — the loop and what is
   reported of it.
2. `ContextWindow`, `Compaction`, `CompactionProofs` — the view of the log.
3. `McpStdio`, `McpProofs` — the MCP client over a subprocess.
4. `StreamedTurn`, `Streaming`, `StreamingProofs` — a streamed turn under its retries.
5. `BashSession`, `BashProofs` — the shell session.
6. `DurableLog`, `Storage`, `StorageProofs` — the stores, with writes cut short.
7. `Middleware`, `Manifest`, `Guards`, `GuardsProofs` — from a manifest to a guarded
   loop over wrapped tools.
8. `Projections`, `Media` over `Compaction` — the requests.

`Guards` extends `Middleware` and `Manifest` and drives both; `Projections` extends
`Compaction` and `Media`.  `AgentLoop` and `Streaming` meet in one step: `ProviderAnswers`
and `AppendToolUse` of the loop are `PublishMessage` and `PublishCall` of a streamed turn,
which `StreamedTurn` describes from outside.

## 3. The loop: `AgentLoop`, `ToolLedger`

**State.**  `log` is `Session.log`; an event keeps its type, its tool_use id (or
attempt number), and the one payload field the loop reads.  `turn`, `attempt`,
`scan`, `fulfilled`, `verdict`, `todo`, `h` are the loop's locals and attributes
(`_event_scan_index`, `_fulfilled_tool_use_ids`, `decisions_list`, the positions a
`for` has left, the next handler).  `serial` is the Gemini ingestor's counter.
`ran`, `minted`, `entries`, `cuts` are history: calls of each handler, tool_uses,
runs and interrupts so far.

**Steps.**  One step makes at most one append, so that `Interrupt` can fall between
any two of them and while a tool runs.  `Chat` and `Reenter` start a run, on a
new loop, on the same object (`SameLoop`), or in a new process with a new
ingestor.  `FailBeforeCall`, `StayFailed`, `Project` are the hooks and checks before
the call; `ProviderFails`, `ProviderAnswers`, `AppendToolUse` the call, its retries
and the ingested answer; `TurnAnswered` and `CloseIncomplete` the rest of
`_run_turn`; `CollectPending`, `InvokeHandler`, `NextDecision`, `BatchDecided`,
`RequestApproval` the decisions and the pause; `DenyByHook`, `RunTool`,
`ToolReturns`, `PostToolUse`, `BatchDispatched` the execution.  `Approve`,
`ApprovedReturn`, `Deny`, `DenyResult` are the two approval calls.

**Constants.**  `Policy` is the list of installed `pre_tool_use` handlers, each a
function from a tool name to what it may do: decide, return nothing, raise and
be isolated, append a terminal error, raise under `fail_turn`.  `FreshIds` is TRUE
for providers that mint ids (Anthropic, OpenAI) and FALSE for the Gemini
ingestor's counter, which starts again in a new process.  That ingestor also derives its stop
reason: it says `tool_use` exactly when there are calls, and `ProviderAnswers` offers no other
answer then.  Its ids are documented as one ingestor object's own (`gemini.py:4`), so the runs take
fresh ids.  With `FreshIds = FALSE` TLC finds that `AnsweredByOwnResult` fails: a resumed session may
mint an id the log has already answered, and the loop takes the new use for answered and never runs it;
`_tool_pairs` would keep the last use and result of such an id, so that an earlier pair may be cut.

**Fairness.**  `WF_vars(Step)`: the loop is a thread that keeps running, and provider
and tool calls return or raise.  Nothing is assumed of the host or of interrupts.
A handler that never returns is outside the model.

**Reports.**  `Response`, `ProviderError`, `ExitStatus`, `Status`, `Shown` are what
`Agent._build_response` and the CLI make of the log.  They read the whole log: what
makes them true of the last run is that a run that ends well appends an answer behind
every earlier failure, which is what `OutcomeTruthful` checks over three runs.  Two things are
so by design and said here: after `runtime_failed` a chat returns the answer before it
(`Shown` is checked for `end_turn` and `provider_failed` only), and the exit status of a
sandbox violation is folded into the one of any agent error.

**`ToolLedger`** is the abstract promise: a tool_use is requested once, started only
while unresolved and one at a time, settled once.  `ImplementsLedger` maps it to
the ids in the log, the running tool and `ran`.  `Orderly` and `SettledForGood` are what a reader of
the log gets from it.

## 4. The view of the log: `Compaction`, `ContextWindow`

**State.**  `log`, and of a pass `pc`, the next strategy `k` and the results `todo`
that `ToolOutputCap` still has to visit.  An event at position p has seq p - 1.
Events that are neither messages nor mutations (annotations, errors,
approvals) are left out: no strategy and no mutation looks at them.  Sizes are
characters; the tokens of a view are the characters of all its messages, by fours.

**Operators.**  `Live`, `Shadowed`, `Heads`, `SummaryAt`, `Told`, `Shown` are
`mutations._analyze` and `_effective`; `Messages`, `Pair`, `Split`, `Safe`, `Tokens`
are the helpers.  As in the code, a later compact takes the place of an earlier one at
the same lowest position, and a shadowed position loses its event even if a summary
stands elsewhere; that no overlap ever arises is a result, not an assumption.

**Steps.**  `UserMessage`, `AssistantMessage`, `ToolUse`, `ToolResult`, `Revert` write
between passes; a result may come long after its use, as it does after a pause.
`BeginPass`, one action per strategy, `CapNext` (one append of `ToolOutputCap`'s
loop) and `Project` are the `pre_projection` pass; `Abandon` is a provider failure or
a `BaseException`, wherever the pass is.  `SummaryTail` calls its own provider, which
may not answer.  A fork starts from a prefix of the log; every prefix is itself a
reachable log, so the invariants cover forks without an action for them (`ForksNeverCut` proves it of the
pairs).

**No fairness**: the properties are safety.

**`ContextWindow`** is the abstract promise: events are shown or belong to one block
told by one summary; collapsing takes what is shown, and expanding a block gives
back what it took and nothing else.  `ImplementsWindow` maps it to the rendered
events and the live compacts; `ToldOnce` is what a reader gets from it.

**Left out.**  A compact whose `replaces` the host chooses freely: in this repository
only conformance input writes one.  (With an empty list `min` raises in every later
projection; a list that names a mutation event loses its summary.)  Whether a
summary may stand between a use and its sibling's result is a provider's demand the
code does not state.

## 5. The MCP client: `McpStdio`

**State.**  `pending` is `_pending`, from a request id to its queue; queues are told apart by
a stamp, and `inbox` is what each holds (one message at most, as `maxsize=1`).
`nextId`, `closed`, `degraded`, `cache` are the client's attributes, `lock` says that
`close` is inside `with self._lock` (the other blocks under the lock are single
steps).  A caller is a thread with its `pc`, the request it is in and its
`request_id`; `reader` is the reader thread, `line` the response in its hand, `to` the
queues it has taken out of the table and not yet filled.  `wire` and `out` are the two
pipes, `server` and `accepted` the process.  `made`, `unsent`, `budget` are history and
bounds.  `gil` is chosen at the start: with a global interpreter lock CPython runs
`request_id = self._next_id; self._next_id += 1` without a switch in between (there is no
call or jump); without one, the three reads and writes interleave.

**Steps.**  `Tools` is the handshake and the list (`initialize`, the notification,
`tools/list`), `CallTool` one request.  `TakeId`, `Register`, `StartWrite`, `FinishWrite`,
`Take` are `_request` as it should go; `WriteClosed` (ValueError), `WriteBreaks` (OSError),
`Expire` and `Forget` as it may.  `ReadLine`, `ReadEof`, `Pop`, `Put`, `FailPending` are the
reader; it ends as "gone" after `_fail_pending`, or as "crashed" when a line is JSON and no
response (`int(request_id)` raises): then nothing is failed and each caller waits for its
timeout.  `Close` to `Kill` are `close`.  The server is external: it reads requests,
answers each at most once, in any order or never, writes lines that are no
response, and dies at any time; what it wrote before can still be read.

**Fairness.**  Threads that can run do (`CallerStep`, `ReaderStep`, `CloserStep`), which
includes that timeouts pass.  Nothing is assumed of the server: it may stop reading for good, as a
real one does when its stderr is full (the client makes it a pipe and nobody drains it) or its stdout is
(once the reader has ended).  Then a writer stays blocked on a full pipe, `close` takes the
lock and closes the file, which waits for that writer, and everybody who needs the lock waits too; no
timeout of the client covers a write.  That is a hang the code has, so `EverybodyReturns` states what
remains: in every behaviour in which no write stays `Blocked` for ever, all calls and `close` return.

**Two things the model says openly.**  A malformed line sets `_closed`, so a later
`close` returns at once and the server is not terminated: `CloseTearsDown` excepts exactly that
state of the reader.  A failed write leaves its entry in the table: `OnlyUnsentLinger`
names these (`unsent`) and shows that nothing else lingers.

**Left out.**  Lines without an id (the reader skips them), a server that answers twice,
the spawning itself, stderr, and payloads.  Once the reader has ended, what the server writes fills the
pipe and then stops it.  After `MaxRequests` no new request begins.

## 6. A streamed turn: `Streaming`, `StreamedTurn`, `StreamingProofs`

**State.**  `started`, `open`, `tools`, `finish`, `stopped`, `text` are the fields of the
`StreamState` of the chosen `provider` (each class has some of them); `todo` the tools a
loop has still to visit; `pc`, `attempt`, `log`, `start` are `run_stream` and the retry
loop around it; `seen` is what observers were shown of the current turn id.
`frames` and `regular` are history.  A joined text is its number of chunks: two
joins differ for a property only in which chunks they hold.

**Steps.**  `Start` makes the state of an attempt.  The wire is the environment: each
operator of `AnthropicData`, `OpenAIData`, `GeminiData` is one kind of frame, well placed or
not; `Frame` takes it or refuses it as a protocol error.  OpenAI's `finish_reason` ends the
tools one by one (`EndTool`) and may fail halfway.  `Break` is whatever else ends an
attempt: no answer, a status, a cut body, bad UTF-8, an `on_stream_event` callback that raises
on a delta (observers are isolated).  `Complete` is the end of the body;
`PublishMessage` and `PublishCall` the events it hands to the loop, one append each, so that
`Interrupt` may fall between them.  `Raise` is `fail` and the retry loop's `except`.

**No fairness**: the properties are safety.

**`StreamedTurn`** is the promise to watchers and readers of the log: an attempt is
announced, shows parts, ends once; only a completed one is recorded, message before calls;
nothing recorded is tried again.  `ImplementsFeed` maps it to `seen` and to what the log holds
from the turn's first answer on.

**Said openly.**  `AnswerAsShown` holds for a wire that keeps to its numbering (`regular`): a
provider that uses one index or id for two tools gets them mixed, which no provider documents
doing.  No streamed Gemini stop reason is `tool_use`, where the buffered ingestor says so, so
streamed Gemini calls are closed as an incomplete batch; no document says the two agree.

## 7. The bash session: `BashSession`, `BashProofs`

**State.**  `current`, `done`, `exit`, `start`, `buffer`, `closed` are the fields of
`BashSession`, `BashCommand` and `RingBuffer`; `known` is the registry.  `reader` and `late` are the
two reader threads, `shell`, `stdin`, `pipe`, `doing`, `phase` the process, `jobs` the commands
whose background job still runs, `reaped` the shell's waiter, `pc`, `run`, `timed` the calling
threads.  `hung` and `unfit` are chosen at the start: the commands that never end, and those that
cannot be written.  A section under the lock ends at a return or at a wait on the condition and is one
action.  What is printed has a kind: a line, a last line without its end, a line with the prefix of a
sentinel in it, a line that is not UTF-8, a line of a background job.

**Steps.**  `Lookup`, `Run`, `Completed`, `Timeout`, `Status`, `Kill`, `TermExpires`, `Killed`,
`Close` are the calls.  `Run` answers "killed" when the write fails with an `OSError`, and raises for
a command of `unfit` (a lone surrogate): then the command stays in progress.  `ShellReads`,
`ShellPrints`, `ShellEnds`, `ShellReports`, `ShellDies` are the shell: external, but made to run what it
is given, print it and report with the sentinels the session wrote.  `JobEnds` is a background job: it has
the shell's streams, ends when it likes, with or without a line, and may outlive the shell.
`ReadText`, `ReadJoined` (a job's line behind an unfinished one is one line), `ReadSentinel`, `WriteLate`
are a reader, which marks a command as ended on the sentinel *before* it writes the text that stood in
front of it and does not show a line that looks like a sentinel; `ReaderDies` is the decoding error on a
byte that is not UTF-8.  `Reap` is `_wait_shell`.

**Fairness.**  Weak fairness of each caller (timeouts pass), each reader (a thread that can run does;
`ReaderDies` is one of its steps), the waiter, and of the shell's reading, ending and reporting.  A
command in `hung` never has to end, nor does a job, and nobody has to kill.
`CallsReturn` says
that a kill returns and so does a run with a timeout once it waits for its command; every
run returns only if commands end and the session is not `Wedged`: a reader has died, or the command in
progress was never written.  A wedged session keeps later runs waiting for ever, without a timeout
(`builtin.py:551`); no document says otherwise, so this is stated and not a finding.

An answer is cut from the buffer at the offset where its command began (`builtin.py:749`), so what a
background job of an earlier command prints later is in it: `OwnLines` allows that, although
`CHANGELOG.md:273` speaks of command-local output.

**Left out.**  A pipe that is full: the readers drain them, and once one is dead the session is wedged
anyway.  A command whose own last text hides its sentinel (an unfinished line with the prefix in it) counts as
one of `hung`.  Jobs print whole lines.

## 8. The stores: `Storage`, `DurableLog`, `StorageProofs`

**State.**  `lines` and `malformed` are the file (or the list of the memory adapter, or the session
file), `pc`, `content`, `new` a writer between its read and its write, `session` an open session.
`acked`, `base`, `bare`, `cuts`, `seen` are history and the follower.  A row is its number, its event
and whether a line separator of Unicode (U+2028, U+2029, U+0085) stands in it.

**Steps.**  `append_event` and `save_header` prepare a content, truncate, and write.  Each write may be cut
short: by a crash (`Crash`), or by an exception that the process survives (`WriteFails`: text that
has no encoding, an event of a session that is no JSON, a full disk).  Either leaves whole lines, half a
line, or nothing.  `Session.create`, `Record`, `Save`, `Load` go the same way.  `ReadAll` splits
lines where `splitlines` does, so that a file with such a row cannot be read; `Session.load` splits at
line feeds only.  The follower polls `events_since` at any moment, during a write too.

**What the model says openly.**  Writers take turns (`Free`): nothing in the code keeps a second
writer from writing between the first one's read and write, and nothing in the repository
says it may.  An adapter made without an `initial_header` whose first append meets no file writes
rows without a header, and every later read of it raises; such a file is `bare` and excepted.  A row with
a line separator is acknowledged and then makes the adapter's file unreadable for good.  Separators in a
header are left out: they do the same before the first row.

**`DurableLog`** is the promise: rows are only added, each at its own place; a write that is cut short
takes rows off the end or makes the store unreadable until one who still has them writes them again; and
a row that splits makes it unreadable for good.  A prefix left by such a write loads without
complaint, which is why the promise cannot be stronger.

## 9. Guards over wrapped tools: `Manifest`, `Middleware`, `Guards`

**`Manifest`** is `load`: `parse_source`, `validate`, the registry, the provider, the strategies and
hooks, and `install_strategies`, which registers one after the other, may fail halfway, and takes
each strategy's handlers off again to put them back with the declared `on_error`.  Each check is an
action in the code's order with the class of its refusal.  A provider kind the host has only a
buffered object for still needs a key or a stream provider (`Providers`, `StreamProviders`,
`ApiKeys`).  Which fields a section has is a flag.

**`Middleware`** is a file's `read` and `write` handlers inside `StaleReadGuard`, `RateLimiter` and
`retried`, each step that another process can come between an action of its own.  `now` is
the clock, `Intrude` the other process, which may put any other content there, an earlier one
included, or delete the file; both move only once an agent is installed.  A hash stands for its
content.  A call is retried with the content it was called with (`text`), and `Record` and `Hash` are
the `exists()` and the reading behind a handler: a file that is gone in between raises, and the write is
called again although it was done.

**`Guards`** is the turn loop with the counters of `Repetition`, `CostBudget`, `Timeout`, `Health`, the
two sandboxes and the credential proxy, in the order in which the manifest installed them.
An answer that ends the turn may leave an incomplete batch, whose results go into the log without a hook
(`CloseIncomplete`).  Retries and approvals are `AgentLoop`'s and left out.  `Health` is the branch that finds
the provider healthy or only warns; the input and output budgets are one number; a path or host is
inside or outside; an argument the proxy overrides is data.

**Said openly.**  A sandbox or the proxy declared with `isolate`, the default, that reaches its own limit raises
`TurnFailed` inside an isolated handler: it leaves no decision, the call is carried out, and the
loop stops after the batch.  With `fail_turn` the run ends at once, and `NeverCalledPastALimit` says that
then nothing refused is carried out; for the network sandbox the change log promises it
whatever the declaration, which is finding 4 (`NetworkEnforced`).  The rows of failures that
`Repetition` limits are rows of dispatched results: those of an incomplete batch and of `approval.deny` are
in the log and counted by nobody, so that the log may hold longer rows, and the property leaves them out
by name.  A write that was done is done again, when another process deletes the file or puts the old
content back during the pause between attempts, or when it is what was there already;
`NothingWrittenOver` says that nothing else repeats it.  `Agent.from_manifest` has no parameter
for hook handlers, so it refuses every manifest with a hook (`HandlersGiven`).
`Runtime.build` and `Agent.from_session` load without
installing; `from_session` and `with_session` drop the provider kind.

**No fairness**: the properties are safety.

## 10. Requests: `Projections`, `Media`

`Stream` is the effective log by position, `Request` what each projection makes of it.
`MessagesUpTo` is the projections' loop, a recursive function over positions: an event that is
rendered begins a message (`Fresh`) or joins the last one (`Joins`), in its `Role`; `Rendered` leaves
out the answers that are silent.  `CallsOf` is the wire message OpenAI's ingestor keeps of an answer
with reasoning details.  `RequestsPaired` asks of every request that it is `Sound`: `Paired`,
`Folded`, and alternating for Anthropic.  It is checked in every state of the `compaction` run in
which a provider is called, that is over every mix of compacts, reverts, late results and silent
answers within its bounds.

`Media` is one message: `Render` says of each block what becomes of it by model, override, mismatch
behaviour and readability; "none" is a block that puts nothing in the request, "wire" a provider's own
block given back unchanged.  `Flattened` is the message that has become a plain string: OpenAI's of a single
text block, and Anthropic's when one text is all that its group holds (`Settings` says whether the
message stands alone); then the carrier is gone.  It has no state.
`Reached` says of one content under one configuration that each block is there, in its place and as
it should be; `AttachmentsReach` asks it of every configuration, setting and content of up to two
blocks and is a conjunct of `RequestsPaired`.

**Said openly.**  With sibling calls, the summary of a capped result can stand between a call and its
sibling's result: `Paired` asks for "after its call", not "directly after".  An
attachment that can no longer be read makes every projection of its session raise while its
message is in view, also when only a note about it would be sent, because the note has its size.

## 11. Runs

| Run | Instance | States | Shows |
|---|---|---|---|
| `loop_approval` | `RequireApproval` next to `HumanApproval`, batches of two, two turns, two runs, two interrupts, same or new loop | 2.3 M | single answers, accounted runs, holds kept, atomic pauses, the ledger |
| `loop_core` | a `fail_turn` hook and the repetition guard, guards at `post_tool_use`, two attempts, an unknown tool, three runs | 0.9 M | pairing, answers by own results, retry ladder, truthful outcomes and reports, terminal errors, termination |
| `loop_siblings` | `RequireApproval` alone, one tool held and one not | | **violated**: finding 1 |
| `compaction` | all four strategies in one pass, six events, two sizes | 0.2 M | pairs, in-flight uses, accounting, settled passes, the window, the requests |
| `openai_carriers` | tail and cap strategies, carried answers, six events | | **violated**: finding 3 |
| `mcp` | two threads, pipes of one message, two requests in all, malformed and garbled lines, a server that may stop reading | 0.9 M | own answers, nobody forgotten, what lingers, an unblocked reader, teardown, every call and `close` return unless a write stays blocked |
| `streaming` | three providers, two indexes, two ids, two attempts, up to eight frames | 3.4 M | the answer is what was shown, attempts leave nothing, the feed |
| `bash` | a thread that runs and one that kills, two commands: the first may hang, cannot be written, leaves a job, prints an unfinished text, a line that looks like a sentinel and a byte that is not UTF-8; a ring buffer of one chunk | 0.5 M | own lines and status, calls return |
| `bash_tail` | two commands of a line and a tail | | **violated**: finding 2 |
| `storage` | three stores, two writers, a follower, four rows, two writes cut short | 0.7 M | acknowledged rows, the follower, the durable log |
| `guards` | some four hundred manifests, five of them driven for two runs of two turns with batches of two, answers of one token against a budget of two, two calls a minute, two attempts, two contents and another process | 6.8 M | what is installed, limits, the rate, the file |
| `guards_network` | the same, behind the network sandbox | | **violated**: finding 4 |

*Bounds.*  Two uses are what a batch needs to be mixed (one held, one not; one refused,
one allowed; one run, one left).  Two turns let a scan index and fulfilled ids be
carried over; two or three runs let a log be met by a loop that did not write it;
two interrupts let the run that repairs the first be cut too.  `MaxUses = 2`
bounds the whole log's tool_uses, so the refinement and the approval properties
are seen with both uses in one batch and with one in each of two.  Six
events are enough for a pair, a compact over it, its revert and a second compact, and for a
second strategy to meet the first one's compact in one pass; most of the view is proved for
logs of any length.  Two requests of the MCP client, of one thread after another or of two at once, let an
answer come while another request waits; pipes of one message make every writer block.  Eight frames
are two tools of Anthropic, one with a chunk, and a proper end; two attempts let parts of a first one
be there when the second begins.  Two commands let the second meet a first that timed out, hung or
was killed by the other thread, and one chunk of ring buffer loses output at once.  In `bash` the first command does
everything that may disturb and the second is the one disturbed, as each kind of output multiplies the
states; the proof has every command print everything.  Two
contents are enough for another process to change a file and to put the first content back.  Four rows and two writes cut short let a
repaired store be hit again.  Two runs, two turns and batches of two let each counter reach its limit
inside a batch, across turns and across runs; a window of one tick and three instants let a call
fall on its edge.  Every bound is a guard (`HasRoom`, `frames < MaxFrames[provider]`, ...), none
a state constraint.

The manifests that are not driven are only loaded, by `from_manifest` and by `Runtime.build`: every
provider kind, each refusal, pairs of strategies.

*Deadlock* is not checked: the host may stop using a session, and the bounds end
every behaviour.

*Mutants.*  Each property is broken by a mutation of the model written as a plausible
slip in the code; the mutant stands before the definition it replaces and is named
in `PROJECT.json`.

## 12. Proofs

`AgentLoopProofs` and `AgentLoopRuns` rest on `BoundsAssumption` (counts are
naturals, at least one turn and attempt) and `PolicyAssumption` (handlers have
the listed effects), `CompactionProofs` on `StrategiesAssumption` (limits the
constructors accept) and `DataAssumption`, `McpProofs` on `CallersAssumption`,
`GuardsProofs` on `MiddlewareAssumption`, `ManifestsAssumption` (a manifest's sections are lists of
records) and `GuardsAssumption` (limits the constructors accept; the agents that are run declare every
guard and one boundary), `StreamingProofs` on `ConstantsAssumption`, `StorageProofs` on `StorageAssumption`, `BashProofs` on `SessionAssumption`
(finitely many threads, a buffer of at least one chunk).  Nothing depends on the size of a
bound.  Theorems that need fresh ids say so; §3 tells what happens without them.

**Loop.**  `LoopInv` is `TypeOK`, `LogInv` (every result was requested), `PhaseInv` (what
each phase may assume of `todo`, `verdict`, `current`), and for fresh ids
`FreshInv` with `ResultAtMostOnce`.  None of the properties is inductive alone: that a
use is answered once needs that the uses a phase still has to visit are unresolved,
which needs that the scan has seen every result up to its index, which needs
uses to be known by their ids.  Every step appends one of few kinds of event, so the
proofs first show what a step may do to the log and then, per property, what that
means.  Proved from it: `Types`, `AnsweredOnce`, `Refinement`, from which `LedgerKept` takes what
the ledger promises back to the log;
and, by invariants relative to it, `RunsOnce` (calls are accounted for by results,
the running tool and interrupts), `PauseFindsNothingRun` and `HoldIsKept` (a
held use in a batch carries a pending verdict from the moment its handler spoke,
wherever that handler stands in the list).

`Ladder`, `ReportsTruthful` and `FailedStaysSilent` need no assumption.  `LadderInv` adds that
the attempt under way continues the error at the end of the log.  `ReportInv` says what each
phase knows of the log's errors (none before a provider is called, none of the provider once it
has answered) and, of an ended run, what its outcome says of the log (`EndedAs`), which approvals
resolved afterwards must not disturb.

`ProviderSeesPairs`: `OwedInv` says which requested ids have neither a result nor an approval to
wait for, phase by phase (none when the provider is called; those of `todo` in a dispatch), and
`ScanInv` that what the loop skips is resolved or older than the turn.  The theorem has two
assumptions, each with a counterexample behind it: tools have a runner, and a pause holds its
whole batch or never happens (`WholePauses`; finding 1 is the mixed batch).  It speaks of logs no
interrupt cut (`cuts = 0`): the loop does not repair a batch that was.
`SettledIsAnswered` and `EndsAnswered` are the same at the end of a run, for fresh ids:
with pauses, of runs whose approvals have all been resolved; without, of every run.

`NoRunGoesRound` is the safety half of `RunTerminates`.  `Left` is what a run still has before it:
turns, phases of the turn, what the phase has to go through, the steps of one visit.  `RunDescends`
says that each step of a run returns or leaves less; it follows from `LoopInv` alone, as each loop of
the code lowers one component of `Left` and leaves the ones before it (attempts, tool_uses to append,
positions to visit, handlers to ask).  The theorem also says that the order is well-founded
(`DescentIsWellFounded`, a lemma about the order alone), so that no run has infinitely many steps.  What `RunTerminates` needs besides is that a run always has a next step, which is about
ENABLED.

**View.**  `ViewInv` says that ids are minted and answered once, every compact is closed
under tool pairs, live compacts do not overlap, and what `ToolOutputCap` still
holds is still rendered.  `ShownIs` reduces the view to "a message no live compact
replaces", `ToldIsLive` shows every live compact is rendered; three lemmas say what a
message, a compact and a revert do to the view, and `StepsOf` that a step is one of
these.  The pair closure needs that a use without a result keeps itself out of
every compact, since its result comes later; the disjointness needs that strategies
only choose from what is rendered.  Proved: `Types`, `PairsNeverCut`, `InFlightKept`,
`Accounted`, `WindowRefinement` and, through it, `NothingToldTwice` — for any list of strategies in
any order with any limits.  `ForksNeverCut` carries `PairsWhole` to every prefix of the log.
`SafeTakesAllItMay` is the other half of the pair closure: what `tool_pair_safe_range` returns is not
only closed but the largest closed part of the candidates, so a strategy never leaves more than it must.
`PassesSettle` needs no fresh ids.  `SettleInv` says of the strategies already behind `k` that each
would do nothing more (`Settled`), and that `ToolOutputCap` holds every oversize result it has left.  A
compact leaves the messages, tokens and oversize results fewer (`FewerMessages`, `FewerTokens`,
`HideOversize`), and what `tool_pair_safe_range` has once left over it leaves again among fewer
candidates (`SafeOnce`), so no later strategy undoes what an earlier one settled.

**Requests.**  `RequestsAlwaysPaired` is about the result of a loop over the log, so it needs
induction over the positions, and the library's induction theorems cannot be instantiated here.
`LoopDefined` does it once by least counterexample (a set of naturals has a least member): the
loop's function satisfies its recursion for a log of any length.  `Built` is the loop invariant,
preserved by a new message and by one more block in the last (`GrownIsBuilt`, `PlaceGrows`): every
block is an event rendered so far, unchanged and in its own role (`Faithful`), each such event is
there once and in order (`Whole`, `InOrder`), and Anthropic's roles alternate (`Alternate`).
`LoopBuilds` is the induction.  At the end, `BuiltFolds` and `BuiltPairs` turn it into `Folded` and
`Paired`, with what the view gives: a result that is shown has its use shown and before it
(`PairsWhole`), and ids are minted and answered once (`IdsInv`).  The theorem assumes fresh ids and
that no OpenAI answer is carried; finding 3 is what happens with one.  `OthersIgnoreCarriers` shows
that carried answers matter to no other projection.  `AttachmentsAlwaysReach` is `Reached` for
contents of any number of blocks in any setting, of which the run checks those of two.

**MCP client.**  What speaks of ids holds under a global interpreter lock (`gil`), and says so;
without one two threads may share an id.  `Inv` says that a request's id is the number of
its queue and no two callers in a request have the same (`CallerInv`); that every message
in the pipes and in the reader's hands carries its own number (`PipeInv`); that a queue
in the table or about to be filled is empty, and never both in the table and
about to be filled (`TableInv`); and that a registered queue is in the table, in the
reader's hands or filled, while one not yet registered is nowhere (`ReachInv`).  The
last part is what makes the others inductive: registering must not meet a queue the
reader holds.  Proved from it: `Own`, `Reached`, and with `LingerInv` (an entry is of a failed
write, or of a caller that is still in its request) `TableEmpties`.

With or without the lock: `FreeInv` says what is left when ids collide.  Queues are still the
callers' own (`CallerFree`), one is in the table at most once and empty as long as it is there or
about to be filled (`QueueInv`), and one not registered is nowhere (`NowhereInv`).  Proved from
it: `NeverBlocks`, `McpTyped`, and with `DownInv` `TornDown`.  All for any number of threads and
requests and pipes of any size.

**Middleware.**  For the wrappers every step of `Guards` is one of theirs, a step of the clock or
the other process, or none (`StepsOf`), so their proofs know nothing of the loop.  `Rate`:
`MinuteKept` is not inductive, since it says nothing of what the limiter remembers; `RateInv` adds
that its list is the list of all admitted calls without the k oldest, and that those k are older
than a window.  Dropping from a sorted list what is older keeps this, and when a call is
admitted the list's length counts every call of its window.  `FileKept`: `FileInv` says which
contents can be on disk inside the guard's window (those the session knows, or that came there), and of a
write that was done, while nobody else has touched the file, that the disk holds its text: so its own
retry is refused, unless that text is what the hash stands for.  The other process may do anything in
between, deletion and old contents included; it ends what is known of the disk, not of the hash.

**Guards.**  `LoadInv` says what each stage of loading has established (`StagesInv`) and that every
point of the session holds the handlers installed so far, in their order, the next one at the place the
number of declared listeners gives it (`HooksInv`).  It is `AsDeclared` at every moment of installing, and
what the guards rest on: `Agents` finds the budget, the repetition guard and the boundary of every agent
that is run at their points.  `LoopInv` carries each limit to where the provider is called: as long as
the log holds no terminal error, no key was asked for too often and no row of bad results is too long.
For the rows the counters must count what the log ends with (`Trails`), since a row that a success
has ended is no longer in any counter (`TrailAdded`, `RowAdded`).  Of a batch, it says that a call the
boundary refuses was allowed only with the terminal error written and a boundary that cannot fail the
turn (`BatchInv`).  Results of incomplete batches lengthen the log and no counter, so that rows are
counted without them.  Proved from it: `LimitsHold`, `GuardTypes`, for any manifest, any order of its
strategies and any limits.

**Streaming.**  A frame ends the attempt or changes the parser and shows parts (`Parsed`); one lemma per
provider shows this, and `StepIs` reduces a step to eight kinds.  `TurnTypes` needs that a turn whose
answer is published has a stop reason, which `Whole` gives for each provider.
`TurnImplements` needs `FeedInv`: nothing is recorded before `Complete`, the last event shown tells
whether an attempt is open, failed or completed, and once something is recorded the record has a
first entry, so that a later one only lengthens it (`AnswerRecorded`).
`NothingOfAFailedAttempt` takes what `StreamedTurn` promises back to the log and the watchers.
`ShowsAnswer` is about the end of a turn, so `ShownInv` follows every tool there: what was shown of it
is its begin and as many chunks as it holds until it is over, then its end with all of them
(`ToolTold`), where each provider has a moment of its own at which a tool is over (`Over`); every
event of a tool is of one that is held (`Owned`), ids are distinct, and behind the published message
are the tools already visited, each once (`Published`).  A frame shows no tool (`QuietStep`) or changes
one and shows events of it alone (`ToolStep`), which leaves what was shown of the others
(`OthersKept`).

**Stores.**  `StoreInv` says that what is in the file, and what a writer is about to put there, is
rows numbered from 0 behind a header or none (`FileInv`), that at most one writer is at work
(`SoloInv`), and how what a writer prepared relates to the rows it found: the same, one row
more, or a session that starts with them (`WriterInv`).  The last part is what makes it
inductive, through the moment in which the file is empty and the rows are only in the
writer's hands.  `ShapedPart` shows that a file cut anywhere is a file whose rows start the whole
one's, which is what a write cut short leaves and what a poll may see.  `PlainInv` says that only
an adapter's file ever holds a row with a line separator, and `OkInv` that as long as no write was cut short
the store can be read exactly when it holds none.  Proved from it: `StoreTyped`,
`StoreIsDurable`; with `AckInv`, `AcknowledgedIsStored`; and with `SeenInv` (what the follower has
seen starts the rows kept, or those being written) `FollowerSeesInOrder`.  The last three except
what their properties except: a file begun without a header, and for the last two, writes cut short.

**Bash session.**  `OwnLines` speaks of answers, which are cut from the buffers long after what they
show was printed, so `BashInv` follows a line on its way.  A command the shell was given (`Live`) is
in progress or over, and what is in the shell's hands is the one in progress (`ShellInv`).  A pipe
holds texts of one command, its sentinel last, and behind it none but lines of jobs: that is why a
sentinel ends the command that printed what is in front of it.  A line is in the pipe until it is in
the buffer, behind the offset its command starts at (`LineInv`), unless the reader dies, which leaves
it in the pipe for good and its command in progress; and behind that offset is nothing of
earlier commands but lines of their jobs and a tail the reader still held (`TextInv`); the tail can
only be of the command just before, since no later one starts before the pipes are empty of its own
output and a reader holds one tail at a time.
`StringFromIs` turns this into what an answer shows, or else the answer is a whole buffer
(`SnapshotIs`).  Proved from it: `SessionTyped`, `ShowsOwnLines`.

**Model-checked only.**  `RunTerminates`, `EverybodyReturns` and `CallsReturn` are liveness under
fairness, out of the prover's reach.  Every invariant a passing run checks is proved, and every
action property and refinement.

## 13. Findings

1. *Siblings of a held tool_use* (`loop_siblings`, `CallsArePaired`).  A pause
   writes `approval_requested` only for the held uses of a batch.  `approval.py:3`
   says each un-executed use is marked and that resolving them makes the next call
   valid; the allowed siblings are neither marked nor run, and a host that resolves
   what it was asked sends an unpaired tool_use.
2. *Late text* (`bash_tail`, `TailShown`).  A reader marks the command as ended on its sentinel and
   wakes `run` before it writes the text that stood in front of the sentinel on the same line; the
   answer may be taken without it, and the text becomes part of a later one.
   `tests/test_builtin_tools.py:130` expects it in the command's own.
3. *Calls twice* (`openai_carriers`, `CallsFolded`).  An OpenAI answer with reasoning details is kept as
   the whole wire message, its tool_calls included, and the projection adds each tool_use of the log to
   it again; `projections/openai.py:3` says tool_uses are folded into the message's tool_calls.
4. *The last refusal is none* (`guards_network`, `NetworkEnforced`).  At its third violation in a row the
   network sandbox raises instead of refusing, `Hooks.invoke` isolates the handler, as is the default,
   and the fetch is carried out before the loop stops.  `CHANGELOG.md:235` promises exact host
   allow/deny enforcement.

## 14. Not modelled

- *Delegation.*  `agent_spawn` is sequential: one row, a child session in memory and a result, all
  inside one handler call, which `AgentLoop` has as `RunTool` to `ToolReturns`, with an interrupt
  anywhere between.  The helpers of `projection.py` walk a tree of finished sessions and raise on a
  broken link.
- *Observation.*  Subscribers are isolated and cannot reach the log; that `on_stream_event` does
  raise into a stream is in `Streaming`.
- *Other built-in tools* (files, search, web, one-shot bash): single system calls and string work.
- *HTTP, the MCP HTTP client*: one request, one response; a session header is all that outlives
  a call.
- *Attachments' files, skills, transcript, usage, canonical JSON*: formatting and reading of
  files.
- *CLI, conformance and smoke drivers*: argument parsing, printing and comparison of fixtures;
  what the CLI reports of a run and the conformance runner's re-entry are in `AgentLoop`.
- In the modelled parts: request and response field mapping, argument overrides and identity
  stamping, delays of the retry policy, `Hooks.scoped` and `reset`, a compact whose list the host
  chooses freely, the mock stream, which replays events.
