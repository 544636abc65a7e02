------------------------------ MODULE AgentLoop ------------------------------
(***************************************************************************)
(* The turn loop of harnas: AgentLoop.run drives log -> projection ->      *)
(* provider -> ingestor, retries the provider, composes the pre_tool_use   *)
(* decisions of a batch, pauses it for approval or dispatches it through   *)
(* the Runner.  Between two runs the host appends a user message, approves *)
(* or denies a tool_use, or re-enters the loop.  One event is appended per *)
(* step, so an interrupt (KeyboardInterrupt and friends are not Exception) *)
(* can fall between any two appends and while a tool is running.           *)
(*                                                                         *)
(* The log is the program's only durable state; the variables below it are *)
(* the locals and attributes of one AgentLoop.                             *)
(***************************************************************************)
EXTENDS Integers, Sequences

CONSTANTS
  MaxTurns,        \* AgentLoop max_turns
  MaxAttempts,     \* RetryPolicy max_attempts
  HasRunner,       \* whether the loop was given a Runner
  Names,           \* tool names the provider may call
  Registered,      \* names in the tool Registry
  Holdlist,        \* names RequireApproval was installed with
  Policy,          \* the pre_tool_use handlers, in order: name -> what one may do
  PostEffects,     \* what the post_tool_use handlers may do
  FreshIds,        \* TRUE: the provider mints tool_use ids (Anthropic, OpenAI)
                   \* FALSE: a counter in the ingestor does (Gemini)
  SameLoop,        \* TRUE: the host may call run() again on the same object
  MaxBatch,        \* bound: tool_uses per assistant turn
  MaxUses,         \* bound: tool_uses in the log
  MaxEntries,      \* bound: calls of AgentLoop.run
  MaxInterrupts    \* bound: interrupts

VARIABLES
  log,             \* Session.log, a sequence of events
  pc,              \* where the run (or the approval call) is
  turn, attempt,   \* loop counters
  stop, left,      \* the answer being ingested: stop_reason, tool_uses to append
  start,           \* _run_turn's turn_start
  scan, fulfilled, \* _event_scan_index, _fulfilled_tool_use_ids
  verdict,         \* decisions_list: position of a pending tool_use -> decisions
  todo,            \* positions of the current for loop still to visit
  h,               \* index of the next pre_tool_use handler
  current,         \* id of the tool_use being approved, denied or run
  outcome,         \* what the last run returned
  serial,          \* the Gemini ingestor's _tool_call_counter
  ran, minted,     \* history: calls of each handler; tool_uses appended
  entries, cuts    \* history: runs started; interrupts

logVars  == <<log, minted>>
turnVars == <<turn, attempt, stop, left, start, serial>>
scanVars == <<scan, fulfilled>>
passVars == <<verdict, todo, h>>
histVars == <<ran, entries, cuts>>
vars == <<log, minted, pc, turn, attempt, stop, left, start, serial, scan, fulfilled,
          verdict, todo, h, current, outcome, ran, entries, cuts>>

Ids == 1..MaxUses
NoId == 0
Verdicts == {"allow", "refuse", "pending"}
\* What one handler invocation may do: return a decision, return None, raise
\* under on_error "isolate", append a terminal runtime_error, or raise under
\* on_error "fail_turn".
Effects == Verdicts \cup {"none", "raise", "fatal", "fail"}
StopReasons == {"tool_use", "end_turn"}   \* end_turn: any other reason too
Outcomes == {"none", "end_turn", "provider_failed", "runtime_failed",
             "incomplete_tool_batch", "awaiting_approval", "no_pending_tools",
             "max_turns_reached", "interrupted"}
EventTypes == {"user_message", "assistant_message", "tool_use", "tool_result",
               "provider_error", "runtime_error", "approval_requested",
               "approval_resolved"}
Tags == Names \cup StopReasons \cup
        {"", "ran", "denied", "incomplete", "retry", "terminal", "approved"}
PCs == {"idle", "project", "call", "ingest", "close", "collect", "decide",
        "pause", "dispatch", "running", "post", "approved", "denied"}

ASSUME BoundsAssumption ==
  /\ MaxTurns \in Nat \ {0} /\ MaxAttempts \in Nat \ {0}
  /\ MaxBatch \in Nat /\ MaxUses \in Nat /\ MaxEntries \in Nat
  /\ MaxInterrupts \in Nat
ASSUME PolicyAssumption ==
  /\ HasRunner \in BOOLEAN /\ FreshIds \in BOOLEAN /\ SameLoop \in BOOLEAN
  /\ Policy \in Seq([Names -> SUBSET Effects])
  /\ PostEffects \subseteq {"none", "fatal", "fail"}

-----------------------------------------------------------------------------
(* Events.  num is a tool_use id, or the attempt of a provider_error; tag    *)
(* is the one payload field the loop reads or a reader of the log needs.     *)

Event(type, num, tag) == [type |-> type, num |-> num, tag |-> tag]
RuntimeError == Event("runtime_error", NoId, "terminal")
Events == [type : EventTypes, num : Nat, tag : Tags]

Positions(l, type) == {i \in 1..Len(l) : l[i].type = type}
IdsOf(l, type)     == {l[i].num : i \in Positions(l, type)}
Requested(l)       == IdsOf(l, "tool_use")
Resolved(l)        == IdsOf(l, "tool_result")
TerminalError(l)   == Positions(l, "runtime_error") # {}
First(S)           == CHOOSE x \in S : \A y \in S : x <= y

\* The pre_tool_use strategies of the repository, as entries of Policy.
RequireApproval == [n \in Names |-> IF n \in Holdlist THEN {"pending"} ELSE {"allow"}]
HumanApproval   == [n \in Names |-> {"allow", "refuse", "raise"}]
Repetition      == [n \in Names |-> {"none", "fatal"}]
FailTurnHook    == [n \in Names |-> {"allow", "fail"}]

-----------------------------------------------------------------------------
Init ==
  /\ log = <<>> /\ minted = 0
  /\ pc = "idle" /\ turn = 1 /\ attempt = 1
  /\ stop = "end_turn" /\ left = 0 /\ start = 0 /\ serial = 0
  /\ scan = 0 /\ fulfilled = {}
  /\ verdict = [i \in {} |-> {}] /\ todo = {} /\ h = 1
  /\ current = NoId /\ outcome = "none"
  /\ ran = [id \in Ids |-> 0] /\ entries = 0 /\ cuts = 0

Goto(p)        == pc' = p
EndRun(reason) == pc' = "idle" /\ outcome' = reason
Write(event)   == log' = Append(log, event) /\ minted' = minted

-----------------------------------------------------------------------------
(* The host, between runs.                                                   *)

\* AgentLoop.run on a new loop, on the same loop again, or on a new loop in a
\* new process that loaded the saved log (Runtime.build with resume), which
\* has an ingestor of its own.
Enter ==
  /\ entries < MaxEntries
  /\ entries' = entries + 1
  /\ turn' = 1 /\ Goto("project")
  /\ \/ scan' = 0 /\ fulfilled' = {} /\ serial' \in {serial, 0}
     \/ SameLoop /\ outcome # "interrupted" /\ UNCHANGED <<scanVars, serial>>
  /\ UNCHANGED <<attempt, stop, left, start, passVars, current, outcome, ran, cuts>>

\* Agent.chat and Agent.stream: append the user message, run a new loop.
Chat ==
  /\ pc = "idle"
  /\ Write(Event("user_message", NoId, ""))
  /\ Enter

\* AgentLoop.run again without a message, as after approve or deny.
Reenter ==
  /\ pc = "idle" /\ entries > 0
  /\ Enter
  /\ UNCHANGED logVars

\* Mutant: approvals do not look for a tool_result.
UnresolvedUnchecked(id) == id \in Requested(log)
\* approval._unresolved_tool_use
Unresolved(id) == id \in Requested(log) /\ id \notin Resolved(log)
NameOf(id) ==
  LET uses == {i \in Positions(log, "tool_use") : log[i].num = id}
  IN  log[CHOOSE i \in uses : \A j \in uses : j <= i].tag

\* Runner.run calls the handler of a registered tool; an unknown name only
\* yields an error result.
Invoke(id, name) ==
  ran' = IF name \in Registered THEN [ran EXCEPT ![id] = @ + 1] ELSE ran

\* approval.approve: record the decision and start the tool, once.
Approve(id) ==
  /\ pc = "idle" /\ HasRunner /\ Unresolved(id)
  /\ Write(Event("approval_resolved", id, "approved"))
  /\ current' = id
  /\ Invoke(id, NameOf(id))
  /\ Goto("approved")
  /\ UNCHANGED <<turnVars, scanVars, passVars, outcome, entries, cuts>>

\* Runner.run returns to approve.
ApprovedReturn ==
  /\ pc = "approved"
  /\ Write(Event("tool_result", current, "ran"))
  /\ Goto("idle") /\ current' = NoId
  /\ UNCHANGED <<turnVars, scanVars, passVars, outcome, histVars>>

\* approval.deny: the resolution, then the rejection result.
Deny(id) ==
  /\ pc = "idle" /\ Unresolved(id)
  /\ Write(Event("approval_resolved", id, "denied"))
  /\ current' = id
  /\ Goto("denied")
  /\ UNCHANGED <<turnVars, scanVars, passVars, outcome, histVars>>

DenyResult ==
  /\ pc = "denied"
  /\ Write(Event("tool_result", current, "denied"))
  /\ Goto("idle") /\ current' = NoId
  /\ UNCHANGED <<turnVars, scanVars, passVars, outcome, histVars>>

-----------------------------------------------------------------------------
(* _run_turn: pre_projection hooks, terminal check, projection, provider.    *)

\* A guard strategy at pre_projection, a fail_turn hook at pre_ or
\* post_projection, or a capability mismatch appends a terminal runtime_error.
FailBeforeCall ==
  /\ pc = "project"
  /\ Write(RuntimeError)
  /\ EndRun("runtime_failed")
  /\ UNCHANGED <<turnVars, scanVars, passVars, current, histVars>>

\* A terminal runtime_error of any earlier run ends this one.
StayFailed ==
  /\ pc = "project" /\ TerminalError(log)
  /\ EndRun("runtime_failed")
  /\ UNCHANGED <<logVars, turnVars, scanVars, passVars, current, histVars>>

\* Mutant: the terminal check before the projection is missing.
ProjectUnchecked ==
  /\ pc = "project"
  /\ Goto("call")
  /\ attempt' = 1 /\ start' = Len(log)
  /\ UNCHANGED <<logVars, turn, stop, left, serial, scanVars, passVars,
                 current, outcome, histVars>>

Project ==
  /\ pc = "project" /\ ~TerminalError(log)
  /\ Goto("call")
  /\ attempt' = 1 /\ start' = Len(log)
  /\ UNCHANGED <<logVars, turn, stop, left, serial, scanVars, passVars,
                 current, outcome, histVars>>

\* Mutant: the policy forgets max_attempts.
RetriesForever(retryable) == retryable
\* RetryPolicy.decide
Retries(retryable) == attempt < MaxAttempts /\ retryable

ProviderFails(retryable) ==
  /\ pc = "call"
  /\ Write(Event("provider_error", attempt,
                 IF Retries(retryable) THEN "retry" ELSE "terminal"))
  /\ IF Retries(retryable)
     THEN attempt' = attempt + 1 /\ UNCHANGED <<pc, outcome>>
     ELSE EndRun("provider_failed") /\ UNCHANGED attempt
  /\ UNCHANGED <<turn, stop, left, start, serial, scanVars, passVars, current,
                 histVars>>

\* The answer's first event is always the assistant_message.  The Gemini
\* ingestor derives the stop_reason from the presence of calls.
ProviderAnswers(reason, n) ==
  /\ pc = "call"
  /\ n <= MaxBatch /\ n <= MaxUses - minted
  /\ FreshIds \/ (n > 0 <=> reason = "tool_use")
  /\ Write(Event("assistant_message", NoId, reason))
  /\ stop' = reason /\ left' = n
  /\ Goto("ingest")
  /\ UNCHANGED <<turn, attempt, start, serial, scanVars, passVars, current, outcome,
                 histVars>>

\* Mutant: turn_start is taken one event too late for a turn's first tool_use.
UsesOfTurnLate == {i \in Positions(log, "tool_use") : i > start + 2}
UsesOfTurn == {i \in Positions(log, "tool_use") : i > start}
NextId == IF FreshIds THEN minted + 1 ELSE serial + 1

AppendToolUse(name) ==
  /\ pc = "ingest" /\ left > 0
  /\ log' = Append(log, Event("tool_use", NextId, name))
  /\ minted' = minted + 1 /\ left' = left - 1
  /\ serial' = IF FreshIds THEN serial ELSE serial + 1
  /\ UNCHANGED <<pc, turn, attempt, stop, start, scanVars, passVars, current,
                 outcome, histVars>>

\* The rest of _run_turn and run's branch on the stop_reason.
TurnAnswered ==
  /\ pc = "ingest" /\ left = 0
  /\ IF stop = "tool_use"
     THEN Goto("collect") /\ UNCHANGED <<todo, outcome>>
     ELSE IF UsesOfTurn = {}
          THEN EndRun("end_turn") /\ UNCHANGED todo
          ELSE Goto("close") /\ todo' = UsesOfTurn /\ UNCHANGED outcome
  /\ UNCHANGED <<logVars, turnVars, scanVars, verdict, h, current, histVars>>

\* _close_incomplete_tool_batch, one result per tool_use of the turn.
CloseIncomplete ==
  /\ pc = "close"
  /\ IF todo = {}
     THEN EndRun("incomplete_tool_batch") /\ UNCHANGED <<todo, logVars>>
     ELSE /\ Write(Event("tool_result", log[First(todo)].num, "incomplete"))
          /\ todo' = todo \ {First(todo)}
          /\ UNCHANGED <<pc, outcome>>
  /\ UNCHANGED <<turnVars, scanVars, verdict, h, current, histVars>>

-----------------------------------------------------------------------------
(* _dispatch_pending_tools: scan the log, decide the whole batch, then       *)
(* either pause it or execute it.                                            *)

ScannedResults(l) == {l[i].num : i \in {j \in Positions(l, "tool_result") : j > scan}}

\* _remember_new_tool_results, once l is the log.
Remember(l) == scan' = Len(l) /\ fulfilled' = fulfilled \cup ScannedResults(l)

\* Mutant: the fulfilled ids are not filtered out.
PendingUsesAll == {i \in Positions(log, "tool_use") : i > scan}
\* _pending_tool_uses
PendingUses ==
  {i \in Positions(log, "tool_use") :
     i > scan /\ log[i].num \notin fulfilled \cup ScannedResults(log)}

CollectPending ==
  /\ pc = "collect"
  /\ IF HasRunner
     THEN /\ Remember(log)
          /\ verdict' = [i \in PendingUses |-> {}] /\ todo' = PendingUses
     ELSE /\ verdict' = [i \in {} |-> {}] /\ todo' = {}
          /\ UNCHANGED scanVars
  /\ h' = 1 /\ Goto("decide")
  /\ UNCHANGED <<logVars, turnVars, current, outcome, histVars>>

\* Hooks.invoke, one handler: only a decision is kept, a raising handler is
\* isolated, and a fail_turn handler ends the run.
InvokeHandler(effect) ==
  /\ pc = "decide" /\ todo # {} /\ h <= Len(Policy)
  /\ effect \in Policy[h][log[First(todo)].tag]
  /\ IF effect \in {"fatal", "fail"} THEN Write(RuntimeError) ELSE UNCHANGED logVars
  /\ IF effect = "fail" THEN EndRun("runtime_failed") ELSE UNCHANGED <<pc, outcome>>
  /\ verdict' = [verdict EXCEPT ![First(todo)] = @ \cup ({effect} \cap Verdicts)]
  /\ h' = h + 1
  /\ UNCHANGED <<turnVars, scanVars, todo, current, histVars>>

\* Mutant: the decision pass does not advance.
NextDecisionStuck ==
  /\ pc = "decide" /\ todo # {} /\ h > Len(Policy)
  /\ h' = 1
  /\ UNCHANGED <<logVars, pc, turnVars, scanVars, verdict, todo, current,
                 outcome, histVars>>

NextDecision ==
  /\ pc = "decide" /\ todo # {} /\ h > Len(Policy)
  /\ todo' = todo \ {First(todo)} /\ h' = 1
  /\ UNCHANGED <<logVars, pc, turnVars, scanVars, verdict, current, outcome, histVars>>

Refused(i) == "refuse" \in verdict[i]

\* Mutant: an allow from another handler overrules the hold.
HeldUnlessAllowed ==
  {i \in DOMAIN verdict : ~Refused(i) /\ verdict[i] \cap Verdicts = {"pending"}}

\* _approval_requests: refuse beats pending_approval, which beats allow.
Held == {i \in DOMAIN verdict : ~Refused(i) /\ "pending" \in verdict[i]}

BatchDecided ==
  /\ pc = "decide" /\ todo = {}
  /\ IF Held = {} THEN Goto("dispatch") /\ todo' = DOMAIN verdict
                  ELSE Goto("pause") /\ todo' = Held
  /\ UNCHANGED <<logVars, turnVars, scanVars, verdict, h, current, outcome, histVars>>

RequestApproval ==
  /\ pc = "pause"
  /\ IF todo = {}
     THEN EndRun("awaiting_approval") /\ UNCHANGED <<todo, logVars>>
     ELSE /\ Write(Event("approval_requested", log[First(todo)].num, ""))
          /\ todo' = todo \ {First(todo)}
          /\ UNCHANGED <<pc, outcome>>
  /\ UNCHANGED <<turnVars, scanVars, verdict, h, current, histVars>>

DenyByHook ==
  /\ pc = "dispatch" /\ todo # {} /\ Refused(First(todo))
  /\ Write(Event("tool_result", log[First(todo)].num, "denied"))
  /\ Remember(log')
  /\ Goto("post")
  /\ UNCHANGED <<turnVars, passVars, current, outcome, histVars>>

RunTool ==
  /\ pc = "dispatch" /\ todo # {} /\ ~Refused(First(todo))
  /\ current' = log[First(todo)].num
  /\ Invoke(log[First(todo)].num, log[First(todo)].tag)
  /\ Goto("running")
  /\ UNCHANGED <<logVars, turnVars, scanVars, passVars, outcome, entries, cuts>>

\* The handler returns or raises: Runner.run records either as the result.
ToolReturns ==
  /\ pc = "running"
  /\ Write(Event("tool_result", current, "ran"))
  /\ Remember(log')
  /\ current' = NoId /\ Goto("post")
  /\ UNCHANGED <<turnVars, passVars, outcome, histVars>>

\* post_tool_use hooks: nothing, a guard that appends a terminal
\* runtime_error, or a fail_turn handler that raises.
PostToolUse(effect) ==
  /\ pc = "post"
  /\ IF effect = "none" THEN UNCHANGED logVars ELSE Write(RuntimeError)
  /\ IF effect = "fail" THEN EndRun("runtime_failed")
                        ELSE Goto("dispatch") /\ UNCHANGED outcome
  /\ todo' = todo \ {First(todo)}
  /\ UNCHANGED <<turnVars, scanVars, verdict, h, current, histVars>>

\* Mutant: run does not look for a terminal runtime_error after a dispatch.
BatchDispatchedUnchecked ==
  /\ pc = "dispatch" /\ todo = {}
  /\ IF DOMAIN verdict = {} THEN EndRun("no_pending_tools") /\ UNCHANGED turn
     ELSE IF turn = MaxTurns THEN EndRun("max_turns_reached") /\ UNCHANGED turn
     ELSE turn' = turn + 1 /\ Goto("project") /\ UNCHANGED outcome
  /\ UNCHANGED <<logVars, attempt, stop, left, start, serial, scanVars, passVars,
                 current, histVars>>

\* run's checks after the dispatch, in order.
BatchDispatched ==
  /\ pc = "dispatch" /\ todo = {}
  /\ IF TerminalError(log) THEN EndRun("runtime_failed") /\ UNCHANGED turn
     ELSE IF DOMAIN verdict = {} THEN EndRun("no_pending_tools") /\ UNCHANGED turn
     ELSE IF turn = MaxTurns THEN EndRun("max_turns_reached") /\ UNCHANGED turn
     ELSE turn' = turn + 1 /\ Goto("project") /\ UNCHANGED outcome
  /\ UNCHANGED <<logVars, attempt, stop, left, start, serial, scanVars, passVars,
                 current, histVars>>

\* A BaseException leaves run (or approve, deny) wherever it is; the loop
\* object is gone, the log keeps what was appended.
Interrupt ==
  /\ pc # "idle" /\ cuts < MaxInterrupts
  /\ cuts' = cuts + 1
  /\ EndRun("interrupted") /\ current' = NoId
  /\ UNCHANGED <<logVars, turnVars, scanVars, passVars, ran, entries>>

-----------------------------------------------------------------------------
(* What the host is told of a log l once a run has returned.                 *)

\* The last position in S, 0 without one.
LastOf(S) == IF S = {} THEN 0 ELSE CHOOSE i \in S : \A j \in S : j <= i

\* Agent._build_response: the last answer of the whole log.
Response(l) == LastOf(Positions(l, "assistant_message"))

TerminalFailures(l) == {i \in Positions(l, "provider_error") : l[i].tag = "terminal"}
\* Mutant: an old provider_error is shown although an answer came later.
ProviderErrorEver(l) == TerminalFailures(l) # {}
\* cli.terminal_provider_error: none that an answer has followed.
ProviderError(l) == LastOf(TerminalFailures(l)) > Response(l)

\* command_run's exit code; a sandbox violation has a code of its own, which is
\* an agent error here.
ExitStatus(l) == IF ProviderError(l) THEN "provider_error"
                 ELSE IF TerminalError(l) THEN "agent_error" ELSE "success"
\* The status of its ndjson output, where the runtime_error comes first.
Status(l) == IF TerminalError(l) THEN "runtime_error"
             ELSE IF ProviderError(l) THEN "failed" ELSE "completed"

\* What command_chat prints after a message: a provider error, or the answer.
ErrorShown == -1
Shown(l) == IF ProviderError(l) THEN ErrorShown ELSE Response(l)

-----------------------------------------------------------------------------
Host ==
  \/ Chat \/ Reenter
  \/ \E id \in Ids : Approve(id) \/ Deny(id)

Step ==
  \/ ApprovedReturn \/ DenyResult
  \/ FailBeforeCall \/ StayFailed \/ Project
  \/ \E retryable \in BOOLEAN : ProviderFails(retryable)
  \/ \E reason \in StopReasons, n \in 0..MaxBatch : ProviderAnswers(reason, n)
  \/ \E name \in Names : AppendToolUse(name)
  \/ TurnAnswered \/ CloseIncomplete \/ CollectPending
  \/ \E effect \in Effects : InvokeHandler(effect)
  \/ NextDecision \/ BatchDecided \/ RequestApproval
  \/ DenyByHook \/ RunTool \/ ToolReturns
  \/ \E effect \in PostEffects : PostToolUse(effect)
  \/ BatchDispatched

Next == Host \/ Step \/ Interrupt

\* The loop is one thread that keeps running until it returns, and provider
\* and tool calls return or raise.  Nothing obliges the host to act.
Spec == Init /\ [][Next]_vars /\ WF_vars(Step)

-----------------------------------------------------------------------------
LogType == log \in Seq(Events) /\ minted \in 0..MaxUses
TurnType ==
  /\ turn \in 1..MaxTurns /\ attempt \in 1..MaxAttempts
  /\ stop \in StopReasons /\ left \in 0..MaxBatch
  /\ start \in 0..Len(log) /\ serial \in 0..minted
ScanType == scan \in 0..Len(log) /\ fulfilled \subseteq Ids
PassType ==
  /\ verdict \in [DOMAIN verdict -> SUBSET Verdicts]
  /\ DOMAIN verdict \subseteq Positions(log, "tool_use")
  /\ todo \subseteq Positions(log, "tool_use") /\ h \in 1..Len(Policy) + 1
RunType ==
  /\ pc \in PCs /\ current \in Ids \cup {NoId} /\ outcome \in Outcomes
  /\ ran \in [Ids -> Nat] /\ entries \in 0..MaxEntries /\ cuts \in 0..MaxInterrupts

\* The type invariant: counters within their limits, and every position the
\* loop remembers is one of the log's.
TypeOK == LogType /\ TurnType /\ ScanType /\ PassType /\ RunType

\* Every tool_use in the log has a minted id, every result one that was
\* requested.
LogInv ==
  /\ \A i \in Positions(log, "tool_use") : log[i].num \in 1..minted /\ log[i].tag \in Names
  /\ Resolved(log) \subseteq Requested(log)

\* What each phase of the loop may assume of todo, verdict and current.
PhaseInv ==
  /\ pc = "ingest" => left <= MaxUses - minted
  /\ pc = "call" => UsesOfTurn = {}
  /\ pc \in {"decide", "pause", "dispatch", "running", "post"} => todo \subseteq DOMAIN verdict
  /\ pc \in {"running", "post"} => todo # {}
  /\ pc = "running" => current = log[First(todo)].num
  /\ pc \in {"approved", "denied"} => current \in Requested(log) \ Resolved(log)
  /\ pc \notin {"running", "approved", "denied"} => current = NoId

\* With fresh ids: a tool_use is known by its id, the loop knows every result
\* it has scanned, and the uses it still has to visit are unresolved.
FreshInv ==
  /\ \A i, j \in Positions(log, "tool_use") : log[i].num = log[j].num => i = j
  /\ \A i \in Positions(log, "tool_result") : i <= scan => log[i].num \in fulfilled
  /\ pc = "ingest" => \A i \in UsesOfTurn : log[i].num \notin Resolved(log)
  /\ pc \in {"close", "dispatch", "running"} =>
       \A i \in todo : log[i].num \notin Resolved(log)
  /\ pc \in {"decide", "pause"} =>
       \A i \in DOMAIN verdict : log[i].num \notin Resolved(log)
  /\ pc = "post" => \A i \in todo \ {First(todo)} : log[i].num \notin Resolved(log)

\* No tool_use is answered twice, whatever the mix of hook denials, approvals,
\* runs, closed batches, interrupts and re-entered loops.
ResultAtMostOnce ==
  \A i, j \in Positions(log, "tool_result") : log[i].num = log[j].num => i = j

\* A tool handler is called at most once per tool_use, and a use the log
\* records as denied or incomplete never reached its handler; only an
\* interrupt while the handler runs can make a later run call it again.
RunsAccounted ==
  \A id \in Ids :
    ran[id] <= cuts
               + (IF \E i \in Positions(log, "tool_result") :
                       log[i].num = id /\ log[i].tag = "ran" THEN 1 ELSE 0)
               + (IF current = id /\ pc # "denied" THEN 1 ELSE 0)

\* A tool on the hold list runs only after the host has approved that very
\* tool_use: no other handler's decision, and no re-entry of the loop, lets
\* it through.
HeldRunsOnlyApproved ==
  \A i \in Positions(log, "tool_use") :
    log[i].tag \in Holdlist /\ ran[log[i].num] > 0 =>
      \E j \in Positions(log, "approval_resolved") :
        j > i /\ log[j].num = log[i].num /\ log[j].tag = "approved"

\* The approval pause is atomic: while it is being recorded no tool_use of
\* the batch has run or been answered, not even those no handler held.
PauseIsAtomic ==
  pc = "pause" =>
    \A i \in DOMAIN verdict :
      log[i].num \notin Resolved(log) /\ ran[log[i].num] <= cuts

\* Providers are only ever called with every tool_use paired with a result
\* (what the APIs demand), provided every approval asked for was resolved.
CallsArePaired ==
  pc = "call" /\ IdsOf(log, "approval_requested") \subseteq Resolved(log) =>
    Requested(log) \subseteq Resolved(log)

\* The attempts of one provider call are numbered 1, 2, ... without a gap,
\* and never go past max_attempts; only the last one is terminal.
RetryLadder ==
  \A i \in Positions(log, "provider_error") :
    /\ log[i].num \in 1..MaxAttempts
    /\ log[i].num = MaxAttempts => log[i].tag = "terminal"
    /\ log[i].num > 1 =>
         log[i - 1] = Event("provider_error", log[i].num - 1, "retry")

\* What a run is reported as agrees with how it ended: a failed run never exits
\* as a success nor a normal ending as a failure, whatever failed in earlier
\* runs of the session; what Agent.chat returns after end_turn is an answer of
\* that very turn; and a closed batch has every tool_use of the turn answered.
\* (AgentLoop.run, Agent._build_response, cli.command_run, command_chat)
OutcomeTruthful ==
  /\ outcome \in {"end_turn", "no_pending_tools", "max_turns_reached"} =>
       (pc \in {"idle", "approved", "denied"} => ~TerminalError(log))
  /\ pc = "idle" =>
       /\ outcome = "incomplete_tool_batch" => \A i \in UsesOfTurn : log[i].num \in Resolved(log)
       /\ outcome \in {"runtime_failed", "provider_failed"} =>
            ExitStatus(log) # "success" /\ Status(log) # "completed"
       /\ outcome \in {"end_turn", "incomplete_tool_batch", "no_pending_tools", "max_turns_reached"} =>
            ExitStatus(log) = "success" /\ Status(log) = "completed"
       /\ outcome = "end_turn" => Shown(log) = Response(log) /\ Response(log) > start
       /\ outcome = "provider_failed" => Shown(log) = ErrorShown

\* Once a terminal runtime_error is in the log no provider is called again,
\* by this run or any later one.
TerminalStopsProvider ==
  [][TerminalError(log) =>
       IdsOf(log', "provider_error") = IdsOf(log, "provider_error")
       /\ Positions(log', "assistant_message") = Positions(log, "assistant_message")]_vars

\* A run always returns: turns, attempts and batches are all finite.
RunTerminates == (pc # "idle") ~> (pc = "idle")

\* A turn that ended normally leaves every tool_use answered by a result of
\* its own, one that follows it in the log.
AnsweredByOwnResult ==
  pc = "idle" /\ outcome \in {"end_turn", "no_pending_tools"} =>
    \A i \in Positions(log, "tool_use") :
      \E j \in Positions(log, "tool_result") : j > i /\ log[j].num = log[i].num

\* The loop and the approval calls implement the ToolLedger: every step is a
\* step of the ledger on what the log and the running tool show of it, or
\* leaves the ledger alone.
Ledger == INSTANCE ToolLedger WITH
  requested <- Requested(log),
  settled   <- Resolved(log),
  running   <- IF pc \in {"running", "approved"} THEN {current} ELSE {},
  calls     <- ran
ImplementsLedger == Ledger!Spec

\* The inductive invariant of the proofs.
LoopInv == TypeOK /\ LogInv /\ PhaseInv /\ (FreshIds => FreshInv /\ ResultAtMostOnce)
=============================================================================
