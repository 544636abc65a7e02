------------------------------- MODULE Guards -------------------------------
(***************************************************************************)
(* The guard strategies a manifest installs, in the turn loop, over        *)
(* wrapped tools: Timeout, CostBudget and Health at pre_projection, a      *)
(* sandbox or the credential proxy at pre_tool_use, Repetition there and   *)
(* at post_tool_use.  A guard stops the loop by appending a terminal       *)
(* runtime_error, which the loop looks for before the provider is called   *)
(* and after a batch, and never inside one.  Retries and approvals are     *)
(* those of AgentLoop and left out here: what approval.approve and deny    *)
(* put in the log no guard is told of.                                     *)
(***************************************************************************)
EXTENDS Middleware, Manifest

CONSTANTS
  MaxTokens,        \* CostBudget max_input_tokens
  Costs,            \* tokens an answer may use
  Deadline,         \* Timeout timeout_seconds
  MaxFailures, MaxIdentical, MaxRejections,   \* Repetition's limits
  MaxViolations,    \* the limit of the sandboxes and the proxy
  Driven,           \* bound: the manifests whose agents are run
  Turns,            \* AgentLoop max_turns
  MaxBatch,         \* bound: tool_uses of an answer
  MaxRuns           \* bound: runs of the loop

VARIABLES
  pc, turn, runs,   \* where the loop is
  used,             \* usage of all assistant_messages of the log
  fatal,            \* the log holds a terminal runtime_error
  checks,           \* Health.checks
  batch, verdicts,  \* pending tool_uses of the turn, and their decisions
  n,                \* index of the tool_use the loop is at
  calls,            \* Repetition.calls
  failures, rejections,   \* Repetition.consecutive_*
  violations,       \* _consecutive_violations, _consecutive_missing
  results           \* the tool_results of the log: "ok", "error", "rejected",
                    \* or "incomplete", of a batch that was not dispatched

loopVars == <<pc, turn, runs, used, fatal, checks, batch, verdicts, n, calls,
              failures, rejections, violations, results>>
toolVars == <<mwVars, manifestVars>>
vars == <<toolVars, loopVars>>

\* The agents that are run have every guard, and one boundary.
Boundaries == {"sandbox/write", "sandbox/network", "credential/proxy"}
DeclaresAll(m) ==
  LET names == {m.strategies[k].name : k \in DOMAIN m.strategies} IN
  /\ {"guard/cost_budget", "guard/timeout", "guard/health", "guard/repetition"} \subseteq names
  /\ Cardinality(names \cap Boundaries) = 1 /\ Cardinality(names) = Len(m.strategies)

ASSUME GuardsAssumption ==
  /\ MaxTokens \in Nat /\ Costs \subseteq Nat /\ Deadline \in Nat
  /\ MaxFailures \in Nat \ {0} /\ MaxIdentical \in Nat \ {0} /\ MaxRejections \in Nat \ {0}
  /\ MaxViolations \in Nat \ {0}
  /\ Driven \subseteq DOMAIN Manifests /\ \A m \in Driven : DeclaresAll(Manifests[m])
  /\ Turns \in Nat \ {0} /\ MaxBatch \in Nat \ {0} /\ MaxRuns \in Nat

\* What a tool_use asks for.  Behind the write sandbox: the file, through its
\* wrapped tools, or a write "outside".  Behind the network sandbox: a URL
\* "inside" or "outside".  Behind the proxy: a URL whose routes find their
\* credential ("inside"), do not ("outside"), first do and then do not
\* ("half"), or a route of a tool that takes no header ("unsupported").
Keys == {"read", "write", "inside", "outside", "half", "unsupported"}
KeysBehind ==
  [b \in Boundaries |->
    CASE b = "sandbox/write"   -> {"read", "write", "outside"}
      [] b = "sandbox/network" -> {"inside", "outside"}
      [] OTHER                 -> {"inside", "outside", "half", "unsupported"}]

Wrapped == {"read", "write"}

Boundary == CHOOSE b \in Boundaries : Listening("pre_tool_use", b)
Batches == UNION {[1..m -> KeysBehind[Boundary]] : m \in 1..MaxBatch}

Init ==
  /\ MiddlewareInit /\ ManifestInit
  /\ pc = "idle" /\ turn = 0 /\ runs = 0
  /\ used = 0 /\ fatal = FALSE /\ checks = 0
  /\ batch = <<>> /\ verdicts = <<>> /\ n = 1
  /\ calls = [key \in Keys |-> 0] /\ failures = 0 /\ rejections = 0 /\ violations = 0
  /\ results = <<>>

-----------------------------------------------------------------------------
(* A turn                                                                    *)

\* The clock starts when the guards are installed.
Running == stage = "ready" /\ facade = "agent" /\ source \in Driven

Run ==
  /\ Running /\ pc = "idle" /\ runs < MaxRuns
  /\ pc' = "project" /\ turn' = 1 /\ runs' = runs + 1
  /\ UNCHANGED <<toolVars, used, fatal, checks, batch, verdicts, n, calls,
                 failures, rejections, violations, results>>

OverBudget == Listening("pre_projection", "guard/cost_budget") /\ used > MaxTokens

\* A timeout of 0 lets the first check pass.
TimedOut ==
  /\ Listening("pre_projection", "guard/timeout")
  /\ now >= Deadline /\ ~(Deadline = 0 /\ checks = 0)

\* The first check is skipped; a command that times out has failed.
HealthChecked(failed_check) ==
  failed_check => Listening("pre_projection", "guard/health") /\ checks > 0

\* The guards look one after the other; each may append its error.
PreProjection ==
  /\ pc = "project"
  /\ checks' = checks + 1
  /\ \E unhealthy \in BOOLEAN :
       /\ HealthChecked(unhealthy)
       /\ fatal' = (fatal \/ TimedOut \/ OverBudget \/ unhealthy)
  /\ pc' = IF fatal' THEN "idle" ELSE "call"
  /\ UNCHANGED <<toolVars, turn, runs, used, batch, verdicts, n, calls,
                 failures, rejections, violations, results>>

\* _close_incomplete_tool_batch: each tool_use gets an error as its result, and
\* no hook is invoked for it.
CloseIncomplete(batch_size) ==
  results' = results \o [k \in 1..batch_size |-> "incomplete"]

\* The provider answers with tool_uses, or ends the turn: without any, or with
\* some and another stop reason than tool_use.
Answer ==
  /\ pc = "call"
  /\ \E cost \in Costs : used' = used + cost
  /\ \/ batch' \in Batches /\ pc' = "decide" /\ UNCHANGED results
     \/ batch' = <<>> /\ pc' = "idle" /\ \E m \in 0..MaxBatch : CloseIncomplete(m)
  /\ verdicts' = <<>> /\ n' = 1
  /\ UNCHANGED <<toolVars, turn, runs, fatal, checks, calls, failures, rejections, violations>>

\* What a boundary says of a call, and its counter of calls refused in a row.
Allow(count)  == [count |-> count, says |-> "allow"]
Strike(count) == [count |-> count + 1,
                  says |-> IF count + 1 >= MaxViolations THEN "raise" ELSE "deny"]

WriteSandbox(key, count) ==
  CASE key = "outside" -> Strike(count)
    [] key = "write"   -> Allow(0)
    [] OTHER           -> Allow(count)

\* An unparseable URL is outside.
NetworkSandbox(key, count) == IF key = "outside" THEN Strike(count) ELSE Allow(0)

\* Every route that finds its credential starts the count again, the ones
\* before the route that does not included.
Proxy(key, count) ==
  CASE key = "inside"  -> Allow(0)
    [] key = "outside" -> Strike(count)
    [] key = "half"    -> Strike(0)
    [] OTHER           -> [count |-> count, says |-> "error"]

Judged(key) ==
  CASE Boundary = "sandbox/write"   -> WriteSandbox(key, violations)
    [] Boundary = "sandbox/network" -> NetworkSandbox(key, violations)
    [] OTHER                        -> Proxy(key, violations)

\* Hooks.invoke calls the handlers in order: Repetition comes before the
\* boundary or after it.
CountedBefore ==
  LET hs == hooks["pre_tool_use"] IN
  \E j, k \in DOMAIN hs : j < k /\ hs[j].name = "guard/repetition" /\ hs[k].name = Boundary
FailsTurn ==
  \E k \in DOMAIN hooks["pre_tool_use"] :
    hooks["pre_tool_use"][k] = [name |-> Boundary, on_error |-> "fail_turn"]
Repeated(key) == calls[key] + 1 >= MaxIdentical

\* pre_tool_use of one tool_use.  At its limit a boundary appends the error
\* and raises TurnFailed.  Hooks.invoke isolates that, and no decision is left
\* of it, unless the handler was declared with fail_turn: then the run ends,
\* before the handlers behind it are called.
Decide ==
  LET key   == batch[n]
      judged == Judged(key)
      aborts == judged.says = "raise" /\ FailsTurn
      counts == Listening("pre_tool_use", "guard/repetition") /\ (CountedBefore \/ ~aborts)
  IN
  /\ pc = "decide" /\ n <= Len(batch)
  /\ calls' = IF counts THEN [calls EXCEPT ![key] = @ + 1] ELSE calls
  /\ violations' = judged.count
  /\ fatal' = (fatal \/ judged.says \in {"raise", "error"} \/ (counts /\ Repeated(key)))
  /\ IF aborts
     THEN pc' = "idle" /\ UNCHANGED <<verdicts, n>>
     ELSE /\ verdicts' = Append(verdicts, IF judged.says \in {"deny", "error"} THEN "deny" ELSE "allow")
          /\ n' = n + 1 /\ UNCHANGED pc
  /\ UNCHANGED <<toolVars, turn, runs, used, checks, batch, failures, rejections, results>>

Decided ==
  /\ pc = "decide" /\ n > Len(batch)
  /\ pc' = "dispatch" /\ n' = 1
  /\ UNCHANGED <<toolVars, turn, runs, used, fatal, checks, batch, verdicts, calls,
                 failures, rejections, violations, results>>

\* Mutant: a rejection counts as one only, and does not count as a failure.
PostEither(how) ==
  LET f == CASE how = "ok" -> 0 [] how = "error" -> failures + 1 [] OTHER -> failures
      r == IF how = "rejected" THEN rejections + 1 ELSE 0
  IN
  /\ results' = Append(results, how)
  /\ failures' = f /\ rejections' = r
  /\ fatal' = \/ fatal
              \/ /\ Listening("post_tool_use", "guard/repetition")
                 /\ f >= MaxFailures \/ r >= MaxRejections
  /\ n' = n + 1

\* Repetition.on_post_tool_use for a result that was just recorded.
Post(how) ==
  LET f == IF how = "ok" THEN 0 ELSE failures + 1
      r == IF how = "rejected" THEN rejections + 1 ELSE 0
  IN
  /\ results' = Append(results, how)
  /\ failures' = f /\ rejections' = r
  /\ fatal' = \/ fatal
              \/ /\ Listening("post_tool_use", "guard/repetition")
                 /\ f >= MaxFailures \/ r >= MaxRejections
  /\ n' = n + 1

Reject ==
  /\ pc = "dispatch" /\ n <= Len(batch) /\ verdicts[n] = "deny"
  /\ Post("rejected")
  /\ UNCHANGED <<toolVars, pc, turn, runs, used, checks, batch, verdicts, calls, violations>>

\* A tool that is not wrapped runs at once.
RunOutside ==
  /\ pc = "dispatch" /\ n <= Len(batch) /\ verdicts[n] = "allow" /\ batch[n] \notin Wrapped
  /\ \E how \in {"ok", "error"} : Post(how)
  /\ UNCHANGED <<toolVars, pc, turn, runs, used, checks, batch, verdicts, calls, violations>>

RunWrapped ==
  /\ pc = "dispatch" /\ n <= Len(batch) /\ verdicts[n] = "allow" /\ batch[n] \in Wrapped
  /\ Begin(batch[n])
  /\ pc' = "tool"
  /\ UNCHANGED <<manifestVars, turn, runs, used, fatal, checks, batch, verdicts, n, calls,
                 failures, rejections, violations, results>>

ToolStep == pc = "tool" /\ Work /\ UNCHANGED <<manifestVars, loopVars>>

ToolReturns ==
  /\ pc = "tool" /\ step = "idle"
  /\ Post(result)
  /\ pc' = "dispatch"
  /\ UNCHANGED <<toolVars, turn, runs, used, checks, batch, verdicts, calls, violations>>

EndBatch ==
  /\ pc = "dispatch" /\ n > Len(batch)
  /\ IF fatal \/ turn = Turns
     THEN pc' = "idle" /\ UNCHANGED turn
     ELSE pc' = "project" /\ turn' = turn + 1
  /\ UNCHANGED <<toolVars, runs, used, fatal, checks, batch, verdicts, n, calls,
                 failures, rejections, violations, results>>

Next ==
  \/ Run \/ PreProjection \/ Answer \/ Decide \/ Decided
  \/ Reject \/ RunOutside \/ RunWrapped \/ ToolStep \/ ToolReturns \/ EndBatch
  \/ Loading /\ UNCHANGED <<mwVars, loopVars>>
  \/ Running /\ World /\ UNCHANGED <<manifestVars, loopVars>>

Spec == Init /\ [][Next]_vars

-----------------------------------------------------------------------------
(* Properties                                                                *)

\* Every variable has its type (middleware, loop and guards).
TypeOK ==
  /\ MiddlewareTypeOK /\ ManifestTypeOK
  /\ pc \in {"idle", "project", "call", "decide", "dispatch", "tool"}
  /\ turn \in 0..Turns /\ runs \in 0..MaxRuns /\ used \in Nat /\ fatal \in BOOLEAN
  /\ checks \in Nat /\ n \in Nat /\ batch \in Seq(Keys)
  /\ verdicts \in Seq({"allow", "deny"})
  /\ calls \in [Keys -> Nat] /\ failures \in Nat /\ rejections \in Nat /\ violations \in Nat
  /\ results \in Seq({"ok", "error", "rejected", "incomplete"})

\* The bad results from m to k, when no dispatched one between them is better.
Unbroken(bad, m, k) == \A j \in m..k : results[j] \in bad \cup {"incomplete"}
BadIn(bad, m, k) == {j \in m..k : results[j] \in bad}
InARow(bad, limit) ==
  \E m, k \in DOMAIN results : Unbroken(bad, m, k) /\ Cardinality(BadIn(bad, m, k)) >= limit

\* Refused by the boundary.
Refused(m) == batch[m] \in {"outside", "half", "unsupported"}
CarriedOut(m) == pc = "dispatch" /\ m \in DOMAIN verdicts /\ verdicts[m] = "allow"
Declared(name, on_error) ==
  \E k \in DOMAIN manifest.strategies :
    manifest.strategies[k].name = name /\ manifest.strategies[k].on_error = on_error

\* An agent that was handed out is the whole of its manifest (AsDeclared), and
\* its provider is never called on a log past a limit: the answers used no
\* more than the budget, no tool was asked for the same thing max_identical
\* times, and nowhere did max_failures errors or max_rejections rejections
\* follow one another among the results of dispatched calls, not even when the
\* same batch went on to a success or an incomplete batch came in between.
\* The results of incomplete batches themselves, as those of
\* approval.deny, count for nothing.  Behind a boundary that was declared with
\* fail_turn no call it refuses is carried out.
\* (manifest, guard/*, sandbox/*, credential/proxy, AgentLoop._terminal_runtime_error)
NeverCalledPastALimit ==
  /\ runs = 0 => AsDeclared
  /\ pc = "call" =>
       /\ used <= MaxTokens
       /\ \A key \in Keys : calls[key] < MaxIdentical
       /\ ~InARow({"error", "rejected"}, MaxFailures) /\ ~InARow({"rejected"}, MaxRejections)
  /\ \A m \in DOMAIN batch :
       CarriedOut(m) /\ Refused(m) => ~Declared(Boundary, "fail_turn")

\* What is said of sandbox/network: a fetch of a host it does not allow is
\* never carried out, however often it is asked for and whatever on_error the
\* sandbox was declared with (sandbox/network, CHANGELOG 0.14.0).
NetworkEnforced ==
  \A m \in DOMAIN batch :
    CarriedOut(m) /\ Refused(m) => Boundary # "sandbox/network"
=============================================================================
