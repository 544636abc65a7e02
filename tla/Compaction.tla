----------------------------- MODULE Compaction -----------------------------
(***************************************************************************)
(* The mutable view of an append-only log: compact and revert events,      *)
(* Mutations.apply, and the four compaction strategies that run one after  *)
(* the other at pre_projection (MarkerTail, TokenMarkerTail, SummaryTail,  *)
(* ToolOutputCap).  Between two passes the loop records messages, tool     *)
(* uses and results, and the host may revert a compact.  A fork, or a      *)
(* reloaded session, starts from a prefix of the log, which is itself a    *)
(* log some state of this specification has.                               *)
(***************************************************************************)
EXTENDS Integers, Sequences, FiniteSets

CONSTANTS
  Strategies,   \* the installed strategies, in order:
                \*   [kind, limit (messages, tokens or characters), keep (keep_recent)]
  Sizes,        \* sizes of events, in characters
  FreshIds,     \* TRUE: tool_use ids never repeat; FALSE: a counter that
                \* restarts with the process mints them (Gemini)
  MaxEvents     \* bound: length of the log

VARIABLES
  log,          \* Session.log
  pc,           \* "loop": between passes; "pass": in Hooks.invoke;
                \* "cap": in ToolOutputCap's for loop; "call": projecting;
                \* "ingest": appending the provider's answer
  k,            \* index of the next strategy
  todo,         \* tool_results ToolOutputCap still has to look at
  serial        \* the counter that mints tool_use ids

vars == <<log, pc, k, todo, serial>>

MessageTypes  == {"user_message", "assistant_message", "tool_use", "tool_result"}
MutationTypes == {"compact", "revert"}
Kinds == {"marker", "token", "summary", "cap"}
NoId == 0

StrategyType == [kind : Kinds, limit : Nat, keep : Nat]
ASSUME StrategiesAssumption ==
  /\ Strategies \in Seq(StrategyType)
  /\ \A i \in DOMAIN Strategies :
       Strategies[i].kind \in {"marker", "summary"} => Strategies[i].limit > Strategies[i].keep
ASSUME DataAssumption ==
  Sizes \subseteq Nat /\ FreshIds \in BOOLEAN /\ MaxEvents \in Nat

\* A position p of the log is the event with seq p - 1.  on holds the
\* positions a compact replaces or the one a revert revokes.
Event(type, id, size, on) == [type |-> type, id |-> id, size |-> size, on |-> on]
Compact(S) == Event("compact", NoId, 0, S)
Events == [type : MessageTypes \cup MutationTypes, id : Nat, size : Nat, on : SUBSET Nat]

Positions(l, type) == {p \in 1..Len(l) : l[p].type = type}
Least(S)    == CHOOSE x \in S : \A y \in S : x <= y
Greatest(S) == CHOOSE x \in S : \A y \in S : x >= y

-----------------------------------------------------------------------------
(* Mutations.apply                                                           *)

Live(l)     == {c \in Positions(l, "compact") : \A r \in Positions(l, "revert") : c \notin l[r].on}
\* Mutant: a revoked compact still shadows what it replaced.
ShadowedAll(l) == UNION {l[c].on : c \in Positions(l, "compact")}
Shadowed(l) == UNION {l[c].on : c \in Live(l)}
Heads(l)    == {Least(l[c].on) : c \in Live(l)}

\* The compact whose summary stands at position p: the last one to claim it.
SummaryAt(l, p) == Greatest({c \in Live(l) : Least(l[c].on) = p})
Told(l) == {SummaryAt(l, p) : p \in {q \in Heads(l) : l[q].type \notin MutationTypes}}

\* The events of the effective stream that are not summaries.
Shown(l) ==
  LET hidden == Shadowed(l) \cup Heads(l)
  IN  {p \in 1..Len(l) : l[p].type \notin MutationTypes /\ p \notin hidden}

-----------------------------------------------------------------------------
(* Compaction helpers                                                        *)

\* Mutant: message_events reads the log instead of the effective stream.
MessagesOfLog(l) == {p \in 1..Len(l) : l[p].type \in MessageTypes}
Messages(l) == {p \in Shown(l) : l[p].type \in MessageTypes}

\* All messages but the last keep ones.
Candidates(l, keep) ==
  LET messages == Messages(l)
  IN  {p \in messages : Cardinality({q \in messages : q > p}) >= keep}

\* The last tool_use and the last tool_result with this id.
Pair(l, id) ==
  {p \in Positions(l, "tool_use") \cup Positions(l, "tool_result") :
     /\ l[p].id = id
     /\ \A q \in 1..Len(l) : q > p => ~(l[q].type = l[p].type /\ l[q].id = id)}
Requested(l) == {l[p].id : p \in Positions(l, "tool_use")}
Answered(l)  == {l[p].id : p \in Positions(l, "tool_result")}

\* The ids whose pair is not, or not yet, wholly among the candidates.
Split(l, C) ==
  {id \in Requested(l) : ~(id \in Answered(l) /\ Pair(l, id) \subseteq C)}
\* Mutant: a tool_use still in flight is taken for a pair of its own.
SafeInFlight(l, C) ==
  C \ UNION {Pair(l, id) : id \in {i \in Requested(l) : ~(Pair(l, i) \subseteq C)}}
\* Mutant: only in-flight tool_uses are kept, not pairs the cut would split.
SafeOfCut(l, C) ==
  C \ UNION {Pair(l, id) : id \in Requested(l) \ Answered(l)}
\* tool_pair_safe_range
Safe(l, C) == C \ UNION {Pair(l, id) : id \in Split(l, C)}

\* estimate_tokens: the characters of all messages together, by fours, rounded up.
Chars(l)  == UNION {{p} \X (1..l[p].size) : p \in Messages(l)}
Tokens(l) == (Cardinality(Chars(l)) + 3) \div 4

-----------------------------------------------------------------------------
Init ==
  /\ log = <<>> /\ pc = "loop" /\ k = 1 /\ todo = {} /\ serial = 0

Write(event) == log' = Append(log, event)
HasRoom == Len(log) < MaxEvents

(* The loop and the host, between passes.                                    *)

\* The loop is not in a pass; an answer being ingested may end here.
BetweenPasses == pc \in {"loop", "ingest"} /\ HasRoom /\ pc' = "loop"

\* A user message may open a run in a new process, on the saved log.
UserMessage(size) ==
  /\ BetweenPasses
  /\ Write(Event("user_message", NoId, size, {}))
  /\ serial' \in IF FreshIds THEN {serial} ELSE {serial, 0}
  /\ UNCHANGED <<k, todo>>

AssistantMessage(size) ==
  /\ pc = "call" /\ HasRoom
  /\ Write(Event("assistant_message", NoId, size, {}))
  /\ pc' = "ingest"
  /\ UNCHANGED <<k, todo, serial>>

ToolUse(size) ==
  /\ pc = "ingest" /\ HasRoom
  /\ serial' = serial + 1
  /\ Write(Event("tool_use", serial', size, {}))
  /\ UNCHANGED <<pc, k, todo>>

\* A dispatched, approved, denied or closed tool_use gets its result.
ToolResult(id, size) ==
  /\ BetweenPasses
  /\ id \in Requested(log) \ Answered(log)
  /\ Write(Event("tool_result", id, size, {}))
  /\ UNCHANGED <<k, todo, serial>>

Revert(c) ==
  /\ BetweenPasses
  /\ c \in Positions(log, "compact")
  /\ Write(Event("revert", NoId, 0, {c}))
  /\ UNCHANGED <<k, todo, serial>>

-----------------------------------------------------------------------------
(* The pre_projection pass.                                                  *)

BeginPass ==
  /\ pc \in {"loop", "ingest"}
  /\ pc' = "pass" /\ k' = 1
  /\ UNCHANGED <<log, todo, serial>>

Handler == Strategies[k]
AtHandler(kind) == pc = "pass" /\ k <= Len(Strategies) /\ Handler.kind = kind

\* Mutant: no early return when nothing is left to replace.
CompactTailAlways == HasRoom /\ Write(Compact(Safe(log, Candidates(log, Handler.keep))))
CompactTail ==
  LET safe == Safe(log, Candidates(log, Handler.keep))
  IN  IF safe = {} THEN UNCHANGED log ELSE HasRoom /\ Write(Compact(safe))

MarkerTail ==
  /\ AtHandler("marker")
  /\ IF Cardinality(Messages(log)) > Handler.limit THEN CompactTail ELSE UNCHANGED log
  /\ k' = k + 1
  /\ UNCHANGED <<pc, todo, serial>>

\* Mutant: the characters of a last token that is not full are not counted.
TokenMarkerTailFloors ==
  /\ AtHandler("token")
  /\ IF Cardinality(Chars(log)) \div 4 > Handler.limit THEN CompactTail ELSE UNCHANGED log
  /\ k' = k + 1
  /\ UNCHANGED <<pc, todo, serial>>
TokenMarkerTail ==
  /\ AtHandler("token")
  /\ IF Tokens(log) > Handler.limit THEN CompactTail ELSE UNCHANGED log
  /\ k' = k + 1
  /\ UNCHANGED <<pc, todo, serial>>

\* The provider behind SummaryTail answers, or answers nothing, or raises
\* (the hook isolates it): then nothing is compacted.
SummaryTail(answers) ==
  /\ AtHandler("summary")
  /\ IF answers /\ Cardinality(Messages(log)) > Handler.limit
     THEN CompactTail ELSE UNCHANGED log
  /\ k' = k + 1
  /\ UNCHANGED <<pc, todo, serial>>

\* Oversize results of the effective stream, which is computed once.
Oversize(l, limit) ==
  {p \in Shown(l) : /\ l[p].type = "tool_result" /\ l[p].size > limit
                    /\ l[p].id \in Requested(l)}

ToolOutputCap ==
  /\ AtHandler("cap")
  /\ todo' = Oversize(log, Handler.limit)
  /\ pc' = "cap"
  /\ UNCHANGED <<log, k, serial>>

\* tool_use_index: the last tool_use with the result's id.
UseOf(l, p) == Greatest({u \in Positions(l, "tool_use") : l[u].id = l[p].id})

CapNext ==
  /\ pc = "cap"
  /\ IF todo = {}
     THEN pc' = "pass" /\ k' = k + 1 /\ UNCHANGED <<log, todo>>
     ELSE /\ HasRoom
          /\ Write(Compact({UseOf(log, Least(todo)), Least(todo)}))
          /\ todo' = todo \ {Least(todo)}
          /\ UNCHANGED <<pc, k>>
  /\ UNCHANGED serial

\* The projection is taken and the provider called.
Project ==
  /\ pc = "pass" /\ k > Len(Strategies)
  /\ pc' = "call"
  /\ UNCHANGED <<log, k, todo, serial>>

\* The provider fails, or a BaseException leaves the pass half done.
Abandon ==
  /\ pc \in {"pass", "cap", "call"}
  /\ pc' = "loop" /\ todo' = {}
  /\ UNCHANGED <<log, k, serial>>

Next ==
  \/ \E size \in Sizes : UserMessage(size) \/ AssistantMessage(size) \/ ToolUse(size)
  \/ \E id \in 1..MaxEvents, size \in Sizes : ToolResult(id, size)
  \/ \E c \in 1..MaxEvents : Revert(c)
  \/ BeginPass \/ MarkerTail \/ TokenMarkerTail
  \/ \E answers \in BOOLEAN : SummaryTail(answers)
  \/ ToolOutputCap \/ CapNext \/ Project \/ Abandon

Spec == Init /\ [][Next]_vars

-----------------------------------------------------------------------------
\* Compacts replace earlier messages, reverts revoke earlier compacts.
WellFormed(l) ==
  /\ l \in Seq(Events)
  /\ \A c \in Positions(l, "compact") :
       l[c].on # {} /\ \A p \in l[c].on : p \in 1..c - 1 /\ l[p].type \in MessageTypes
  /\ \A r \in Positions(l, "revert") :
       \A c \in l[r].on : c \in 1..r - 1 /\ l[c].type = "compact"
PassType ==
  /\ pc \in {"loop", "pass", "cap", "call", "ingest"} /\ k \in 1..Len(Strategies) + 1
  /\ pc = "cap" => k <= Len(Strategies) /\ Handler.kind = "cap"
  /\ todo \subseteq {r \in Positions(log, "tool_result") : log[r].id \in Requested(log)}
  /\ serial \in 0..Len(log)

\* The type invariant: compacts only point back at messages, reverts at
\* compacts, and ToolOutputCap only holds results it has to shorten.
TypeOK == WellFormed(log) /\ Len(log) <= MaxEvents /\ PassType

\* The tool_use a result answers: the last one before it with its id.
OwnUse(l, u, r) ==
  /\ u \in Positions(l, "tool_use") /\ u < r /\ l[u].id = l[r].id
  /\ \A v \in Positions(l, "tool_use") : u < v /\ v < r => l[v].id # l[r].id

\* The view of l has both halves of a pair or neither.
WholeIn(l) ==
  LET shown == Shown(l) IN
  \A r \in Positions(l, "tool_result") : \A u \in 1..r - 1 :
    OwnUse(l, u, r) => (u \in shown <=> r \in shown)

\* No request ever carries half a tool pair: a result and the tool_use it
\* answers are both rendered or both behind a summary, in every state of a
\* pass and after any reverts.
PairsWhole == WholeIn(log)

\* A tool_use that is still waiting for its result is never compacted away.
InFlightShown ==
  \A u \in Positions(log, "tool_use") :
    (\A r \in Positions(log, "tool_result") : r > u => log[r].id # log[u].id)
      => u \in Shown(log)

\* Nothing is lost and nothing is told twice: a message that is not rendered
\* is covered by exactly one live compact, and its summary is rendered.
EveryEventAccounted ==
  LET hidden == {p \in 1..Len(log) : log[p].type \in MessageTypes} \ Shown(log) IN
  \A p \in hidden :
    \E c \in Told(log) : p \in log[c].on /\ \A d \in Live(log) \ {c} : p \notin log[d].on

\* A pass does all its work: right after it, running the same strategies again
\* would compact nothing (SummaryTail excepted: its provider may have failed),
\* although each one has changed the view the earlier ones decided on.
PassSettles ==
  pc = "call" =>
    \A i \in DOMAIN Strategies :
      LET s == Strategies[i] IN
      /\ s.kind = "marker" => Cardinality(Messages(log)) <= s.limit
                              \/ Safe(log, Candidates(log, s.keep)) = {}
      /\ s.kind = "token"  => Tokens(log) <= s.limit
                              \/ Safe(log, Candidates(log, s.keep)) = {}
      /\ s.kind = "cap"    => Oversize(log, s.limit) = {}

\* With fresh ids: an id is minted once and answered once, by a later event.
IdsInv ==
  /\ \A u \in Positions(log, "tool_use") : log[u].id \in 1..serial
  /\ \A u, v \in Positions(log, "tool_use") : log[u].id = log[v].id => u = v
  /\ \A r \in Positions(log, "tool_result") :
       \E u \in Positions(log, "tool_use") : u < r /\ log[u].id = log[r].id
  /\ \A r, s \in Positions(log, "tool_result") : log[r].id = log[s].id => r = s

\* A compact takes both halves of an answered pair, or neither.
PairClosed(l, S) ==
  \A u \in Positions(l, "tool_use") :
    /\ u \in S => l[u].id \in Answered(l)
    /\ \A r \in Positions(l, "tool_result") : l[r].id = l[u].id => (u \in S <=> r \in S)

NoOverlap(l) == \A c, d \in Live(l) : c # d => l[c].on \cap l[d].on = {}

\* The inductive invariant behind the properties, for fresh ids: every compact
\* is closed under pairs, live compacts do not overlap, and ToolOutputCap
\* only holds results that are still rendered.
ViewInv ==
  /\ IdsInv
  /\ \A c \in Positions(log, "compact") : PairClosed(log, log[c].on)
  /\ NoOverlap(log)
  /\ pc = "cap" => todo \subseteq Shown(log)

\* Compact, revert and the strategies implement the ContextWindow, whose
\* blocks are the compacts that are rendered.
Window == INSTANCE ContextWindow WITH
  Events <- 1..MaxEvents,
  shown  <- Shown(log),
  blocks <- {log[c].on : c \in Told(log)}
ImplementsWindow == Window!Spec
=============================================================================
