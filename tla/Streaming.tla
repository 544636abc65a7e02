----------------------------- MODULE Streaming -----------------------------
(***************************************************************************)
(* A streamed provider turn: run_stream feeds the frames of a server-sent  *)
(* event stream to the state machine of the provider (Anthropic, OpenAI or *)
(* Gemini), which shows deltas to the observers as they come and keeps the *)
(* answer to itself until the stream has ended properly; the retry loop of *)
(* AgentLoop tries again after a failure.                                  *)
(*                                                                         *)
(* The wire is the environment: any frame may come at any time, well       *)
(* placed or not, and the connection may break between two frames.  A      *)
(* frame that carries several parts stands here for as many frames, one    *)
(* part each, which is how data() takes it apart.  Observers cannot break  *)
(* a stream (Observation.emit swallows what they raise), except the        *)
(* on_stream_event callback, which raises on deltas: a broken connection   *)
(* after the delta.                                                        *)
(***************************************************************************)
EXTENDS Integers, Sequences, FiniteSets

CONSTANTS
  Providers,     \* the stream providers of the instance
  Indexes,       \* block and tool_call indexes the wire may use
  Ids,           \* tool ids the wire may use
  MaxAttempts,   \* RetryPolicy max_attempts
  MaxFrames,     \* bound: frames of one attempt, for each provider
  MaxChunks      \* bound: chunks of text, and of arguments, of one attempt

VARIABLES
  provider,      \* the class of the StreamState
  pc, attempt,   \* where _call_provider_with_retry is
  started,       \* message_started
  open,          \* open_blocks: index -> type of the block, or "none"
  tools,         \* tools: index -> ToolState
  finish,        \* stop; "none" until stop_seen or finish_seen
  stopped,       \* message_stopped or done_seen
  text,          \* number of chunks in text_parts
  todo,          \* indexes of the current loop over tools still to visit
  seen,          \* events the observers were shown under this turn_id
  log,           \* Session.log
  start,         \* _run_turn's turn_start
  frames,        \* history: frames of this attempt
  regular        \* history: the wire used no tool's index or id twice

parserVars == <<started, open, tools, finish, stopped, text>>
vars == <<provider, pc, attempt, started, open, tools, finish, stopped, text, todo,
          seen, log, start, frames, regular>>

ASSUME ConstantsAssumption ==
  /\ Providers \subseteq {"anthropic", "openai", "gemini"}
  /\ Indexes \subseteq Nat /\ IsFiniteSet(Indexes) /\ Ids \subseteq Nat \ {0}
  /\ MaxAttempts \in Nat \ {0} /\ MaxFrames \in [Providers -> Nat] /\ MaxChunks \in Nat

NoId == 0
Blocks == {"text", "tool_use"}
Stops  == {"tool_use", "other"}    \* other: every stop reason but tool_use

\* A ToolState.  A joined list of argument chunks is told apart by its
\* length, arguments is the length that was parsed (0: the empty dict).
NoTool == [made |-> FALSE, id |-> NoId, named |-> FALSE, begun |-> FALSE, chunks |-> 0, arguments |-> 0]
ToolStates == [made : BOOLEAN, id : Nat, named : BOOLEAN, begun : BOOLEAN, chunks : Nat, arguments : Nat]
Held == {i \in Indexes : tools[i].made}
First(S) == CHOOSE i \in S : \A j \in S : i <= j

Event(type, id, arguments) == [type |-> type, id |-> id, arguments |-> arguments]
Turn(type) == Event(type, NoId, 0)
PartTypes == {"text_delta", "begin", "argument_delta", "end"}
FeedTypes == PartTypes \cup {"started", "completed", "failed"}
Answer(n, stop) == [type |-> "assistant_message", text |-> n, stop |-> stop]
Use(id, arguments) == [type |-> "tool_use", id |-> id, arguments |-> arguments]
Error(terminal) == [type |-> "provider_error", terminal |-> terminal]

\* The turn begins on a log that may hold the answer of an earlier one.
Init ==
  /\ provider \in Providers
  /\ pc = "call" /\ attempt = 1
  /\ started = FALSE /\ open = [i \in Indexes |-> "none"] /\ tools = [i \in Indexes |-> NoTool]
  /\ finish = "none" /\ stopped = FALSE /\ text = 0
  /\ todo = {} /\ seen = <<>>
  /\ log \in {<<>>, <<Answer(0, "tool_use")>>} /\ start = Len(log)
  /\ frames = 0 /\ regular = TRUE

Emit(e) == seen' = Append(seen, e)

-----------------------------------------------------------------------------
(* An attempt                                                                *)

\* Mutant: the StreamState is kept from one attempt to the next.
StartAgain ==
  /\ pc = "call"
  /\ pc' = "wire"
  /\ seen' = <<Turn("started")>>
  /\ frames' = 0 /\ UNCHANGED <<provider, attempt, parserVars, todo, log, start, regular>>

\* A StreamState is made for every attempt, and announces its turn_id.
Start ==
  /\ pc = "call"
  /\ pc' = "wire"
  /\ started' = FALSE /\ open' = [i \in Indexes |-> "none"]
  /\ tools' = [i \in Indexes |-> NoTool]
  /\ finish' = "none" /\ stopped' = FALSE /\ text' = 0
  /\ seen' = <<Turn("started")>>
  /\ frames' = 0 /\ regular' = TRUE
  /\ UNCHANGED <<provider, attempt, todo, log, start>>

\* Mutants: one attempt too many; only the last failure is shown.
RaiseOnceMore(retryable) ==
  LET retry == retryable /\ attempt <= MaxAttempts IN
  /\ Emit(Turn("failed"))
  /\ log' = Append(log, Error(~retry))
  /\ pc' = IF retry THEN "call" ELSE "gave_up"
  /\ attempt' = IF retry THEN attempt + 1 ELSE attempt
  /\ todo' = {}
  /\ UNCHANGED <<provider, parserVars, start, frames, regular>>
RaiseQuietly(retryable) ==
  LET retry == retryable /\ attempt < MaxAttempts IN
  /\ IF retry THEN UNCHANGED seen ELSE Emit(Turn("failed"))
  /\ log' = Append(log, Error(~retry))
  /\ pc' = IF retry THEN "call" ELSE "gave_up"
  /\ attempt' = IF retry THEN attempt + 1 ELSE attempt
  /\ todo' = {}
  /\ UNCHANGED <<provider, parserVars, start, frames, regular>>

\* state.fail, then the except clause of the retry loop: the error is logged
\* and the policy decides.
Raise(retryable) ==
  LET retry == retryable /\ attempt < MaxAttempts IN
  /\ Emit(Turn("failed"))
  /\ log' = Append(log, Error(~retry))
  /\ pc' = IF retry THEN "call" ELSE "gave_up"
  /\ attempt' = IF retry THEN attempt + 1 ELSE attempt
  /\ todo' = {}
  /\ UNCHANGED <<provider, parserVars, start, frames, regular>>

\* A protocol error has no status and is never retried.
Refuse == Raise(FALSE)

\* No answer, an HTTP error, an error frame, a body that is cut off or is not
\* UTF-8, a callback that raises: retried or not, by status or class.
Break == pc = "wire" /\ \E retryable \in BOOLEAN : Raise(retryable)

\* One frame reaches data(): taken when ok, else a protocol error.
Frame(ok, effect) ==
  /\ pc = "wire" /\ frames < MaxFrames[provider]
  /\ \/ ok /\ effect /\ frames' = frames + 1 /\ UNCHANGED <<provider, attempt, log, start>>
     \/ ~ok /\ Refuse

Text ==
  /\ text < MaxChunks
  /\ text' = text + 1 /\ Emit(Turn("text_delta"))
  /\ UNCHANGED <<pc, started, open, tools, finish, stopped, todo, regular>>

-----------------------------------------------------------------------------
(* AnthropicStreamState.data                                                 *)

Active == started /\ ~stopped

MessageStart ==
  Frame(~started,
        /\ started' = TRUE
        /\ UNCHANGED <<pc, open, tools, finish, stopped, text, todo, seen, regular>>)

BlockStart(i, block, id) ==
  Frame(Active /\ open[i] = "none" /\ (block = "tool_use" => id # NoId),
        /\ open' = [open EXCEPT ![i] = block]
        /\ IF block = "tool_use"
           THEN /\ tools' = [tools EXCEPT ![i] =
                     [NoTool EXCEPT !.made = TRUE, !.id = id, !.named = TRUE, !.begun = TRUE]]
                /\ Emit(Event("begin", id, 0))
           ELSE UNCHANGED <<tools, seen>>
        /\ regular' = (regular /\ i \notin Held /\ \A j \in Held : tools[j].id # id)
        /\ UNCHANGED <<pc, started, finish, stopped, text, todo>>)

TextDelta(i) == Frame(Active /\ open[i] = "text", Text)

\* An argument chunk belongs to the tool its index holds, whatever the block.
Chunk(i) ==
  /\ tools[i].chunks < MaxChunks
  /\ tools' = [tools EXCEPT ![i].chunks = @ + 1]
  /\ Emit(Event("argument_delta", tools[i].id, 0))
  /\ UNCHANGED <<pc, started, open, finish, stopped, text, todo, regular>>

ArgumentDelta(i) == Frame(Active /\ open[i] # "none" /\ i \in Held, Chunk(i))

\* _parse_arguments: no chunk at all is {}, and the wire may send what does
\* not parse.
Parse(i) ==
  /\ tools' = [tools EXCEPT ![i].arguments = tools[i].chunks]
  /\ Emit(Event("end", tools[i].id, tools[i].chunks))

BlockStop(i) ==
  \E parses \in BOOLEAN :
    /\ tools[i].chunks = 0 => parses
    /\ Frame(Active /\ open[i] # "none" /\ parses,
             /\ open' = [open EXCEPT ![i] = "none"]
             /\ IF i \in Held THEN Parse(i) ELSE UNCHANGED <<tools, seen>>
             /\ UNCHANGED <<pc, started, finish, stopped, text, todo, regular>>)

StopReason(stop) ==
  Frame(Active /\ finish = "none",
        /\ finish' = stop
        /\ UNCHANGED <<pc, started, open, tools, stopped, text, todo, seen, regular>>)

MessageStop ==
  Frame(Active /\ finish # "none" /\ \A i \in Indexes : open[i] = "none",
        /\ stopped' = TRUE
        /\ UNCHANGED <<pc, started, open, tools, finish, text, todo, seen, regular>>)

AnthropicData ==
  /\ provider = "anthropic"
  /\ \/ MessageStart
     \/ \E i \in Indexes : \/ \E id \in Ids \cup {NoId} : BlockStart(i, "tool_use", id)
                           \/ BlockStart(i, "text", NoId)
                           \/ TextDelta(i)
                           \/ ArgumentDelta(i)
                           \/ BlockStop(i)
     \/ \E stop \in Stops : StopReason(stop)
     \/ MessageStop

-----------------------------------------------------------------------------
(* OpenAIStreamState.data                                                    *)

Content == Frame(~stopped /\ finish = "none", Text)

\* A tool_call delta may bring an id, a name and an argument chunk; the tool
\* begins once it has both id and name, and has no arguments before.
CallDelta(i, id, named, chunk) ==
  LET old  == tools[i]
      tool == [old EXCEPT !.made = TRUE, !.id = IF id = NoId THEN @ ELSE id, !.named = @ \/ named]
      begins == tool.id # NoId /\ tool.named /\ ~old.begun
      begun  == old.begun \/ begins
  IN
  Frame(~stopped /\ finish = "none" /\ (chunk => begun),
        /\ chunk => old.chunks < MaxChunks
        /\ tools' = [tools EXCEPT ![i] =
             [tool EXCEPT !.begun = begun, !.chunks = IF chunk THEN @ + 1 ELSE @]]
        /\ seen' = seen \o (IF begins THEN <<Event("begin", tool.id, 0)>> ELSE <<>>)
                        \o (IF chunk THEN <<Event("argument_delta", tool.id, 0)>> ELSE <<>>)
        /\ regular' = (regular /\ (id # NoId => \/ id = old.id
                                                \/ /\ old.id = NoId
                                                   /\ \A j \in Held : tools[j].id # id))
        /\ UNCHANGED <<pc, started, open, finish, stopped, text, todo>>)

\* finish_reason: the loop over self.tools.values(), here in any order, ends
\* the tools one after the other and may fail half way.
FinishReason(stop) ==
  Frame(~stopped /\ finish = "none",
        /\ finish' = stop /\ todo' = Held
        /\ pc' = "ending"
        /\ UNCHANGED <<started, open, tools, stopped, text, seen, regular>>)

EndTool(i) ==
  /\ pc = "ending" /\ i \in todo
  /\ \/ /\ tools[i].begun /\ Parse(i)
        /\ todo' = todo \ {i}
        /\ UNCHANGED <<provider, pc, attempt, started, open, finish, stopped, text, log,
                       start, frames, regular>>
     \/ (tools[i].begun => tools[i].chunks > 0) /\ Refuse

Ended ==
  /\ pc = "ending" /\ todo = {}
  /\ pc' = "wire"
  /\ UNCHANGED <<provider, attempt, parserVars, todo, seen, log, start, frames, regular>>

Done ==
  Frame(~stopped,
        /\ stopped' = TRUE
        /\ UNCHANGED <<pc, started, open, tools, finish, text, todo, seen, regular>>)

OpenAIData ==
  /\ provider = "openai"
  /\ \/ Content
     \/ \E i \in Indexes, id \in Ids \cup {NoId}, named, chunk \in BOOLEAN :
          CallDelta(i, id, named, chunk)
     \/ \E stop \in Stops : FinishReason(stop)
     \/ \E i \in Indexes : EndTool(i)
     \/ Ended
     \/ Done

-----------------------------------------------------------------------------
(* GeminiStreamState.data                                                    *)

Part == Frame(finish = "none", Text)

\* A functionCall comes whole; its id counts the calls of this stream.
FunctionCall(arguments) ==
  LET n  == Cardinality(Held)
      id == n + 1
  IN
  /\ n \in Indexes
  /\ Frame(finish = "none",
           /\ tools' = [tools EXCEPT ![n] = [NoTool EXCEPT !.made = TRUE, !.id = id, !.named = TRUE,
                                               !.begun = TRUE, !.arguments = arguments]]
           /\ seen' = seen \o <<Event("begin", id, 0), Event("end", id, arguments)>>
           /\ UNCHANGED <<pc, started, open, finish, stopped, text, todo, regular>>)

\* No finishReason maps to tool_use.
FinishCandidate ==
  Frame(finish = "none",
        /\ finish' = "other"
        /\ UNCHANGED <<pc, started, open, tools, stopped, text, todo, seen, regular>>)

GeminiData ==
  /\ provider = "gemini"
  /\ \/ Part \/ FinishCandidate \/ \E arguments \in {0, 1} : FunctionCall(arguments)

-----------------------------------------------------------------------------
(* complete(): the body has ended                                            *)

Whole ==
  CASE provider = "anthropic" -> started /\ stopped /\ finish # "none"
    [] provider = "openai"    -> stopped /\ finish # "none"
    [] provider = "gemini"    -> finish # "none"

Complete ==
  /\ pc = "wire"
  /\ \/ /\ Whole
        /\ pc' = "message" /\ Emit(Turn("completed"))
        /\ UNCHANGED <<provider, attempt, parserVars, todo, log, start, frames, regular>>
     \/ ~Whole /\ Refuse

PublishMessage ==
  /\ pc = "message"
  /\ log' = Append(log, Answer(text, finish))
  /\ todo' = Held /\ pc' = "calls"
  /\ UNCHANGED <<provider, attempt, parserVars, seen, start, frames, regular>>

PublishCall ==
  /\ pc = "calls" /\ todo # {}
  /\ LET i == First(todo) IN
     /\ log' = Append(log, Use(tools[i].id, tools[i].arguments))
     /\ todo' = todo \ {i}
  /\ UNCHANGED <<provider, pc, attempt, parserVars, seen, start, frames, regular>>

Return ==
  /\ pc = "calls" /\ todo = {}
  /\ pc' = "answered"
  /\ UNCHANGED <<provider, attempt, parserVars, todo, seen, log, start, frames, regular>>

\* KeyboardInterrupt and friends are not Exception: nothing is caught.
Interrupt ==
  /\ pc \in {"call", "wire", "ending", "message", "calls"}
  /\ pc' = "interrupted"
  /\ UNCHANGED <<provider, attempt, parserVars, todo, seen, log, start, frames, regular>>

Next ==
  \/ Start \/ Break
  \/ AnthropicData \/ OpenAIData \/ GeminiData
  \/ Complete \/ PublishMessage \/ PublishCall \/ Return
  \/ Interrupt

Spec == Init /\ [][Next]_vars

-----------------------------------------------------------------------------
(* Properties                                                                *)

LogEvents ==
  [type : {"assistant_message"}, text : Nat, stop : Stops] \cup
  [type : {"tool_use"}, id : Nat, arguments : Nat] \cup
  [type : {"provider_error"}, terminal : BOOLEAN]
PCs == {"call", "wire", "ending", "message", "calls", "answered", "gave_up", "interrupted"}

\* Every variable has its type; no attempt is made past max_attempts (the
\* StreamStates and the retry loop).
TypeOK ==
  /\ provider \in Providers /\ pc \in PCs /\ attempt \in 1..MaxAttempts
  /\ started \in BOOLEAN /\ stopped \in BOOLEAN /\ regular \in BOOLEAN
  /\ open \in [Indexes -> Blocks \cup {"none"}] /\ tools \in [Indexes -> ToolStates]
  /\ finish \in Stops \cup {"none"} /\ text \in Nat /\ todo \subseteq Held
  /\ seen \in Seq([type : FeedTypes, id : Nat, arguments : Nat])
  /\ log \in Seq(LogEvents) /\ start \in 0..Len(log) /\ frames \in 0..MaxFrames[provider]

\* What the log holds of this turn from its first answer on; the errors of
\* failed attempts come before it.
Answered == {p \in (start + 1)..Len(log) : log[p].type # "provider_error"}
Recorded ==
  IF Answered = {} THEN <<>>
  ELSE SubSeq(log, CHOOSE p \in Answered : \A q \in Answered : p <= q, Len(log))
\* The events of a type, and of a tool, among those that were shown.
OfType(type) == {m \in DOMAIN seen : seen[m].type = type}
OfTool(id)   == {m \in DOMAIN seen : seen[m].id = id}

\* The loop takes the stop reason from the last assistant_message of the whole
\* log and the calls from what was appended since turn_start: after a streamed
\* turn that is one message of this turn, whose text is what the last attempt
\* showed and no chunk of a failed one, followed by every tool that began,
\* once, with the arguments its end showed.  A tool's events are its begin, its
\* chunks and one end with all of them.  (complete, _handle_stream_event,
\* _run_turn; for a wire that keeps to its numbering.)
AnswerAsShown ==
  pc = "answered" /\ regular =>
    \E last \in (start + 1)..Len(log) :
      LET calls == (last + 1)..Len(log) IN
      /\ log[last] = Answer(Cardinality(OfType("text_delta")), finish)
      /\ {log[p].id : p \in calls} = {seen[m].id : m \in OfType("begin")}
      /\ \A p, q \in calls : log[p].id = log[q].id => p = q
      /\ \A p \in calls :
           LET told == OfTool(log[p].id) IN
           /\ log[p].type = "tool_use"
           /\ \E b, e \in told :
                /\ seen[b].type = "begin" /\ seen[e].type = "end" /\ b < e
                /\ \A m \in told \ {b, e} : b < m /\ m < e /\ seen[m].type = "argument_delta"
                /\ seen[e].arguments = log[p].arguments
           /\ provider # "gemini" => log[p].arguments = Cardinality(told) - 2

\* An attempt that fails records nothing, one that completes is recorded whole
\* unless the process is interrupted, nothing is shown after the end of an
\* attempt, and a turn with an answer is never tried again: the streamed turn
\* implements StreamedTurn (run_stream, complete, fail, the retry loop).
Feed == INSTANCE StreamedTurn WITH
  Parts <- [type : PartTypes, id : Nat, arguments : Nat],
  Started <- Turn("started"), Completed <- Turn("completed"), Failed <- Turn("failed"),
  Message <- [type : {"assistant_message"}, text : Nat, stop : Stops],
  Calls <- [type : {"tool_use"}, id : Nat, arguments : Nat],
  shown <- seen, recorded <- Recorded
ImplementsFeed == Feed!Spec
=============================================================================
