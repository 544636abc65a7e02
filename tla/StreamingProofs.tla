---------------------------- MODULE StreamingProofs ----------------------------
(***************************************************************************)
(* For every set of providers, indexes and ids and every bound: the types  *)
(* of a streamed turn, that it implements StreamedTurn, and that an answer *)
(* is what was shown of it.  What a frame does is the same for the first   *)
(* two: it ends the attempt as a protocol error, or changes the state of   *)
(* the parser and shows some parts (Parsed), which one lemma per provider  *)
(* establishes.  For the third a frame shows text or nothing (QuietStep)   *)
(* or changes one tool and shows events of it alone (ToolStep).            *)
(***************************************************************************)
EXTENDS Streaming, SequenceTheorems, FiniteSetTheorems, WellFoundedInduction, TLAPS

PartEvents == [type : PartTypes, id : Nat, arguments : Nat]
FeedEvents == [type : FeedTypes, id : Nat, arguments : Nat]

TypeInv ==
  /\ TypeOK
  /\ pc \in {"call", "wire"} => todo = {}
  /\ pc = "message" => finish \in Stops

ShowsParts == \E parts \in Seq(PartEvents) : seen' = seen \o parts

\* The parser went on: nothing is recorded, and what is shown are parts.
Parsed ==
  /\ pc \in {"wire", "ending"} /\ pc' \in {"wire", "ending"}
  /\ frames' \in 0..MaxFrames[provider]
  /\ UNCHANGED <<provider, attempt, log, start>>
  /\ started' \in BOOLEAN /\ stopped' \in BOOLEAN /\ regular' \in BOOLEAN
  /\ open' \in [Indexes -> Blocks \cup {"none"}] /\ tools' \in [Indexes -> ToolStates]
  /\ finish' \in Stops \cup {"none"} /\ text' \in Nat
  /\ todo' \subseteq Held' /\ (pc' = "wire" => todo' = {})
  /\ ShowsParts

-----------------------------------------------------------------------------
(* Numbers                                                                   *)

\* A set of numbers has a least one, and First finds it.
LEMMA LeastIn ==
  ASSUME NEW S, S \subseteq Nat, S # {}
  PROVE  \E x \in S : \A y \in S : x <= y
<1> DEFINE Below == {ss \in Nat \X Nat : ss[1] < ss[2]}
<1>1. IsWellFoundedOn(Below, Nat) BY NatLessThanWellFounded DEF OpToRel
<1>2. \A x, y \in Nat : <<y, x>> \in Below <=> y < x OBVIOUS
<1>3. PICK x \in S : \A y \in S : ~(<<y, x>> \in Below)
  <2> HIDE DEF Below
  <2> QED BY <1>1, WFMin
<1> HIDE DEF Below
<1>4. \A y \in S : ~(y < x) BY <1>2, <1>3
<1> QED BY <1>3, <1>4

-----------------------------------------------------------------------------
(* Frames                                                                    *)

\* A step that shows nothing shows no parts.
LEMMA NoneShown == ASSUME TypeOK, seen' = seen PROVE ShowsParts
<1>1. <<>> \in Seq(PartEvents) /\ seen = seen \o <<>> BY DEF TypeOK
<1> QED BY <1>1 DEF ShowsParts

\* One that shows a part shows parts.
LEMMA OneShown == ASSUME TypeOK, NEW e \in PartEvents, seen' = Append(seen, e) PROVE ShowsParts
<1>1. <<e>> \in Seq(PartEvents) /\ Append(seen, e) = seen \o <<e>> BY DEF TypeOK
<1> QED BY <1>1 DEF ShowsParts

\* What is shown of a tool is a part.
LEMMA PartIs ==
  ASSUME NEW type \in PartTypes, NEW id \in Nat, NEW arguments \in Nat
  PROVE  Event(type, id, arguments) \in PartEvents
  BY DEF Event, PartEvents

\* A frame that is taken is one more, and within the bound.
LEMMA FrameTaken ==
  ASSUME TypeInv, pc = "wire", frames < MaxFrames[provider], frames' = frames + 1
  PROVE  frames' \in 0..MaxFrames[provider]
<1>1. MaxFrames[provider] \in Nat BY ConstantsAssumption DEF TypeInv, TypeOK
<1> QED BY <1>1 DEF TypeInv, TypeOK

\* Text from any of the three.
LEMMA TextParsed ==
  ASSUME TypeInv, pc = "wire", frames < MaxFrames[provider], frames' = frames + 1,
         UNCHANGED <<provider, attempt, log, start>>, Text
  PROVE  Parsed
<1>1. Turn("text_delta") \in PartEvents BY PartIs DEF Turn, PartTypes, NoId
<1>2. ShowsParts BY <1>1, OneShown DEF Text, Emit, TypeInv
<1>3. frames' \in 0..MaxFrames[provider] BY FrameTaken
<1> QED BY <1>2, <1>3 DEF Parsed, Text, TypeInv, TypeOK, Held

\* A chunk of a tool's arguments, and the end of a tool.
LEMMA ChunkParsed ==
  ASSUME TypeInv, NEW i \in Indexes, i \in Held, Chunk(i)
  PROVE  ShowsParts /\ tools' \in [Indexes -> ToolStates] /\ Held' = Held
<1>1. tools[i] \in ToolStates BY DEF TypeInv, TypeOK
<1>2. Event("argument_delta", tools[i].id, 0) \in PartEvents
  BY <1>1, PartIs DEF ToolStates, PartTypes
<1>3. ShowsParts BY <1>2, OneShown DEF Chunk, Emit, TypeInv
<1> DEFINE new == [tools[i] EXCEPT !.chunks = @ + 1]
<1>4. new \in ToolStates /\ new.made = tools[i].made BY <1>1 DEF ToolStates
<1>5. tools \in [Indexes -> ToolStates] BY DEF TypeInv, TypeOK
<1>6. tools' = [tools EXCEPT ![i] = new] BY <1>5 DEF Chunk
<1> HIDE DEF new
<1>7. tools' \in [Indexes -> ToolStates] BY <1>4, <1>5, <1>6
<1>8. \A j \in Indexes : tools'[j].made = tools[j].made BY <1>4, <1>5, <1>6
<1>9. Held' = Held BY <1>8 DEF Held
<1> QED BY <1>3, <1>7, <1>9

\* The end of a tool shows one part and keeps the tools' types.
LEMMA ToolEnds ==
  ASSUME TypeInv, NEW i \in Indexes, Parse(i)
  PROVE  ShowsParts /\ tools' \in [Indexes -> ToolStates] /\ Held' = Held
<1>1. tools[i] \in ToolStates BY DEF TypeInv, TypeOK
<1>2. Event("end", tools[i].id, tools[i].chunks) \in PartEvents
  BY <1>1, PartIs DEF ToolStates, PartTypes
<1>3. ShowsParts BY <1>2, OneShown DEF Parse, Emit, TypeInv
<1>4. tools' = [tools EXCEPT ![i].arguments = tools[i].chunks] BY DEF Parse
<1> QED BY <1>1, <1>3, <1>4 DEF TypeInv, TypeOK, ToolStates, Held

\* A tool that has begun or not, with other chunks, is still a tool.
LEMMA ToolWith ==
  ASSUME NEW tool \in ToolStates, NEW begun \in BOOLEAN, NEW n \in Nat
  PROVE  [tool EXCEPT !.begun = begun, !.chunks = n] \in ToolStates
  BY DEF ToolStates

\* A call that came whole is a tool.
LEMMA ToolCalled ==
  ASSUME NEW id \in Nat, NEW arguments \in Nat
  PROVE  [NoTool EXCEPT !.made = TRUE, !.id = id, !.named = TRUE,
                        !.begun = TRUE, !.arguments = arguments] \in ToolStates
  BY DEF NoTool, NoId, ToolStates

\* A frame of Anthropic is refused or taken.
LEMMA AnthropicStep == ASSUME TypeInv, AnthropicData PROVE Refuse \/ Parsed
<1> SUFFICES ASSUME ~Refuse PROVE Parsed OBVIOUS
<1>0. /\ TypeOK /\ (pc = "wire" => todo = {})
  BY DEF TypeInv
<1>1. CASE MessageStart
  <2>1. pc = "wire" /\ frames < MaxFrames[provider] /\ frames' = frames + 1 /\ started' = TRUE
        /\ UNCHANGED <<provider, attempt, log, start, pc, open, tools, finish, stopped, text, todo, seen, regular>>
    BY <1>1 DEF MessageStart, Frame
  <2>2. frames' \in 0..MaxFrames[provider] BY <2>1, FrameTaken
  <2>3. ShowsParts BY <1>0, <2>1, NoneShown
  <2> QED BY <1>0, <2>1, <2>2, <2>3 DEF Parsed, TypeOK, Held
<1>2. ASSUME NEW i \in Indexes, NEW id \in Ids \cup {NoId}, BlockStart(i, "tool_use", id)
      PROVE  Parsed
  <2> DEFINE tool == [NoTool EXCEPT !.made = TRUE, !.id = id, !.named = TRUE, !.begun = TRUE]
  <2>1. /\ pc = "wire" /\ frames < MaxFrames[provider] /\ frames' = frames + 1
        /\ open' = [open EXCEPT ![i] = "tool_use"] /\ tools' = [tools EXCEPT ![i] = tool]
        /\ seen' = Append(seen, Event("begin", id, 0)) /\ regular' \in BOOLEAN
        /\ UNCHANGED <<provider, attempt, log, start, pc, started, finish, stopped, text, todo>>
    BY <1>2 DEF BlockStart, Frame, Emit
  <2>2. frames' \in 0..MaxFrames[provider] BY <2>1, FrameTaken
  <2>3. id \in Nat BY ConstantsAssumption DEF NoId
  <2>4. tool \in ToolStates BY <2>3 DEF NoTool, ToolStates
  <2>5. tools' \in [Indexes -> ToolStates] BY <1>0, <2>1, <2>4 DEF TypeOK
  <2>6. Event("begin", id, 0) \in PartEvents BY <2>3, PartIs DEF PartTypes
  <2>7. ShowsParts BY <1>0, <2>1, <2>6, OneShown
  <2>8. open' \in [Indexes -> Blocks \cup {"none"}] BY <1>0, <2>1 DEF TypeOK, Blocks
  <2> QED BY <1>0, <2>1, <2>2, <2>5, <2>7, <2>8 DEF Parsed, TypeOK
<1>4. ASSUME NEW i \in Indexes, BlockStart(i, "text", NoId) PROVE Parsed
  <2>1. /\ pc = "wire" /\ frames < MaxFrames[provider] /\ frames' = frames + 1
        /\ open' = [open EXCEPT ![i] = "text"] /\ regular' \in BOOLEAN
        /\ UNCHANGED <<provider, attempt, log, start, pc, started, tools, seen, finish, stopped, text, todo>>
    BY <1>4 DEF BlockStart, Frame
  <2>2. frames' \in 0..MaxFrames[provider] BY <2>1, FrameTaken
  <2>3. ShowsParts BY <1>0, <2>1, NoneShown
  <2>4. open' \in [Indexes -> Blocks \cup {"none"}] BY <1>0, <2>1 DEF TypeOK, Blocks
  <2> QED BY <1>0, <2>1, <2>2, <2>3, <2>4 DEF Parsed, TypeOK, Held
<1>5. ASSUME NEW i \in Indexes, TextDelta(i) PROVE Parsed
  <2>1. pc = "wire" /\ frames < MaxFrames[provider] /\ frames' = frames + 1 /\ Text
        /\ UNCHANGED <<provider, attempt, log, start>>
    BY <1>5 DEF TextDelta, Frame
  <2> QED BY <2>1, TextParsed
<1>6. ASSUME NEW i \in Indexes, ArgumentDelta(i) PROVE Parsed
  <2>1. /\ pc = "wire" /\ frames < MaxFrames[provider] /\ frames' = frames + 1 /\ i \in Held /\ Chunk(i)
        /\ UNCHANGED <<provider, attempt, log, start>>
    BY <1>6 DEF ArgumentDelta, Frame
  <2>2. frames' \in 0..MaxFrames[provider] BY <2>1, FrameTaken
  <2>3. ShowsParts /\ tools' \in [Indexes -> ToolStates] BY <2>1, ChunkParsed
  <2> QED BY <1>0, <2>1, <2>2, <2>3 DEF Parsed, Chunk, TypeOK
<1>7. ASSUME NEW i \in Indexes, BlockStop(i) PROVE Parsed
  <2>1. /\ pc = "wire" /\ frames < MaxFrames[provider] /\ frames' = frames + 1
        /\ open' = [open EXCEPT ![i] = "none"]
        /\ IF i \in Held THEN Parse(i) ELSE UNCHANGED <<tools, seen>>
        /\ UNCHANGED <<provider, attempt, log, start, pc, started, finish, stopped, text, todo, regular>>
    BY <1>7 DEF BlockStop, Frame
  <2>2. frames' \in 0..MaxFrames[provider] BY <2>1, FrameTaken
  <2>3. ShowsParts /\ tools' \in [Indexes -> ToolStates]
    <3>1. CASE i \in Held BY <2>1, <3>1, ToolEnds
    <3>2. CASE i \notin Held
      <4>1. UNCHANGED <<tools, seen>> BY <2>1, <3>2
      <4> QED BY <1>0, <4>1, NoneShown DEF TypeOK
    <3> QED BY <3>1, <3>2
  <2>4. open' \in [Indexes -> Blocks \cup {"none"}] BY <1>0, <2>1 DEF TypeOK, Blocks
  <2> QED BY <1>0, <2>1, <2>2, <2>3, <2>4 DEF Parsed, TypeOK
<1>8. ASSUME NEW stop \in Stops, StopReason(stop) PROVE Parsed
  <2>1. pc = "wire" /\ frames < MaxFrames[provider] /\ frames' = frames + 1 /\ finish' = stop
        /\ UNCHANGED <<provider, attempt, log, start, pc, started, open, tools, stopped, text, todo, seen, regular>>
    BY <1>8 DEF StopReason, Frame
  <2>2. frames' \in 0..MaxFrames[provider] BY <2>1, FrameTaken
  <2>3. ShowsParts BY <1>0, <2>1, NoneShown
  <2> QED BY <1>0, <2>1, <2>2, <2>3 DEF Parsed, TypeOK, Held
<1>9. CASE MessageStop
  <2>1. pc = "wire" /\ frames < MaxFrames[provider] /\ frames' = frames + 1 /\ stopped' = TRUE
        /\ UNCHANGED <<provider, attempt, log, start, pc, started, open, tools, finish, text, todo, seen, regular>>
    BY <1>9 DEF MessageStop, Frame
  <2>2. frames' \in 0..MaxFrames[provider] BY <2>1, FrameTaken
  <2>3. ShowsParts BY <1>0, <2>1, NoneShown
  <2> QED BY <1>0, <2>1, <2>2, <2>3 DEF Parsed, TypeOK, Held
<1> QED BY <1>1, <1>2, <1>4, <1>5, <1>6, <1>7, <1>8, <1>9 DEF AnthropicData

\* A frame of OpenAI, or the end of one of its tools, is refused or taken.
LEMMA OpenAIStep == ASSUME TypeInv, OpenAIData PROVE Refuse \/ Parsed
<1> SUFFICES ASSUME ~Refuse PROVE Parsed OBVIOUS
<1>0. TypeOK /\ (pc = "wire" => todo = {}) BY DEF TypeInv
<1>1. CASE Content
  <2>1. pc = "wire" /\ frames < MaxFrames[provider] /\ frames' = frames + 1 /\ Text
        /\ UNCHANGED <<provider, attempt, log, start>>
    BY <1>1 DEF Content, Frame
  <2> QED BY <2>1, TextParsed
<1>2. ASSUME NEW i \in Indexes, NEW id \in Ids \cup {NoId}, NEW named \in BOOLEAN, NEW chunk \in BOOLEAN,
             CallDelta(i, id, named, chunk)
      PROVE  Parsed
  <2> DEFINE old  == tools[i]
             tool == [old EXCEPT !.made = TRUE, !.id = IF id = NoId THEN @ ELSE id, !.named = @ \/ named]
             begins == tool.id # NoId /\ tool.named /\ ~old.begun
             begun  == old.begun \/ begins
             new  == [tool EXCEPT !.begun = begun, !.chunks = IF chunk THEN @ + 1 ELSE @]
             first == IF begins THEN <<Event("begin", tool.id, 0)>> ELSE <<>>
             second == IF chunk THEN <<Event("argument_delta", tool.id, 0)>> ELSE <<>>
  <2>1. /\ pc = "wire" /\ frames < MaxFrames[provider] /\ frames' = frames + 1
        /\ tools' = [tools EXCEPT ![i] = new]
        /\ seen' = seen \o first \o second /\ regular' \in BOOLEAN
        /\ UNCHANGED <<provider, attempt, log, start, pc, started, open, finish, stopped, text, todo>>
    BY <1>2 DEF CallDelta, Frame
  <2>2. frames' \in 0..MaxFrames[provider] BY <2>1, FrameTaken
  <2>3. id \in Nat /\ old \in ToolStates BY <1>0, ConstantsAssumption DEF NoId, TypeOK
  <2>4. tool \in ToolStates BY <2>3 DEF ToolStates
  <2>5. begun \in BOOLEAN /\ tool.id \in Nat /\ tool.chunks \in Nat BY <2>3, <2>4 DEF ToolStates
  <2>6. new \in ToolStates
    <3> HIDE DEF begun, tool
    <3>1. (IF chunk THEN tool.chunks + 1 ELSE tool.chunks) \in Nat BY <2>5
    <3> QED BY <2>4, <2>5, <3>1, ToolWith
  <2>7. ShowsParts
    <3>1. Event("begin", tool.id, 0) \in PartEvents /\ Event("argument_delta", tool.id, 0) \in PartEvents
      BY <2>5, PartIs DEF PartTypes
    <3>2. first \in Seq(PartEvents) /\ second \in Seq(PartEvents)
      <4> HIDE DEF tool, begins
      <4> QED BY <3>1
    <3>3. first \o second \in Seq(PartEvents) /\ (seen \o first) \o second = seen \o (first \o second)
      <4> HIDE DEF first, second
      <4>1. seen \in Seq(FeedEvents) BY <1>0 DEF TypeOK, FeedEvents
      <4> QED BY <3>2, <4>1
    <3> HIDE DEF first, second
    <3> QED BY <2>1, <3>3 DEF ShowsParts
  <2> HIDE DEF new
  <2>8. tools' \in [Indexes -> ToolStates] BY <1>0, <2>1, <2>6 DEF TypeOK
  <2> QED BY <1>0, <2>1, <2>2, <2>7, <2>8 DEF Parsed, TypeOK
<1>3. ASSUME NEW stop \in Stops, FinishReason(stop) PROVE Parsed
  <2>1. pc = "wire" /\ pc' = "ending" /\ frames < MaxFrames[provider] /\ frames' = frames + 1
        /\ finish' = stop /\ todo' = Held
        /\ UNCHANGED <<provider, attempt, log, start, started, open, tools, stopped, text, seen, regular>>
    BY <1>3 DEF FinishReason, Frame
  <2>2. frames' \in 0..MaxFrames[provider] BY <2>1, FrameTaken
  <2>3. ShowsParts BY <1>0, <2>1, NoneShown
  <2> QED BY <1>0, <2>1, <2>2, <2>3 DEF Parsed, TypeOK, Held
<1>4. ASSUME NEW i \in Indexes, EndTool(i) PROVE Parsed
  <2>1. /\ pc = "ending" /\ Parse(i) /\ todo' = todo \ {i}
        /\ UNCHANGED <<provider, pc, attempt, started, open, finish, stopped, text, log,
                       start, frames, regular>>
    BY <1>4 DEF EndTool
  <2>2. ShowsParts /\ tools' \in [Indexes -> ToolStates] /\ Held' = Held BY <2>1, ToolEnds
  <2> QED BY <1>0, <2>1, <2>2 DEF Parsed, TypeOK
<1>5. CASE Ended
  <2>1. ShowsParts BY <1>0, <1>5, NoneShown DEF Ended
  <2> QED BY <1>0, <1>5, <2>1 DEF Ended, parserVars, Parsed, TypeOK, Held
<1>6. CASE Done
  <2>1. pc = "wire" /\ frames < MaxFrames[provider] /\ frames' = frames + 1 /\ stopped' = TRUE
        /\ UNCHANGED <<provider, attempt, log, start, pc, started, open, tools, finish, text, todo, seen, regular>>
    BY <1>6 DEF Done, Frame
  <2>2. frames' \in 0..MaxFrames[provider] BY <2>1, FrameTaken
  <2>3. ShowsParts BY <1>0, <2>1, NoneShown
  <2> QED BY <1>0, <2>1, <2>2, <2>3 DEF Parsed, TypeOK, Held
<1> QED BY <1>1, <1>2, <1>3, <1>4, <1>5, <1>6 DEF OpenAIData

\* A frame of Gemini is refused or taken.
LEMMA GeminiStep == ASSUME TypeInv, GeminiData PROVE Refuse \/ Parsed
<1> SUFFICES ASSUME ~Refuse PROVE Parsed OBVIOUS
<1>0. TypeOK /\ (pc = "wire" => todo = {}) BY DEF TypeInv
<1>1. CASE Part
  <2>1. pc = "wire" /\ frames < MaxFrames[provider] /\ frames' = frames + 1 /\ Text
        /\ UNCHANGED <<provider, attempt, log, start>>
    BY <1>1 DEF Part, Frame
  <2> QED BY <2>1, TextParsed
<1>2. CASE FinishCandidate
  <2>1. pc = "wire" /\ frames < MaxFrames[provider] /\ frames' = frames + 1 /\ finish' = "other"
        /\ UNCHANGED <<provider, attempt, log, start, pc, started, open, tools, stopped, text, todo, seen, regular>>
    BY <1>2 DEF FinishCandidate, Frame
  <2>2. frames' \in 0..MaxFrames[provider] BY <2>1, FrameTaken
  <2>3. ShowsParts BY <1>0, <2>1, NoneShown
  <2> QED BY <1>0, <2>1, <2>2, <2>3 DEF Parsed, TypeOK, Held, Stops
<1>3. ASSUME NEW arguments \in {0, 1}, FunctionCall(arguments) PROVE Parsed
  <2> DEFINE c == Cardinality(Held)
             tool == [NoTool EXCEPT !.made = TRUE, !.id = c + 1, !.named = TRUE,
                                    !.begun = TRUE, !.arguments = arguments]
             parts == <<Event("begin", c + 1, 0), Event("end", c + 1, arguments)>>
  <2>1. /\ pc = "wire" /\ frames < MaxFrames[provider] /\ frames' = frames + 1 /\ c \in Indexes
        /\ tools' = [tools EXCEPT ![c] = tool] /\ seen' = seen \o parts
        /\ UNCHANGED <<provider, attempt, log, start, pc, started, open, finish, stopped, text, todo, regular>>
    BY <1>3 DEF FunctionCall, Frame
  <2>2. frames' \in 0..MaxFrames[provider] BY <2>1, FrameTaken
  <2>3. c \in Nat BY <2>1, ConstantsAssumption
  <2> HIDE DEF c
  <2>4. tool \in ToolStates
    <3>1. c + 1 \in Nat /\ arguments \in Nat BY <2>3
    <3> HIDE DEF c
    <3> QED BY <3>1, ToolCalled
  <2>5. Event("begin", c + 1, 0) \in PartEvents /\ Event("end", c + 1, arguments) \in PartEvents
    BY <2>3, PartIs DEF PartTypes
  <2>6. parts \in Seq(PartEvents) BY <2>5
  <2> HIDE DEF tool, parts
  <2>7. ShowsParts BY <2>1, <2>6 DEF ShowsParts
  <2>8. tools' \in [Indexes -> ToolStates] BY <1>0, <2>1, <2>4 DEF TypeOK
  <2> QED BY <1>0, <2>1, <2>2, <2>7, <2>8 DEF Parsed, TypeOK
<1> QED BY <1>1, <1>2, <1>3 DEF GeminiData

-----------------------------------------------------------------------------
(* The steps of a turn                                                       *)

\* An attempt ends as failed, and the error is logged.
Failing ==
  /\ pc \in {"wire", "ending"} /\ pc' \in {"call", "gave_up"}
  /\ attempt' \in 1..MaxAttempts /\ todo' = {}
  /\ seen' = Append(seen, Turn("failed"))
  /\ \E terminal \in BOOLEAN : log' = Append(log, Error(terminal))
  /\ UNCHANGED <<provider, parserVars, start, frames, regular>>

\* It ends as completed.
Completes ==
  /\ pc = "wire" /\ pc' = "message" /\ finish \in Stops
  /\ seen' = Append(seen, Turn("completed"))
  /\ UNCHANGED <<provider, attempt, parserVars, todo, log, start, frames, regular>>

\* Neither the log nor what was shown changes, and no attempt is under way.
Leaves ==
  /\ pc' \in {"answered", "interrupted"}
  /\ UNCHANGED <<provider, attempt, parserVars, todo, seen, log, start, frames, regular>>

\* What raises ends the attempt; the last one allowed is not retried.
LEMMA RaiseFails ==
  ASSUME TypeInv, pc \in {"wire", "ending"}, NEW retryable \in BOOLEAN, Raise(retryable)
  PROVE  Failing
<1> DEFINE retry == retryable /\ attempt < MaxAttempts
<1>1. /\ seen' = Append(seen, Turn("failed")) /\ log' = Append(log, Error(~retry))
      /\ pc' = (IF retry THEN "call" ELSE "gave_up")
      /\ attempt' = (IF retry THEN attempt + 1 ELSE attempt) /\ todo' = {}
      /\ UNCHANGED <<provider, parserVars, start, frames, regular>>
  BY DEF Raise, Emit
<1>2. attempt \in 1..MaxAttempts /\ MaxAttempts \in Nat
  BY ConstantsAssumption DEF TypeInv, TypeOK
<1>3. retry => attempt < MaxAttempts OBVIOUS
<1>4. (~retry) \in BOOLEAN OBVIOUS
<1> HIDE DEF retry
<1>5. attempt' \in 1..MaxAttempts BY <1>1, <1>2, <1>3
<1> QED BY <1>1, <1>4, <1>5 DEF Failing

\* A frame comes on the wire, and the tools end while the turn is ending.
LEMMA DataPc == (AnthropicData \/ OpenAIData \/ GeminiData) => pc \in {"wire", "ending"}
<1>1. AnthropicData => pc = "wire"
  BY DEF AnthropicData, MessageStart, BlockStart, TextDelta, ArgumentDelta, BlockStop, StopReason,
         MessageStop, Frame
<1>2. OpenAIData => pc \in {"wire", "ending"}
  <2>1. ASSUME NEW i, NEW id, NEW named, NEW chunk, CallDelta(i, id, named, chunk) PROVE pc = "wire"
    BY <2>1 DEF CallDelta, Frame
  <2>2. (Content \/ Done \/ \E stop \in Stops : FinishReason(stop)) => pc = "wire"
    BY DEF Content, Done, FinishReason, Frame
  <2>3. (Ended \/ \E i \in Indexes : EndTool(i)) => pc = "ending" BY DEF EndTool, Ended
  <2> QED BY <2>1, <2>2, <2>3 DEF OpenAIData
<1>3. GeminiData => pc = "wire"
  BY DEF GeminiData, Part, FunctionCall, FinishCandidate, Frame
<1> QED BY <1>1, <1>2, <1>3

\* What a step does to the log and to what is shown.
LEMMA StepIs ==
  ASSUME TypeInv, [Next]_vars
  PROVE  \/ Start \/ Failing \/ Parsed \/ Completes \/ PublishMessage \/ PublishCall \/ Leaves
         \/ UNCHANGED vars
<1>1. CASE Break BY <1>1, RaiseFails DEF Break
<1>2. ASSUME Refuse, pc \in {"wire", "ending"} PROVE Failing BY <1>2, RaiseFails DEF Refuse
<1>3. CASE AnthropicData BY <1>2, <1>3, DataPc, AnthropicStep
<1>4. CASE OpenAIData BY <1>2, <1>4, DataPc, OpenAIStep
<1>5. CASE GeminiData BY <1>2, <1>5, DataPc, GeminiStep
<1>6. CASE Complete
  <2>1. CASE Refuse BY <1>2, <1>6, <2>1 DEF Complete
  <2>2. CASE ~Refuse
    <3>1. /\ Whole /\ pc = "wire" /\ pc' = "message" /\ seen' = Append(seen, Turn("completed"))
          /\ UNCHANGED <<provider, attempt, parserVars, todo, log, start, frames, regular>>
      BY <1>6, <2>2 DEF Complete, Emit
    <3>2. provider \in {"anthropic", "openai", "gemini"} /\ finish \in Stops \cup {"none"}
      BY ConstantsAssumption DEF TypeInv, TypeOK
    <3>3. finish \in Stops BY <3>1, <3>2 DEF Whole
    <3> QED BY <3>1, <3>3 DEF Completes
  <2> QED BY <2>1, <2>2
<1>7. CASE Return \/ Interrupt BY <1>7 DEF Return, Interrupt, Leaves
<1> QED BY <1>1, <1>3, <1>4, <1>5, <1>6, <1>7 DEF Next

-----------------------------------------------------------------------------
(* Types                                                                     *)

\* Parts are events a watcher may be shown.
LEMMA PartsAreFed == ASSUME NEW parts \in Seq(PartEvents) PROVE parts \in Seq(FeedEvents)
<1>1. PartEvents \subseteq FeedEvents BY DEF PartEvents, FeedEvents, FeedTypes
<1> QED BY <1>1

\* Every step keeps the types.
LEMMA TypesKept == ASSUME TypeInv, [Next]_vars PROVE TypeInv'
<1> USE DEF TypeInv
<1>0. /\ TypeOK /\ seen \in Seq(FeedEvents) /\ log \in Seq(LogEvents)
      /\ start \in 0..Len(log) /\ todo \subseteq Held
  BY DEF TypeOK, FeedEvents
<1>1. CASE Start
  <2>1. <<Turn("started")>> \in Seq(FeedEvents) BY DEF Turn, Event, NoId, FeedEvents, FeedTypes
  <2>2. NoTool \in ToolStates BY DEF NoTool, NoId, ToolStates
  <2>3. open' \in [Indexes -> Blocks \cup {"none"}] /\ tools' \in [Indexes -> ToolStates]
    BY <1>1, <2>2 DEF Start
  <2>4. MaxFrames[provider] \in Nat BY ConstantsAssumption, <1>0 DEF TypeOK
  <2>5. /\ pc' = "wire" /\ todo = {} /\ seen' = <<Turn("started")>> /\ frames' = 0 /\ text' = 0
        /\ started' \in BOOLEAN /\ stopped' \in BOOLEAN /\ regular' \in BOOLEAN /\ finish' = "none"
        /\ UNCHANGED <<provider, attempt, todo, log, start>>
    BY <1>1 DEF Start
  <2>6. frames' \in 0..MaxFrames[provider]' BY <2>4, <2>5
  <2> QED BY <1>0, <2>1, <2>3, <2>5, <2>6 DEF TypeOK, FeedEvents, PCs
<1>2. CASE Failing
  <2>1. Append(seen, Turn("failed")) \in Seq(FeedEvents)
    BY <1>0 DEF Turn, Event, NoId, FeedEvents, FeedTypes
  <2>2. PICK terminal \in BOOLEAN : log' = Append(log, Error(terminal)) BY <1>2 DEF Failing
  <2>3. Error(terminal) \in LogEvents BY DEF Error, LogEvents
  <2>4. log' \in Seq(LogEvents) /\ start \in 0..Len(log') BY <1>0, <2>2, <2>3
  <2> QED BY <1>0, <1>2, <2>1, <2>4 DEF Failing, parserVars, TypeOK, FeedEvents, PCs, Held
<1>3. CASE Parsed
  <2>1. PICK parts \in Seq(PartEvents) : seen' = seen \o parts BY <1>3 DEF Parsed, ShowsParts
  <2>2. seen' \in Seq(FeedEvents) BY <1>0, <2>1, PartsAreFed
  <2> QED BY <1>0, <1>3, <2>2 DEF Parsed, TypeOK, FeedEvents, PCs
<1>4. CASE Completes
  <2>1. Append(seen, Turn("completed")) \in Seq(FeedEvents)
    BY <1>0 DEF Turn, Event, NoId, FeedEvents, FeedTypes
  <2> QED BY <1>0, <1>4, <2>1 DEF Completes, parserVars, TypeOK, FeedEvents, PCs, Held
<1>5. CASE PublishMessage
  <2>1. Answer(text, finish) \in LogEvents BY <1>5, <1>0 DEF PublishMessage, TypeOK, Answer, LogEvents
  <2>2. log' \in Seq(LogEvents) /\ start \in 0..Len(log') BY <1>0, <1>5, <2>1 DEF PublishMessage
  <2> QED BY <1>0, <1>5, <2>2 DEF PublishMessage, parserVars, TypeOK, FeedEvents, PCs, Held
<1>6. CASE PublishCall
  <2>1. First(todo) \in todo
    <3>1. todo # {} /\ todo \subseteq Nat /\ IsFiniteSet(Indexes) /\ todo \subseteq Indexes
      BY <1>0, <1>6, ConstantsAssumption DEF PublishCall, Held
    <3> QED BY <3>1, LeastIn DEF First
  <2> DEFINE i == First(todo)
  <2>2. tools[i] \in ToolStates BY <1>0, <2>1 DEF TypeOK, Held
  <2>3. Use(tools[i].id, tools[i].arguments) \in LogEvents BY <2>2 DEF ToolStates, Use, LogEvents
  <2>4. log' = Append(log, Use(tools[i].id, tools[i].arguments)) BY <1>6 DEF PublishCall
  <2>5. log' \in Seq(LogEvents) /\ start \in 0..Len(log') BY <1>0, <2>3, <2>4
  <2>6. todo' \subseteq todo BY <1>6 DEF PublishCall
  <2> QED BY <1>0, <1>6, <2>5, <2>6 DEF PublishCall, parserVars, TypeOK, FeedEvents, PCs, Held
<1>7. CASE Leaves BY <1>0, <1>7 DEF Leaves, parserVars, TypeOK, PCs, Held
<1>8. CASE UNCHANGED vars BY <1>0, <1>8 DEF vars, parserVars, TypeOK, Held
<1> QED BY <1>1, <1>2, <1>3, <1>4, <1>5, <1>6, <1>7, <1>8, StepIs

\* A turn begins with them.
LEMMA TypesStart == Init => TypeInv
<1> SUFFICES ASSUME Init PROVE TypeInv OBVIOUS
<1>1. <<>> \in Seq(FeedEvents) OBVIOUS
<1>2. NoTool \in ToolStates BY DEF NoTool, NoId, ToolStates
<1>3. Answer(0, "tool_use") \in LogEvents BY DEF Answer, LogEvents, Stops
<1>4. log \in Seq(LogEvents) /\ start \in 0..Len(log)
  <2>1. CASE log = <<>> BY <2>1 DEF Init
  <2>2. CASE log = <<Answer(0, "tool_use")>>
    <3>1. log \in Seq(LogEvents) BY <1>3, <2>2
    <3> QED BY <3>1 DEF Init
  <2> QED BY <2>1, <2>2 DEF Init
<1>5. MaxFrames[provider] \in Nat /\ 1 \in 1..MaxAttempts BY ConstantsAssumption DEF Init
<1>6. open \in [Indexes -> Blocks \cup {"none"}] /\ tools \in [Indexes -> ToolStates]
  BY <1>2 DEF Init
<1>7. /\ provider \in Providers /\ pc = "call" /\ attempt = 1 /\ seen = <<>> /\ todo = {}
      /\ started \in BOOLEAN /\ stopped \in BOOLEAN /\ regular \in BOOLEAN
      /\ finish = "none" /\ text = 0 /\ frames = 0
  BY DEF Init
<1>8. attempt \in 1..MaxAttempts /\ frames \in 0..MaxFrames[provider] BY <1>5, <1>7
<1> QED BY <1>1, <1>4, <1>6, <1>7, <1>8 DEF TypeInv, TypeOK, FeedEvents, PCs

\* Every variable has its type, and no attempt is made past max_attempts, for
\* every wire (the StreamStates and the retry loop).
THEOREM TurnTypes == Spec => []TypeOK
<1>1. TypeInv /\ [Next]_vars => TypeInv' BY TypesKept
<1>2. TypeInv => TypeOK BY DEF TypeInv
<1> QED BY <1>1, <1>2, TypesStart, PTL DEF Spec

-----------------------------------------------------------------------------
(* What is recorded                                                          *)

LastOf(s) == s[Len(s)]
Ends == {Turn("failed"), Turn("completed")}
IsLeast(m, S) == m \in S /\ \A q \in S : m <= q

\* Nothing of a turn is recorded before its answer is complete; then the
\* record has a first entry, which further ones leave first.
FeedInv ==
  /\ pc \in {"call", "wire", "ending", "message", "gave_up"} => Answered = {}
  /\ pc = "calls" => \E m : IsLeast(m, Answered)
  /\ pc = "call" => seen = <<>> \/ (seen # <<>> /\ LastOf(seen) = Turn("failed"))
  /\ pc \in {"wire", "ending"} => seen # <<>> /\ LastOf(seen) \notin Ends
  /\ pc \in {"message", "calls"} => seen # <<>> /\ LastOf(seen) = Turn("completed")

\* The record depends on the log and the turn's start alone.
LEMMA RecordStays ==
  ASSUME log' = log, start' = start PROVE Answered' = Answered /\ Recorded' = Recorded
<1>1. Answered' = Answered BY DEF Answered
<1> QED BY <1>1 DEF Recorded

\* A failed attempt adds its error, which is no part of the answer.
LEMMA ErrorUnrecorded ==
  ASSUME TypeInv, Answered = {}, Failing PROVE Answered' = {}
<1>1. PICK terminal \in BOOLEAN : log' = Append(log, Error(terminal)) BY DEF Failing
<1>2. log \in Seq(LogEvents) /\ start \in 0..Len(log) /\ start' = start
  BY DEF TypeInv, TypeOK, Failing
<1>3. Error(terminal).type = "provider_error" BY DEF Error
<1> HIDE DEF Error
<1>4. Len(log') = Len(log) + 1 /\ log'[Len(log) + 1] = Error(terminal)
      /\ \A p \in 1..Len(log) : log'[p] = log[p]
  BY <1>1, <1>2
<1>5. \A p \in (start + 1)..Len(log') : log'[p].type = "provider_error"
  <2> SUFFICES ASSUME NEW p \in (start + 1)..Len(log') PROVE log'[p].type = "provider_error" OBVIOUS
  <2>1. CASE p = Len(log) + 1 BY <1>3, <1>4, <2>1
  <2>2. CASE p # Len(log) + 1
    <3>1. p \in (start + 1)..Len(log) /\ p \in 1..Len(log) BY <1>2, <1>4, <2>2
    <3> QED BY <1>4, <3>1 DEF Answered
  <2> QED BY <2>1, <2>2
<1> QED BY <1>2, <1>5 DEF Answered

\* A set of numbers has at most one least member.
LEMMA LeastOnce ==
  ASSUME NEW S, S \subseteq Int, NEW m, IsLeast(m, S)
  PROVE  (CHOOSE p \in S : \A q \in S : p <= q) = m
<1> DEFINE c == CHOOSE p \in S : \A q \in S : p <= q
<1>1. c \in S /\ \A q \in S : c <= q BY DEF IsLeast
<1>2. c <= m /\ m <= c /\ c \in Int /\ m \in Int BY <1>1 DEF IsLeast
<1> QED BY <1>2

\* What was appended last.
LEMMA AppendedEnd ==
  ASSUME NEW S, NEW s \in Seq(S), NEW e \in S
  PROVE  SubSeq(Append(s, e), Len(s) + 1, Len(s) + 1) = <<e>>
<1>1. /\ Append(s, e) \in Seq(S) /\ Len(Append(s, e)) = Len(s) + 1 /\ Len(s) \in Nat
      /\ Append(s, e)[Len(s) + 1] = e
  OBVIOUS
<1> DEFINE t == Append(s, e)
           n == Len(s) + 1
<1> HIDE DEF t, n
<1>2. t \in Seq(S) /\ n \in Nat /\ n >= 1 /\ t[n] = e /\ Len(t) = n BY <1>1 DEF t, n
<1>3. SubSeq(t, n, n) = <<e>>
  <2>1. SubSeq(t, n, n) = <<t[n]>> \o SubSeq(t, n + 1, n) BY <1>2, SubSeqRecursiveFirst
  <2>2. SubSeq(t, n + 1, n) = <<>> BY <1>2, SubSeqEmpty
  <2>3. <<e>> \in Seq(S) OBVIOUS
  <2> QED BY <1>2, <2>1, <2>2, <2>3, ConcatEmptySeq
<1> QED BY <1>3 DEF t, n

\* The message, or a call: the record grows by it at its end.
LEMMA AnswerRecorded ==
  ASSUME TypeInv, NEW e \in LogEvents, e.type # "provider_error",
         log' = Append(log, e), start' = start,
         Answered = {} \/ \E m : IsLeast(m, Answered)
  PROVE  Recorded' = Append(Recorded, e) /\ \E m : IsLeast(m, Answered')
<1> DEFINE n == Len(log)
<1>1. log \in Seq(LogEvents) /\ start \in 0..n /\ n \in Nat BY DEF TypeInv, TypeOK
<1>2. Len(log') = n + 1 /\ log'[n + 1] = e /\ \A p \in 1..n : log'[p] = log[p]
  BY <1>1
<1> HIDE DEF n
<1>3. Answered \subseteq 1..n BY <1>1 DEF Answered, n
<1>4. Answered' = Answered \cup {n + 1}
  <2>1. Answered' = {p \in (start + 1)..(n + 1) : log'[p].type # "provider_error"}
    BY <1>2 DEF Answered
  <2>2. Answered = {p \in (start + 1)..n : log[p].type # "provider_error"} BY DEF Answered, n
  <2>3. \A p \in (start + 1)..n : log'[p] = log[p] BY <1>1, <1>2
  <2>4. (start + 1)..(n + 1) = ((start + 1)..n) \cup {n + 1} BY <1>1
  <2> QED BY <1>2, <2>1, <2>2, <2>3, <2>4
<1>5. CASE Answered = {}
  <2>1. IsLeast(n + 1, Answered') BY <1>1, <1>4, <1>5 DEF IsLeast
  <2>2. (CHOOSE p \in Answered' : \A q \in Answered' : p <= q) = n + 1
    BY <1>1, <1>4, <1>5, <2>1, LeastOnce
  <2>3. Recorded' = SubSeq(log', n + 1, n + 1) BY <1>2, <1>4, <2>2 DEF Recorded
  <2>4. SubSeq(log', n + 1, n + 1) = <<e>> BY <1>1, AppendedEnd DEF n
  <2>5. Recorded = <<>> BY <1>5 DEF Recorded
  <2> QED BY <2>1, <2>3, <2>4, <2>5
<1>6. ASSUME NEW m, IsLeast(m, Answered)
      PROVE  Recorded' = Append(Recorded, e) /\ IsLeast(m, Answered')
  <2>1. m \in 1..n /\ Answered # {} BY <1>3, <1>6 DEF IsLeast
  <2>2. IsLeast(m, Answered') BY <1>1, <1>4, <1>6, <2>1 DEF IsLeast
  <2> Answered \subseteq Int /\ Answered' \subseteq Int BY <1>1, <1>3, <1>4
  <2>3. (CHOOSE p \in Answered : \A q \in Answered : p <= q) = m BY <1>3, <1>6, LeastOnce
  <2>4. (CHOOSE p \in Answered' : \A q \in Answered' : p <= q) = m
    BY <1>1, <1>3, <1>4, <2>2, LeastOnce
  <2>5. Recorded = SubSeq(log, m, n) BY <2>1, <2>3 DEF Recorded, n
  <2>6. Recorded' = SubSeq(log', m, n + 1) BY <1>2, <1>4, <2>4 DEF Recorded
  <2>7. SubSeq(Append(log, e), m, n + 1) = Append(SubSeq(log, m, n), e)
    BY <1>1, <2>1 DEF n
  <2> QED BY <2>2, <2>5, <2>6, <2>7
<1> QED BY <1>5, <1>6

-----------------------------------------------------------------------------
(* Refinement                                                                *)

\* One more event, a part or the end of the attempt, is shown.
LEMMA ShowsOne ==
  ASSUME TypeInv, seen # <<>>, LastOf(seen) \notin Ends,
         NEW e \in FeedEvents, e \in PartEvents \cup Ends, seen' = Append(seen, e), Recorded' = Recorded
  PROVE  Feed!Show /\ LastOf(seen') = e /\ seen' # <<>>
<1>1. seen \in Seq(FeedEvents) BY DEF TypeInv, TypeOK, FeedEvents
<1> DEFINE new == SubSeq(seen', Len(seen) + 1, Len(seen'))
<1>2. Len(seen') = Len(seen) + 1 /\ seen' = seen \o <<e>> /\ LastOf(seen') = e /\ seen' # <<>>
  BY <1>1 DEF LastOf
<1>3. new = <<e>> BY <1>1, <1>2, AppendedEnd
<1> HIDE DEF new
<1>4. Feed!Open BY DEF Feed!Open, Feed!Last, LastOf, Ends
<1>5. new # <<>> /\ seen' = seen \o new /\ (\A n \in 1..(Len(new) - 1) : new[n] \in PartEvents)
      /\ Feed!Last(new) \in PartEvents \cup {Turn("completed"), Turn("failed")}
  BY <1>2, <1>3 DEF Feed!Last, Ends
<1> QED BY <1>2, <1>4, <1>5 DEF Feed!Show, PartEvents, new

\* A step under way shows its parts, if any, and a turn under way stays so.
LEMMA ParsedShows ==
  ASSUME TypeInv, FeedInv, Parsed
  PROVE  (Feed!Show \/ UNCHANGED <<seen, Recorded>>) /\ FeedInv'
<1>1. seen \in Seq(FeedEvents) BY DEF TypeInv, TypeOK, FeedEvents
<1>2. /\ pc \in {"wire", "ending"} /\ pc' \in {"wire", "ending"} /\ log' = log /\ start' = start
      /\ seen # <<>> /\ LastOf(seen) \notin Ends /\ Answered = {}
  BY DEF Parsed, FeedInv
<1>3. Recorded' = Recorded /\ Answered' = {} BY <1>2, RecordStays
<1>4. PICK parts \in Seq(PartEvents) : seen' = seen \o parts BY DEF Parsed, ShowsParts
<1>5. CASE parts = <<>>
  <2>1. seen' = seen BY <1>1, <1>4, <1>5
  <2> QED BY <1>2, <1>3, <2>1 DEF FeedInv
<1>6. CASE parts # <<>>
  <2> DEFINE new == SubSeq(seen', Len(seen) + 1, Len(seen'))
  <2>1. parts \in Seq(FeedEvents) BY PartsAreFed
  <2>2. Len(parts) \in Nat /\ Len(parts) >= 1 /\ Len(seen') = Len(seen) + Len(parts) /\ seen' # <<>>
        /\ LastOf(seen') = LastOf(parts)
    BY <1>1, <1>4, <1>6, <2>1 DEF LastOf
  <2>3. new = parts
    <3>1. SubSeq(seen \o parts, Len(seen) + 1, Len(seen) + Len(parts)) = SubSeq(parts, 1, Len(parts))
      BY <1>1, <2>1, <2>2, SubSeqOfConcat2
    <3> QED BY <1>4, <2>1, <2>2, <3>1, SubSeqFull
  <2> HIDE DEF new
  <2>4. (\A n \in 1..Len(parts) : parts[n] \in PartEvents) /\ LastOf(parts) \in PartEvents
    BY <1>6, <2>2 DEF LastOf
  <2>5. LastOf(parts) \notin Ends BY <2>4 DEF PartEvents, PartTypes, Ends, Turn, Event
  <2>6. FeedInv' BY <1>2, <1>3, <2>2, <2>5 DEF FeedInv
  <2>7. Feed!Open BY <1>2 DEF Feed!Open, Feed!Last, LastOf, Ends
  <2>8. new # <<>> /\ seen' = seen \o new /\ (\A n \in 1..(Len(new) - 1) : new[n] \in PartEvents)
        /\ Feed!Last(new) \in PartEvents
    BY <1>4, <1>6, <2>2, <2>3, <2>4 DEF Feed!Last, LastOf
  <2>9. Feed!Show BY <1>3, <2>7, <2>8 DEF Feed!Show, PartEvents, new
  <2> QED BY <2>6, <2>9
<1> QED BY <1>5, <1>6

\* Every step of a turn is one of StreamedTurn, or none to those who watch.
LEMMA FeedStep ==
  ASSUME TypeInv, TypeInv', FeedInv, [Next]_vars
  PROVE  FeedInv' /\ [Feed!Next]_(Feed!vars)
<1>0. /\ seen \in Seq(FeedEvents) /\ seen' \in Seq(FeedEvents) /\ log \in Seq(LogEvents)
  BY DEF TypeInv, TypeOK, FeedEvents
<1>a. ASSUME UNCHANGED <<seen, Recorded>> PROVE UNCHANGED Feed!vars BY <1>a DEF Feed!vars
<1>1. CASE Start
  <2>1. /\ pc = "call" /\ pc' = "wire" /\ seen' = <<Turn("started")>> /\ log' = log /\ start' = start
        /\ Answered = {}
    BY <1>1 DEF Start, FeedInv
  <2>2. Recorded' = Recorded /\ Answered' = {} BY <2>1, RecordStays
  <2>3. Recorded = <<>> BY <2>1 DEF Recorded
  <2>4. LastOf(seen') = Turn("started") /\ seen' # <<>> /\ Turn("started") \notin Ends
    BY <2>1 DEF LastOf, Ends, Turn, Event
  <2>5. FeedInv' BY <2>1, <2>2, <2>4 DEF FeedInv
  <2>6. Feed!Over BY <2>1 DEF Feed!Over, Feed!Last, FeedInv, LastOf
  <2>7. Feed!Start BY <2>1, <2>2, <2>3, <2>6 DEF Feed!Start
  <2> QED BY <2>5, <2>7 DEF Feed!Next
<1>2. CASE Failing
  <2>1. /\ pc \in {"wire", "ending"} /\ pc' \in {"call", "gave_up"} /\ Answered = {}
        /\ seen # <<>> /\ LastOf(seen) \notin Ends /\ seen' = Append(seen, Turn("failed"))
    BY <1>2 DEF Failing, FeedInv
  <2>2. Answered' = {} BY <1>2, <2>1, ErrorUnrecorded
  <2>3. Recorded' = Recorded BY <2>1, <2>2 DEF Recorded
  <2>4. Turn("failed") \in Ends /\ Turn("failed") \in FeedEvents
    BY DEF Ends, Turn, Event, NoId, FeedEvents, FeedTypes
  <2>5. Feed!Show /\ LastOf(seen') = Turn("failed") /\ seen' # <<>> BY <2>1, <2>3, <2>4, ShowsOne
  <2>6. FeedInv' BY <2>1, <2>2, <2>5 DEF FeedInv
  <2> QED BY <2>5, <2>6 DEF Feed!Next
<1>3. CASE Parsed BY <1>3, <1>a, ParsedShows DEF Feed!Next
<1>4. CASE Completes
  <2>1. /\ pc = "wire" /\ pc' = "message" /\ Answered = {} /\ log' = log /\ start' = start
        /\ seen # <<>> /\ LastOf(seen) \notin Ends /\ seen' = Append(seen, Turn("completed"))
    BY <1>4 DEF Completes, FeedInv
  <2>2. Recorded' = Recorded /\ Answered' = {} BY <2>1, RecordStays
  <2>4. Turn("completed") \in Ends /\ Turn("completed") \in FeedEvents
    BY DEF Ends, Turn, Event, NoId, FeedEvents, FeedTypes
  <2>5. Feed!Show /\ LastOf(seen') = Turn("completed") /\ seen' # <<>>
    BY <2>1, <2>2, <2>4, ShowsOne
  <2>6. FeedInv' BY <2>1, <2>2, <2>5 DEF FeedInv
  <2> QED BY <2>5, <2>6 DEF Feed!Next
<1>5. ASSUME NEW e \in LogEvents, e.type # "provider_error", log' = Append(log, e), start' = start,
             pc \in {"message", "calls"}, pc' = "calls", seen' = seen,
             e \in IF Recorded = <<>> THEN [type : {"assistant_message"}, text : Nat, stop : Stops]
                   ELSE [type : {"tool_use"}, id : Nat, arguments : Nat]
      PROVE  FeedInv' /\ Feed!Record
  <2>1. Recorded' = Append(Recorded, e) /\ \E m : IsLeast(m, Answered')
    BY <1>5, AnswerRecorded DEF FeedInv
  <2>2. Recorded \in Seq(LogEvents)
    <3>1. CASE Answered = {} BY <3>1 DEF Recorded
    <3>2. ASSUME NEW m, IsLeast(m, Answered) PROVE Recorded \in Seq(LogEvents)
      <4>1. Answered \subseteq 1..Len(log) /\ Answered \subseteq Int
        BY DEF Answered, TypeInv, TypeOK
      <4>2. (CHOOSE p \in Answered : \A q \in Answered : p <= q) = m BY <3>2, <4>1, LeastOnce
      <4>3. m \in 1..Len(log) /\ Answered # {} BY <3>2, <4>1 DEF IsLeast
      <4>4. Recorded = SubSeq(log, m, Len(log)) BY <4>2, <4>3 DEF Recorded
      <4> QED BY <1>0, <4>3, <4>4
    <3> QED BY <1>5, <3>1, <3>2 DEF FeedInv
  <2>3. Len(Recorded') = Len(Recorded) + 1 /\ Feed!Last(Recorded') = e
    BY <2>1, <2>2 DEF Feed!Last
  <2>4. seen # <<>> /\ LastOf(seen) = Turn("completed") BY <1>5 DEF FeedInv
  <2>5. FeedInv' BY <1>5, <2>1, <2>4 DEF FeedInv
  <2>6. Feed!Done BY <2>4 DEF Feed!Done, Feed!Last, LastOf
  <2>7. Feed!Record BY <1>5, <2>1, <2>3, <2>6 DEF Feed!Record
  <2> QED BY <2>5, <2>7
<1>6. CASE PublishMessage
  <2> DEFINE e == Answer(text, finish)
  <2>1. /\ pc = "message" /\ pc' = "calls" /\ log' = Append(log, e) /\ start' = start /\ seen' = seen
    BY <1>6 DEF PublishMessage
  <2>2. text \in Nat /\ finish \in Stops BY <2>1 DEF TypeInv, TypeOK
  <2>3. e \in [type : {"assistant_message"}, text : Nat, stop : Stops] /\ e \in LogEvents
        /\ e.type # "provider_error"
    BY <2>2 DEF Answer, LogEvents
  <2>4. Recorded = <<>> BY <2>1 DEF FeedInv, Recorded
  <2> HIDE DEF e
  <2> QED BY <1>5, <2>1, <2>3, <2>4 DEF Feed!Next
<1>7. CASE PublishCall
  <2> DEFINE i == First(todo)
             e == Use(tools[i].id, tools[i].arguments)
  <2>1. /\ pc = "calls" /\ pc' = "calls" /\ log' = Append(log, e) /\ start' = start /\ seen' = seen
        /\ todo # {}
    BY <1>7 DEF PublishCall
  <2>2. i \in Indexes /\ tools[i] \in ToolStates
    <3>1. todo \subseteq Nat /\ todo \subseteq Indexes /\ tools \in [Indexes -> ToolStates]
      BY ConstantsAssumption DEF TypeInv, TypeOK, Held
    <3>2. i \in todo BY <2>1, <3>1, LeastIn DEF First
    <3> QED BY <3>1, <3>2
  <2> HIDE DEF i
  <2>3. e \in [type : {"tool_use"}, id : Nat, arguments : Nat] /\ e \in LogEvents
        /\ e.type # "provider_error"
    BY <2>2 DEF Use, LogEvents, ToolStates
  <2>4. Recorded # <<>>
    <3>1. PICK m : IsLeast(m, Answered) BY <2>1 DEF FeedInv
    <3>2. Answered \subseteq 1..Len(log) /\ Answered \subseteq Int BY DEF Answered, TypeInv, TypeOK
    <3>3. (CHOOSE p \in Answered : \A q \in Answered : p <= q) = m BY <3>1, <3>2, LeastOnce
    <3>4. m \in 1..Len(log) /\ Answered # {} BY <3>1, <3>2 DEF IsLeast
    <3>5. Recorded = SubSeq(log, m, Len(log)) BY <3>3, <3>4 DEF Recorded
    <3>6. Len(log) \in Nat /\ m \in Nat /\ m <= Len(log) BY <1>0, <3>4
    <3>7. Recorded = <<log[m]>> \o SubSeq(log, m + 1, Len(log))
      BY <1>0, <3>4, <3>5, <3>6, SubSeqRecursiveFirst
    <3>8. SubSeq(log, m + 1, Len(log)) \in Seq(LogEvents) /\ <<log[m]>> \in Seq(LogEvents)
      BY <1>0, <3>4, <3>6
    <3> QED BY <3>7, <3>8
  <2> HIDE DEF e
  <2> QED BY <1>5, <2>1, <2>3, <2>4 DEF Feed!Next
<1>8. CASE Leaves \/ UNCHANGED vars
  <2>1. seen' = seen /\ log' = log /\ start' = start /\ pc' \in {"answered", "interrupted", pc}
    BY <1>8 DEF Leaves, vars
  <2>2. Recorded' = Recorded /\ Answered' = Answered BY <2>1, RecordStays
  <2>3. FeedInv' BY <2>1, <2>2 DEF FeedInv
  <2> QED BY <1>a, <2>1, <2>2, <2>3
<1> QED BY <1>1, <1>2, <1>3, <1>4, <1>6, <1>7, <1>8, StepIs

\* An attempt that fails records nothing, one that completes is recorded
\* message first, and a turn with an answer is not tried again, for every
\* wire: the streamed turn implements StreamedTurn (run_stream, complete, fail
\* and the retry loop).
THEOREM TurnImplements == Spec => ImplementsFeed
<1>1. Init => FeedInv /\ Feed!Init
  <2> SUFFICES ASSUME Init PROVE FeedInv /\ Feed!Init OBVIOUS
  <2>1. start = Len(log) /\ Len(log) \in Nat /\ seen = <<>> /\ pc = "call" BY DEF Init
  <2>2. Answered = {} BY <2>1 DEF Answered
  <2>3. Recorded = <<>> BY <2>2 DEF Recorded
  <2> QED BY <2>1, <2>2, <2>3 DEF FeedInv, Feed!Init
<1>2. TypeInv /\ [Next]_vars => TypeInv' BY TypesKept
<1>3. TypeInv /\ TypeInv' /\ FeedInv /\ [Next]_vars => FeedInv' /\ [Feed!Next]_(Feed!vars)
  BY FeedStep
<1> QED BY <1>1, <1>2, <1>3, TypesStart, PTL DEF Spec, ImplementsFeed, Feed!Spec

\* In a StreamedTurn nothing is recorded before an attempt is completed, and
\* nothing is shown or taken back afterwards.
LEMMA RecordedTurn ==
  Feed!Init /\ [][Feed!Next]_(Feed!vars) => []Feed!RecordedWhenDone /\ Feed!RecordedForGood
<1> DEFINE Kept ==
      Recorded # <<>> =>
        /\ seen' = seen
        /\ Recorded' = Recorded \/ Recorded' = Append(Recorded, Feed!Last(Recorded'))
<1>1. Feed!Init => Feed!RecordedWhenDone
  BY DEF Feed!Init, Feed!RecordedWhenDone
<1>2. Feed!RecordedWhenDone /\ [Feed!Next]_(Feed!vars)
        => Feed!RecordedWhenDone' /\ [Kept]_(Feed!vars)
  <2> SUFFICES ASSUME Feed!RecordedWhenDone, [Feed!Next]_(Feed!vars)
               PROVE  Feed!RecordedWhenDone' /\ Kept
    OBVIOUS
  <2>1. CASE Feed!Start
    BY <2>1 DEF Feed!Start, Feed!RecordedWhenDone
  <2>2. CASE Feed!Show
    BY <2>2 DEF Feed!Show, Feed!Open, Feed!Done, Feed!RecordedWhenDone
  <2>3. CASE Feed!Record
    BY <2>3 DEF Feed!Record, Feed!Done, Feed!RecordedWhenDone
  <2>4. CASE UNCHANGED Feed!vars
    BY <2>4 DEF Feed!vars, Feed!Done, Feed!RecordedWhenDone
  <2> QED BY <2>1, <2>2, <2>3, <2>4 DEF Feed!Next
<1> HIDE DEF Kept
<1>3. Feed!Init /\ [][Feed!Next]_(Feed!vars)
        => []Feed!RecordedWhenDone /\ [][Kept]_(Feed!vars)
  BY <1>1, <1>2, PTL
<1> QED BY <1>3, PTL DEF Kept, Feed!RecordedForGood

\* The log holds nothing of a streamed attempt that failed or is under way, and
\* once it holds something of one the watchers see nothing else of the turn, for
\* every wire and any retries: the code implements StreamedTurn.
THEOREM NothingOfAFailedAttempt == Spec => []Feed!RecordedWhenDone /\ Feed!RecordedForGood
BY TurnImplements, RecordedTurn, PTL DEF ImplementsFeed, Feed!Spec

-----------------------------------------------------------------------------
(* What is shown of an answer                                                *)

\* The events of a tool: its begin and its chunks; or these and its end.
Of(q, id) == {m \in 1..Len(q) : q[m].id = id}
Begun(q, id, count) ==
  /\ \E b \in Of(q, id) :
       /\ q[b].type = "begin"
       /\ \A m \in Of(q, id) \ {b} : b < m /\ q[m].type = "argument_delta"
  /\ Cardinality(Of(q, id)) = count + 1
Told(q, id, count, arguments) ==
  /\ \E b, e \in Of(q, id) :
       /\ q[b].type = "begin" /\ q[e].type = "end" /\ b < e
       /\ \A m \in Of(q, id) \ {b, e} : b < m /\ m < e /\ q[m].type = "argument_delta"
       /\ q[e].arguments = arguments
  /\ Cardinality(Of(q, id)) = count + 2

\* The tool of an index has ended, or nothing more comes for it.
Over(i) ==
  \/ pc \in {"message", "calls", "answered"}
  \/ provider = "gemini"
  \/ provider = "anthropic" /\ open[i] = "none"
  \/ provider = "openai" /\ finish # "none" /\ (pc = "ending" => i \notin todo)

Alive == pc \in {"wire", "ending", "message", "calls", "answered"}

\* How the state machine of a provider keeps its tools.
ToolInv(i) ==
  /\ ~tools[i].made => tools[i] = NoTool
  /\ tools[i].begun => tools[i].id # NoId
  /\ ~tools[i].begun => tools[i].chunks = 0
  /\ tools[i].made /\ Over(i) => tools[i].begun
  /\ tools[i].made /\ provider = "anthropic" => tools[i].begun
ParserInv ==
  /\ \A i \in Indexes : ToolInv(i)
  /\ provider = "anthropic" /\ stopped => \A i \in Indexes : open[i] = "none"
  /\ provider = "gemini" => Held = 0..(Cardinality(Held) - 1) /\ \A i \in Held : tools[i].id = i + 1
  /\ pc = "ending" => provider = "openai" /\ finish # "none"

\* Tools have ids of their own, and what was shown of each is what it holds.
Distinct == \A i, j \in Held : tools[i].id = tools[j].id /\ tools[i].id # NoId => i = j
Owned ==
  \A m \in 1..Len(seen) : seen[m].type = "begin" \/ seen[m].id # NoId =>
    \E i \in Held : tools[i].begun /\ tools[i].id = seen[m].id
ToolTold(i) ==
  IF Over(i)
  THEN \E count \in Nat : /\ Told(seen, tools[i].id, count, tools[i].arguments)
                          /\ provider # "gemini" => tools[i].arguments = count
  ELSE Begun(seen, tools[i].id, tools[i].chunks)
ToldInv == Distinct /\ Owned /\ \A i \in Held : tools[i].begun => ToolTold(i)

TextInv == text = Cardinality({m \in 1..Len(seen) : seen[m].type = "text_delta"})

\* The message of this turn is in the log, and behind it the tools published.
Published(last) ==
  /\ log[last] = Answer(text, finish)
  /\ \A p \in (last + 1)..Len(log) :
       \E i \in Held \ todo : log[p] = Use(tools[i].id, tools[i].arguments)
  /\ \A i \in Held \ todo :
       \E p \in (last + 1)..Len(log) : log[p] = Use(tools[i].id, tools[i].arguments)
  /\ regular => \A p, q \in (last + 1)..Len(log) : log[p].id = log[q].id => p = q
PublishedInv == pc \in {"calls", "answered"} => \E last \in (start + 1)..Len(log) : Published(last)

ShownInv ==
  Alive => /\ ParserInv /\ TextInv /\ PublishedInv
           /\ regular => ToldInv
           /\ pc = "answered" => todo = {}

\* Events of a tool, or of none, have come behind the others.
Adds(q, r, x) ==
  /\ q \in Seq(FeedEvents) /\ r \in Seq(FeedEvents) /\ Len(q) <= Len(r)
  /\ \A m \in 1..Len(q) : r[m] = q[m]
  /\ \A m \in 1..Len(r) : m > Len(q) => r[m].id = x /\ (x = NoId => r[m].type # "begin")
\* No text among them.
Silent(q, r) == \A m \in 1..Len(r) : m > Len(q) => r[m].type # "text_delta"

\* Nothing comes behind.
LEMMA AddsNone ==
  ASSUME NEW q \in Seq(FeedEvents), NEW x PROVE Adds(q, q, x) /\ Silent(q, q)
<1>1. Len(q) \in Nat BY LenProperties
<1> QED BY <1>1 DEF Adds, Silent

\* One event comes behind.
LEMMA AddsOne ==
  ASSUME NEW q \in Seq(FeedEvents), NEW e \in FeedEvents, e.id = NoId => e.type # "begin",
         NEW r, r = Append(q, e)
  PROVE  Adds(q, r, e.id) /\ (e.type # "text_delta" => Silent(q, r))
<1>1. /\ r \in Seq(FeedEvents) /\ Len(r) = Len(q) + 1 /\ Len(q) \in Nat
      /\ \A m \in 1..Len(q) : r[m] = q[m]
      /\ r[Len(q) + 1] = e
  BY AppendProperties, LenProperties
<1>2. \A m \in 1..Len(r) : m > Len(q) => m = Len(q) + 1 BY <1>1
<1>3. Len(q) <= Len(r) BY <1>1
<1>4. \A m \in 1..Len(r) : m > Len(q) => r[m] = e BY <1>1, <1>2
<1> QED BY <1>1, <1>3, <1>4 DEF Adds, Silent

\* What comes behind twice comes behind.
LEMMA AddsTwo ==
  ASSUME NEW q, NEW r, NEW s, NEW x, Adds(q, r, x), Adds(r, s, x), Silent(q, r), Silent(r, s)
  PROVE  Adds(q, s, x) /\ Silent(q, s)
<1>1. /\ Len(q) \in Nat /\ Len(r) \in Nat /\ Len(s) \in Nat
      /\ Len(q) <= Len(r) /\ Len(r) <= Len(s)
      /\ q \in Seq(FeedEvents) /\ s \in Seq(FeedEvents)
  BY LenProperties DEF Adds
<1>2. \A m \in 1..Len(q) : s[m] = q[m]
  <2>1. ASSUME NEW m \in 1..Len(q) PROVE s[m] = q[m]
    <3>1. m \in 1..Len(r) BY <1>1
    <3> QED BY <3>1 DEF Adds
  <2> QED BY <2>1
<1>3. ASSUME NEW m \in 1..Len(s), m > Len(q)
      PROVE  s[m].id = x /\ (x = NoId => s[m].type # "begin") /\ s[m].type # "text_delta"
  <2>1. CASE m > Len(r) BY <1>3, <2>1 DEF Adds, Silent
  <2>2. CASE ~(m > Len(r))
    <3>1. m \in 1..Len(r) BY <1>1, <2>2
    <3>2. s[m] = r[m] BY <3>1 DEF Adds
    <3> QED BY <1>3, <3>1, <3>2 DEF Adds, Silent
  <2> QED BY <2>1, <2>2
<1>4. Len(q) <= Len(s) BY <1>1
<1> QED BY <1>1, <1>2, <1>3, <1>4 DEF Adds, Silent

\* Of other tools everything stays as it was shown.
LEMMA OthersKept ==
  ASSUME NEW q, NEW r, NEW x, Adds(q, r, x), NEW id, id # x
  PROVE  /\ Of(r, id) = Of(q, id)
         /\ \A count : Begun(q, id, count) => Begun(r, id, count)
         /\ \A count, arguments : Told(q, id, count, arguments) => Told(r, id, count, arguments)
<1>1. Len(q) \in Nat /\ Len(r) \in Nat /\ Len(q) <= Len(r) BY LenProperties DEF Adds
<1>2. \A m \in 1..Len(q) : r[m] = q[m] /\ m \in 1..Len(r) BY <1>1 DEF Adds
<1>3. \A m \in 1..Len(r) : r[m].id = id => m \in 1..Len(q) BY <1>1 DEF Adds
<1>4. Of(r, id) = Of(q, id) BY <1>2, <1>3 DEF Of
<1>5. \A m \in Of(q, id) : r[m] = q[m] BY <1>2 DEF Of
<1>6. ASSUME NEW count, Begun(q, id, count) PROVE Begun(r, id, count)
  BY <1>4, <1>5, <1>6 DEF Begun
<1>7. ASSUME NEW count, NEW arguments, Told(q, id, count, arguments)
      PROVE  Told(r, id, count, arguments)
  BY <1>4, <1>5, <1>7 DEF Told
<1> QED BY <1>4, <1>6, <1>7

\* One more event of a tool.
OneMore(q, r, id, e, last) ==
  /\ Of(r, id) = Of(q, id) \cup {last}
  /\ \A m \in Of(q, id) : m \in Nat /\ m < last /\ r[m] = q[m]
  /\ r[last] = e /\ last \notin Of(q, id) /\ last \in Nat
  /\ Cardinality(Of(q, id)) \in Nat
  /\ Cardinality(Of(r, id)) = Cardinality(Of(q, id)) + 1
LEMMA OfMore ==
  ASSUME NEW q \in Seq(FeedEvents), NEW e \in FeedEvents, NEW r, r = Append(q, e), NEW id, e.id = id
  PROVE  \E last : OneMore(q, r, id, e, last)
<1>1. /\ Len(r) = Len(q) + 1 /\ Len(q) \in Nat
      /\ \A m \in 1..Len(q) : r[m] = q[m]
      /\ r[Len(q) + 1] = e
  BY AppendProperties, LenProperties
<1>2. Of(r, id) = Of(q, id) \cup {Len(q) + 1}
  <2>1. \A m : m \in 1..Len(r) <=> m \in 1..Len(q) \/ m = Len(q) + 1 BY <1>1
  <2> QED BY <1>1, <2>1 DEF Of
<1>3. \A m \in Of(q, id) : m \in Nat /\ m < Len(q) + 1 /\ r[m] = q[m] BY <1>1 DEF Of
<1>4. Len(q) + 1 \notin Of(q, id) BY <1>1 DEF Of
<1>5. IsFiniteSet(Of(q, id))
  <2>1. IsFiniteSet(1..Len(q)) BY <1>1, FS_Interval
  <2>2. Of(q, id) \subseteq 1..Len(q) BY DEF Of
  <2> QED BY <2>1, <2>2, FS_Subset
<1>6. /\ Cardinality(Of(q, id)) \in Nat
      /\ Cardinality(Of(q, id) \cup {Len(q) + 1}) = Cardinality(Of(q, id)) + 1
  BY <1>4, <1>5, FS_AddElement, FS_CardinalityType
<1>7. PICK last \in Nat : last = Len(q) + 1 BY <1>1
<1>8. r[last] = e /\ last \notin Of(q, id) BY <1>1, <1>4, <1>7
<1>9. OneMore(q, r, id, e, last) BY <1>2, <1>3, <1>6, <1>7, <1>8 DEF OneMore
<1> QED BY <1>9

\* The first event of a tool.
LEMMA BeginsShown ==
  ASSUME NEW q \in Seq(FeedEvents), NEW e \in FeedEvents, e.type = "begin", NEW id, e.id = id, Of(q, id) = {},
         NEW r, r = Append(q, e)
  PROVE  Begun(r, id, 0)
<1>0. PICK last : OneMore(q, r, id, e, last) BY OfMore
<1>1. /\ Of(r, id) = {last} /\ r[last] = e
      /\ Cardinality(Of(r, id)) = Cardinality(Of(q, id)) + 1
  BY <1>0 DEF OneMore
<1>2. Cardinality(Of(q, id)) = 0 BY FS_EmptySet
<1> QED BY <1>1, <1>2 DEF Begun

\* One more chunk of it.
LEMMA ChunkShown ==
  ASSUME NEW q \in Seq(FeedEvents), NEW e \in FeedEvents, e.type = "argument_delta",
         NEW id, e.id = id, NEW count \in Nat, Begun(q, id, count), NEW r, r = Append(q, e)
  PROVE  Begun(r, id, count + 1)
<1>0. PICK last : OneMore(q, r, id, e, last) BY OfMore
<1>1. /\ Of(r, id) = Of(q, id) \cup {last}
      /\ \A m \in Of(q, id) : m \in Nat /\ m < last /\ r[m] = q[m]
      /\ r[last] = e /\ last \notin Of(q, id)
      /\ Cardinality(Of(q, id)) \in Nat
      /\ Cardinality(Of(r, id)) = Cardinality(Of(q, id)) + 1
  BY <1>0 DEF OneMore
<1>2. PICK b \in Of(q, id) :
        /\ q[b].type = "begin"
        /\ \A m \in Of(q, id) \ {b} : b < m /\ q[m].type = "argument_delta"
  BY DEF Begun
<1>3. b \in Of(r, id) /\ r[b].type = "begin" BY <1>1, <1>2
<1>4. \A m \in Of(r, id) \ {b} : b < m /\ r[m].type = "argument_delta" BY <1>1, <1>2
<1>5. Cardinality(Of(r, id)) = (count + 1) + 1 BY <1>1 DEF Begun
<1> QED BY <1>3, <1>4, <1>5 DEF Begun

\* Its end.
LEMMA EndShown ==
  ASSUME NEW q \in Seq(FeedEvents), NEW e \in FeedEvents, e.type = "end",
         NEW id, e.id = id, NEW count \in Nat, Begun(q, id, count), NEW r, r = Append(q, e)
  PROVE  Told(r, id, count, e.arguments)
<1>0. PICK last : OneMore(q, r, id, e, last) BY OfMore
<1>1. /\ Of(r, id) = Of(q, id) \cup {last}
      /\ \A m \in Of(q, id) : m \in Nat /\ m < last /\ r[m] = q[m]
      /\ r[last] = e /\ last \notin Of(q, id)
      /\ Cardinality(Of(q, id)) \in Nat
      /\ Cardinality(Of(r, id)) = Cardinality(Of(q, id)) + 1
  BY <1>0 DEF OneMore
<1>2. PICK b \in Of(q, id) :
        /\ q[b].type = "begin"
        /\ \A m \in Of(q, id) \ {b} : b < m /\ q[m].type = "argument_delta"
  BY DEF Begun
<1>3. b \in Of(r, id) /\ last \in Of(r, id) /\ r[b].type = "begin" /\ r[last].type = "end"
      /\ b < last /\ r[last].arguments = e.arguments
  BY <1>1, <1>2
<1>4. \A m \in Of(r, id) \ {b, last} : b < m /\ m < last /\ r[m].type = "argument_delta" BY <1>1, <1>2
<1>5. Cardinality(Of(r, id)) = count + 2 BY <1>1 DEF Begun
<1> QED BY <1>3, <1>4, <1>5 DEF Told

-----------------------------------------------------------------------------
(* Text                                                                      *)

\* Text stays what it was as long as none is shown.
LEMMA TextKept ==
  ASSUME TextInv, text' = text, NEW x, Adds(seen, seen', x), Silent(seen, seen')
  PROVE  TextInv'
<1>1. Len(seen) \in Nat /\ Len(seen') \in Nat /\ Len(seen) <= Len(seen') BY LenProperties DEF Adds
<1>2. \A m \in 1..Len(seen) : seen'[m] = seen[m] /\ m \in 1..Len(seen') BY <1>1 DEF Adds
<1>3. \A m \in 1..Len(seen') : seen'[m].type = "text_delta" => m \in 1..Len(seen) BY <1>1 DEF Silent
<1>4. {m \in 1..Len(seen') : seen'[m].type = "text_delta"} = {m \in 1..Len(seen) : seen[m].type = "text_delta"}
  BY <1>2, <1>3
<1> QED BY <1>4 DEF TextInv

\* A chunk of text is one more.
LEMMA TextMore ==
  ASSUME TypeInv, TextInv, Text
  PROVE  TextInv' /\ Adds(seen, seen', NoId)
<1> DEFINE e == Turn("text_delta")
           Before == {m \in 1..Len(seen) : seen[m].type = "text_delta"}
           After == {m \in 1..Len(seen') : seen'[m].type = "text_delta"}
<1>1. e \in FeedEvents /\ e.id = NoId /\ e.type = "text_delta"
  BY DEF Turn, Event, NoId, FeedEvents, FeedTypes, PartTypes
<1>2. seen \in Seq(FeedEvents) /\ seen' = Append(seen, e) /\ text' = text + 1 /\ text \in Nat
  BY DEF TypeInv, TypeOK, FeedEvents, Text, Emit
<1> HIDE DEF e
<1>3. Adds(seen, seen', e.id) BY <1>1, <1>2, AddsOne
<1>4. /\ Len(seen') = Len(seen) + 1 /\ Len(seen) \in Nat
      /\ \A m \in 1..Len(seen) : seen'[m] = seen[m]
      /\ seen'[Len(seen) + 1] = e
  BY <1>1, <1>2, AppendProperties, LenProperties
<1>5. After = Before \cup {Len(seen) + 1}
  <2>1. \A m : m \in 1..Len(seen') <=> m \in 1..Len(seen) \/ m = Len(seen) + 1 BY <1>4
  <2> QED BY <1>1, <1>4, <2>1
<1>6. Len(seen) + 1 \notin Before BY <1>4
<1>7. IsFiniteSet(Before)
  <2>1. IsFiniteSet(1..Len(seen)) BY <1>4, FS_Interval
  <2> QED BY <2>1, FS_Subset
<1>8. Cardinality(After) = Cardinality(Before) + 1 BY <1>5, <1>6, <1>7, FS_AddElement
<1> QED BY <1>1, <1>2, <1>3, <1>8 DEF TextInv

-----------------------------------------------------------------------------
(* What a step of the parser may do                                          *)

\* The tools stay as they are, and none ends.
LEMMA QuietStep ==
  ASSUME TypeInv, ShownInv, Alive, UNCHANGED <<tools, provider>>, TextInv',
         Adds(seen, seen', NoId), regular' => regular,
         \A i \in Held : Over(i)' => Over(i),
         regular' => \A i \in Held : Over(i)' <=> Over(i),
         provider = "anthropic" /\ stopped' => \A i \in Indexes : open'[i] = "none",
         pc' = "ending" => provider = "openai" /\ finish' # "none",
         PublishedInv', pc' = "answered" => todo' = {}
  PROVE  ShownInv'
<1>1. Held' = Held BY DEF Held
<1>2. ParserInv'
  <2>1. ASSUME NEW i \in Indexes PROVE ToolInv(i)'
    <3>1. ToolInv(i) /\ (i \in Held <=> tools[i].made) BY DEF ShownInv, ParserInv, Held
    <3>2. tools[i].made => (Over(i)' => Over(i)) BY <3>1
    <3> QED BY <3>1, <3>2 DEF ToolInv
  <2> QED BY <1>1, <2>1 DEF ShownInv, ParserInv
<1>3. ASSUME regular' PROVE ToldInv'
  <2>0. ToldInv BY <1>3 DEF ShownInv
  <2>1. Distinct' BY <1>1, <2>0 DEF ToldInv, Distinct
  <2>2. Owned'
    <3>1. ASSUME NEW m \in 1..Len(seen'), seen'[m].type = "begin" \/ seen'[m].id # NoId
          PROVE  \E i \in Held : tools[i].begun /\ tools[i].id = seen'[m].id
      <4>1. Len(seen) \in Nat /\ Len(seen') \in Nat BY LenProperties DEF Adds
      <4>2. ~(m > Len(seen)) BY <3>1 DEF Adds
      <4>3. m \in 1..Len(seen) BY <4>1, <4>2
      <4> QED BY <2>0, <3>1, <4>3 DEF Adds, ToldInv, Owned
    <3> QED BY <1>1, <3>1 DEF Owned
  <2>3. ASSUME NEW i \in Held, tools[i].begun PROVE ToolTold(i)'
    <3>1. ToolTold(i) BY <2>0, <2>3 DEF ToldInv
    <3>2. tools[i].id # NoId /\ (Over(i)' <=> Over(i))
      BY <1>3, <2>3 DEF ShownInv, ParserInv, ToolInv, Held
    <3>3. PICK id : id = tools[i].id OBVIOUS
    <3>4. /\ \A count : Begun(seen, id, count) => Begun(seen', id, count)
          /\ \A count, arguments : Told(seen, id, count, arguments) => Told(seen', id, count, arguments)
      BY <3>2, <3>3, OthersKept
    <3> QED BY <3>1, <3>2, <3>3, <3>4 DEF ToolTold
  <2> QED BY <1>1, <2>1, <2>2, <2>3 DEF ToldInv
<1> QED BY <1>2, <1>3 DEF ShownInv

\* One tool changes, and what is shown is about it.
LEMMA ToolStep ==
  ASSUME TypeInv, ShownInv, pc \in {"wire", "ending"}, UNCHANGED <<pc, provider>>, TextInv',
         NEW i \in Indexes, NEW new \in ToolStates, tools' = [tools EXCEPT ![i] = new],
         NEW x, Adds(seen, seen', x), x \in {NoId, new.id}, x # NoId => new.begun,
         new.made, new.begun => new.id # NoId, ~new.begun => new.chunks = 0,
         Over(i)' => new.begun, provider = "anthropic" => new.begun,
         \A j \in Held : j # i => (Over(j)' <=> Over(j)),
         provider = "anthropic" /\ stopped' => \A j \in Indexes : open'[j] = "none",
         pc' = "ending" => provider = "openai" /\ finish' # "none",
         provider = "gemini" => /\ Held \cup {i} = 0..(Cardinality(Held \cup {i}) - 1)
                                /\ new.id = i + 1,
         regular' => /\ regular
                     /\ \A j \in Held : j # i => tools[j].id # new.id \/ new.id = NoId
                     /\ tools[i].begun => new.begun /\ new.id = tools[i].id,
         regular' /\ new.begun =>
           IF Over(i)'
           THEN \E count \in Nat : /\ Told(seen', new.id, count, new.arguments)
                                   /\ provider # "gemini" => new.arguments = count
           ELSE Begun(seen', new.id, new.chunks)
  PROVE  ShownInv'
<1>0. tools \in [Indexes -> ToolStates] BY DEF TypeInv, TypeOK
<1>1. tools'[i] = new /\ \A j \in Indexes : j # i => tools'[j] = tools[j] BY <1>0
<1>2. Held' = Held \cup {i} BY <1>1 DEF Held
<1>3. ParserInv'
  <2>1. ASSUME NEW j \in Indexes PROVE ToolInv(j)'
    <3>1. CASE j = i BY <1>1, <3>1 DEF ToolInv
    <3>2. CASE j # i
      <4>1. tools'[j] = tools[j] /\ (tools[j].made => (Over(j)' <=> Over(j))) /\ ToolInv(j)
        BY <1>1, <3>2 DEF Held, ShownInv, ParserInv, Alive
      <4> QED BY <4>1 DEF ToolInv
    <3> QED BY <3>1, <3>2
  <2>2. provider = "gemini" => \A j \in Held' : tools'[j].id = j + 1
    <3>1. ASSUME provider = "gemini", NEW j \in Held' PROVE tools'[j].id = j + 1
      <4>1. CASE j = i BY <1>1, <3>1, <4>1
      <4>2. CASE j # i
        <5>1. j \in Held /\ j \in Indexes BY <1>2, <4>2 DEF Held
        <5> QED BY <1>1, <3>1, <4>2, <5>1 DEF ShownInv, ParserInv, Alive
      <4> QED BY <4>1, <4>2
    <3> QED BY <3>1
  <2> QED BY <1>2, <2>1, <2>2 DEF ParserInv
<1>4. ASSUME regular' PROVE ToldInv'
  <2>0. ToldInv /\ ParserInv BY <1>4 DEF ShownInv, Alive
  <2>1. Distinct'
    <3>1. ASSUME NEW j \in Held', NEW k \in Held', tools'[j].id = tools'[k].id, tools'[j].id # NoId
          PROVE  j = k
      <4>0. j \in Indexes /\ k \in Indexes BY DEF Held
      <4>1. CASE j # i /\ k # i
        <5>1. j \in Held /\ k \in Held BY <1>2, <4>1
        <5> QED BY <1>1, <2>0, <3>1, <4>0, <4>1, <5>1 DEF ToldInv, Distinct
      <4>2. CASE j # i /\ k = i
        <5>1. j \in Held BY <1>2, <4>2
        <5> QED BY <1>1, <1>4, <3>1, <4>0, <4>2, <5>1
      <4>3. CASE j = i /\ k # i
        <5>1. k \in Held BY <1>2, <4>3
        <5> QED BY <1>1, <1>4, <3>1, <4>0, <4>3, <5>1
      <4> QED BY <4>1, <4>2, <4>3
    <3> QED BY <3>1 DEF Distinct
  <2>2. Owned'
    <3>1. ASSUME NEW m \in 1..Len(seen'), seen'[m].type = "begin" \/ seen'[m].id # NoId
          PROVE  \E j \in Held' : tools'[j].begun /\ tools'[j].id = seen'[m].id
      <4>1. Len(seen) \in Nat /\ Len(seen') \in Nat BY LenProperties DEF Adds
      <4>2. CASE m > Len(seen)
        <5>1. seen'[m].id = x /\ x # NoId BY <3>1, <4>2 DEF Adds
        <5>2. new.begun /\ new.id = seen'[m].id BY <5>1
        <5> QED BY <1>1, <1>2, <5>2
      <4>3. CASE ~(m > Len(seen))
        <5>1. m \in 1..Len(seen) BY <4>1, <4>3
        <5>2. seen'[m] = seen[m] BY <5>1 DEF Adds
        <5>3. PICK j \in Held : tools[j].begun /\ tools[j].id = seen[m].id
          BY <2>0, <3>1, <5>1, <5>2 DEF ToldInv, Owned
        <5>4. CASE j = i BY <1>1, <1>2, <1>4, <5>2, <5>3, <5>4
        <5>5. CASE j # i
          <6>1. j \in Indexes BY DEF Held
          <6> QED BY <1>1, <1>2, <5>2, <5>3, <5>5, <6>1
        <5> QED BY <5>4, <5>5
      <4> QED BY <4>2, <4>3
    <3> QED BY <3>1 DEF Owned
  <2>3. ASSUME NEW j \in Held', tools'[j].begun PROVE ToolTold(j)'
    <3>1. CASE j = i BY <1>1, <1>4, <2>3, <3>1 DEF ToolTold
    <3>2. CASE j # i
      <4>1. j \in Held /\ j \in Indexes BY <1>2, <3>2 DEF Held
      <4>2. tools'[j] = tools[j] /\ tools[j].id # NoId /\ (Over(j)' <=> Over(j))
        BY <1>1, <2>0, <2>3, <3>2, <4>1 DEF ParserInv, ToolInv
      <4>3. ToolTold(j) BY <2>0, <2>3, <4>1, <4>2 DEF ToldInv
      <4>4. PICK id : id = tools[j].id OBVIOUS
      <4>5. id # x BY <1>4, <3>2, <4>1, <4>2, <4>4
      <4>6. /\ \A count : Begun(seen, id, count) => Begun(seen', id, count)
            /\ \A count, arguments : Told(seen, id, count, arguments) => Told(seen', id, count, arguments)
        BY <4>5, OthersKept
      <4> QED BY <4>2, <4>3, <4>4, <4>6 DEF ToolTold
    <3> QED BY <3>1, <3>2
  <2> QED BY <2>1, <2>2, <2>3 DEF ToldInv
<1>5. PublishedInv' /\ ~(pc' = "answered") BY DEF PublishedInv
<1> QED BY <1>3, <1>4, <1>5 DEF ShownInv

\* Nothing is shown.
LEMMA NothingShown ==
  ASSUME TypeInv, TextInv, UNCHANGED <<seen, text>>
  PROVE  TextInv' /\ \A x : Adds(seen, seen', x) /\ Silent(seen, seen')
<1>1. seen \in Seq(FeedEvents) BY DEF TypeInv, TypeOK, FeedEvents
<1>2. \A x : Adds(seen, seen', x) /\ Silent(seen, seen') BY <1>1, AddsNone
<1> QED BY <1>2 DEF TextInv

\* One event that is no text.
LEMMA EventShown ==
  ASSUME TypeInv, TextInv, NEW e \in PartEvents, e.id # NoId, e.type # "text_delta",
         seen' = Append(seen, e), text' = text
  PROVE  TextInv' /\ Adds(seen, seen', e.id)
<1>1. seen \in Seq(FeedEvents) /\ e \in FeedEvents
  BY DEF TypeInv, TypeOK, FeedEvents, PartEvents, FeedTypes
<1>2. Adds(seen, seen', e.id) /\ Silent(seen, seen') BY <1>1, AddsOne
<1> QED BY <1>2, TextKept

\* Nothing was shown yet of a tool that nobody holds.
LEMMA NewId ==
  ASSUME Owned, NEW id, id # NoId, \A j \in Held : tools[j].begun => tools[j].id # id
  PROVE  Of(seen, id) = {}
<1> SUFFICES ASSUME NEW m \in Of(seen, id) PROVE FALSE OBVIOUS
<1>1. m \in 1..Len(seen) /\ seen[m].id = id BY DEF Of
<1> QED BY <1>1 DEF Owned

\* How a frame of Anthropic keeps what was shown.
LEMMA AnthropicShows ==
  ASSUME TypeInv, ShownInv, Alive, AnthropicData, ~Refuse
  PROVE  ShownInv'
<1>0. /\ TypeOK /\ provider = "anthropic" /\ ParserInv /\ TextInv
      /\ seen \in Seq(FeedEvents) /\ tools \in [Indexes -> ToolStates]
  BY DEF TypeInv, TypeOK, AnthropicData, ShownInv, FeedEvents
<1>1. CASE MessageStart
  <2>1. pc = "wire" /\ UNCHANGED <<provider, pc, open, tools, finish, stopped, text, todo, seen, regular>>
    BY <1>1 DEF MessageStart, Frame
  <2>2. TextInv' /\ Adds(seen, seen', NoId) BY <1>0, <2>1, NothingShown
  <2>3. \A i : Over(i)' <=> Over(i) BY <2>1 DEF Over
  <2>4. stopped' => \A i \in Indexes : open'[i] = "none" BY <1>0, <2>1 DEF ParserInv
  <2>5. PublishedInv' /\ pc' = "wire" BY <2>1 DEF PublishedInv
  <2> QED BY <2>1, <2>2, <2>3, <2>4, <2>5, QuietStep
<1>2. ASSUME NEW i \in Indexes, NEW id \in Ids \cup {NoId}, BlockStart(i, "tool_use", id)
      PROVE  ShownInv'
  <2> DEFINE tool == [NoTool EXCEPT !.made = TRUE, !.id = id, !.named = TRUE, !.begun = TRUE]
             e == Event("begin", id, 0)
  <2>1. /\ pc = "wire" /\ ~stopped /\ id # NoId
        /\ open' = [open EXCEPT ![i] = "tool_use"] /\ tools' = [tools EXCEPT ![i] = tool]
        /\ seen' = Append(seen, e)
        /\ regular' = (regular /\ i \notin Held /\ \A j \in Held : tools[j].id # id)
        /\ UNCHANGED <<provider, pc, finish, stopped, text, todo>>
    BY <1>2 DEF BlockStart, Frame, Emit, Active
  <2>2. id \in Nat BY ConstantsAssumption DEF NoId
  <2>3. /\ tool \in ToolStates /\ tool.made /\ tool.begun /\ tool.id = id /\ tool.chunks = 0
    BY <2>2 DEF NoTool, NoId, ToolStates
  <2>4. e \in PartEvents /\ e.id = id /\ e.type = "begin" BY <2>2, PartIs DEF PartTypes, Event
  <2> HIDE DEF tool, e
  <2>5. TextInv' /\ Adds(seen, seen', id) BY <1>0, <2>1, <2>4, EventShown
  <2>6. ~Over(i)' /\ \A j \in Held : j # i => (Over(j)' <=> Over(j))
    <3>1. open \in [Indexes -> Blocks \cup {"none"}] BY <1>0 DEF TypeOK
    <3>2. open'[i] = "tool_use" /\ \A j \in Indexes : j # i => open'[j] = open[j] BY <2>1, <3>1
    <3> QED BY <1>0, <2>1, <3>2 DEF Over, Held
  <2>7. regular' => /\ regular /\ i \notin Held /\ \A j \in Held : tools[j].id # id
    BY <2>1
  <2>8. regular' => ~tools[i].begun
    <3>1. i \notin Held => tools[i] = NoTool BY <1>0 DEF ParserInv, ToolInv, Held
    <3> QED BY <2>7, <3>1 DEF NoTool
  <2>9. ASSUME regular' PROVE Begun(seen', id, 0)
    <3>1. Owned BY <2>7, <2>9 DEF ShownInv, ToldInv
    <3>2. Of(seen, id) = {} BY <2>1, <2>7, <2>9, <3>1, NewId
    <3>3. e \in FeedEvents BY <2>4 DEF PartEvents, FeedEvents, FeedTypes
    <3> QED BY <1>0, <2>1, <2>4, <3>2, <3>3, BeginsShown
  <2>10. provider # "gemini" /\ pc' = "wire" /\ ~stopped' BY <1>0, <2>1
  <2> QED BY <1>0, <2>1, <2>3, <2>5, <2>6, <2>7, <2>8, <2>9, <2>10, ToolStep
<1>4. ASSUME NEW i \in Indexes, BlockStart(i, "text", NoId) PROVE ShownInv'
  <2>1. /\ pc = "wire" /\ ~stopped /\ open' = [open EXCEPT ![i] = "text"]
        /\ regular' => regular /\ i \notin Held
        /\ UNCHANGED <<provider, pc, started, tools, seen, finish, stopped, text, todo>>
    BY <1>4 DEF BlockStart, Frame, Active
  <2>2. TextInv' /\ Adds(seen, seen', NoId) BY <1>0, <2>1, NothingShown
  <2>3. ~Over(i)' /\ \A j \in Held : j # i => (Over(j)' <=> Over(j))
    <3>1. open \in [Indexes -> Blocks \cup {"none"}] BY <1>0 DEF TypeOK
    <3>2. open'[i] = "text" /\ \A j \in Indexes : j # i => open'[j] = open[j] BY <2>1, <3>1
    <3> QED BY <1>0, <2>1, <3>2 DEF Over, Held
  <2>4. \A j \in Held : Over(j)' => Over(j) BY <2>3
  <2>5. regular' => \A j \in Held : Over(j)' <=> Over(j) BY <2>1, <2>3
  <2>6. PublishedInv' /\ pc' = "wire" /\ ~stopped' BY <2>1 DEF PublishedInv
  <2> QED BY <2>1, <2>2, <2>4, <2>5, <2>6, QuietStep
<1>5. ASSUME NEW i \in Indexes, TextDelta(i) PROVE ShownInv'
  <2>1. pc = "wire" /\ UNCHANGED <<provider, pc, open, tools, finish, stopped, todo, regular>> /\ Text
    BY <1>5 DEF TextDelta, Frame, Text
  <2>2. TextInv' /\ Adds(seen, seen', NoId) BY <1>0, <2>1, TextMore
  <2>3. \A j : Over(j)' <=> Over(j) BY <2>1 DEF Over
  <2>4. stopped' => \A j \in Indexes : open'[j] = "none" BY <1>0, <2>1 DEF ParserInv
  <2>5. PublishedInv' /\ pc' = "wire" BY <2>1 DEF PublishedInv
  <2> QED BY <2>1, <2>2, <2>3, <2>4, <2>5, QuietStep
<1>6. ASSUME NEW i \in Indexes, ArgumentDelta(i) PROVE ShownInv'
  <2> DEFINE tool == [tools[i] EXCEPT !.chunks = @ + 1]
             e == Event("argument_delta", tools[i].id, 0)
  <2>1. /\ pc = "wire" /\ i \in Held /\ open[i] # "none" /\ ~stopped
        /\ tools' = [tools EXCEPT ![i] = tool] /\ seen' = Append(seen, e)
        /\ UNCHANGED <<provider, pc, open, finish, stopped, text, todo, regular>>
    BY <1>0, <1>6 DEF ArgumentDelta, Frame, Chunk, Active, Emit
  <2>2. tools[i] \in ToolStates /\ tools[i].id \in Nat /\ tools[i].chunks \in Nat
    BY <1>0 DEF ToolStates
  <2>3. tools[i].made /\ tools[i].begun /\ tools[i].id # NoId
    BY <1>0, <2>1 DEF ParserInv, ToolInv, Held
  <2>4. /\ tool \in ToolStates /\ tool.made /\ tool.begun /\ tool.id = tools[i].id
        /\ tool.chunks = tools[i].chunks + 1
    BY <2>2, <2>3 DEF ToolStates
  <2>5. e \in PartEvents /\ e.id = tools[i].id /\ e.type = "argument_delta"
    BY <2>2, PartIs DEF PartTypes, Event
  <2> HIDE DEF tool, e
  <2>6. TextInv' /\ Adds(seen, seen', tools[i].id) BY <1>0, <2>1, <2>3, <2>5, EventShown
  <2>7. ~Over(i) /\ \A j : Over(j)' <=> Over(j) BY <1>0, <2>1 DEF Over
  <2>8. ASSUME regular' PROVE Begun(seen', tools[i].id, tools[i].chunks + 1)
    <3>1. Begun(seen, tools[i].id, tools[i].chunks)
      BY <2>1, <2>3, <2>7, <2>8 DEF ShownInv, ToldInv, ToolTold
    <3>2. e \in FeedEvents BY <2>5 DEF PartEvents, FeedEvents, FeedTypes
    <3> QED BY <1>0, <2>1, <2>2, <2>5, <3>1, <3>2, ChunkShown
  <2>9. ASSUME regular' PROVE \A j \in Held : j # i => tools[j].id # tools[i].id
    BY <2>1, <2>3, <2>9 DEF ShownInv, ToldInv, Distinct
  <2>10. provider # "gemini" /\ pc' = "wire" /\ ~stopped' /\ (regular' => regular) BY <1>0, <2>1
  <2>11. PICK id : id = tools[i].id OBVIOUS
  <2> QED BY <1>0, <2>1, <2>3, <2>4, <2>6, <2>7, <2>8, <2>9, <2>10, <2>11, ToolStep
<1>7. ASSUME NEW i \in Indexes, BlockStop(i) PROVE ShownInv'
  <2>1. /\ pc = "wire" /\ ~stopped /\ open[i] # "none" /\ open' = [open EXCEPT ![i] = "none"]
        /\ IF i \in Held THEN Parse(i) ELSE UNCHANGED <<tools, seen>>
        /\ UNCHANGED <<provider, pc, started, finish, stopped, text, todo, regular>>
    BY <1>7 DEF BlockStop, Frame, Active
  <2>2. Over(i)' /\ ~Over(i) /\ \A j \in Held : j # i => (Over(j)' <=> Over(j))
    <3>1. open \in [Indexes -> Blocks \cup {"none"}] BY <1>0 DEF TypeOK
    <3>2. open'[i] = "none" /\ \A j \in Indexes : j # i => open'[j] = open[j] BY <2>1, <3>1
    <3> QED BY <1>0, <2>1, <3>2 DEF Over, Held
  <2>3. CASE i \notin Held
    <3>1. UNCHANGED <<tools, seen>> BY <2>1, <2>3
    <3>2. TextInv' /\ Adds(seen, seen', NoId) BY <1>0, <2>1, <3>1, NothingShown
    <3>3. \A j \in Held : Over(j)' <=> Over(j) BY <2>2, <2>3
    <3>4. PublishedInv' /\ pc' = "wire" /\ ~stopped' BY <2>1 DEF PublishedInv
    <3> QED BY <2>1, <3>1, <3>2, <3>3, <3>4, QuietStep
  <2>4. CASE i \in Held
    <3> DEFINE tool == [tools[i] EXCEPT !.arguments = tools[i].chunks]
               e == Event("end", tools[i].id, tools[i].chunks)
    <3>1. tools' = [tools EXCEPT ![i] = tool] /\ seen' = Append(seen, e)
      BY <1>0, <2>1, <2>4 DEF Parse, Emit
    <3>2. tools[i] \in ToolStates /\ tools[i].id \in Nat /\ tools[i].chunks \in Nat
      BY <1>0 DEF ToolStates
    <3>3. tools[i].made /\ tools[i].begun /\ tools[i].id # NoId
      BY <1>0, <2>4 DEF ParserInv, ToolInv, Held
    <3>4. /\ tool \in ToolStates /\ tool.made /\ tool.begun /\ tool.id = tools[i].id
          /\ tool.arguments = tools[i].chunks
      BY <3>2, <3>3 DEF ToolStates
    <3>5. e \in PartEvents /\ e.id = tools[i].id /\ e.type = "end" /\ e.arguments = tools[i].chunks
      BY <3>2, PartIs DEF PartTypes, Event
    <3> HIDE DEF tool, e
    <3>6. TextInv' /\ Adds(seen, seen', tools[i].id) BY <1>0, <2>1, <3>1, <3>3, <3>5, EventShown
    <3>7. ASSUME regular' PROVE Told(seen', tools[i].id, tools[i].chunks, tools[i].chunks)
      <4>1. Begun(seen, tools[i].id, tools[i].chunks)
        BY <2>1, <2>2, <2>4, <3>3, <3>7 DEF ShownInv, ToldInv, ToolTold
      <4>2. e \in FeedEvents BY <3>5 DEF PartEvents, FeedEvents, FeedTypes
      <4> QED BY <1>0, <3>1, <3>2, <3>5, <4>1, <4>2, EndShown
    <3>8. ASSUME regular' PROVE \A j \in Held : j # i => tools[j].id # tools[i].id
      BY <2>1, <2>4, <3>3, <3>8 DEF ShownInv, ToldInv, Distinct
    <3>9. provider # "gemini" /\ pc' = "wire" /\ ~stopped' /\ (regular' => regular) BY <1>0, <2>1
    <3>10. ~tool.begun => tool.chunks = 0 BY <3>4
    <3>11. regular' => \E count \in Nat : /\ Told(seen', tools[i].id, count, tools[i].chunks)
                                          /\ provider # "gemini" => tools[i].chunks = count
      BY <3>2, <3>7
    <3>12. PICK id : id = tools[i].id OBVIOUS
    <3> QED BY <1>0, <2>1, <2>2, <3>1, <3>3, <3>4, <3>6, <3>8, <3>9, <3>11, <3>12, ToolStep
  <2> QED BY <2>3, <2>4
<1>8. ASSUME NEW stop \in Stops, StopReason(stop) PROVE ShownInv'
  <2>1. pc = "wire" /\ UNCHANGED <<provider, pc, open, tools, stopped, text, todo, seen, regular>>
    BY <1>8 DEF StopReason, Frame
  <2>2. TextInv' /\ Adds(seen, seen', NoId) BY <1>0, <2>1, NothingShown
  <2>3. \A i : Over(i)' <=> Over(i) BY <1>0, <2>1 DEF Over
  <2>4. stopped' => \A i \in Indexes : open'[i] = "none" BY <1>0, <2>1 DEF ParserInv
  <2>5. PublishedInv' /\ pc' = "wire" BY <2>1 DEF PublishedInv
  <2> QED BY <2>1, <2>2, <2>3, <2>4, <2>5, QuietStep
<1>9. CASE MessageStop
  <2>1. /\ pc = "wire" /\ UNCHANGED <<provider, pc, open, tools, finish, text, todo, seen, regular>>
        /\ \A i \in Indexes : open[i] = "none"
    BY <1>9 DEF MessageStop, Frame
  <2>2. TextInv' /\ Adds(seen, seen', NoId) BY <1>0, <2>1, NothingShown
  <2>3. \A i : Over(i)' <=> Over(i) BY <2>1 DEF Over
  <2>4. \A i \in Indexes : open'[i] = "none" BY <2>1
  <2>5. PublishedInv' /\ pc' = "wire" BY <2>1 DEF PublishedInv
  <2> QED BY <2>1, <2>2, <2>3, <2>4, <2>5, QuietStep
<1> QED BY <1>1, <1>2, <1>4, <1>5, <1>6, <1>7, <1>8, <1>9 DEF AnthropicData

\* How a frame of OpenAI, or the end of one of its tools, keeps what was shown.
LEMMA OpenAIShows ==
  ASSUME TypeInv, ShownInv, Alive, OpenAIData, ~Refuse
  PROVE  ShownInv'
<1>0. /\ TypeOK /\ provider = "openai" /\ ParserInv /\ TextInv
      /\ seen \in Seq(FeedEvents) /\ tools \in [Indexes -> ToolStates]
  BY DEF TypeInv, TypeOK, OpenAIData, ShownInv, FeedEvents
<1>1. CASE Content
  <2>1. pc = "wire" /\ UNCHANGED <<provider, pc, open, tools, finish, stopped, todo, regular>> /\ Text
    BY <1>1 DEF Content, Frame, Text
  <2>2. TextInv' /\ Adds(seen, seen', NoId) BY <1>0, <2>1, TextMore
  <2>3. \A j : Over(j)' <=> Over(j) BY <2>1 DEF Over
  <2>5. PublishedInv' /\ pc' = "wire" /\ provider # "anthropic" BY <1>0, <2>1 DEF PublishedInv
  <2> QED BY <2>1, <2>2, <2>3, <2>5, QuietStep
<1>2. ASSUME NEW i \in Indexes, NEW id \in Ids \cup {NoId}, NEW named \in BOOLEAN, NEW chunk \in BOOLEAN,
             CallDelta(i, id, named, chunk)
      PROVE  ShownInv'
  <2> DEFINE old  == tools[i]
             tool == [old EXCEPT !.made = TRUE, !.id = IF id = NoId THEN @ ELSE id, !.named = @ \/ named]
             begins == tool.id # NoId /\ tool.named /\ ~old.begun
             begun  == old.begun \/ begins
             new  == [tool EXCEPT !.begun = begun, !.chunks = IF chunk THEN @ + 1 ELSE @]
             first == IF begins THEN <<Event("begin", tool.id, 0)>> ELSE <<>>
             second == IF chunk THEN <<Event("argument_delta", tool.id, 0)>> ELSE <<>>
  <2>1. /\ pc = "wire" /\ finish = "none" /\ (chunk => begun)
        /\ tools' = [tools EXCEPT ![i] = new]
        /\ seen' = seen \o first \o second
        /\ UNCHANGED <<provider, pc, open, finish, stopped, text, todo>>
    BY <1>2 DEF CallDelta, Frame
  <2>2. regular' => /\ regular
                    /\ id # NoId => \/ id = old.id
                                    \/ old.id = NoId /\ \A j \in Held : tools[j].id # id
    BY <1>2 DEF CallDelta, Frame
  <2>3. id \in Nat /\ old \in ToolStates BY <1>0, ConstantsAssumption DEF NoId
  <2>4. PICK x : x = tool.id OBVIOUS
  <2>5. x \in Nat /\ x = (IF id = NoId THEN old.id ELSE id) /\ tool \in ToolStates
        /\ tool.chunks = old.chunks /\ tool.made
    BY <2>3, <2>4 DEF ToolStates
  <2>6. old.begun \in BOOLEAN /\ old.chunks \in Nat BY <2>3 DEF ToolStates
  <2>7. /\ ~old.made => old = NoTool
        /\ old.begun => old.made /\ old.id # NoId
        /\ ~old.begun => old.chunks = 0
    <3>1. ToolInv(i) BY <1>0 DEF ParserInv
    <3> QED BY <3>1 DEF ToolInv, NoTool
  <2>8. /\ new.made /\ new.id = x /\ new.begun = begun /\ begun \in BOOLEAN
        /\ new.chunks = (IF chunk THEN old.chunks + 1 ELSE old.chunks)
    <3> HIDE DEF tool, begun
    <3>1. new.made = tool.made /\ new.id = tool.id
          /\ new.chunks = (IF chunk THEN tool.chunks + 1 ELSE tool.chunks)
      BY <2>5 DEF ToolStates
    <3>2. new.begun = begun BY <2>5 DEF ToolStates
    <3>3. begun \in BOOLEAN BY DEF begun
    <3> QED BY <2>4, <2>5, <3>1, <3>2, <3>3
  <2>9. new \in ToolStates
    <3>1. new.chunks \in Nat BY <2>6, <2>8
    <3> HIDE DEF tool, begun
    <3>2. (IF chunk THEN tool.chunks + 1 ELSE tool.chunks) \in Nat BY <2>5, <2>6
    <3> QED BY <2>5, <2>8, <3>2, ToolWith
  <2>10. begins => x # NoId BY <2>4
  <2>11. begun => x # NoId
    <3>1. old.begun => x # NoId BY <2>5, <2>7
    <3> QED BY <2>10, <3>1
  <2>12. \A j \in Held : ~Over(j) /\ ~Over(j)' BY <1>0, <2>1 DEF Over
  <2>12a. ~Over(i) /\ ~Over(i)' BY <1>0, <2>1 DEF Over
  <2>13. ASSUME regular' PROVE \A j \in Held : j # i => tools[j].id # x \/ x = NoId
    <3>1. Distinct BY <2>2, <2>13 DEF ShownInv, ToldInv
    <3>2. CASE x # old.id BY <2>2, <2>5, <2>13, <3>2
    <3>3. CASE x = old.id /\ old.made
      <4>1. i \in Held BY <3>3 DEF Held
      <4> QED BY <3>1, <3>3, <4>1 DEF Distinct
    <3>4. CASE x = old.id /\ ~old.made BY <2>7, <3>4 DEF NoTool
    <3> QED BY <3>2, <3>3, <3>4
  <2>14. ASSUME regular', old.begun PROVE x = old.id BY <2>2, <2>5, <2>7, <2>14
  <2>15. PICK b : b = Event("begin", x, 0) OBVIOUS
  <2>16. PICK d : d = Event("argument_delta", x, 0) OBVIOUS
  <2>17. /\ b \in PartEvents /\ b.id = x /\ b.type = "begin"
         /\ d \in PartEvents /\ d.id = x /\ d.type = "argument_delta"
    <3>1. b \in PartEvents /\ d \in PartEvents BY <2>5, <2>15, <2>16, PartIs DEF PartTypes
    <3> QED BY <2>15, <2>16, <3>1 DEF Event
  <2>18. first = (IF begins THEN <<b>> ELSE <<>>) /\ second = (IF chunk THEN <<d>> ELSE <<>>)
    BY <2>4, <2>15, <2>16
  <2>19. b \in FeedEvents /\ d \in FeedEvents BY <2>17 DEF PartEvents, FeedEvents, FeedTypes
  <2>20. PICK mid : mid = IF begins THEN Append(seen, b) ELSE seen OBVIOUS
  <2> HIDE DEF begun, new, tool
  <2>21. mid \in Seq(FeedEvents) /\ seen' = IF chunk THEN Append(mid, d) ELSE mid
    <3> HIDE DEF begins
    <3>1. mid = seen \o first /\ mid \in Seq(FeedEvents)
      <4>1. CASE begins BY <1>0, <2>18, <2>19, <2>20, <4>1
      <4>2. CASE ~begins BY <1>0, <2>18, <2>20, <4>2
      <4> QED BY <4>1, <4>2
    <3> HIDE DEF first, second
    <3>2. seen' = mid \o second BY <2>1, <3>1
    <3>3. CASE chunk BY <2>18, <2>19, <3>1, <3>2, <3>3
    <3>4. CASE ~chunk BY <2>18, <3>1, <3>2, <3>4
    <3> QED BY <3>1, <3>3, <3>4
  <2> HIDE DEF begins, first, second
  <2>22. CASE ~begun
    <3>1. ~begins /\ ~chunk BY <2>1, <2>22 DEF begun
    <3>2. seen' = seen BY <2>20, <2>21, <3>1
    <3>3. TextInv' /\ Adds(seen, seen', NoId) BY <1>0, <2>1, <3>2, NothingShown
    <3>4. ~old.begun /\ new.chunks = 0 BY <2>7, <2>8, <2>22, <3>1 DEF begun
    <3>5. /\ provider # "gemini" /\ provider # "anthropic" /\ pc' = "wire" BY <1>0, <2>1
    <3>6. regular' => regular BY <2>2
    <3>7. ~new.begun BY <2>8, <2>22
    <3>8. new.id = x /\ new.made BY <2>8
    <3> HIDE DEF old
    <3>9. ~tools[i].begun BY <3>4 DEF old
    <3> QED BY <1>0, <2>1, <2>9, <2>12, <2>12a, <2>13, <3>3, <3>4, <3>5, <3>6, <3>7, <3>8, <3>9, ToolStep
  <2>23. CASE begun
    <3>1. x # NoId BY <2>11, <2>23
    <3>2. TextInv' /\ Adds(seen, seen', x)
      <4>1. Adds(seen, mid, x) /\ Silent(seen, mid)
        <5>1. CASE begins
          <6>1. mid = Append(seen, b) BY <2>20, <5>1
          <6> QED BY <1>0, <2>17, <2>19, <3>1, <6>1, AddsOne
        <5>2. CASE ~begins BY <1>0, <2>20, <5>2, AddsNone
        <5> QED BY <5>1, <5>2
      <4>2. Adds(mid, seen', x) /\ Silent(mid, seen')
        <5>1. CASE chunk BY <2>17, <2>19, <2>21, <5>1, AddsOne
        <5>2. CASE ~chunk BY <2>21, <5>2, AddsNone
        <5> QED BY <5>1, <5>2
      <4>3. Adds(seen, seen', x) /\ Silent(seen, seen') BY <4>1, <4>2, AddsTwo
      <4> QED BY <1>0, <2>1, <4>3, TextKept
    <3>3. ASSUME regular' PROVE Begun(seen', x, new.chunks)
      <4>0. ToldInv BY <2>2, <3>3 DEF ShownInv
      <4>1. Begun(mid, x, old.chunks)
        <5>1. CASE old.begun
          <6>1. i \in Held /\ x = old.id /\ ~begins BY <2>7, <2>14, <3>3, <5>1 DEF Held, begins
          <6>2. mid = seen BY <2>20, <6>1
          <6>3. ToolTold(i) BY <4>0, <5>1, <6>1 DEF ToldInv
          <6> QED BY <2>12a, <6>1, <6>2, <6>3 DEF ToolTold
        <5>2. CASE ~old.begun
          <6>1. begins BY <2>23, <5>2 DEF begun
          <6>2. mid = Append(seen, b) /\ old.chunks = 0 BY <2>7, <2>20, <5>2, <6>1
          <6>3. \A j \in Held : tools[j].begun => tools[j].id # x
            BY <2>13, <3>1, <3>3, <5>2
          <6>4. Of(seen, x) = {} BY <3>1, <4>0, <6>3, NewId DEF ToldInv
          <6> QED BY <1>0, <2>17, <2>19, <6>2, <6>4, BeginsShown
        <5> QED BY <5>1, <5>2
      <4>2. CASE chunk
        <5>1. Begun(seen', x, old.chunks + 1) BY <2>6, <2>17, <2>19, <2>21, <4>1, <4>2, ChunkShown
        <5>2. new.chunks = old.chunks + 1 BY <2>8, <4>2
        <5> QED BY <5>1, <5>2
      <4>3. CASE ~chunk
        <5>1. new.chunks = old.chunks /\ seen' = mid BY <2>8, <2>21, <4>3
        <5> QED BY <4>1, <5>1
      <4> QED BY <4>2, <4>3
    <3>4. /\ provider # "gemini" /\ provider # "anthropic" /\ pc' = "wire" BY <1>0, <2>1
    <3>5. regular' => regular BY <2>2
    <3>6. new.begun /\ new.id = x /\ new.made BY <2>8, <2>23
    <3>7. regular' /\ tools[i].begun => x = tools[i].id BY <2>14
    <3> HIDE DEF old
    <3> QED BY <1>0, <2>1, <2>9, <2>12, <2>12a, <2>13, <3>1, <3>2, <3>3, <3>4, <3>5, <3>6, <3>7, ToolStep
  <2> QED BY <2>22, <2>23
<1>3. ASSUME NEW stop \in Stops, FinishReason(stop) PROVE ShownInv'
  <2>1. pc = "wire" /\ pc' = "ending" /\ finish = "none" /\ finish' = stop /\ todo' = Held
        /\ UNCHANGED <<provider, started, open, tools, stopped, text, seen, regular>>
    BY <1>3 DEF FinishReason, Frame
  <2>2. TextInv' /\ Adds(seen, seen', NoId) BY <1>0, <2>1, NothingShown
  <2>3. \A j \in Held : ~Over(j) /\ ~Over(j)' BY <1>0, <2>1 DEF Over
  <2>4. PublishedInv' /\ provider # "anthropic" /\ finish' # "none" BY <1>0, <2>1 DEF PublishedInv, Stops
  <2> QED BY <1>0, <2>1, <2>2, <2>3, <2>4, QuietStep
<1>4. ASSUME NEW i \in Indexes, EndTool(i) PROVE ShownInv'
  <2> DEFINE tool == [tools[i] EXCEPT !.arguments = tools[i].chunks]
             e == Event("end", tools[i].id, tools[i].chunks)
  <2>1. /\ pc = "ending" /\ i \in todo /\ tools[i].begun /\ todo' = todo \ {i}
        /\ tools' = [tools EXCEPT ![i] = tool] /\ seen' = Append(seen, e)
        /\ UNCHANGED <<provider, pc, open, finish, stopped, text, regular>>
    BY <1>4 DEF EndTool, Parse, Emit
  <2>2. tools[i] \in ToolStates /\ tools[i].id \in Nat /\ tools[i].chunks \in Nat
    BY <1>0 DEF ToolStates
  <2>3. i \in Held /\ tools[i].made /\ tools[i].id # NoId /\ finish # "none"
    BY <1>0, <2>1 DEF ParserInv, ToolInv, Held, TypeOK
  <2>4. /\ tool \in ToolStates /\ tool.made /\ tool.begun /\ tool.id = tools[i].id
        /\ tool.arguments = tools[i].chunks
    BY <2>1, <2>2, <2>3 DEF ToolStates
  <2>5. e \in PartEvents /\ e.id = tools[i].id /\ e.type = "end" /\ e.arguments = tools[i].chunks
    BY <2>2, PartIs DEF PartTypes, Event
  <2> HIDE DEF tool, e
  <2>6. TextInv' /\ Adds(seen, seen', tools[i].id) BY <1>0, <2>1, <2>3, <2>5, EventShown
  <2>7. ~Over(i) /\ Over(i)' BY <1>0, <2>1, <2>3 DEF Over
  <2>8. \A j \in Held : j # i => (Over(j)' <=> Over(j)) BY <1>0, <2>1, <2>3 DEF Over
  <2>9. ASSUME regular' PROVE Told(seen', tools[i].id, tools[i].chunks, tools[i].chunks)
    <3>1. Begun(seen, tools[i].id, tools[i].chunks)
      BY <2>1, <2>3, <2>7, <2>9 DEF ShownInv, ToldInv, ToolTold
    <3>2. e \in FeedEvents BY <2>5 DEF PartEvents, FeedEvents, FeedTypes
    <3> QED BY <1>0, <2>1, <2>2, <2>5, <3>1, <3>2, EndShown
  <2>10. ASSUME regular' PROVE \A j \in Held : j # i => tools[j].id # tools[i].id
    BY <2>1, <2>3, <2>10 DEF ShownInv, ToldInv, Distinct
  <2>11. provider # "gemini" /\ provider # "anthropic" /\ (regular' => regular)
         /\ (pc' = "ending" => provider = "openai" /\ finish' # "none")
    BY <1>0, <2>1, <2>3
  <2>12. regular' => \E count \in Nat : /\ Told(seen', tools[i].id, count, tools[i].chunks)
                                        /\ provider # "gemini" => tools[i].chunks = count
    BY <2>2, <2>9
  <2>13. PICK id : id = tools[i].id OBVIOUS
  <2> QED BY <1>0, <2>1, <2>3, <2>4, <2>6, <2>7, <2>8, <2>10, <2>11, <2>12, <2>13, ToolStep
<1>5. CASE Ended
  <2>1. /\ pc = "ending" /\ pc' = "wire" /\ todo = {}
        /\ UNCHANGED <<provider, open, tools, finish, stopped, text, todo, seen, regular>>
    BY <1>5 DEF Ended, parserVars
  <2>2. TextInv' /\ Adds(seen, seen', NoId) BY <1>0, <2>1, NothingShown
  <2>3. finish # "none" BY <1>0, <2>1 DEF ParserInv
  <2>4. \A j \in Held : Over(j) /\ Over(j)' BY <1>0, <2>1, <2>3 DEF Over
  <2>5. PublishedInv' /\ provider # "anthropic" BY <1>0, <2>1 DEF PublishedInv
  <2> QED BY <2>1, <2>2, <2>4, <2>5, QuietStep
<1>6. CASE Done
  <2>1. pc = "wire" /\ UNCHANGED <<provider, pc, open, tools, finish, text, todo, seen, regular>>
    BY <1>6 DEF Done, Frame
  <2>2. TextInv' /\ Adds(seen, seen', NoId) BY <1>0, <2>1, NothingShown
  <2>3. \A i : Over(i)' <=> Over(i) BY <2>1 DEF Over
  <2>5. PublishedInv' /\ pc' = "wire" /\ provider # "anthropic" BY <1>0, <2>1 DEF PublishedInv
  <2> QED BY <2>1, <2>2, <2>3, <2>5, QuietStep
<1> QED BY <1>1, <1>2, <1>3, <1>4, <1>5, <1>6 DEF OpenAIData

\* How a frame of Gemini keeps what was shown.
LEMMA GeminiShows ==
  ASSUME TypeInv, ShownInv, Alive, GeminiData, ~Refuse
  PROVE  ShownInv'
<1>0. /\ TypeOK /\ provider = "gemini" /\ ParserInv /\ TextInv
      /\ seen \in Seq(FeedEvents) /\ tools \in [Indexes -> ToolStates]
  BY DEF TypeInv, TypeOK, GeminiData, ShownInv, FeedEvents
<1>1. CASE Part
  <2>1. pc = "wire" /\ UNCHANGED <<provider, pc, open, tools, finish, stopped, todo, regular>> /\ Text
    BY <1>1 DEF Part, Frame, Text
  <2>2. TextInv' /\ Adds(seen, seen', NoId) BY <1>0, <2>1, TextMore
  <2>3. \A j : Over(j)' <=> Over(j) BY <2>1 DEF Over
  <2>5. PublishedInv' /\ pc' = "wire" /\ provider # "anthropic" BY <1>0, <2>1 DEF PublishedInv
  <2> QED BY <2>1, <2>2, <2>3, <2>5, QuietStep
<1>2. CASE FinishCandidate
  <2>1. pc = "wire" /\ UNCHANGED <<provider, pc, open, tools, stopped, text, todo, seen, regular>>
    BY <1>2 DEF FinishCandidate, Frame
  <2>2. TextInv' /\ Adds(seen, seen', NoId) BY <1>0, <2>1, NothingShown
  <2>3. \A i : Over(i)' <=> Over(i) BY <1>0, <2>1 DEF Over
  <2>5. PublishedInv' /\ pc' = "wire" /\ provider # "anthropic" BY <1>0, <2>1 DEF PublishedInv
  <2> QED BY <2>1, <2>2, <2>3, <2>5, QuietStep
<1>3. ASSUME NEW arguments \in {0, 1}, FunctionCall(arguments) PROVE ShownInv'
  <2>0. PICK c : c = Cardinality(Held) OBVIOUS
  <2> DEFINE id == c + 1
             tool == [NoTool EXCEPT !.made = TRUE, !.id = id, !.named = TRUE,
                                    !.begun = TRUE, !.arguments = arguments]
             b == Event("begin", id, 0)
             e == Event("end", id, arguments)
  <2>1. /\ pc = "wire" /\ c \in Indexes
        /\ tools' = [tools EXCEPT ![c] = tool] /\ seen' = seen \o <<b, e>>
        /\ UNCHANGED <<provider, pc, open, finish, stopped, text, todo, regular>>
    BY <1>3, <2>0 DEF FunctionCall, Frame
  <2>2. c \in Nat /\ id \in Nat /\ id # NoId BY <2>1, ConstantsAssumption DEF NoId
  <2>3. /\ tool \in ToolStates /\ tool.made /\ tool.begun /\ tool.id = id /\ tool.arguments = arguments
    <3> HIDE DEF id
    <3>1. arguments \in Nat OBVIOUS
    <3>2. tool \in ToolStates BY <2>2, <3>1, ToolCalled
    <3> QED BY <3>2 DEF NoTool
  <2>4. /\ b \in PartEvents /\ b.id = id /\ b.type = "begin"
        /\ e \in PartEvents /\ e.id = id /\ e.type = "end" /\ e.arguments = arguments
    <3> HIDE DEF id
    <3>1. b \in PartEvents /\ e \in PartEvents BY <2>2, PartIs DEF PartTypes
    <3> QED BY <3>1 DEF Event
  <2>5. PICK mid : mid = Append(seen, b) OBVIOUS
  <2>6. b \in FeedEvents /\ e \in FeedEvents BY <2>4 DEF PartEvents, FeedEvents, FeedTypes
  <2> HIDE DEF tool, b, e
  <2>7. mid \in Seq(FeedEvents) /\ seen' = Append(mid, e)
    <3>1. \A s \in Seq(FeedEvents) : s \o <<b, e>> = Append(Append(s, b), e) BY <2>6
    <3> QED BY <1>0, <2>1, <2>5, <2>6, <3>1
  <2>8. Held = 0..(c - 1) /\ c \notin Held /\ IsFiniteSet(Held)
    <3>1. Held = 0..(c - 1) BY <1>0, <2>0 DEF ParserInv
    <3>2. c \notin 0..(c - 1) BY <2>2
    <3>3. IsFiniteSet(0..(c - 1)) BY <2>2, FS_Interval
    <3> QED BY <3>1, <3>2, <3>3
  <2>9. Held \cup {c} = 0..(Cardinality(Held \cup {c}) - 1)
    <3>1. Cardinality(Held \cup {c}) = c + 1 BY <2>0, <2>8, FS_AddElement
    <3>2. (0..(c - 1)) \cup {c} = 0..((c + 1) - 1) BY <2>2
    <3> QED BY <2>8, <3>1, <3>2
  <2>10. \A j \in Held : tools[j].id # id
    <3>1. ASSUME NEW j \in Held PROVE tools[j].id # id
      <4>1. tools[j].id = j + 1 /\ j \in 0..(c - 1) BY <1>0, <2>8 DEF ParserInv
      <4> QED BY <2>2, <4>1
    <3> QED BY <3>1
  <2> HIDE DEF id
  <2>11. TextInv' /\ Adds(seen, seen', id)
    <3>1. Adds(seen, mid, id) /\ Silent(seen, mid) BY <1>0, <2>2, <2>4, <2>5, <2>6, AddsOne
    <3>2. Adds(mid, seen', id) /\ Silent(mid, seen') BY <2>2, <2>4, <2>6, <2>7, AddsOne
    <3>3. Adds(seen, seen', id) /\ Silent(seen, seen') BY <3>1, <3>2, AddsTwo
    <3> QED BY <1>0, <2>1, <3>3, TextKept
  <2>12. ASSUME regular' PROVE Told(seen', id, 0, arguments)
    <3>1. Owned BY <2>1, <2>12 DEF ShownInv, ToldInv
    <3>2. Of(seen, id) = {} BY <2>2, <2>10, <3>1, NewId
    <3>3. Begun(mid, id, 0) BY <1>0, <2>4, <2>5, <2>6, <3>2, BeginsShown
    <3> QED BY <2>4, <2>6, <2>7, <3>3, EndShown
  <2>13. Over(c)' /\ \A j : Over(j)' <=> Over(j) BY <1>0, <2>1 DEF Over
  <2>14. ~tools[c].begun
    <3>1. tools[c] = NoTool BY <1>0, <2>1, <2>8 DEF ParserInv, ToolInv, Held
    <3> QED BY <3>1 DEF NoTool
  <2>15. id = c + 1 BY DEF id
  <2>16. regular' => \E count \in Nat : /\ Told(seen', id, count, arguments)
                                        /\ provider # "gemini" => arguments = count
    BY <1>0, <2>12
  <2>17. provider # "anthropic" /\ pc' = "wire" /\ (regular' => regular) BY <1>0, <2>1
  <2> QED BY <1>0, <2>1, <2>2, <2>3, <2>9, <2>10, <2>11, <2>13, <2>14, <2>15, <2>16, <2>17, ToolStep
<1> QED BY <1>1, <1>2, <1>3 DEF GeminiData

\* An attempt begins with nothing shown of any tool.
LEMMA StartShows == ASSUME TypeInv, Start PROVE ShownInv'
<1>1. /\ pc' = "wire" /\ stopped' = FALSE /\ tools' = [i \in Indexes |-> NoTool]
      /\ text' = 0 /\ seen' = <<Turn("started")>> /\ provider' = provider
  BY DEF Start
<1>2. \A i \in Indexes : tools'[i] = NoTool BY <1>1
<1>3. Held' = {} BY <1>2 DEF Held, NoTool
<1>4. ParserInv'
  <2>0. ~NoTool.made /\ ~NoTool.begun /\ NoTool.chunks = 0 BY DEF NoTool
  <2>1. \A i \in Indexes : ToolInv(i)' BY <1>2, <2>0 DEF ToolInv
  <2>2. Held' = 0..(Cardinality(Held') - 1)
    <3>1. Cardinality({}) = 0 BY FS_EmptySet
    <3>2. 0..(0 - 1) = {} OBVIOUS
    <3> QED BY <1>3, <3>1, <3>2
  <2>3. ~(pc' = "ending") /\ ~stopped' BY <1>1
  <2> QED BY <1>3, <2>1, <2>2, <2>3 DEF ParserInv
<1>5. Len(seen') = 1 /\ seen'[1].type = "started" /\ seen'[1].id = NoId BY <1>1 DEF Turn, Event
<1>6. \A m \in 1..Len(seen') : seen'[m].type = "started" /\ seen'[m].id = NoId BY <1>5
<1>7. TextInv'
  <2>1. {m \in 1..Len(seen') : seen'[m].type = "text_delta"} = {} BY <1>6
  <2>2. Cardinality({}) = 0 BY FS_EmptySet
  <2> QED BY <1>1, <2>1, <2>2 DEF TextInv
<1>8. ToldInv'
  <2>1. Distinct' BY <1>3 DEF Distinct
  <2>2. Owned' BY <1>6 DEF Owned
  <2> QED BY <1>3, <2>1, <2>2 DEF ToldInv
<1>9. PublishedInv' /\ pc' # "answered" BY <1>1 DEF PublishedInv
<1> QED BY <1>4, <1>7, <1>8, <1>9 DEF ShownInv

\* At the end of the body every tool has ended.
LEMMA CompletesShows == ASSUME TypeInv, ShownInv, Complete, ~Refuse PROVE ShownInv'
<1>1. /\ Whole /\ pc = "wire" /\ pc' = "message" /\ seen' = Append(seen, Turn("completed"))
      /\ UNCHANGED <<provider, parserVars, todo, regular>>
  BY DEF Complete, Emit
<1>2. provider \in {"anthropic", "openai", "gemini"} BY ConstantsAssumption DEF TypeInv, TypeOK
<1>3. Alive /\ ParserInv /\ TextInv BY <1>1 DEF ShownInv, Alive
<1>4. \A i \in Indexes : Over(i) BY <1>1, <1>2, <1>3 DEF Whole, Over, ParserInv
<1>5. \A i : Over(i)' BY <1>1 DEF Over
<1>6. TextInv' /\ Adds(seen, seen', NoId)
  <2> DEFINE e == Turn("completed")
  <2>1. seen \in Seq(FeedEvents) BY DEF TypeInv, TypeOK, FeedEvents
  <2>2. e \in FeedEvents /\ e.id = NoId /\ e.type = "completed"
    BY DEF Turn, Event, NoId, FeedEvents, FeedTypes
  <2> HIDE DEF e
  <2>3. Adds(seen, seen', NoId) /\ Silent(seen, seen')
    <3>1. seen' = Append(seen, e) BY <1>1 DEF e
    <3> QED BY <2>1, <2>2, <3>1, AddsOne
  <2> QED BY <1>1, <1>3, <2>3, TextKept DEF parserVars
<1>7. stopped' => (provider = "anthropic" => \A i \in Indexes : open'[i] = "none")
  BY <1>1, <1>3 DEF ParserInv, parserVars
<1>8. PublishedInv' /\ pc' # "ending" /\ pc' # "answered" BY <1>1 DEF PublishedInv
<1>9. UNCHANGED <<tools, provider>> /\ (regular' => regular) BY <1>1 DEF parserVars
<1>10. \A i \in Held : Over(i) /\ Over(i)' BY <1>4, <1>5 DEF Held
<1> QED BY <1>3, <1>6, <1>7, <1>8, <1>9, <1>10, QuietStep

\* What is published is the message, then the tools one by one.
LEMMA PublishShows ==
  ASSUME TypeInv, ShownInv, PublishMessage \/ PublishCall \/ Return
  PROVE  ShownInv'
<1>1. /\ pc \in {"message", "calls"} /\ pc' \in {"calls", "answered"}
      /\ UNCHANGED <<provider, started, open, tools, finish, stopped, text, seen, start, regular>>
  BY DEF PublishMessage, PublishCall, Return, parserVars
<1>2. Alive /\ ParserInv /\ TextInv BY <1>1 DEF ShownInv, Alive
<1>3. \A i : Over(i) /\ Over(i)' BY <1>1 DEF Over
<1>4. TextInv' /\ Adds(seen, seen', NoId) BY <1>1, <1>2, NothingShown
<1>5. provider = "anthropic" /\ stopped' => \A i \in Indexes : open'[i] = "none"
  BY <1>1, <1>2 DEF ParserInv
<1>6. log \in Seq(LogEvents) /\ Len(log) \in Nat /\ start \in 0..Len(log) /\ Held' = Held
  BY <1>1, LenProperties DEF TypeInv, TypeOK, Held
<1>7. CASE PublishMessage
  <2> DEFINE e == Answer(text, finish)
             last == Len(log) + 1
  <2>1. log' = Append(log, e) /\ todo' = Held /\ pc' = "calls" BY <1>7 DEF PublishMessage
  <2>2. e \in LogEvents
    <3>1. text \in Nat /\ finish \in Stops BY <1>7 DEF PublishMessage, TypeInv, TypeOK
    <3> QED BY <3>1 DEF Answer, LogEvents
  <2> HIDE DEF e
  <2>3. Len(log') = last /\ log'[last] = e BY <1>6, <2>1, <2>2, AppendProperties
  <2>4. last \in (start + 1)..Len(log') /\ (last + 1)..Len(log') = {} BY <1>6, <2>3
  <2>5. Held' \ todo' = {} BY <1>6, <2>1
  <2>6. e = Answer(text', finish') BY <1>1 DEF e
  <2>7. PICK n : n = last OBVIOUS
  <2> HIDE DEF last
  <2>8. Published(n)' BY <2>3, <2>4, <2>5, <2>6, <2>7 DEF Published
  <2>9. PublishedInv' BY <1>1, <2>4, <2>7, <2>8 DEF PublishedInv
  <2> QED BY <1>1, <1>2, <1>3, <1>4, <1>5, <2>1, <2>9, QuietStep
<1>8. CASE PublishCall
  <2> DEFINE i == First(todo)
  <2>1. i \in todo
    <3>1. todo # {} /\ todo \subseteq Nat
      BY <1>8, ConstantsAssumption DEF PublishCall, TypeInv, TypeOK, Held
    <3> QED BY <3>1, LeastIn DEF First
  <2>2. PICK k : k = i OBVIOUS
  <2>3. /\ log' = Append(log, Use(tools[k].id, tools[k].arguments)) /\ todo' = todo \ {k}
        /\ pc = "calls" /\ pc' = "calls"
    BY <1>8, <2>2 DEF PublishCall
  <2> HIDE DEF i
  <2>4. k \in todo /\ k \in Held /\ k \in Indexes BY <2>1, <2>2 DEF TypeInv, TypeOK, Held
  <2>5. PICK e : e = Use(tools[k].id, tools[k].arguments) OBVIOUS
  <2>6. e \in LogEvents /\ e.id = tools[k].id
    <3>1. tools[k] \in ToolStates BY <2>4 DEF TypeInv, TypeOK
    <3> QED BY <2>5, <3>1 DEF Use, LogEvents, ToolStates
  <2>7. tools[k].id # NoId BY <1>2, <1>3, <2>4 DEF ParserInv, ToolInv, Held
  <2>8. /\ Len(log') = Len(log) + 1 /\ log'[Len(log) + 1] = e
        /\ \A p \in 1..Len(log) : log'[p] = log[p]
    BY <1>6, <2>3, <2>5, <2>6, AppendProperties
  <2>9. PICK last \in (start + 1)..Len(log) : Published(last) BY <1>2, <2>3 DEF ShownInv, PublishedInv
  <2>10. Held' \ todo' = (Held \ todo) \cup {k} BY <1>6, <2>3, <2>4
  <2>11. /\ last \in (start + 1)..Len(log')
         /\ (last + 1)..Len(log') = ((last + 1)..Len(log)) \cup {Len(log) + 1}
         /\ (last + 1)..Len(log) \subseteq 1..Len(log) /\ last \in 1..Len(log)
    BY <1>6, <2>8
  <2>12. \A p \in (last + 1)..Len(log) :
           \E j \in Held \ todo : log[p] = Use(tools[j].id, tools[j].arguments)
    BY <2>9 DEF Published
  <2>13. log'[last] = Answer(text', finish') BY <1>1, <2>8, <2>9, <2>11 DEF Published
  <2>14. ASSUME NEW p \in (last + 1)..Len(log')
         PROVE  \E j \in (Held \ todo) \cup {k} : log'[p] = Use(tools'[j].id, tools'[j].arguments)
    <3>1. CASE p = Len(log) + 1 BY <1>1, <2>5, <2>8, <3>1
    <3>2. CASE p # Len(log) + 1
      <4>1. p \in (last + 1)..Len(log) /\ log'[p] = log[p] BY <2>8, <2>11, <3>2
      <4> QED BY <1>1, <2>12, <4>1
    <3> QED BY <3>1, <3>2
  <2>15. ASSUME NEW j \in (Held \ todo) \cup {k}
         PROVE  \E p \in (last + 1)..Len(log') : log'[p] = Use(tools'[j].id, tools'[j].arguments)
    <3>1. CASE j = k BY <1>1, <2>5, <2>8, <2>11, <3>1
    <3>2. CASE j # k
      <4>1. PICK p \in (last + 1)..Len(log) : log[p] = Use(tools[j].id, tools[j].arguments)
        BY <2>9, <3>2 DEF Published
      <4> QED BY <1>1, <2>8, <2>11, <4>1
    <3> QED BY <3>1, <3>2
  <2>16. ASSUME regular, NEW p \in (last + 1)..Len(log) PROVE log[p].id # tools[k].id
    <3>1. PICK j \in Held \ todo : log[p] = Use(tools[j].id, tools[j].arguments) BY <2>12
    <3>2. log[p].id = tools[j].id BY <3>1 DEF Use
    <3>3. Distinct BY <1>2, <2>16 DEF ShownInv, ToldInv
    <3> QED BY <2>4, <2>7, <3>2, <3>3 DEF Distinct
  <2>17. ASSUME regular, NEW p \in (last + 1)..Len(log'), NEW q \in (last + 1)..Len(log'),
                log'[p].id = log'[q].id
         PROVE  p = q
    <3>1. CASE p = Len(log) + 1 /\ q = Len(log) + 1 BY <3>1
    <3>2. CASE p = Len(log) + 1 /\ q # Len(log) + 1
      <4>1. q \in (last + 1)..Len(log) /\ log'[q] = log[q] BY <2>8, <2>11, <3>2
      <4> QED BY <2>6, <2>8, <2>16, <2>17, <3>2, <4>1
    <3>3. CASE p # Len(log) + 1 /\ q = Len(log) + 1
      <4>1. p \in (last + 1)..Len(log) /\ log'[p] = log[p] BY <2>8, <2>11, <3>3
      <4> QED BY <2>6, <2>8, <2>16, <2>17, <3>3, <4>1
    <3>4. CASE p # Len(log) + 1 /\ q # Len(log) + 1
      <4>1. /\ p \in (last + 1)..Len(log) /\ log'[p] = log[p]
            /\ q \in (last + 1)..Len(log) /\ log'[q] = log[q]
        BY <2>8, <2>11, <3>4
      <4> QED BY <2>9, <2>17, <4>1 DEF Published
    <3> QED BY <3>1, <3>2, <3>3, <3>4
  <2>18. Published(last)' BY <1>1, <2>10, <2>13, <2>14, <2>15, <2>17 DEF Published
  <2>19. PublishedInv' BY <1>1, <2>11, <2>18 DEF PublishedInv
  <2> QED BY <1>1, <1>2, <1>3, <1>4, <1>5, <2>3, <2>19, QuietStep
<1>9. CASE Return
  <2>1. pc = "calls" /\ pc' = "answered" /\ todo' = {} /\ todo = {} /\ log' = log BY <1>9 DEF Return
  <2>2. PICK last \in (start + 1)..Len(log) : Published(last) BY <1>2, <2>1 DEF ShownInv, PublishedInv
  <2>3. Published(last)' BY <1>1, <1>6, <2>1, <2>2 DEF Published
  <2>4. PublishedInv' BY <1>1, <2>1, <2>3 DEF PublishedInv
  <2> QED BY <1>1, <1>2, <1>3, <1>4, <1>5, <2>1, <2>4, QuietStep
<1> QED BY <1>7, <1>8, <1>9

\* Every step keeps what was shown and what was published in step.
LEMMA ShownStep == ASSUME TypeInv, ShownInv, [Next]_vars PROVE ShownInv'
<1>1. CASE Start BY <1>1, StartShows
<1>2. ASSUME Refuse \/ Break \/ Interrupt PROVE ShownInv'
  <2>1. pc' \in {"call", "gave_up", "interrupted"} BY <1>2 DEF Refuse, Break, Raise, Interrupt
  <2> QED BY <2>1 DEF ShownInv, Alive
<1>3. CASE AnthropicData \/ OpenAIData \/ GeminiData
  <2>1. Alive BY <1>3, DataPc DEF Alive
  <2> QED BY <1>2, <1>3, <2>1, AnthropicShows, OpenAIShows, GeminiShows
<1>4. CASE Complete BY <1>2, <1>4, CompletesShows
<1>5. CASE PublishMessage \/ PublishCall \/ Return BY <1>5, PublishShows
<1>6. CASE UNCHANGED vars
  BY <1>6 DEF vars, parserVars, ShownInv, Alive, ParserInv, ToolInv, Over, Held, TextInv,
              PublishedInv, Published, ToldInv, Distinct, Owned, ToolTold
<1> QED BY <1>1, <1>2, <1>3, <1>4, <1>5, <1>6 DEF Next

\* An answered turn whose events and log are in step is answered as shown.
LEMMA ShownAnswers == ASSUME TypeInv, ShownInv PROVE AnswerAsShown
<1> SUFFICES ASSUME pc = "answered", regular PROVE AnswerAsShown BY DEF AnswerAsShown
<1>1. /\ ParserInv /\ TextInv /\ ToldInv /\ todo = {} /\ PublishedInv
  BY DEF ShownInv, Alive
<1>2. PICK last \in (start + 1)..Len(log) : Published(last) BY <1>1 DEF PublishedInv
<1>3. seen \in Seq(FeedEvents) /\ DOMAIN seen = 1..Len(seen)
  BY LenProperties DEF TypeInv, TypeOK, FeedEvents
<1> DEFINE calls == (last + 1)..Len(log)
<1>4. log[last] = Answer(Cardinality(OfType("text_delta")), finish)
  <2>1. OfType("text_delta") = {m \in 1..Len(seen) : seen[m].type = "text_delta"}
    BY <1>3 DEF OfType
  <2> QED BY <1>1, <1>2, <2>1 DEF TextInv, Published
<1>5. \A id : OfTool(id) = Of(seen, id) BY <1>3 DEF OfTool, Of
<1>6. ASSUME NEW p \in calls
      PROVE  \E i \in Held : /\ tools[i].begun /\ log[p] = Use(tools[i].id, tools[i].arguments)
                             /\ \E count \in Nat : /\ Told(seen, tools[i].id, count, tools[i].arguments)
                                                   /\ provider # "gemini" => tools[i].arguments = count
  <2>1. PICK i \in Held : log[p] = Use(tools[i].id, tools[i].arguments)
    BY <1>1, <1>2 DEF Published
  <2>2. Over(i) BY DEF Over
  <2>3. tools[i].begun BY <1>1, <2>2 DEF ParserInv, ToolInv, Held
  <2>4. ToolTold(i) BY <1>1, <2>3 DEF ToldInv
  <2> QED BY <2>1, <2>2, <2>3, <2>4 DEF ToolTold
<1>7. {log[p].id : p \in calls} = {seen[m].id : m \in OfType("begin")}
  <2>1. ASSUME NEW p \in calls PROVE \E m \in OfType("begin") : log[p].id = seen[m].id
    <3>1. PICK i \in Held, count \in Nat : /\ log[p] = Use(tools[i].id, tools[i].arguments)
                                           /\ Told(seen, tools[i].id, count, tools[i].arguments)
      BY <1>6
    <3>2. PICK b \in Of(seen, tools[i].id) : seen[b].type = "begin" BY <3>1 DEF Told
    <3>3. b \in OfType("begin") /\ seen[b].id = tools[i].id BY <1>3, <3>2 DEF Of, OfType
    <3> QED BY <3>1, <3>3 DEF Use
  <2>2. ASSUME NEW m \in OfType("begin") PROVE \E p \in calls : log[p].id = seen[m].id
    <3>1. m \in 1..Len(seen) /\ seen[m].type = "begin" BY <1>3 DEF OfType
    <3>2. PICK i \in Held : tools[i].begun /\ tools[i].id = seen[m].id
      BY <1>1, <3>1 DEF ToldInv, Owned
    <3>3. PICK p \in calls : log[p] = Use(tools[i].id, tools[i].arguments)
      BY <1>1, <1>2 DEF Published
    <3> QED BY <3>2, <3>3 DEF Use
  <2> HIDE DEF calls
  <2> QED BY <2>1, <2>2
<1>8. \A p, q \in calls : log[p].id = log[q].id => p = q BY <1>2 DEF Published
<1>9. ASSUME NEW p \in calls
      PROVE  LET told == OfTool(log[p].id) IN
             /\ log[p].type = "tool_use"
             /\ \E b, e \in told :
                  /\ seen[b].type = "begin" /\ seen[e].type = "end" /\ b < e
                  /\ \A m \in told \ {b, e} : b < m /\ m < e /\ seen[m].type = "argument_delta"
                  /\ seen[e].arguments = log[p].arguments
             /\ provider # "gemini" => log[p].arguments = Cardinality(told) - 2
  <2>1. PICK i \in Held, count \in Nat : /\ log[p] = Use(tools[i].id, tools[i].arguments)
                                         /\ Told(seen, tools[i].id, count, tools[i].arguments)
                                         /\ provider # "gemini" => tools[i].arguments = count
    BY <1>6
  <2>2. /\ log[p].type = "tool_use" /\ log[p].id = tools[i].id
        /\ log[p].arguments = tools[i].arguments
    BY <2>1 DEF Use
  <2>3. OfTool(log[p].id) = Of(seen, tools[i].id) BY <1>5, <2>2
  <2>4. \E b, e \in Of(seen, tools[i].id) :
          /\ seen[b].type = "begin" /\ seen[e].type = "end" /\ b < e
          /\ \A m \in Of(seen, tools[i].id) \ {b, e} : b < m /\ m < e /\ seen[m].type = "argument_delta"
          /\ seen[e].arguments = log[p].arguments
    BY <2>1, <2>2 DEF Told
  <2>5. provider # "gemini" => log[p].arguments = Cardinality(Of(seen, tools[i].id)) - 2
    BY <2>1, <2>2 DEF Told
  <2> QED BY <2>2, <2>3, <2>4, <2>5
<1> HIDE DEF calls
<1> QED BY <1>2, <1>4, <1>7, <1>8, <1>9 DEF AnswerAsShown, calls

\* After a streamed turn the log holds one message with the text that was
\* shown and every tool that began, once, with the arguments its end showed,
\* for every wire that keeps to its numbering and every number of attempts
\* (complete, _handle_stream_event, _run_turn).
THEOREM ShowsAnswer == Spec => []AnswerAsShown
<1>1. Init => ShownInv BY DEF Init, ShownInv, Alive
<1>2. TypeInv /\ [Next]_vars => TypeInv' BY TypesKept
<1>3. TypeInv /\ ShownInv /\ [Next]_vars => ShownInv' BY ShownStep
<1>4. TypeInv /\ ShownInv => AnswerAsShown BY ShownAnswers
<1> QED BY <1>1, <1>2, <1>3, <1>4, TypesStart, PTL DEF Spec
=============================================================================
