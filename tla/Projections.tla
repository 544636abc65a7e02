----------------------------- MODULE Projections -----------------------------
(***************************************************************************)
(* The requests the Anthropic, OpenAI and Gemini projections build from    *)
(* the effective stream of a log: which events become a message of their   *)
(* own, which join the message before, in which role, and which are left   *)
(* out.  The blocks of one message are in Media; tool descriptors are      *)
(* abstracted; whether an assistant message has any text is not.           *)
(***************************************************************************)
EXTENDS Compaction, Media, SequencesExt

CONSTANT
  Carriers      \* TRUE: an answer of OpenAI may come with reasoning details,
                \* for which the ingestor keeps its whole wire message

ASSUME CarriersAssumption == Carriers \in BOOLEAN

Projectors == {"anthropic", "openai", "gemini"}

\* The effective stream, by position: what is shown, and each summary where the
\* lowest event it replaces was.
Stream(l) ==
  [p \in Shown(l) \cup {Least(l[c].on) : c \in Told(l)} |->
     IF p \in Shown(l) THEN [kind |-> l[p].type, id |-> l[p].id, at |-> p]
                       ELSE [kind |-> "summary", id |-> NoId, at |-> p]]

Role(projector, block) ==
  CASE block.kind \in {"user_message", "summary"}       -> "user"
    [] block.kind \in {"assistant_message", "tool_use"} -> "assistant"
    [] block.kind = "tool_result" -> IF projector = "openai" THEN "tool" ELSE "user"

\* An assistant message without text is no message, except for OpenAI.
Rendered(projector, stream, silent) ==
  {p \in DOMAIN stream : projector = "openai" \/ p \notin silent}

\* Mutant: for Anthropic too, only a tool_use joins the message before it.
JoinsIfCall(projector, block, message) ==
  message.role = Role(projector, block) /\ block.kind = "tool_use"
\* Anthropic groups whatever has the same role; the others only add calls to
\* an assistant message.
Joins(projector, block, message) ==
  /\ message.role = Role(projector, block)
  /\ projector = "anthropic" \/ block.kind = "tool_use"

\* The calls of the answer that the assistant message at p began.
CallsOf(l, p) ==
  {q \in Positions(l, "tool_use") : Max({a \in Positions(l, "assistant_message") : a < q}) = p}
CallBlock(l, p) == [kind |-> "tool_use", id |-> l[p].id, at |-> p]

\* A message of its own: for OpenAI a carried assistant message is the wire
\* message as it came, with the calls it had.
Fresh(projector, block, l, carried) ==
  [role   |-> Role(projector, block),
   blocks |-> IF projector = "openai" /\ block.at \in carried
              THEN LET calls == SetToSortSeq(CallsOf(l, block.at), <)
                   IN  <<block>> \o [n \in DOMAIN calls |-> CallBlock(l, calls[n])]
              ELSE <<block>>]

Place(projector, messages, block, l, carried) ==
  IF messages # <<>> /\ Joins(projector, block, Last(messages))
  THEN [messages EXCEPT ![Len(messages)].blocks = Append(@, block)]
  ELSE Append(messages, Fresh(projector, block, l, carried))

\* The projections' loop: the messages after the events up to each position.
MessagesUpTo(projector, stream, silent, l, carried) ==
  LET messages[p \in 0..Len(l)] ==
        IF p = 0 THEN <<>>
        ELSE IF p \in Rendered(projector, stream, silent)
             THEN Place(projector, messages[p - 1], stream[p], l, carried)
             ELSE messages[p - 1]
  IN  messages
Request(projector, stream, silent, l, carried) ==
  MessagesUpTo(projector, stream, silent, l, carried)[Len(l)]

Answers(stream) == {p \in DOMAIN stream : stream[p].kind = "assistant_message"}
Carryings(stream) == IF Carriers THEN SUBSET Answers(stream) ELSE {{}}

\* Gemini names a response by the last call of the stream with its id, or by
\* the id itself (0 here) when there is none.
NamedBy(stream, id) ==
  LET uses == {n \in DOMAIN stream : stream[n].kind = "tool_use" /\ stream[n].id = id}
  IN  IF uses = {} THEN 0 ELSE Greatest(uses)

Holds(message, kind, id) ==
  \E n \in DOMAIN message.blocks :
    message.blocks[n].kind = kind /\ message.blocks[n].id = id

\* Every result of the stream is once in the request, after the assistant
\* message with its call.
Paired(request, stream) ==
  \A r \in {n \in DOMAIN stream : stream[n].kind = "tool_result"} :
    LET id == stream[r].id
        at == {m \in DOMAIN request : Holds(request[m], "tool_result", id)}
    IN
    /\ Cardinality(at) = 1
    /\ \A m \in at : \E c \in 1..(m - 1) :
         request[c].role = "assistant" /\ Holds(request[c], "tool_use", id)

\* The calls of the request are those of the stream, each once.
Folded(request, stream) ==
  LET blocks == UNION {{<<m, n>> : n \in DOMAIN request[m].blocks} : m \in DOMAIN request}
      calls  == {b \in blocks : request[b[1]].blocks[b[2]].kind = "tool_use"}
      uses   == {n \in DOMAIN stream : stream[n].kind = "tool_use"}
  IN
  /\ Cardinality(calls) = Cardinality(uses)
  /\ {request[c[1]].blocks[c[2]].at : c \in calls} = uses

\* Both, and Anthropic's roles alternate.
Sound(projector, request, stream) ==
  /\ Paired(request, stream)
  /\ Folded(request, stream)
  /\ projector = "anthropic" =>
       \A m \in 1..(Len(request) - 1) : request[m].role # request[m + 1].role

\* Whatever was compacted and reverted before, and whichever assistant messages
\* are silent: a request has every call of the view once, carries a result only
\* after the assistant message with its call, a call has one result at most,
\* Gemini's response has the name of the very call it answers, the roles of an
\* Anthropic request alternate, and the attachments of its messages reach the
\* model as Media says.  (projections/*.py over mutations.apply)
RequestsPaired ==
  /\ AttachmentsReach
  /\ pc = "call" =>
      LET stream  == Stream(log)
          results == {n \in DOMAIN stream : stream[n].kind = "tool_result"}
      IN
      /\ \A r \in results : OwnUse(log, NamedBy(stream, stream[r].id), r)
      /\ \A projector \in Projectors, silent \in SUBSET Answers(stream) :
           \A carried \in Carryings(stream) :
             Sound(projector, Request(projector, stream, silent, log, carried), stream)

\* A request of OpenAI has each call of the view once, in the assistant message
\* before it: what projections/openai.py:3 says of its tool_calls.
CallsFolded ==
  pc = "call" =>
    LET stream == Stream(log) IN
    \A carried \in Carryings(stream) :
      Folded(Request("openai", stream, {}, log, carried), stream)
=============================================================================
