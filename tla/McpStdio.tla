------------------------------ MODULE McpStdio ------------------------------
(***************************************************************************)
(* The MCP client over a subprocess's stdin and stdout: threads that call  *)
(* tools and call_tool, the reader thread, close, and the server process.  *)
(* A request is a queue of its own, known to the reader by the request's   *)
(* id in the pending table; stamps number these queues.                    *)
(***************************************************************************)
EXTENDS Integers, Sequences, FiniteSets

CONSTANTS
  Callers,      \* threads that use the client
  Lines,        \* what the server may write besides answers
  PipeSize,     \* bound: messages either pipe holds
  MaxRequests   \* bound: requests

VARIABLES
  gil,                  \* whether the interpreter has a global lock
  nextId, pending,      \* _next_id; _pending: id -> stamp of its queue
  closed, lock,         \* _closed; whether close holds _lock
  degraded, cache,      \* degraded; _tools_cache
  pc, op, id, stamp,    \* of a caller: where it is, in which request, its
  loaded,               \*   request_id and queue, what += read of _next_id
  inbox, unsent,        \* of a stamp: its queue; history: whose write failed
  made, budget,         \* history: stamps given out; requests left
  stdin, dirty,         \* the pipe; whether a failed write is still buffered
  wire, out,            \* messages in the two pipes
  server, accepted,     \* the process; requests it has read
  reader, line, to,     \* the reader thread, its line, and the queues to fill
  closer                \* the thread that calls close

tableVars  == <<nextId, pending>>
toolVars   == <<degraded, cache>>
callerVars == <<pc, op, id, stamp, loaded, unsent, made, budget, nextId, toolVars>>
pipeVars   == <<stdin, dirty, wire>>
serverVars == <<server, accepted>>
readerVars == <<reader, line, to>>
closeVars  == <<closed, lock, closer>>
vars == <<gil, pending, callerVars, inbox, pipeVars, out, serverVars, readerVars, closeVars>>

Ids    == 1..MaxRequests
Stamps == 1..MaxRequests
Ops    == {"initialize", "initialized", "list", "call"}
CallerPCs == {"idle", "begin", "load", "store", "register", "write", "writing",
              "wait", "expired"}
Message(kind, i, s) == [kind |-> kind, id |-> i, stamp |-> s]
Answers  == {"result", "error"}
Messages == [kind : Answers, id : Ids, stamp : Stamps]
Empty    == Message("empty", 0, 0)
Failure  == Message("failed", 0, 0)
Notice   == Message("initialized", 0, 0)

ASSUME CallersAssumption ==
  /\ Lines \subseteq {"malformed", "garbled"}
  /\ PipeSize \in Nat \ {0} /\ MaxRequests \in Nat

Init ==
  /\ gil \in BOOLEAN
  /\ nextId = 1 /\ pending = [i \in Ids |-> 0]
  /\ closed = FALSE /\ lock = FALSE /\ closer = "idle"
  /\ degraded = FALSE /\ cache = "none"
  /\ pc = [c \in Callers |-> "idle"] /\ op = [c \in Callers |-> "call"]
  /\ id = [c \in Callers |-> 0] /\ stamp = [c \in Callers |-> 0]
  /\ loaded = [c \in Callers |-> 0]
  /\ inbox = [s \in Stamps |-> Empty] /\ unsent = {}
  /\ made = 0 /\ budget = MaxRequests
  /\ stdin = "open" /\ dirty = FALSE /\ wire = <<>> /\ out = <<>>
  /\ server = "up" /\ accepted = {}
  /\ reader = "read" /\ line = Empty /\ to = {}

-----------------------------------------------------------------------------
(* The callers.                                                              *)

Goto(c, p) == pc' = [pc EXCEPT ![c] = p]
Rest == UNCHANGED <<gil, inbox, out, serverVars, readerVars, closeVars>>

\* tools: two requests, unless they were made before.
Tools(c) ==
  /\ pc[c] = "idle" /\ cache = "none" /\ budget >= 2
  /\ budget' = budget - 2
  /\ op' = [op EXCEPT ![c] = "initialize"] /\ Goto(c, "begin")
  /\ UNCHANGED <<id, stamp, loaded, unsent, made, tableVars, toolVars, pipeVars>> /\ Rest

\* call_tool: raises at once on a degraded client.
CallTool(c) ==
  /\ pc[c] = "idle" /\ ~degraded /\ budget >= 1
  /\ budget' = budget - 1
  /\ op' = [op EXCEPT ![c] = "call"] /\ Goto(c, "begin")
  /\ UNCHANGED <<id, stamp, loaded, unsent, made, tableVars, toolVars, pipeVars>> /\ Rest

\* _request reads and advances _next_id outside the lock.  Under the global
\* lock nothing comes between the two statements (no call, no jump).
TakeId(c) ==
  /\ pc[c] = "begin" /\ made < MaxRequests   \* the budget always has room
  /\ made' = made + 1
  /\ id' = [id EXCEPT ![c] = nextId] /\ stamp' = [stamp EXCEPT ![c] = made + 1]
  /\ IF gil THEN nextId' = nextId + 1 /\ Goto(c, "register")
            ELSE nextId' = nextId /\ Goto(c, "load")
  /\ UNCHANGED <<op, loaded, unsent, budget, pending, toolVars, pipeVars>> /\ Rest

LoadNext(c) ==
  /\ pc[c] = "load"
  /\ loaded' = [loaded EXCEPT ![c] = nextId] /\ Goto(c, "store")
  /\ UNCHANGED <<op, id, stamp, unsent, made, budget, tableVars, toolVars, pipeVars>> /\ Rest

StoreNext(c) ==
  /\ pc[c] = "store"
  /\ nextId' = loaded[c] + 1 /\ loaded' = [loaded EXCEPT ![c] = 0]
  /\ Goto(c, "register")
  /\ UNCHANGED <<op, id, stamp, unsent, made, budget, pending, toolVars, pipeVars>>
  /\ Rest

Register(c) ==
  /\ pc[c] = "register" /\ ~lock
  /\ pending' = [pending EXCEPT ![id[c]] = stamp[c]] /\ Goto(c, "write")
  /\ UNCHANGED <<op, id, stamp, loaded, unsent, made, budget, nextId, toolVars, pipeVars>>
  /\ Rest

\* The caller's frame goes.
Leave(c) ==
  /\ Goto(c, "idle") /\ op' = [op EXCEPT ![c] = "call"]
  /\ id' = [id EXCEPT ![c] = 0] /\ stamp' = [stamp EXCEPT ![c] = 0]

\* Mutant: tools does not remember that it failed.
RaiseUncached(c) ==
  /\ Leave(c)
  /\ IF op[c] = "call" THEN UNCHANGED toolVars ELSE degraded' = TRUE /\ cache' = cache
\* What the request, or the notification, was part of has raised: tools
\* catches it and degrades, call_tool lets the host see it.
Raise(c) ==
  /\ Leave(c)
  /\ IF op[c] = "call" THEN UNCHANGED toolVars ELSE degraded' = TRUE /\ cache' = "empty"

\* What comes after it: the notification, then the second request of tools.
Continue(c, p, o) ==
  Goto(c, p) /\ op' = [op EXCEPT ![c] = o] /\ UNCHANGED <<id, stamp, toolVars>>
Return(c) ==
  CASE op[c] = "initialize"  -> Continue(c, "write", "initialized")
    [] op[c] = "initialized" -> Continue(c, "begin", "list")
    [] op[c] = "list"        -> Leave(c) /\ cache' = "full" /\ UNCHANGED degraded
    [] op[c] = "call"        -> Leave(c) /\ UNCHANGED toolVars

Unsent(c) == unsent' = IF op[c] = "initialized" THEN unsent ELSE unsent \cup {stamp[c]}

\* A write to a pipe close has closed raises ValueError.
WriteClosed(c) ==
  /\ pc[c] = "write" /\ stdin = "closed"
  /\ Unsent(c) /\ Raise(c)
  /\ UNCHANGED <<loaded, made, budget, tableVars, pipeVars>> /\ Rest

\* The file object admits one writer at a time.
NobodyWrites == \A c \in Callers : pc[c] # "writing"
StartWrite(c) ==
  /\ pc[c] = "write" /\ stdin = "open" /\ NobodyWrites
  /\ Goto(c, "writing")
  /\ UNCHANGED <<op, id, stamp, loaded, unsent, made, budget, tableVars, toolVars, pipeVars>>
  /\ Rest

\* The write blocks while the pipe is full, and breaks when the server died.
FinishWrite(c) ==
  /\ pc[c] = "writing" /\ server = "up" /\ Len(wire) < PipeSize
  /\ IF op[c] = "initialized"
     THEN wire' = Append(wire, Notice) /\ Return(c)
     ELSE /\ wire' = Append(wire, Message(op[c], id[c], stamp[c]))
          /\ Goto(c, "wait") /\ UNCHANGED <<op, id, stamp, toolVars>>
  /\ UNCHANGED <<loaded, unsent, made, budget, tableVars, stdin, dirty>> /\ Rest

WriteBreaks(c) ==
  /\ pc[c] = "writing" /\ server = "dead"
  /\ dirty' = TRUE
  /\ Unsent(c) /\ Raise(c)
  /\ UNCHANGED <<loaded, made, budget, tableVars, stdin, wire>> /\ Rest

Take(c) ==
  LET message == inbox[stamp[c]] IN
  /\ pc[c] = "wait" /\ message # Empty
  /\ inbox' = [inbox EXCEPT ![stamp[c]] = Empty]
  /\ IF message.kind = "result" THEN Return(c) ELSE Raise(c)
  /\ UNCHANGED <<gil, loaded, unsent, made, budget, tableVars, pipeVars, out, serverVars,
                 readerVars, closeVars>>

\* Mutant: get without a timeout.
ExpireNever(c) == FALSE /\ UNCHANGED vars
\* The timeout passes with nothing in the queue.
Expire(c) ==
  /\ pc[c] = "wait" /\ inbox[stamp[c]] = Empty
  /\ Goto(c, "expired")
  /\ UNCHANGED <<op, id, stamp, loaded, unsent, made, budget, tableVars, toolVars, pipeVars>>
  /\ Rest

\* Mutant: a request that timed out stays in the table.
ForgetNothing(c) ==
  /\ pc[c] = "expired" /\ ~lock
  /\ Raise(c)
  /\ UNCHANGED <<loaded, unsent, made, budget, tableVars, pipeVars>> /\ Rest
Forget(c) ==
  /\ pc[c] = "expired" /\ ~lock
  /\ pending' = [pending EXCEPT ![id[c]] = 0]
  /\ Raise(c)
  /\ UNCHANGED <<loaded, unsent, made, budget, nextId, pipeVars>> /\ Rest

-----------------------------------------------------------------------------
(* The server process.                                                       *)

Outside == UNCHANGED <<gil, pending, callerVars, inbox, stdin, dirty, readerVars, closeVars>>

\* The server may cease to read at any time: when it is blocked on its output,
\* of which nobody drains stderr, or of itself.
ServerRead ==
  /\ server = "up" /\ wire # <<>>
  /\ wire' = Tail(wire)
  /\ accepted' = IF Head(wire) = Notice THEN accepted ELSE accepted \cup {Head(wire)}
  /\ UNCHANGED <<server, out>> /\ Outside

\* Once the reader has stopped nobody drains the pipe.
ServerAnswer(request, kind) ==
  /\ server = "up" /\ Len(out) < PipeSize
  /\ out' = Append(out, Message(kind, request.id, request.stamp))
  /\ accepted' = accepted \ {request}
  /\ UNCHANGED <<server, wire>> /\ Outside

\* Text that is no JSON, or JSON that is no response, such as an id that is
\* no number.  Lines without an id are skipped by the reader and left out.
ServerSays(kind) ==
  /\ server = "up" /\ Len(out) < PipeSize
  /\ out' = Append(out, Message(kind, 0, 0))
  /\ UNCHANGED <<serverVars, wire>> /\ Outside

Dies == server' = "dead" /\ accepted' = {} /\ wire' = <<>>
ServerExits ==
  /\ server = "up" /\ Dies
  /\ UNCHANGED out /\ Outside

-----------------------------------------------------------------------------
(* The reader thread.                                                        *)

Elsewhere == UNCHANGED <<gil, callerVars, pipeVars, serverVars, lock, closer>>

\* A line that is no response ends the thread with an exception; nothing is
\* cleaned up.
ReadLine ==
  /\ reader = "read" /\ out # <<>>
  /\ out' = Tail(out)
  /\ line' = IF Head(out).kind \in Answers THEN Head(out) ELSE Empty
  /\ reader' = CASE Head(out).kind \in Answers   -> "pop"
                 [] Head(out).kind = "malformed" -> "fail"
                 [] Head(out).kind = "garbled"   -> "crashed"
  /\ UNCHANGED <<pending, inbox, to, closed>> /\ Elsewhere

ReadEof ==
  /\ reader = "read" /\ out = <<>> /\ server = "dead"
  /\ reader' = "fail"
  /\ UNCHANGED <<pending, inbox, line, to, closed, out>> /\ Elsewhere

\* Mutant: answers are taken to come in the order of the requests.
PopFirst ==
  LET waiting == {i \in Ids : pending[i] # 0}
      first   == {i \in waiting : \A j \in waiting : i <= j}
  IN /\ reader = "pop" /\ ~lock
     /\ to' = {pending[i] : i \in first}
     /\ pending' = [i \in Ids |-> IF i \in first THEN 0 ELSE pending[i]]
     /\ reader' = "put"
     /\ UNCHANGED <<inbox, line, closed, out>> /\ Elsewhere
\* Mutant: the entry is read and not popped.
PopKeeps ==
  /\ reader = "pop" /\ ~lock
  /\ to' = {pending[line.id]} \ {0}
  /\ reader' = "put"
  /\ UNCHANGED <<pending, inbox, line, closed, out>> /\ Elsewhere
Pop ==
  /\ reader = "pop" /\ ~lock
  /\ pending' = [pending EXCEPT ![line.id] = 0]
  /\ to' = {pending[line.id]} \ {0}
  /\ reader' = "put"
  /\ UNCHANGED <<inbox, line, closed, out>> /\ Elsewhere

\* Mutant: the table is cleared before it is listed.
FailNobody ==
  /\ reader = "fail" /\ ~lock
  /\ to' = {}
  /\ pending' = [i \in Ids |-> 0] /\ closed' = TRUE
  /\ reader' = "deliver"
  /\ UNCHANGED <<inbox, line, out>> /\ Elsewhere
\* _fail_pending, under the lock.
FailPending ==
  /\ reader = "fail" /\ ~lock
  /\ to' = {pending[i] : i \in Ids} \ {0}
  /\ pending' = [i \in Ids |-> 0] /\ closed' = TRUE
  /\ reader' = "deliver"
  /\ UNCHANGED <<inbox, line, out>> /\ Elsewhere

\* put blocks on a queue that holds a message (maxsize 1).
Put ==
  /\ reader \in {"put", "deliver"}
  /\ IF to = {}
     THEN /\ reader' = IF reader = "put" THEN "read" ELSE "gone"
          /\ line' = Empty /\ UNCHANGED <<inbox, to>>
     ELSE \E s \in to :
            /\ inbox[s] = Empty
            /\ inbox' = [inbox EXCEPT ![s] = IF reader = "put" THEN line ELSE Failure]
            /\ to' = to \ {s}
            /\ UNCHANGED <<reader, line>>
  /\ UNCHANGED <<pending, closed, out>> /\ Elsewhere

-----------------------------------------------------------------------------
(* close.                                                                    *)

Others == UNCHANGED <<gil, pending, callerVars, inbox, dirty, out, readerVars>>

Close ==
  /\ closer = "idle" /\ ~lock
  /\ IF closed THEN closer' = "done" /\ UNCHANGED <<closed, lock>>
               ELSE closer' = "stdin" /\ closed' = TRUE /\ lock' = TRUE
  /\ UNCHANGED <<stdin, wire, serverVars>> /\ Others

\* Closing the file waits for a blocked writer, lock in hand, and raises when
\* a broken write has left its data in the buffer.
CloseStdin ==
  /\ closer = "stdin" /\ NobodyWrites
  /\ stdin' = "closed" /\ lock' = FALSE
  /\ closer' = IF dirty THEN "raised" ELSE "poll"
  /\ UNCHANGED <<closed, wire, serverVars>> /\ Others

Poll ==
  /\ closer \in {"poll", "terminate"} /\ server = "dead"
  /\ closer' = "done"
  /\ UNCHANGED <<closed, lock, stdin, wire, serverVars>> /\ Others

Terminate ==
  /\ closer = "poll" /\ server = "up"
  /\ closer' = "terminate"
  /\ UNCHANGED <<closed, lock, stdin, wire, serverVars>> /\ Others

\* Mutant: a server that ignores SIGTERM is left alone.
KillNot ==
  /\ closer = "terminate" /\ server = "up"
  /\ closer' = "done"
  /\ UNCHANGED <<closed, lock, stdin, wire, serverVars>> /\ Others
\* The server has ignored SIGTERM for three seconds.
Kill ==
  /\ closer = "terminate" /\ server = "up"
  /\ closer' = "done" /\ Dies
  /\ UNCHANGED <<closed, lock, stdin>> /\ Others

-----------------------------------------------------------------------------
CallerStep(c) ==
  \/ TakeId(c) \/ LoadNext(c) \/ StoreNext(c) \/ Register(c)
  \/ WriteClosed(c) \/ StartWrite(c) \/ FinishWrite(c) \/ WriteBreaks(c)
  \/ Take(c) \/ Expire(c) \/ Forget(c)
ReaderStep == ReadLine \/ ReadEof \/ Pop \/ FailPending \/ Put
CloserStep == CloseStdin \/ Poll \/ Terminate \/ Kill

Next ==
  \/ \E c \in Callers : Tools(c) \/ CallTool(c) \/ CallerStep(c)
  \/ ServerRead \/ ServerExits
  \/ \E request \in accepted, kind \in Answers : ServerAnswer(request, kind)
  \/ \E kind \in Lines : ServerSays(kind)
  \/ ReaderStep \/ Close \/ CloserStep

\* Threads run and timeouts pass.  The server need do nothing, and nobody need
\* call close.
Fairness ==
  /\ \A c \in Callers : WF_vars(CallerStep(c))
  /\ WF_vars(ReaderStep) /\ WF_vars(CloserStep)

Spec == Init /\ [][Next]_vars /\ Fairness

-----------------------------------------------------------------------------
CallerType ==
  /\ pc \in [Callers -> CallerPCs] /\ op \in [Callers -> Ops]
  /\ id \in [Callers -> Ids \cup {0}] /\ stamp \in [Callers -> Stamps \cup {0}]
  /\ loaded \in [Callers -> 0..MaxRequests]
  /\ unsent \subseteq Stamps /\ inbox \in [Stamps -> Messages \cup {Empty, Failure}]
  /\ made + budget <= MaxRequests
  /\ \A c \in Callers : pc[c] \notin {"idle", "begin"} => id[c] # 0 /\ stamp[c] # 0
TableType ==
  /\ gil \in BOOLEAN /\ nextId \in 1..MaxRequests + 1 /\ pending \in [Ids -> Stamps \cup {0}]
  /\ closed \in BOOLEAN /\ lock = (closer = "stdin")
  /\ degraded \in BOOLEAN /\ cache \in {"none", "empty", "full"}
  /\ degraded => cache # "none"
PipeType ==
  /\ Len(wire) <= PipeSize /\ Len(out) <= PipeSize
  /\ server = "dead" => accepted = {} /\ wire = <<>>
  /\ to \subseteq Stamps
  /\ reader = "pop" => line \in Messages

TypeOK == CallerType /\ TableType /\ PipeType

Waits(c) == pc[c] = "wait" /\ inbox[stamp[c]] = Empty

\* Under a global lock a caller only ever gets the answer to its own request,
\* however late it and the others are answered.
OwnAnswer ==
  gil => \A c \in Callers :
    pc[c] = "wait" => inbox[stamp[c]] \in {Empty, Failure}
                      \/ inbox[stamp[c]].stamp = stamp[c]

\* A caller that waits can still be reached: it is in the table, or the reader
\* is about to fill its queue.
NobodyForgotten ==
  gil => \A c \in Callers :
    Waits(c) => pending[id[c]] = stamp[c] \/ stamp[c] \in to

\* The table holds requests in progress, and of the ended ones only those
\* whose write failed.
OnlyUnsentLinger ==
  gil => \A i \in Ids :
    pending[i] # 0 =>
      \/ pending[i] \in unsent
      \/ \E c \in Callers : stamp[c] = pending[i]
                            /\ pc[c] \in {"write", "writing", "wait", "expired"}

\* The reader never waits for a caller: every queue it fills is empty, even
\* when ids collide.
ReaderNeverBlocks == \A s \in to : inbox[s] = Empty

\* close leaves no server behind, unless the reader has given up on it, after
\* a malformed line.
CloseTearsDown ==
  closer = "done" => server = "dead" \/ reader \in {"deliver", "gone"}

\* Nothing but a server that does not read its input keeps a call or close from
\* returning: unless a write is blocked for good, with all that then wait for
\* the file and the lock behind it, every call is answered, fails or times out
\* and close returns, so that the client comes to rest, as requests are bounded.
Busy    == (\E c \in Callers : pc[c] # "idle") \/ closer \notin {"idle", "done", "raised"}
Blocked == (\E c \in Callers : pc[c] = "writing") /\ server = "up" /\ Len(wire) = PipeSize
EverybodyReturns == []<>~Blocked => (Busy ~> ~Busy)
=============================================================================
