------------------------------ MODULE McpProofs ------------------------------
(***************************************************************************)
(* Proofs about McpStdio, for any callers, pipes and number of requests.   *)
(* Under a global interpreter lock each caller gets its own answer, nobody *)
(* who waits is forgotten, and the table empties; with or without one the  *)
(* types hold, the reader is never blocked, and close leaves no server.    *)
(***************************************************************************)
EXTENDS McpStdio, TLAPS, FiniteSetTheorems

\* A message carries the id its queue was registered with.
OwnMessages(kinds) == {Message(kind, i, i) : kind \in kinds, i \in Ids}
Said == OwnMessages(Answers) \cup {Message(kind, 0, 0) : kind \in Lines}

\* A caller's request_id is the number of its queue, and no two callers that
\* are in a request have the same.
CallerInv ==
  /\ made \in 0..MaxRequests /\ nextId = made + 1
  /\ pc \in [Callers -> CallerPCs \ {"load", "store"}] /\ op \in [Callers -> Ops]
  /\ id \in [Callers -> 0..made] /\ stamp = id
  /\ \A c \in Callers : pc[c] \notin {"idle", "begin"} => id[c] # 0
  /\ \A c, d \in Callers : id[c] = id[d] /\ id[c] # 0 => c = d

\* What travels through the pipes and the reader carries its own id.
PipeInv ==
  /\ wire \in Seq({Notice} \cup OwnMessages(Ops)) /\ accepted \subseteq OwnMessages(Ops)
  /\ out \in Seq(Said)
  /\ reader \in {"pop", "put"} => line \in OwnMessages(Answers)
  /\ reader = "put" => to \subseteq {line.id}

\* A queue is empty while it is in the table or about to be filled, and it
\* is nowhere before it is registered.
Untouched(s) == pending[s] = 0 /\ s \notin to /\ inbox[s] = Empty
TableInv ==
  /\ pending \in [Ids -> Nat] /\ \A i \in Ids : pending[i] \in {0, i}
  /\ to \subseteq Ids /\ (reader \notin {"put", "deliver"} => to = {})
  /\ inbox \in [Ids -> OwnMessages(Answers) \cup {Empty, Failure}]
  /\ \A s \in Ids : inbox[s] \in {Empty, Failure} \/ inbox[s].stamp = s
  /\ \A i \in Ids : pending[i] = i => i \notin to
  /\ \A i \in Ids : pending[i] = i => inbox[i] = Empty
  /\ \A s \in to : inbox[s] = Empty

Registered(c) == pc[c] \in {"write", "writing", "wait"} /\ op[c] # "initialized"
ReachInv ==
  /\ \A s \in Ids : s > made => Untouched(s)
  /\ \A c \in Callers : pc[c] = "register" => Untouched(id[c])
  /\ \A c \in Callers : Registered(c) =>
       pending[id[c]] = id[c] \/ id[c] \in to \/ inbox[id[c]] # Empty
  /\ \A c \in Callers : op[c] = "initialized" => pc[c] \in {"write", "writing"}

Inv == CallerInv /\ PipeInv /\ TableInv /\ ReachInv

LEMMA InitInv == Init /\ gil => Inv
<1> SUFFICES ASSUME Init, gil PROVE Inv
  OBVIOUS
<1> USE DEF Init
<1>1. CallerInv
  BY CallersAssumption DEF CallerInv, CallerPCs, Ops
<1>2. PipeInv
  BY DEF PipeInv
<1>3. TableInv
  BY DEF TableInv, Ids, Stamps
<1>4. ReachInv
  BY DEF ReachInv, Untouched, Registered, Ids, Stamps
<1> QED BY <1>1, <1>2, <1>3, <1>4 DEF Inv

\* The messages are different from each other.
LEMMA MessageKinds ==
  /\ Empty # Failure
  /\ \A kinds : \A m \in OwnMessages(kinds) :
       /\ m.kind \in kinds /\ m.id \in Ids /\ m.stamp = m.id
       /\ m = Message(m.kind, m.id, m.id)
  /\ \A m \in OwnMessages(Answers) : m # Empty /\ m # Failure
  /\ \A m \in Said : m.kind \in Answers => m \in OwnMessages(Answers)
  /\ \A m \in OwnMessages(Ops) : m # Notice
<1>1. \A kinds : \A m \in OwnMessages(kinds) :
       /\ m.kind \in kinds /\ m.id \in Ids /\ m.stamp = m.id
       /\ m = Message(m.kind, m.id, m.id)
  BY DEF OwnMessages, Message
<1>2. Empty.id = 0 /\ Failure.id = 0 /\ Notice.id = 0 /\ Empty.kind = "empty" /\ Failure.kind = "failed"
  BY DEF Empty, Failure, Notice, Message
<1>3. 0 \notin Ids
  BY DEF Ids
<1>4. \A m \in Said : m.kind \in Answers => m \in OwnMessages(Answers)
  BY CallersAssumption DEF Said, Answers, Message
<1> QED BY <1>1, <1>2, <1>3, <1>4

\* The number of a caller in a request.
LEMMA CallerId ==
  ASSUME Inv, NEW c \in Callers, pc[c] \notin {"idle", "begin"}
  PROVE  id[c] \in Ids /\ id[c] # 0 /\ stamp[c] = id[c] /\ ~(id[c] > made) /\ id[c] \in 1..made
<1>1. made \in 0..MaxRequests /\ id[c] \in 0..made /\ stamp[c] = id[c] /\ id[c] # 0
  BY DEF Inv, CallerInv
<1> QED BY <1>1, CallersAssumption DEF Ids

\* Taking an id: the number is new.
LEMMA TakeIdStep ==
  ASSUME Inv, gil = TRUE, NEW c \in Callers, TakeId(c)
  PROVE  Inv'
<1> USE DEF TakeId, Goto, Rest, callerVars, toolVars, tableVars, pipeVars, serverVars, readerVars, closeVars
<1>1. CallerInv'
  BY CallersAssumption DEF Inv, CallerInv, CallerPCs
<1>2. PipeInv'
  BY DEF Inv, PipeInv
<1>3. TableInv'
  BY DEF Inv, TableInv
<1>4. made \in 0..MaxRequests /\ made' = made + 1 /\ made + 1 \in Ids /\ nextId = made + 1
  BY CallersAssumption DEF Inv, CallerInv, Ids
<1>5. ReachInv'
  BY <1>4 DEF Inv, CallerInv, ReachInv, Untouched, Registered, Ids
<1> QED BY <1>1, <1>2, <1>3, <1>5 DEF Inv

\* A caller that begins, starts to write or stops waiting stays in the table.
LEMMA MoveStep ==
  ASSUME Inv, gil = TRUE, NEW c \in Callers,
         Tools(c) \/ CallTool(c) \/ StartWrite(c) \/ Expire(c)
  PROVE  Inv'
<1> USE DEF Tools, CallTool, StartWrite, Expire, Goto, Rest, callerVars, toolVars, tableVars,
            pipeVars, serverVars, readerVars, closeVars
<1>1. CallerInv'
  BY DEF Inv, CallerInv, CallerPCs, Ops
<1>2. PipeInv'
  BY DEF Inv, PipeInv
<1>3. TableInv'
  BY DEF Inv, TableInv
<1>4. ReachInv'
  <2>1. \A d \in Callers \ {c} : pc'[d] = pc[d] /\ op'[d] = op[d] /\ id'[d] = id[d]
    BY DEF Inv, CallerInv
  <2>2. op[c] = "initialized" => pc[c] \in {"write", "writing"}
    BY DEF Inv, ReachInv
  <2>3. pc'[c] \in {"begin", "writing", "expired"} /\ id' = id
        /\ (pc'[c] = "writing" => pc[c] = "write" /\ op'[c] = op[c])
        /\ (op'[c] = "initialized" => pc'[c] = "writing")
    BY <2>2 DEF Inv, CallerInv
  <2>4. \A d \in Callers : Registered(d)' => Registered(d)
    BY <2>1, <2>3 DEF Registered
  <2>5. UNCHANGED <<made, pending, to, inbox>>
    OBVIOUS
  <2>6. \A s \in Ids : s > made => Untouched(s)'
    BY <2>5 DEF Inv, ReachInv, Untouched
  <2>7. \A d \in Callers : pc'[d] = "register" => Untouched(id[d])'
    BY <2>1, <2>3, <2>5 DEF Inv, ReachInv, Untouched
  <2>8. \A d \in Callers : Registered(d)' =>
          (pending[id[d]] = id[d] \/ id[d] \in to \/ inbox[id[d]] # Empty)'
    BY <2>3, <2>4, <2>5 DEF Inv, ReachInv
  <2>9. \A d \in Callers : op'[d] = "initialized" => pc'[d] \in {"write", "writing"}
    BY <2>1, <2>3 DEF Inv, ReachInv
  <2> QED BY <2>5, <2>6, <2>7, <2>8, <2>9 DEF ReachInv
<1> QED BY <1>1, <1>2, <1>3, <1>4 DEF Inv

\* Registering puts an untouched queue into the table.
LEMMA RegisterStep ==
  ASSUME Inv, gil = TRUE, NEW c \in Callers, Register(c)
  PROVE  Inv'
<1> USE DEF Register, Goto, Rest, callerVars, toolVars, tableVars, pipeVars, serverVars,
            readerVars, closeVars
<1>0. id[c] \in Ids /\ stamp[c] = id[c] /\ id[c] \in 1..made /\ Untouched(id[c])
  BY CallerId DEF Inv, ReachInv
<1>1. CallerInv'
  BY DEF Inv, CallerInv, CallerPCs
<1>2. PipeInv'
  BY DEF Inv, PipeInv
<1>3. TableInv'
  BY <1>0 DEF Inv, TableInv, Untouched, Ids
<1>4. ReachInv'
  <2>1. \A s \in Ids : s # id[c] => pending'[s] = pending[s]
    BY DEF Inv, TableInv
  <2>2. pending'[id[c]] = id[c]
    BY <1>0 DEF Inv, TableInv
  <2>3. \A d \in Callers : d # c => id[d] # id[c] /\ pc'[d] = pc[d]
    BY <1>0 DEF Inv, CallerInv, Ids
  <2>4. \A d \in Callers : pc[d] \notin {"idle", "begin"} => id[d] \in Ids
    BY CallerId
  <2>5. \A s \in Ids : s > made => Untouched(s)'
    BY <1>0, <2>1, CallersAssumption DEF Inv, CallerInv, ReachInv, Untouched, Ids
  <2>6. pc'[c] = "write" /\ op' = op /\ op[c] # "initialized"
    BY DEF Inv, CallerInv, ReachInv
  <2>7. \A d \in Callers : pc'[d] = "register" => Untouched(id[d])'
    BY <2>1, <2>3, <2>4, <2>6 DEF Inv, ReachInv, Untouched
  <2>8. \A d \in Callers : Registered(d)' =>
          (pending[id[d]] = id[d] \/ id[d] \in to \/ inbox[id[d]] # Empty)'
    BY <2>1, <2>2, <2>3, <2>4, <2>6 DEF Inv, ReachInv, Registered
  <2> QED BY <2>3, <2>5, <2>6, <2>7, <2>8 DEF Inv, ReachInv
<1> QED BY <1>1, <1>2, <1>3, <1>4 DEF Inv

\* A caller that leaves gives up its number; nobody else has it.
LEMMA LeaveCaller ==
  ASSUME CallerInv, NEW c \in Callers, Leave(c), made' = made, nextId' = nextId
  PROVE  CallerInv'
BY DEF CallerInv, Leave, Goto, CallerPCs, Ops

\* The next request of tools keeps the number until it takes a new one.
LEMMA ReturnCaller ==
  ASSUME CallerInv, NEW c \in Callers, id[c] # 0, Return(c), made' = made, nextId' = nextId
  PROVE  /\ CallerInv' /\ pc'[c] \in {"idle", "begin", "write"}
         /\ \A d \in Callers \ {c} : pc'[d] = pc[d] /\ op'[d] = op[d] /\ id'[d] = id[d]
         /\ op'[c] = "initialized" <=> pc'[c] = "write"
<1>1. op[c] \in Ops
  BY DEF CallerInv
<1>2. CASE op[c] \in {"list", "call"}
  BY <1>2, LeaveCaller DEF Return, Leave, Goto, CallerInv
<1>3. CASE op[c] \in {"initialize", "initialized"}
  BY <1>3 DEF Return, Continue, Goto, CallerInv, CallerPCs, Ops
<1> QED BY <1>1, <1>2, <1>3 DEF Ops

LEMMA RaiseCaller ==
  ASSUME CallerInv, NEW c \in Callers, Raise(c), made' = made, nextId' = nextId
  PROVE  /\ CallerInv' /\ pc'[c] \in {"idle", "begin", "write"}
         /\ \A d \in Callers \ {c} : pc'[d] = pc[d] /\ op'[d] = op[d] /\ id'[d] = id[d]
         /\ op'[c] = "initialized" <=> pc'[c] = "write"
BY LeaveCaller DEF Raise, Leave, Goto, CallerInv

\* What remains reachable when caller c is through with its queue, or with
\* the notification.
LEMMA DoneReach ==
  ASSUME Inv, NEW c \in Callers, UNCHANGED <<made, to>>,
         \A s \in Ids : s # id[c] => pending'[s] = pending[s] /\ inbox'[s] = inbox[s],
         pc[c] \in {"write", "writing", "wait", "expired"},
         pc'[c] \in {"idle", "begin", "write"},
         op'[c] = "initialized" <=> pc'[c] = "write",
         \A d \in Callers \ {c} : pc'[d] = pc[d] /\ op'[d] = op[d] /\ id'[d] = id[d]
  PROVE  ReachInv'
<1>1. id[c] \in 1..made /\ id[c] # 0
  BY CallerId
<1>2. \A d \in Callers \ {c} : pc[d] \notin {"idle", "begin"} => id[d] \in Ids /\ id[d] # id[c]
  BY <1>1, CallerId DEF Inv, CallerInv
<1>3. \A s \in Ids : s > made => Untouched(s)'
  BY <1>1 DEF Inv, CallerInv, ReachInv, Untouched, Ids
<1>4. \A d \in Callers : (pc[d] = "register")' => Untouched(id[d])'
  BY <1>2 DEF Inv, ReachInv, Untouched
<1>5. \A d \in Callers : Registered(d)' =>
          (pending[id[d]] = id[d] \/ id[d] \in to \/ inbox[id[d]] # Empty)'
  BY <1>2 DEF Inv, ReachInv, Registered
<1>6. \A d \in Callers : (op[d] = "initialized" => pc[d] \in {"write", "writing"})'
  BY DEF Inv, ReachInv
<1> QED BY <1>3, <1>4, <1>5, <1>6 DEF ReachInv

\* A write that fails, and a request that is forgotten.
LEMMA GiveUpStep ==
  ASSUME Inv, gil = TRUE, NEW c \in Callers, WriteClosed(c) \/ WriteBreaks(c) \/ Forget(c)
  PROVE  Inv'
<1> USE DEF WriteClosed, WriteBreaks, Forget, Rest, tableVars, pipeVars, serverVars, readerVars,
            closeVars
<1>0. /\ CallerInv /\ Raise(c) /\ UNCHANGED <<made, nextId, to, inbox>>
      /\ pc[c] \in {"write", "writing", "wait", "expired"}
      /\ pending' = pending \/ pending' = [pending EXCEPT ![id[c]] = 0]
  BY DEF Inv
<1>1. CallerInv' /\ ReachInv'
  <2>1. \A s \in Ids : s # id[c] => pending'[s] = pending[s] /\ inbox'[s] = inbox[s]
    BY <1>0 DEF Inv, TableInv
  <2>2. CallerInv' /\ pc'[c] \in {"idle", "begin", "write"}
         /\ (\A d \in Callers \ {c} : pc'[d] = pc[d] /\ op'[d] = op[d] /\ id'[d] = id[d])
         /\ (op'[c] = "initialized" <=> pc'[c] = "write")
    <3>1. CallerInv /\ Raise(c) /\ made' = made /\ nextId' = nextId
      BY <1>0
    <3> QED BY <3>1, RaiseCaller
  <2>3. ReachInv'
    BY <1>0, <2>1, <2>2, DoneReach
  <2> QED BY <2>2, <2>3
<1>2. PipeInv'
  BY DEF Inv, PipeInv
<1>3. TableInv'
  <2>1. pending' \in [Ids -> Nat] /\ \A i \in Ids : pending'[i] = pending[i] \/ pending'[i] = 0
    BY <1>0 DEF Inv, TableInv
  <2>2. 0 \notin Ids
    BY DEF Ids
  <2> QED BY <1>0, <2>1, <2>2 DEF Inv, TableInv
<1> QED BY <1>1, <1>2, <1>3 DEF Inv

\* A write that is done.
LEMMA FinishWriteStep ==
  ASSUME Inv, gil = TRUE, NEW c \in Callers, FinishWrite(c)
  PROVE  Inv'
<1> USE DEF FinishWrite, Rest, tableVars, pipeVars, serverVars, readerVars, closeVars
<1>0. CallerInv /\ id[c] \in Ids /\ stamp[c] = id[c] /\ op[c] \in Ops /\ id[c] # 0
  BY CallerId DEF Inv, CallerInv
<1>1. CASE op[c] = "initialized"
  <2>1. CallerInv' /\ ReachInv'
    <3>1. CallerInv' /\ pc'[c] \in {"idle", "begin", "write"}
           /\ (\A d \in Callers \ {c} : pc'[d] = pc[d] /\ op'[d] = op[d] /\ id'[d] = id[d])
           /\ (op'[c] = "initialized" <=> pc'[c] = "write")
      <4>1. Return(c) /\ made' = made /\ nextId' = nextId /\ CallerInv /\ id[c] # 0
        BY <1>0, <1>1
      <4> QED BY <4>1, ReturnCaller
    <3>2. pc[c] \in {"write", "writing", "wait", "expired"} /\ UNCHANGED <<made, to, pending, inbox>>
      OBVIOUS
    <3>3. ReachInv'
      BY <3>1, <3>2, DoneReach
    <3> QED BY <3>1, <3>3
  <2>2. PipeInv'
    BY <1>1 DEF Inv, PipeInv
  <2>3. TableInv'
    BY <1>1 DEF Inv, TableInv
  <2> QED BY <2>1, <2>2, <2>3 DEF Inv
<1>2. CASE op[c] # "initialized"
  <2>1. CallerInv'
    BY <1>2 DEF Inv, CallerInv, Goto, CallerPCs
  <2>2. PipeInv'
    <3>1. Message(op[c], id[c], stamp[c]) \in OwnMessages(Ops)
      BY <1>0 DEF OwnMessages
    <3> QED BY <1>2, <3>1 DEF Inv, PipeInv
  <2>3. TableInv'
    BY <1>2 DEF Inv, TableInv
  <2>4. ReachInv'
    BY <1>2 DEF Inv, CallerInv, ReachInv, Untouched, Registered, Goto
  <2> QED BY <2>1, <2>2, <2>3, <2>4 DEF Inv
<1> QED BY <1>1, <1>2

\* A caller takes what is in its queue.
LEMMA TakeStep ==
  ASSUME Inv, gil = TRUE, NEW c \in Callers, Take(c)
  PROVE  Inv'
<1> USE DEF Take, tableVars, pipeVars, serverVars, readerVars, closeVars
<1>0. /\ CallerInv /\ id[c] \in Ids /\ stamp[c] = id[c] /\ id[c] # 0
      /\ UNCHANGED <<made, nextId, to, pending>>
      /\ inbox' = [inbox EXCEPT ![id[c]] = Empty]
  BY CallerId DEF Inv
<1>1. CallerInv' /\ ReachInv'
  <2>1. \A s \in Ids : s # id[c] => pending'[s] = pending[s] /\ inbox'[s] = inbox[s]
    BY <1>0 DEF Inv, TableInv
  <2>2. CallerInv' /\ pc'[c] \in {"idle", "begin", "write"}
         /\ (\A d \in Callers \ {c} : pc'[d] = pc[d] /\ op'[d] = op[d] /\ id'[d] = id[d])
         /\ (op'[c] = "initialized" <=> pc'[c] = "write")
    <3>1. (Raise(c) \/ Return(c)) /\ made' = made /\ nextId' = nextId /\ CallerInv /\ id[c] # 0
      BY <1>0
    <3> QED BY <3>1, RaiseCaller, ReturnCaller
  <2>3. pc[c] \in {"write", "writing", "wait", "expired"}
    OBVIOUS
  <2>4. ReachInv'
    BY <1>0, <2>1, <2>2, <2>3, DoneReach
  <2> QED BY <2>2, <2>4
<1>2. PipeInv'
  BY DEF Inv, PipeInv
<1>3. TableInv'
  <2>1. \A s \in Ids : inbox'[s] = inbox[s] \/ inbox'[s] = Empty
    BY <1>0 DEF Inv, TableInv
  <2>2. inbox' \in [Ids -> OwnMessages(Answers) \cup {Empty, Failure}]
    BY <1>0 DEF Inv, TableInv
  <2> QED BY <1>0, <2>1, <2>2 DEF Inv, TableInv
<1> QED BY <1>1, <1>2, <1>3 DEF Inv

-----------------------------------------------------------------------------
\* The server and close only touch the pipes.
LEMMA OutsideStep ==
  ASSUME Inv, gil = TRUE,
         UNCHANGED <<gil, pending, callerVars, inbox, readerVars>>, PipeInv'
  PROVE  Inv'
<1> USE DEF callerVars, toolVars, readerVars
<1>1. CallerInv' /\ TableInv'
  BY DEF Inv, CallerInv, TableInv
<1>2. ReachInv'
  BY DEF Inv, ReachInv, Untouched, Registered
<1> QED BY <1>1, <1>2 DEF Inv

LEMMA ServerStep ==
  ASSUME Inv, gil = TRUE,
         \/ ServerRead \/ ServerExits
         \/ \E request \in accepted, kind \in Answers : ServerAnswer(request, kind)
         \/ \E kind \in Lines : ServerSays(kind)
  PROVE  Inv'
<1> USE DEF Outside, Dies, serverVars
<1>0. PipeInv /\ UNCHANGED <<gil, pending, callerVars, inbox, readerVars>>
  BY DEF Inv, ServerRead, ServerExits, ServerAnswer, ServerSays
<1>a. UNCHANGED <<reader, line, to>>
  BY <1>0 DEF readerVars
<1>1. CASE ServerRead
  BY <1>0, <1>a, <1>1, OutsideStep DEF ServerRead, PipeInv
<1>2. CASE ServerExits
  BY <1>0, <1>a, <1>2, OutsideStep DEF ServerExits, PipeInv
<1>3. ASSUME NEW request \in accepted, NEW kind \in Answers, ServerAnswer(request, kind)
      PROVE  Inv'
  <2>1. request \in OwnMessages(Ops)
    BY <1>0 DEF PipeInv
  <2>2. Message(kind, request.id, request.stamp) \in Said
    <3>1. request.id \in Ids /\ request.stamp = request.id
      BY <2>1, MessageKinds
    <3> QED BY <3>1 DEF Said, OwnMessages
  <2>3. PipeInv'
    BY <1>0, <1>a, <1>3, <2>2 DEF ServerAnswer, PipeInv
  <2> QED BY <1>0, <2>3, OutsideStep
<1>4. ASSUME NEW kind \in Lines, ServerSays(kind)
      PROVE  Inv'
  <2>1. Message(kind, 0, 0) \in Said
    BY DEF Said
  <2>2. PipeInv'
    BY <1>0, <1>a, <1>4, <2>1 DEF ServerSays, PipeInv
  <2> QED BY <1>0, <2>2, OutsideStep
<1> QED BY <1>1, <1>2, <1>3, <1>4

LEMMA CloseStep ==
  ASSUME Inv, gil = TRUE, Close \/ CloserStep
  PROVE  Inv'
<1> USE DEF Close, CloserStep, CloseStdin, Poll, Terminate, Kill, Others, Dies, serverVars
<1>0. /\ PipeInv /\ UNCHANGED <<gil, pending, callerVars, inbox, readerVars, out>>
      /\ (wire' = wire /\ accepted' = accepted) \/ (wire' = <<>> /\ accepted' = {})
  BY DEF Inv
<1>1. PipeInv'
  <2>1. UNCHANGED <<reader, line, to, out>>
    BY <1>0 DEF readerVars
  <2>2. wire' \in Seq({Notice} \cup OwnMessages(Ops)) /\ accepted' \subseteq OwnMessages(Ops)
    <3>1. (wire' = wire /\ accepted' = accepted) \/ (wire' = <<>> /\ accepted' = {})
      BY <1>0
    <3>2. <<>> \in Seq({Notice} \cup OwnMessages(Ops))
      OBVIOUS
    <3>3. wire \in Seq({Notice} \cup OwnMessages(Ops)) /\ accepted \subseteq OwnMessages(Ops)
      BY <1>0 DEF PipeInv
    <3> QED BY <3>1, <3>2, <3>3
  <2> QED BY <1>0, <2>1, <2>2 DEF PipeInv
<1> QED BY <1>0, <1>1, OutsideStep

-----------------------------------------------------------------------------
\* The reader.
LEMMA ReadStep ==
  ASSUME Inv, gil = TRUE, ReadLine \/ ReadEof
  PROVE  Inv'
<1> USE DEF Elsewhere, callerVars, toolVars, pipeVars, serverVars
<1>1. CallerInv'
  BY DEF Inv, CallerInv, ReadLine, ReadEof
<1>2. TableInv' /\ ReachInv'
  <2>1. UNCHANGED <<pending, to, inbox, made, pc, op, id>>
    BY DEF ReadLine, ReadEof
  <2>2. reader' \notin {"put", "deliver"} => to' = {}
    BY <2>1 DEF ReadLine, ReadEof, Inv, TableInv
  <2>3. TableInv'
    BY <2>1, <2>2 DEF Inv, TableInv
  <2>4. ReachInv'
    BY <2>1 DEF Inv, ReachInv, Untouched, Registered
  <2> QED BY <2>3, <2>4
<1>3. PipeInv'
  <2>1. CASE ReadLine
    <3>1. Head(out) \in Said /\ out' \in Seq(Said)
      BY <2>1 DEF ReadLine, Inv, PipeInv
    <3>2. Head(out).kind \in Answers => line' \in OwnMessages(Answers)
      BY <2>1, <3>1, MessageKinds DEF ReadLine
    <3>3. Head(out).kind \in Answers \cup {"malformed", "garbled"}
      BY <3>1, CallersAssumption, MessageKinds DEF Said, Message
    <3>4. reader' \in {"pop", "fail", "crashed"} /\ (reader' = "pop" => Head(out).kind \in Answers)
      BY <2>1, <3>3 DEF ReadLine, Answers
    <3> QED BY <2>1, <3>1, <3>2, <3>4 DEF ReadLine, Inv, PipeInv
  <2>2. CASE ReadEof
    BY <2>2 DEF ReadEof, Inv, PipeInv
  <2> QED BY <2>1, <2>2
<1> QED BY <1>1, <1>2, <1>3 DEF Inv

\* Queues move from the table into the reader's hands, each with its own id.
LEMMA PopStep ==
  ASSUME Inv, gil = TRUE, Pop \/ FailPending
  PROVE  Inv'
<1> USE DEF Pop, FailPending, Elsewhere, callerVars, toolVars, pipeVars, serverVars
<1>0. /\ UNCHANGED <<inbox, made, nextId, pc, op, id, stamp, wire, accepted, out, line>>
      /\ reader' \in {"put", "deliver"} /\ to = {} /\ 0 \notin Ids
      /\ reader' = "put" => Pop
  <2>1. UNCHANGED <<inbox, made, nextId, pc, op, id, stamp, wire, accepted, out, line>>
    OBVIOUS
  <2>2. reader \in {"pop", "fail"} /\ reader' \in {"put", "deliver"} /\ (reader' = "put" => Pop)
    OBVIOUS
  <2>3. to = {} /\ 0 \notin Ids
    BY <2>2 DEF Inv, TableInv, Ids
  <2> QED BY <2>1, <2>2, <2>3
<1>1. /\ pending' \in [Ids -> Nat] /\ \A i \in Ids : pending'[i] \in {0, pending[i]}
      /\ to' \subseteq Ids /\ \A i \in to' : pending[i] = i /\ pending'[i] = 0
      /\ \A i \in Ids : pending[i] = i => pending'[i] = i \/ i \in to'
  <2>1. CASE Pop
    <3>1. line.id \in Ids
      BY <2>1, MessageKinds DEF Inv, PipeInv
    <3> QED BY <1>0, <2>1, <3>1 DEF Inv, TableInv
  <2>2. CASE FailPending
    BY <1>0, <2>2 DEF Inv, TableInv
  <2> QED BY <2>1, <2>2
<1>2. CallerInv'
  BY <1>0 DEF Inv, CallerInv
<1>3. PipeInv'
  <2>1. reader' = "put" => line \in OwnMessages(Answers) /\ to' \subseteq {line.id}
    BY <1>0, MessageKinds DEF Inv, PipeInv, TableInv
  <2> QED BY <1>0, <2>1 DEF Inv, PipeInv
<1>4. TableInv'
  BY <1>0, <1>1 DEF Inv, TableInv
<1>5. ReachInv'
  <2>1. \A s \in Ids : Untouched(s) => Untouched(s)'
    BY <1>0, <1>1 DEF Untouched
  <2>2. \A c \in Callers : pc[c] \in {"register", "write", "writing", "wait"} => id[c] \in Ids
    BY CallerId
  <2>3. \A c \in Callers : Registered(c)' =>
           (pending[id[c]] = id[c] \/ id[c] \in to \/ inbox[id[c]] # Empty)'
    BY <1>0, <1>1, <2>2 DEF Inv, ReachInv, Registered
  <2>4. \A c \in Callers : pc'[c] = "register" => Untouched(id[c])'
    <3> SUFFICES ASSUME NEW c \in Callers, pc[c] = "register" PROVE Untouched(id[c])'
      BY <1>0
    <3>1. id[c] \in Ids /\ Untouched(id[c]) /\ id'[c] = id[c]
      BY <1>0, <2>2 DEF Inv, ReachInv
    <3> QED BY <2>1, <3>1, <1>0, <1>1 DEF Untouched
  <2>5. \A s \in Ids : s > made' => Untouched(s)'
    BY <1>0, <2>1 DEF Inv, ReachInv
  <2> QED BY <1>0, <2>3, <2>4, <2>5 DEF Inv, ReachInv
<1> QED BY <1>2, <1>3, <1>4, <1>5 DEF Inv

\* The reader fills an empty queue, with its own answer or with a failure.
LEMMA PutStep ==
  ASSUME Inv, gil = TRUE, Put
  PROVE  Inv'
<1> USE DEF Elsewhere, callerVars, toolVars, pipeVars, serverVars
<1>0. UNCHANGED <<pending, made, nextId, pc, op, id, stamp, wire, accepted, out>>
  BY DEF Put
<1>1. CallerInv'
  BY <1>0 DEF Inv, CallerInv
<1>2. CASE to = {}
  <2>1. UNCHANGED <<inbox, to>> /\ reader' \in {"read", "gone"}
    BY <1>2 DEF Put
  <2>2. PipeInv' /\ TableInv'
    BY <1>0, <1>2, <2>1 DEF Inv, PipeInv, TableInv
  <2>3. ReachInv'
    BY <1>0, <2>1 DEF Inv, ReachInv, Untouched, Registered
  <2> QED BY <1>1, <2>2, <2>3 DEF Inv
<1>3. CASE to # {}
  <2> DEFINE message == IF reader = "put" THEN line ELSE Failure
  <2>1. PICK s \in to : /\ inbox' = [inbox EXCEPT ![s] = message]
                        /\ to' = to \ {s} /\ UNCHANGED <<reader, line>>
    BY <1>3 DEF Put
  <2>2. s \in Ids /\ reader \in {"put", "deliver"} /\ pending[s] # s
    BY DEF Put, Inv, TableInv
  <2>3. /\ message \in OwnMessages(Answers) \cup {Failure} /\ message # Empty
        /\ message = Failure \/ message.stamp = s
    BY <2>1, <2>2, MessageKinds DEF Inv, PipeInv
  <2> HIDE DEF message
  <2>4. PipeInv'
    BY <1>0, <2>1 DEF Inv, PipeInv
  <2>5. TableInv'
    BY <1>0, <2>1, <2>2, <2>3 DEF Inv, TableInv
  <2>6. inbox'[s] = message /\ \A t \in Ids \ {s} : inbox'[t] = inbox[t]
    BY <2>1, <2>2 DEF Inv, TableInv
  <2>7. ReachInv'
    <3>1. ~Untouched(s) /\ \A t \in Ids : Untouched(t) => Untouched(t)'
      BY <1>0, <2>1, <2>6 DEF Untouched
    <3>2. \A c \in Callers : pc[c] \in {"register", "write", "writing", "wait"} => id[c] \in Ids
      BY CallerId
    <3>3. \A c \in Callers : Registered(c)' =>
             (pending[id[c]] = id[c] \/ id[c] \in to \/ inbox[id[c]] # Empty)'
      BY <1>0, <2>1, <2>3, <2>6, <3>2 DEF Inv, ReachInv, Registered
    <3>4. \A c \in Callers : pc'[c] = "register" => Untouched(id[c])'
      <4> SUFFICES ASSUME NEW c \in Callers, pc[c] = "register" PROVE Untouched(id[c])'
        BY <1>0
      <4>1. id[c] \in Ids /\ Untouched(id[c]) /\ id'[c] = id[c] /\ id[c] # s
        BY <1>0, <3>1, <3>2 DEF Inv, ReachInv
      <4> QED BY <1>0, <2>1, <2>6, <4>1 DEF Untouched
    <3>5. \A t \in Ids : t > made' => Untouched(t)'
      BY <1>0, <3>1 DEF Inv, ReachInv
    <3> QED BY <1>0, <3>3, <3>4, <3>5 DEF Inv, ReachInv
  <2> QED BY <1>1, <2>4, <2>5, <2>7 DEF Inv
<1> QED BY <1>2, <1>3

-----------------------------------------------------------------------------
LEMMA SameGil ==
  ASSUME [Next]_vars
  PROVE  gil' = gil
BY DEF Next, vars, CallerStep, ReaderStep, CloserStep, Tools, CallTool, TakeId, LoadNext,
       StoreNext, Register, WriteClosed, StartWrite, FinishWrite, WriteBreaks, Take, Expire,
       Forget, ServerRead, ServerExits, ServerAnswer, ServerSays, ReadLine, ReadEof, Pop,
       FailPending, Put, Close, CloseStdin, Poll, Terminate, Kill, Rest, Outside, Elsewhere,
       Others

LEMMA Preserved ==
  ASSUME Inv, gil = TRUE, [Next]_vars
  PROVE  Inv'
<1>2. ASSUME NEW c \in Callers, Tools(c) \/ CallTool(c) \/ CallerStep(c)
      PROVE  Inv'
  <2>1. ~LoadNext(c) /\ ~StoreNext(c)
    BY DEF Inv, CallerInv, LoadNext, StoreNext
  <2> QED BY <1>2, <2>1, TakeIdStep, MoveStep, RegisterStep, GiveUpStep, FinishWriteStep, TakeStep
          DEF CallerStep
<1>3. CASE ServerRead \/ ServerExits
           \/ (\E request \in accepted, kind \in Answers : ServerAnswer(request, kind))
           \/ (\E kind \in Lines : ServerSays(kind))
  BY <1>3, ServerStep
<1>4. CASE ReaderStep
  BY <1>4, ReadStep, PopStep, PutStep DEF ReaderStep
<1>5. CASE Close \/ CloserStep
  BY <1>5, CloseStep
<1>6. CASE UNCHANGED vars
  BY <1>6 DEF vars, callerVars, toolVars, tableVars, pipeVars, serverVars, readerVars, Inv,
              CallerInv, PipeInv, TableInv, ReachInv, Untouched, Registered
<1> QED BY <1>2, <1>3, <1>4, <1>5, <1>6 DEF Next

LEMMA Invariance == Spec => []((gil = TRUE) => Inv)
<1>1. Init => ((gil = TRUE) => Inv)
  BY InitInv
<1>2. ((gil = TRUE) => Inv) /\ [Next]_vars => ((gil = TRUE) => Inv)'
  <2> SUFFICES ASSUME (gil = TRUE) => Inv, [Next]_vars, gil' = TRUE PROVE Inv'
    OBVIOUS
  <2>1. gil = TRUE
    BY SameGil
  <2> QED BY <2>1, Preserved
<1> QED BY <1>1, <1>2, PTL DEF Spec

\* Under a global lock a caller only gets the answer to its own request:
\* _request, _read_loop and _fail_pending.
THEOREM Own == Spec => []OwnAnswer
<1>1. ((gil = TRUE) => Inv) => OwnAnswer
  <2> SUFFICES ASSUME Inv, NEW c \in Callers, pc[c] = "wait"
               PROVE  inbox[stamp[c]] \in {Empty, Failure} \/ inbox[stamp[c]].stamp = stamp[c]
    BY DEF OwnAnswer
  <2>1. stamp[c] \in Ids
    BY CallerId
  <2> QED BY <2>1 DEF Inv, TableInv
<1> QED BY <1>1, Invariance, PTL

\* A caller that waits is in the table or the reader is about to fill its queue.
THEOREM Reached == Spec => []NobodyForgotten
<1>1. ((gil = TRUE) => Inv) => NobodyForgotten
  <2> SUFFICES ASSUME Inv, NEW c \in Callers, Waits(c)
               PROVE  pending[id[c]] = stamp[c] \/ stamp[c] \in to
    BY DEF NobodyForgotten
  <2>1. stamp[c] = id[c] /\ pc[c] = "wait" /\ inbox[id[c]] = Empty
    BY CallerId DEF Waits
  <2>2. Registered(c)
    BY <2>1 DEF Registered, Inv, ReachInv
  <2> QED BY <2>1, <2>2 DEF Inv, ReachInv
<1> QED BY <1>1, Invariance, PTL

-----------------------------------------------------------------------------
(* With or without a global lock: the counters, the queues and close.        *)

\* The stamps whose caller is through with advancing _next_id.
Advancing == {"load", "store"}
Stored == {s \in 1..made : \A c \in Callers : pc[c] \in Advancing => stamp[c] # s}

CallerFree ==
  /\ made \in 0..MaxRequests /\ unsent \subseteq Stamps
  /\ pc \in [Callers -> CallerPCs] /\ op \in [Callers -> Ops]
  /\ id \in [Callers -> Ids \cup {0}] /\ stamp \in [Callers -> 0..made]
  /\ loaded \in [Callers -> Nat]
  /\ \A c \in Callers : pc[c] \notin {"idle", "begin"} => id[c] # 0 /\ stamp[c] # 0
  /\ \A c, d \in Callers : stamp[c] = stamp[d] /\ stamp[c] # 0 => c = d

\* _next_id may lose updates, so it only ever lags behind the requests that
\* have stored it.
CountInv ==
  /\ nextId \in Nat \ {0} /\ nextId <= 1 + Cardinality(Stored)
  /\ \A c \in Callers : pc[c] = "store" => loaded[c] <= 1 + Cardinality(Stored)
  /\ \A c \in Callers : pc[c] # "store" => loaded[c] = 0

LEMMA StoredType ==
  ASSUME made \in 0..MaxRequests
  PROVE  /\ Stored \subseteq 1..made /\ IsFiniteSet(Stored) /\ Cardinality(Stored) \in Nat
         /\ Cardinality(Stored) <= made
         /\ \A x \in 1..made : x \notin Stored => Cardinality(Stored) < made
<1>1. made \in Nat /\ Stored \subseteq 1..made
  BY CallersAssumption DEF Stored
<1>2. IsFiniteSet(1..made) /\ Cardinality(1..made) = made
  BY <1>1, FS_Interval
<1>3. IsFiniteSet(Stored) /\ Cardinality(Stored) <= made
      /\ (Cardinality(Stored) = made => Stored = 1..made)
  BY <1>1, <1>2, FS_Subset
<1>4. Cardinality(Stored) \in Nat
  BY <1>3, FS_CardinalityType
<1> QED BY <1>1, <1>3, <1>4

\* Only a caller that loads or stores _next_id, or a new stamp, matters to it.
LEMMA StoredKept ==
  ASSUME made' = made,
         \A c \in Callers : /\ pc'[c] \in Advancing <=> pc[c] \in Advancing
                            /\ pc[c] \in Advancing => stamp'[c] = stamp[c]
  PROVE  Stored' = Stored
BY DEF Stored

LEMMA CountKept ==
  ASSUME CallerFree, CountInv, made' = made, nextId' = nextId, loaded' = loaded,
         \A c \in Callers : /\ pc'[c] \in Advancing <=> pc[c] \in Advancing
                            /\ pc'[c] = "store" <=> pc[c] = "store"
                            /\ pc[c] \in Advancing => stamp'[c] = stamp[c]
  PROVE  CountInv'
<1>1. Stored' = Stored
  BY StoredKept
<1> QED BY <1>1 DEF CountInv

\* Whatever a caller does once its id is its own.
LEMMA CallerMoves ==
  ASSUME CallerFree, CountInv, NEW c \in Callers, pc[c] \notin Advancing,
         made' = made, nextId' = nextId, loaded' = loaded, unsent' \subseteq Stamps,
         NEW p \in CallerPCs \ Advancing, pc' = [pc EXCEPT ![c] = p],
         NEW o \in Ops, op' = [op EXCEPT ![c] = o],
         \/ /\ id' = id /\ stamp' = stamp
            /\ (id[c] # 0 /\ stamp[c] # 0) \/ p \in {"idle", "begin"}
         \/ id' = [id EXCEPT ![c] = 0] /\ stamp' = [stamp EXCEPT ![c] = 0] /\ p = "idle"
  PROVE  CallerFree' /\ CountInv'
<1>1. /\ made \in 0..MaxRequests /\ made \in Nat
      /\ pc \in [Callers -> CallerPCs] /\ op \in [Callers -> Ops]
      /\ id \in [Callers -> Ids \cup {0}] /\ stamp \in [Callers -> 0..made]
  BY CallersAssumption DEF CallerFree
<1>2. /\ pc' \in [Callers -> CallerPCs] /\ op' \in [Callers -> Ops]
      /\ id' \in [Callers -> Ids \cup {0}] /\ stamp' \in [Callers -> 0..made]
  BY <1>1
<1>3. \A d \in Callers : d # c => pc'[d] = pc[d] /\ id'[d] = id[d] /\ stamp'[d] = stamp[d]
  BY <1>1
<1>4. pc'[c] = p
  BY <1>1
<1>5. \/ /\ id'[c] = id[c] /\ stamp'[c] = stamp[c]
         /\ (id[c] # 0 /\ stamp[c] # 0) \/ p \in {"idle", "begin"}
      \/ stamp'[c] = 0 /\ p = "idle"
  BY <1>1
<1>6. \A d \in Callers : pc'[d] \notin {"idle", "begin"} => id'[d] # 0 /\ stamp'[d] # 0
  BY <1>3, <1>4, <1>5 DEF CallerFree
<1>7. \A d, e \in Callers : stamp'[d] = stamp'[e] /\ stamp'[d] # 0 => d = e
  BY <1>3, <1>5 DEF CallerFree
<1>8. CallerFree'
  BY <1>1, <1>2, <1>6, <1>7 DEF CallerFree
<1>9. CountInv'
  BY <1>3, <1>4, CountKept DEF Advancing
<1> QED BY <1>8, <1>9

\* The ways a request or a notification ends.
LEMMA CallerEnds ==
  ASSUME CallerFree, CountInv, NEW c \in Callers,
         pc[c] \in {"write", "writing", "wait", "expired"},
         made' = made, nextId' = nextId, loaded' = loaded, unsent' \subseteq Stamps,
         Leave(c) \/ Return(c)
  PROVE  CallerFree' /\ CountInv'
<1>1. /\ id[c] # 0 /\ stamp[c] # 0 /\ op[c] \in Ops /\ pc[c] \notin Advancing
  BY DEF CallerFree, Advancing
<1>2. ASSUME Leave(c)
      PROVE  CallerFree' /\ CountInv'
  <2>1. /\ pc' = [pc EXCEPT ![c] = "idle"] /\ op' = [op EXCEPT ![c] = "call"]
        /\ id' = [id EXCEPT ![c] = 0] /\ stamp' = [stamp EXCEPT ![c] = 0]
    BY <1>2 DEF Leave, Goto
  <2>2. "idle" \in CallerPCs \ Advancing /\ "call" \in Ops
    BY DEF CallerPCs, Advancing, Ops
  <2> QED BY <1>1, <2>1, <2>2, CallerMoves
<1>3. ASSUME NEW p \in {"write", "begin"}, NEW o \in {"initialized", "list"}, Continue(c, p, o)
      PROVE  CallerFree' /\ CountInv'
  <2>1. /\ pc' = [pc EXCEPT ![c] = p] /\ op' = [op EXCEPT ![c] = o]
        /\ id' = id /\ stamp' = stamp
    BY <1>3 DEF Continue, Goto
  <2>2. p \in CallerPCs \ Advancing /\ o \in Ops
    BY DEF CallerPCs, Advancing, Ops
  <2> QED BY <1>1, <2>1, <2>2, CallerMoves
<1>4. Return(c) => \/ Leave(c) \/ Continue(c, "write", "initialized")
                   \/ Continue(c, "begin", "list")
  BY <1>1 DEF Return, Ops
<1>5. Continue(c, "write", "initialized") => CallerFree' /\ CountInv'
  BY <1>3
<1>6. Continue(c, "begin", "list") => CallerFree' /\ CountInv'
  BY <1>3
<1> QED BY <1>2, <1>4, <1>5, <1>6

LEMMA TakeIdFree ==
  ASSUME CallerFree, CountInv, gil \in BOOLEAN, NEW c \in Callers, TakeId(c)
  PROVE  CallerFree' /\ CountInv'
<1>1. /\ pc[c] = "begin" /\ made < MaxRequests /\ made' = made + 1
      /\ id' = [id EXCEPT ![c] = nextId] /\ stamp' = [stamp EXCEPT ![c] = made + 1]
      /\ UNCHANGED <<op, loaded, unsent>>
      /\ \/ gil = TRUE /\ nextId' = nextId + 1 /\ pc' = [pc EXCEPT ![c] = "register"]
         \/ gil = FALSE /\ nextId' = nextId /\ pc' = [pc EXCEPT ![c] = "load"]
  BY DEF TakeId, Goto
<1>2. /\ made \in 0..MaxRequests /\ made \in Nat /\ MaxRequests \in Nat
      /\ pc \in [Callers -> CallerPCs] /\ op \in [Callers -> Ops]
      /\ id \in [Callers -> Ids \cup {0}] /\ stamp \in [Callers -> 0..made]
  BY CallersAssumption DEF CallerFree
<1>3. /\ IsFiniteSet(Stored) /\ Cardinality(Stored) \in Nat /\ Cardinality(Stored) <= made
      /\ Stored \subseteq 1..made
  BY <1>2, StoredType
<1>4. nextId \in Ids /\ nextId # 0 /\ nextId \in Nat
  BY <1>1, <1>2, <1>3 DEF CountInv, Ids
<1>5. \A d \in Callers : d # c => pc'[d] = pc[d] /\ id'[d] = id[d] /\ stamp'[d] = stamp[d]
  BY <1>1, <1>2
<1>6. pc'[c] \in {"register", "load"} /\ id'[c] = nextId /\ stamp'[c] = made + 1
  BY <1>1, <1>2
<1>7. \A d \in Callers : stamp[d] \in 0..made /\ stamp[d] # made + 1
  BY <1>2
<1>8. CallerFree'
  <2>1. pc' \in [Callers -> CallerPCs]
    BY <1>1, <1>2 DEF CallerPCs
  <2>2. id' \in [Callers -> Ids \cup {0}]
    BY <1>1, <1>2, <1>4
  <2>3. stamp' \in [Callers -> 0..made']
    <3>1. made + 1 \in 0..made' /\ \A x \in 0..made : x \in 0..made'
      BY <1>1, <1>2
    <3> QED BY <1>1, <1>2, <3>1
  <2>4. \A d \in Callers : pc'[d] \notin {"idle", "begin"} => id'[d] # 0 /\ stamp'[d] # 0
    BY <1>2, <1>4, <1>5, <1>6 DEF CallerFree
  <2>5. \A d, e \in Callers : stamp'[d] = stamp'[e] /\ stamp'[d] # 0 => d = e
    BY <1>5, <1>6, <1>7 DEF CallerFree
  <2>6. made' \in 0..MaxRequests
    BY <1>1, <1>2
  <2> QED BY <1>1, <2>1, <2>2, <2>3, <2>4, <2>5, <2>6 DEF CallerFree
<1>9. CountInv'
  <2>1. \A d \in Callers : loaded'[d] = loaded[d] /\ (pc'[d] = "store" <=> pc[d] = "store")
    BY <1>1, <1>5, <1>6
  <2>2. CASE gil = TRUE
    <3>1. Stored' = Stored \cup {made + 1}
      <4>1. 1..made' = (1..made) \cup {made + 1}
        BY <1>1, <1>2
      <4>2. pc'[c] \notin Advancing /\ pc[c] \notin Advancing
        BY <1>1, <1>2, <2>2 DEF Advancing
      <4>3. \A d \in Callers : pc'[d] \in Advancing <=> pc[d] \in Advancing
        BY <1>5, <4>2
      <4>4. \A d \in Callers : pc[d] \in Advancing => stamp'[d] = stamp[d]
        BY <1>5, <4>2
      <4> QED BY <1>7, <4>1, <4>3, <4>4 DEF Stored
    <3>2. made + 1 \notin Stored
      BY <1>2, <1>3
    <3>3. Cardinality(Stored') = Cardinality(Stored) + 1
      BY <1>3, <3>1, <3>2, FS_AddElement
    <3> QED BY <1>1, <1>3, <1>4, <2>1, <2>2, <3>3 DEF CountInv, CallerFree
  <2>3. CASE gil = FALSE
    <3>1. Stored' = Stored
      <4>1. 1..made' = (1..made) \cup {made + 1}
        BY <1>1, <1>2
      <4>2. pc'[c] \in Advancing /\ stamp'[c] = made + 1
        BY <1>1, <1>2, <2>3 DEF Advancing
      <4>3. made + 1 \notin Stored'
        BY <4>2 DEF Stored
      <4>4. pc[c] \notin Advancing
        BY <1>1 DEF Advancing
      <4>5. ASSUME NEW s \in 1..made
            PROVE  s \in Stored' <=> s \in Stored
        <5>1. s \in 1..made' /\ s # made + 1
          BY <1>2, <4>1
        <5> QED BY <1>5, <4>2, <4>4, <5>1 DEF Stored
      <4> QED BY <4>1, <4>3, <4>5 DEF Stored
    <3> QED BY <1>1, <2>1, <2>3, <3>1 DEF CountInv
  <2> QED BY <2>2, <2>3
<1> QED BY <1>8, <1>9

LEMMA LoadStoreFree ==
  ASSUME CallerFree, CountInv, NEW c \in Callers, LoadNext(c) \/ StoreNext(c)
  PROVE  CallerFree' /\ CountInv'
<1>1. /\ UNCHANGED <<op, id, stamp, unsent, made>>
      /\ pc[c] \in {"load", "store"}
      /\ pc' = [pc EXCEPT ![c] = IF pc[c] = "load" THEN "store" ELSE "register"]
      /\ IF pc[c] = "load" THEN nextId' = nextId /\ loaded' = [loaded EXCEPT ![c] = nextId]
         ELSE nextId' = loaded[c] + 1 /\ loaded' = [loaded EXCEPT ![c] = 0]
  BY DEF LoadNext, StoreNext, Goto, tableVars
<1>2. /\ made \in 0..MaxRequests /\ made \in Nat
      /\ pc \in [Callers -> CallerPCs] /\ stamp \in [Callers -> 0..made]
      /\ loaded \in [Callers -> Nat] /\ nextId \in Nat
  BY CallersAssumption DEF CallerFree, CountInv
<1>3. /\ IsFiniteSet(Stored) /\ Cardinality(Stored) \in Nat /\ Cardinality(Stored) <= made
      /\ Stored \subseteq 1..made
  BY <1>2, StoredType
<1>4. \A d \in Callers : d # c => pc'[d] = pc[d] /\ loaded'[d] = loaded[d]
  BY <1>1, <1>2
<1>5. CallerFree'
  <2>1. pc' \in [Callers -> CallerPCs] /\ loaded' \in [Callers -> Nat]
    BY <1>1, <1>2 DEF CallerPCs
  <2>2. \A d \in Callers : pc'[d] \notin {"idle", "begin"} => id[d] # 0 /\ stamp[d] # 0
    BY <1>1, <1>4 DEF CallerFree
  <2> QED BY <1>1, <2>1, <2>2 DEF CallerFree
<1>6. CASE pc[c] = "load"
  <2>1. \A d \in Callers : (pc'[d] \in Advancing <=> pc[d] \in Advancing) /\ stamp'[d] = stamp[d]
    BY <1>1, <1>2, <1>4, <1>6 DEF Advancing
  <2>2. Stored' = Stored
    BY <1>1, <2>1, StoredKept
  <2>3. pc'[c] = "store" /\ loaded'[c] = nextId
    BY <1>1, <1>2, <1>6
  <2> QED BY <1>1, <1>4, <1>5, <1>6, <2>2, <2>3 DEF CountInv
<1>7. CASE pc[c] = "store"
  <2>1. pc'[c] = "register" /\ loaded'[c] = 0 /\ nextId' = loaded[c] + 1
    BY <1>1, <1>2, <1>7
  <2>2. Stored' = Stored \cup {stamp[c]}
    <3>1. stamp[c] \in 1..made /\ \A d \in Callers : d # c => stamp[d] # stamp[c]
      BY <1>2, <1>7 DEF CallerFree
    <3>2. "register" \notin Advancing /\ pc[c] \in Advancing
      BY <1>7 DEF Advancing
    <3> QED BY <1>1, <1>4, <2>1, <3>1, <3>2 DEF Stored
  <2>3. stamp[c] \notin Stored
    BY <1>7 DEF Stored, Advancing
  <2>4. Cardinality(Stored') = Cardinality(Stored) + 1
    BY <1>3, <2>2, <2>3, FS_AddElement
  <2>5. loaded[c] <= 1 + Cardinality(Stored) /\ loaded[c] \in Nat
    BY <1>2, <1>7 DEF CountInv
  <2>6. \A d \in Callers : pc'[d] = "store" => loaded'[d] <= 1 + Cardinality(Stored')
    <3> SUFFICES ASSUME NEW d \in Callers, pc'[d] = "store"
                 PROVE  loaded'[d] <= 1 + Cardinality(Stored')
      OBVIOUS
    <3>1. d # c
      BY <2>1
    <3>2. pc[d] = "store" /\ loaded'[d] = loaded[d] /\ loaded[d] \in Nat
      BY <1>2, <1>4, <3>1
    <3>3. loaded[d] <= 1 + Cardinality(Stored)
      BY <3>2 DEF CountInv
    <3> QED BY <1>3, <2>4, <3>2, <3>3
  <2>7. \A d \in Callers : pc'[d] # "store" => loaded'[d] = 0
    BY <1>4, <2>1 DEF CountInv
  <2>8. nextId' \in Nat \ {0} /\ nextId' <= 1 + Cardinality(Stored')
    BY <1>3, <2>1, <2>4, <2>5
  <2>9. CountInv'
    BY <2>6, <2>7, <2>8 DEF CountInv
  <2> QED BY <1>5, <2>9
<1> QED BY <1>1, <1>5, <1>6, <1>7

\* The callers' part of the invariant survives every step.
LEMMA CallerFreeStep ==
  ASSUME CallerFree, CountInv, gil \in BOOLEAN, [Next]_vars
  PROVE  CallerFree' /\ CountInv'
<1>1. CASE UNCHANGED callerVars
  BY <1>1 DEF callerVars, CallerFree, CountInv, Stored
<1>2. ASSUME NEW c \in Callers, Tools(c) \/ CallTool(c)
      PROVE  CallerFree' /\ CountInv'
  <2>1. /\ pc[c] = "idle" /\ pc' = [pc EXCEPT ![c] = "begin"]
        /\ \E o \in {"initialize", "call"} : op' = [op EXCEPT ![c] = o]
        /\ UNCHANGED <<id, stamp, loaded, unsent, made, nextId>>
    BY <1>2 DEF Tools, CallTool, Goto, tableVars
  <2>2. "begin" \in CallerPCs \ Advancing /\ {"initialize", "call"} \subseteq Ops
        /\ "idle" \notin Advancing /\ unsent \subseteq Stamps
    BY DEF CallerPCs, Advancing, Ops, CallerFree
  <2>3. PICK o \in Ops : op' = [op EXCEPT ![c] = o]
    BY <2>1, <2>2
  <2> QED BY <2>1, <2>2, <2>3, CallerMoves
<1>3. ASSUME NEW c \in Callers, Register(c) \/ StartWrite(c) \/ Expire(c)
      PROVE  CallerFree' /\ CountInv'
  <2>1. /\ pc[c] \in {"register", "write", "wait"}
        /\ \E p \in {"write", "writing", "expired"} : pc' = [pc EXCEPT ![c] = p]
        /\ UNCHANGED <<op, id, stamp, loaded, unsent, made, nextId>>
    BY <1>3 DEF Register, StartWrite, Expire, Goto, tableVars
  <2>2. /\ {"write", "writing", "expired"} \subseteq CallerPCs \ Advancing
        /\ pc[c] \notin Advancing /\ unsent \subseteq Stamps /\ id[c] # 0 /\ stamp[c] # 0
        /\ op[c] \in Ops /\ op' = [op EXCEPT ![c] = op[c]]
    BY <2>1 DEF CallerPCs, Advancing, CallerFree
  <2>3. PICK p \in CallerPCs \ Advancing : pc' = [pc EXCEPT ![c] = p]
    BY <2>1, <2>2
  <2> QED BY <2>1, <2>2, <2>3, CallerMoves
<1>4. ASSUME NEW c \in Callers, WriteClosed(c) \/ WriteBreaks(c) \/ Forget(c) \/ Take(c)
      PROVE  CallerFree' /\ CountInv'
  <2>1. /\ pc[c] \in {"write", "writing", "wait", "expired"}
        /\ UNCHANGED <<loaded, made, nextId>> /\ (Leave(c) \/ Return(c))
        /\ unsent' \in {unsent, unsent \cup {stamp[c]}}
    BY <1>4 DEF WriteClosed, WriteBreaks, Forget, Take, Raise, Unsent, tableVars
  <2>2. unsent' \subseteq Stamps
    <3>1. stamp[c] \in 0..made /\ stamp[c] # 0 /\ made \in 0..MaxRequests
      BY <2>1 DEF CallerFree
    <3>2. stamp[c] \in Stamps
      BY <3>1, CallersAssumption DEF Stamps
    <3> QED BY <2>1, <3>2 DEF CallerFree
  <2> QED BY <2>1, <2>2, CallerEnds
<1>5. ASSUME NEW c \in Callers, FinishWrite(c)
      PROVE  CallerFree' /\ CountInv'
  <2>1. pc[c] = "writing" /\ UNCHANGED <<loaded, unsent, made, nextId>> /\ unsent \subseteq Stamps
    BY <1>5 DEF FinishWrite, tableVars, CallerFree
  <2>2. CASE op[c] = "initialized"
    BY <1>5, <2>1, <2>2, CallerEnds DEF FinishWrite
  <2>3. CASE op[c] # "initialized"
    <3>1. /\ pc' = [pc EXCEPT ![c] = "wait"] /\ UNCHANGED <<op, id, stamp>>
      BY <1>5, <2>3 DEF FinishWrite, Goto
    <3>2. /\ "wait" \in CallerPCs \ Advancing /\ pc[c] \notin Advancing
          /\ id[c] # 0 /\ stamp[c] # 0
          /\ op[c] \in Ops /\ op' = [op EXCEPT ![c] = op[c]]
      BY <2>1, <3>1 DEF CallerPCs, Advancing, CallerFree
    <3> QED BY <2>1, <3>1, <3>2, CallerMoves
  <2> QED BY <2>2, <2>3
<1>6. CASE ServerRead \/ ServerExits
           \/ (\E request \in accepted, kind \in Answers : ServerAnswer(request, kind))
           \/ (\E kind \in Lines : ServerSays(kind))
  BY <1>1, <1>6 DEF ServerRead, ServerExits, ServerAnswer, ServerSays, Outside
<1>7. CASE ReaderStep
  BY <1>1, <1>7 DEF ReaderStep, ReadLine, ReadEof, Pop, FailPending, Put, Elsewhere
<1>8. CASE Close \/ CloserStep
  BY <1>1, <1>8 DEF Close, CloserStep, CloseStdin, Poll, Terminate, Kill, Others
<1>9. CASE UNCHANGED vars
  BY <1>1, <1>9 DEF vars
<1>10. ASSUME NEW c \in Callers, Tools(c) \/ CallTool(c) \/ CallerStep(c)
       PROVE  CallerFree' /\ CountInv'
  <2>1. \/ Tools(c) \/ CallTool(c) \/ Register(c) \/ StartWrite(c) \/ Expire(c)
        \/ WriteClosed(c) \/ WriteBreaks(c) \/ Forget(c) \/ Take(c) \/ FinishWrite(c)
        \/ TakeId(c) \/ LoadNext(c) \/ StoreNext(c)
    BY <1>10 DEF CallerStep
  <2> QED BY <1>2, <1>3, <1>4, <1>5, <2>1, TakeIdFree, LoadStoreFree
<1> QED BY <1>6, <1>7, <1>8, <1>9, <1>10 DEF Next

-----------------------------------------------------------------------------
\* The budget covers the requests a caller has announced: the one it begins,
\* and the second of tools.
Beginning == {c \in Callers : pc[c] = "begin"}
Opening   == {c \in Callers : op[c] \in {"initialize", "initialized"}}
BudgetInv ==
  /\ budget \in Nat /\ IsFiniteSet(Beginning) /\ IsFiniteSet(Opening)
  /\ made + budget + Cardinality(Beginning) + Cardinality(Opening) <= MaxRequests
  /\ \A c \in Callers : pc[c] = "idle" => op[c] = "call"

Weight(condition) == IF condition THEN 1 ELSE 0

LEMMA WeightType == \A condition : Weight(condition) \in {0, 1} /\ Weight(condition) \in Int
BY DEF Weight

\* A set gains or loses one element.
LEMMA ChangedAt ==
  ASSUME NEW S, NEW T, NEW x, IsFiniteSet(S), T \ {x} = S \ {x}
  PROVE  /\ IsFiniteSet(T) /\ Cardinality(S) \in Nat
         /\ Cardinality(T) = Cardinality(S) + Weight(x \in T) - Weight(x \in S)
<1>1. Cardinality(S) \in Nat
  BY FS_CardinalityType
<1>2. /\ IsFiniteSet(S \cup {x}) /\ IsFiniteSet(S \ {x})
      /\ Cardinality(S \cup {x}) = IF x \in S THEN Cardinality(S) ELSE Cardinality(S) + 1
      /\ Cardinality(S \ {x}) = IF x \in S THEN Cardinality(S) - 1 ELSE Cardinality(S)
  BY FS_AddElement, FS_RemoveElement
<1>3. CASE x \in S /\ x \in T
  <2>1. T = S
    BY <1>3
  <2> QED BY <1>1, <1>3, <2>1 DEF Weight
<1>4. CASE x \in S /\ x \notin T
  <2>1. T = S \ {x}
    BY <1>4
  <2> QED BY <1>1, <1>2, <1>4, <2>1 DEF Weight
<1>5. CASE x \notin S /\ x \in T
  <2>1. T = S \cup {x}
    BY <1>5
  <2> QED BY <1>1, <1>2, <1>5, <2>1 DEF Weight
<1>6. CASE x \notin S /\ x \notin T
  <2>1. T = S
    BY <1>6
  <2> QED BY <1>1, <1>6, <2>1 DEF Weight
<1> QED BY <1>3, <1>4, <1>5, <1>6

\* One caller moves: the two sets gain or lose it.
LEMMA CallerCounted ==
  ASSUME CallerFree, BudgetInv, NEW c \in Callers,
         NEW p \in CallerPCs, pc' = [pc EXCEPT ![c] = p],
         NEW o \in Ops, op' = [op EXCEPT ![c] = o]
  PROVE  /\ IsFiniteSet(Beginning') /\ IsFiniteSet(Opening')
         /\ Cardinality(Beginning') =
              Cardinality(Beginning) + Weight(p = "begin") - Weight(pc[c] = "begin")
         /\ Cardinality(Opening') =
              Cardinality(Opening) + Weight(o \in {"initialize", "initialized"})
              - Weight(op[c] \in {"initialize", "initialized"})
         /\ Cardinality(Beginning) \in Nat /\ Cardinality(Opening) \in Nat
<1>1. /\ IsFiniteSet(Beginning) /\ IsFiniteSet(Opening)
      /\ pc \in [Callers -> CallerPCs] /\ op \in [Callers -> Ops]
  BY DEF CallerFree, BudgetInv
<1>2. Beginning' \ {c} = Beginning \ {c} /\ Opening' \ {c} = Opening \ {c}
  BY <1>1 DEF Beginning, Opening
<1>3. /\ IsFiniteSet(Beginning') /\ Cardinality(Beginning) \in Nat
      /\ Cardinality(Beginning') =
           Cardinality(Beginning) + Weight(c \in Beginning') - Weight(c \in Beginning)
  BY <1>1, <1>2, ChangedAt
<1>4. /\ IsFiniteSet(Opening') /\ Cardinality(Opening) \in Nat
      /\ Cardinality(Opening') =
           Cardinality(Opening) + Weight(c \in Opening') - Weight(c \in Opening)
  BY <1>1, <1>2, ChangedAt
<1>5. /\ c \in Beginning <=> pc[c] = "begin"
      /\ c \in Opening <=> op[c] \in {"initialize", "initialized"}
      /\ c \in Beginning' <=> p = "begin"
      /\ c \in Opening' <=> o \in {"initialize", "initialized"}
  BY <1>1 DEF Beginning, Opening
<1>6. /\ Weight(c \in Beginning) = Weight(pc[c] = "begin")
      /\ Weight(c \in Opening) = Weight(op[c] \in {"initialize", "initialized"})
      /\ Weight(c \in Beginning') = Weight(p = "begin")
      /\ Weight(c \in Opening') = Weight(o \in {"initialize", "initialized"})
  BY <1>5 DEF Weight
<1> QED BY <1>3, <1>4, <1>6

\* What every step of a caller does to the counters.
LEMMA CallerSpends ==
  ASSUME CallerFree, BudgetInv, NEW c \in Callers,
         NEW p \in CallerPCs, pc' = [pc EXCEPT ![c] = p],
         NEW o \in Ops, op' = [op EXCEPT ![c] = o], p = "idle" => o = "call",
         NEW m \in Nat, made' = m, NEW n \in Nat, budget' = n,
         m + n + Weight(p = "begin") + Weight(o \in {"initialize", "initialized"})
           <= made + budget + Weight(pc[c] = "begin")
              + Weight(op[c] \in {"initialize", "initialized"})
  PROVE  BudgetInv'
<1>1. /\ IsFiniteSet(Beginning') /\ IsFiniteSet(Opening')
      /\ Cardinality(Beginning') =
              Cardinality(Beginning) + Weight(p = "begin") - Weight(pc[c] = "begin")
      /\ Cardinality(Opening') =
              Cardinality(Opening) + Weight(o \in {"initialize", "initialized"})
              - Weight(op[c] \in {"initialize", "initialized"})
      /\ Cardinality(Beginning) \in Nat /\ Cardinality(Opening) \in Nat
  BY CallerCounted
<1>3. made \in Nat /\ budget \in Nat /\ MaxRequests \in Nat
  BY CallersAssumption DEF CallerFree, BudgetInv
<1>4. m + n + Cardinality(Beginning') + Cardinality(Opening') <= MaxRequests
  <2> DEFINE b == Cardinality(Beginning)   o1 == Cardinality(Opening)
             b2 == Cardinality(Beginning') o2 == Cardinality(Opening')
             w1 == Weight(p = "begin")     w2 == Weight(pc[c] = "begin")
             w3 == Weight(o \in {"initialize", "initialized"})
             w4 == Weight(op[c] \in {"initialize", "initialized"})
             x == m + n                    y == made + budget
             u == w1 + w3                  v == w2 + w4
             s == b + o1                   t == b2 + o2
  <2>1. /\ b2 = b + w1 - w2 /\ o2 = o1 + w3 - w4 /\ b \in Nat /\ o1 \in Nat
        /\ w1 \in Int /\ w2 \in Int /\ w3 \in Int /\ w4 \in Int
    BY <1>1, WeightType
  <2>2. x \in Int /\ y \in Int
    BY <1>3
  <2>3. x + u <= y + v
    <3>1. m + n + w1 + w3 <= made + budget + w2 + w4
      OBVIOUS
    <3> HIDE DEF w1, w2, w3, w4
    <3> QED BY <1>3, <2>1, <3>1
  <2>4. y + s <= MaxRequests
    <3>1. made + budget + b + o1 <= MaxRequests
      BY DEF BudgetInv
    <3> HIDE DEF b, o1
    <3> QED BY <1>3, <2>1, <3>1
  <2>5. t = s + u - v /\ s \in Int /\ t \in Int /\ u \in Int /\ v \in Int
    <3> HIDE DEF b, o1, b2, o2, w1, w2, w3, w4
    <3> QED BY <2>1
  <2>6. x + t <= MaxRequests
    <3> HIDE DEF x, y, u, v, s, t
    <3> QED BY <1>3, <2>2, <2>3, <2>4, <2>5
  <2>7. b2 \in Int /\ o2 \in Int
    <3> HIDE DEF b, o1, b2, o2, w1, w2, w3, w4
    <3> QED BY <2>1
  <2>8. m + n + b2 + o2 <= MaxRequests
    <3> HIDE DEF b, o1, b2, o2, w1, w2, w3, w4
    <3> QED BY <1>3, <2>6, <2>7
  <2> QED BY <2>8 DEF b2, o2
<1>5. \A d \in Callers : pc'[d] = "idle" => op'[d] = "call"
  BY DEF BudgetInv, CallerFree
<1> QED BY <1>1, <1>4, <1>5 DEF BudgetInv

LEMMA BudgetStep ==
  ASSUME CallerFree, BudgetInv, [Next]_vars
  PROVE  BudgetInv'
<1>0. made \in Nat /\ budget \in Nat /\ MaxRequests \in Nat /\ op \in [Callers -> Ops]
      /\ pc \in [Callers -> CallerPCs]
  BY CallersAssumption DEF CallerFree, BudgetInv
<1>1. CASE UNCHANGED callerVars
  BY <1>1 DEF callerVars, BudgetInv, Beginning, Opening
<1>2. ASSUME NEW c \in Callers, Tools(c)
      PROVE  BudgetInv'
  <2>1. /\ pc[c] = "idle" /\ op[c] = "call" /\ pc' = [pc EXCEPT ![c] = "begin"]
        /\ op' = [op EXCEPT ![c] = "initialize"] /\ made' = made
        /\ budget >= 2 /\ budget' = budget - 2
    BY <1>2 DEF Tools, Goto, BudgetInv
  <2>2. "begin" \in CallerPCs /\ "initialize" \in Ops
    BY DEF CallerPCs, Ops
  <2>3. made' + budget' + Weight("begin" = "begin")
          + Weight("initialize" \in {"initialize", "initialized"})
        <= made + budget + Weight(pc[c] = "begin")
           + Weight(op[c] \in {"initialize", "initialized"})
    BY <1>0, <2>1 DEF Weight
  <2>4. budget' \in Nat /\ made' \in Nat
    BY <1>0, <2>1
  <2> QED BY <2>1, <2>2, <2>3, <2>4, CallerSpends
<1>3. ASSUME NEW c \in Callers, CallTool(c)
      PROVE  BudgetInv'
  <2>1. /\ pc[c] = "idle" /\ op[c] = "call" /\ pc' = [pc EXCEPT ![c] = "begin"]
        /\ op' = [op EXCEPT ![c] = "call"] /\ made' = made
        /\ budget >= 1 /\ budget' = budget - 1
    BY <1>3 DEF CallTool, Goto, BudgetInv
  <2>2. "begin" \in CallerPCs /\ "call" \in Ops
    BY DEF CallerPCs, Ops
  <2>3. made' + budget' + Weight("begin" = "begin")
          + Weight("call" \in {"initialize", "initialized"})
        <= made + budget + Weight(pc[c] = "begin")
           + Weight(op[c] \in {"initialize", "initialized"})
    BY <1>0, <2>1 DEF Weight
  <2>4. budget' \in Nat /\ made' \in Nat
    BY <1>0, <2>1
  <2> QED BY <2>1, <2>2, <2>3, <2>4, CallerSpends
<1>4. ASSUME NEW c \in Callers, TakeId(c)
      PROVE  BudgetInv'
  <2>1. /\ pc[c] = "begin" /\ op' = op /\ made' = made + 1 /\ budget' = budget
        /\ \E p \in {"register", "load"} : pc' = [pc EXCEPT ![c] = p]
    BY <1>4 DEF TakeId, Goto
  <2>2. PICK p \in {"register", "load"} : pc' = [pc EXCEPT ![c] = p]
    BY <2>1
  <2>3. p \in CallerPCs /\ op[c] \in Ops /\ op' = [op EXCEPT ![c] = op[c]] /\ p # "idle"
    BY <1>0, <2>1 DEF CallerPCs
  <2>4. Weight(p = "begin") = 0 /\ Weight(pc[c] = "begin") = 1
    BY <2>1 DEF Weight
  <2>5. Weight(op[c] \in {"initialize", "initialized"}) \in {0, 1}
    BY DEF Weight
  <2>6. made' + budget' + Weight(p = "begin") + Weight(op[c] \in {"initialize", "initialized"})
        <= made + budget + Weight(pc[c] = "begin")
           + Weight(op[c] \in {"initialize", "initialized"})
    BY <1>0, <2>1, <2>4, <2>5
  <2>7. budget' \in Nat /\ made' \in Nat
    BY <1>0, <2>1
  <2> QED BY <2>2, <2>3, <2>6, <2>7, CallerSpends
<1>5. ASSUME NEW c \in Callers, NEW p \in CallerPCs \ {"idle", "begin"},
             pc' = [pc EXCEPT ![c] = p], op' = op, UNCHANGED <<made, budget>>
      PROVE  BudgetInv'
  <2>1. op[c] \in Ops /\ op' = [op EXCEPT ![c] = op[c]] /\ p # "idle" /\ p \in CallerPCs
    BY <1>0, <1>5
  <2>2. Weight(p = "begin") = 0 /\ Weight(pc[c] = "begin") \in {0, 1}
        /\ Weight(op[c] \in {"initialize", "initialized"}) \in {0, 1}
    BY DEF Weight
  <2>3. made' + budget' + Weight(p = "begin") + Weight(op[c] \in {"initialize", "initialized"})
        <= made + budget + Weight(pc[c] = "begin")
           + Weight(op[c] \in {"initialize", "initialized"})
    BY <1>0, <1>5, <2>2
  <2> QED BY <1>0, <1>5, <2>1, <2>3, CallerSpends
<1>6. ASSUME NEW c \in Callers, Leave(c), UNCHANGED <<made, budget>>
      PROVE  BudgetInv'
  <2>1. pc' = [pc EXCEPT ![c] = "idle"] /\ op' = [op EXCEPT ![c] = "call"]
    BY <1>6 DEF Leave, Goto
  <2>2. "idle" \in CallerPCs /\ "call" \in Ops
    BY DEF CallerPCs, Ops
  <2>3. /\ Weight("idle" = "begin") = 0 /\ Weight("call" \in {"initialize", "initialized"}) = 0
        /\ Weight(pc[c] = "begin") \in {0, 1}
        /\ Weight(op[c] \in {"initialize", "initialized"}) \in {0, 1}
    BY DEF Weight
  <2>4. made' + budget' + Weight("idle" = "begin")
          + Weight("call" \in {"initialize", "initialized"})
        <= made + budget + Weight(pc[c] = "begin")
           + Weight(op[c] \in {"initialize", "initialized"})
    BY <1>0, <1>6, <2>3
  <2> QED BY <1>0, <1>6, <2>1, <2>2, <2>4, CallerSpends
<1>7. ASSUME NEW c \in Callers, Return(c), UNCHANGED <<made, budget>>
      PROVE  BudgetInv'
  <2>1. op[c] \in Ops /\ "write" \in CallerPCs /\ "begin" \in CallerPCs
        /\ "initialized" \in Ops /\ "list" \in Ops
    BY <1>0 DEF CallerPCs, Ops
  <2>2. CASE op[c] = "initialize"
    <3>1. pc' = [pc EXCEPT ![c] = "write"] /\ op' = [op EXCEPT ![c] = "initialized"]
      BY <1>7, <2>2 DEF Return, Continue, Goto
    <3>2. made' + budget' + Weight("write" = "begin")
            + Weight("initialized" \in {"initialize", "initialized"})
          <= made + budget + Weight(pc[c] = "begin")
             + Weight(op[c] \in {"initialize", "initialized"})
      BY <1>0, <1>7, <2>2 DEF Weight
    <3> QED BY <1>0, <1>7, <2>1, <3>1, <3>2, CallerSpends
  <2>3. CASE op[c] = "initialized"
    <3>1. pc' = [pc EXCEPT ![c] = "begin"] /\ op' = [op EXCEPT ![c] = "list"]
      BY <1>7, <2>3 DEF Return, Continue, Goto
    <3>2. made' + budget' + Weight("begin" = "begin")
            + Weight("list" \in {"initialize", "initialized"})
          <= made + budget + Weight(pc[c] = "begin")
             + Weight(op[c] \in {"initialize", "initialized"})
      BY <1>0, <1>7, <2>3 DEF Weight
    <3> QED BY <1>0, <1>7, <2>1, <3>1, <3>2, CallerSpends
  <2>4. CASE op[c] \in {"list", "call"}
    BY <1>6, <1>7, <2>4 DEF Return
  <2> QED BY <2>1, <2>2, <2>3, <2>4 DEF Ops
<1>8. ASSUME NEW c \in Callers, Tools(c) \/ CallTool(c) \/ CallerStep(c)
      PROVE  BudgetInv'
  <2>1. CASE LoadNext(c) \/ StoreNext(c) \/ Register(c) \/ StartWrite(c) \/ Expire(c)
    <3>1. /\ \E p \in {"store", "register", "write", "writing", "expired"} :
                 pc' = [pc EXCEPT ![c] = p]
          /\ op' = op /\ UNCHANGED <<made, budget>>
      BY <2>1 DEF LoadNext, StoreNext, Register, StartWrite, Expire, Goto
    <3>2. {"store", "register", "write", "writing", "expired"} \subseteq CallerPCs \ {"idle", "begin"}
      BY DEF CallerPCs
    <3> QED BY <1>5, <3>1, <3>2
  <2>2. CASE WriteClosed(c) \/ WriteBreaks(c) \/ Forget(c) \/ Take(c)
    <3>1. UNCHANGED <<made, budget>> /\ (Leave(c) \/ Return(c))
      BY <2>2 DEF WriteClosed, WriteBreaks, Forget, Take, Raise
    <3> QED BY <1>6, <1>7, <3>1
  <2>3. CASE FinishWrite(c)
    <3>1. /\ UNCHANGED <<made, budget>>
          /\ Return(c) \/ (pc' = [pc EXCEPT ![c] = "wait"] /\ op' = op)
      BY <2>3 DEF FinishWrite, Goto
    <3>2. "wait" \in CallerPCs \ {"idle", "begin"}
      BY DEF CallerPCs
    <3> QED BY <1>5, <1>7, <3>1, <3>2
  <2>4. \/ Tools(c) \/ CallTool(c) \/ TakeId(c)
        \/ LoadNext(c) \/ StoreNext(c) \/ Register(c) \/ StartWrite(c) \/ Expire(c)
        \/ WriteClosed(c) \/ WriteBreaks(c) \/ Forget(c) \/ Take(c) \/ FinishWrite(c)
    BY <1>8 DEF CallerStep
  <2> QED BY <1>2, <1>3, <1>4, <2>1, <2>2, <2>3, <2>4
<1>9. CASE ServerRead \/ ServerExits
           \/ (\E request \in accepted, kind \in Answers : ServerAnswer(request, kind))
           \/ (\E kind \in Lines : ServerSays(kind))
  BY <1>1, <1>9 DEF ServerRead, ServerExits, ServerAnswer, ServerSays, Outside
<1>10. CASE ReaderStep
  BY <1>1, <1>10 DEF ReaderStep, ReadLine, ReadEof, Pop, FailPending, Put, Elsewhere
<1>11. CASE Close \/ CloserStep
  BY <1>1, <1>11 DEF Close, CloserStep, CloseStdin, Poll, Terminate, Kill, Others
<1>12. CASE UNCHANGED vars
  BY <1>1, <1>12 DEF vars
<1> QED BY <1>8, <1>9, <1>10, <1>11, <1>12 DEF Next

-----------------------------------------------------------------------------
\* What the pipes hold, whoever wrote it.
Requests == [kind : Ops, id : Ids, stamp : Stamps]
Heard == Messages \cup {Message(kind, 0, 0) : kind \in Lines}
PipeFree ==
  /\ wire \in Seq({Notice} \cup Requests) /\ accepted \subseteq Requests
  /\ out \in Seq(Heard)
  /\ Len(wire) <= PipeSize /\ Len(out) <= PipeSize
  /\ server = "dead" => accepted = {} /\ wire = <<>>
  /\ reader \in {"pop", "put"} => line \in Messages

LEMMA RequestKinds ==
  /\ \A m \in Requests : m # Notice /\ m.id \in Ids /\ m.stamp \in Stamps
  /\ \A kind, i, s : Message(kind, i, s).kind = kind
  /\ \A kind \in Answers, i \in Ids, s \in Stamps : Message(kind, i, s) \in Messages
  /\ \A kind \in Ops, i \in Ids, s \in Stamps : Message(kind, i, s) \in Requests
  /\ \A m \in Messages : m.id \in Ids /\ m # Empty /\ m # Failure /\ m.kind \in Answers
  /\ \A m \in Heard : m.kind \in Answers => m \in Messages
  /\ \A m \in Heard : m.kind \in Answers \cup {"malformed", "garbled"}
<1>1. 0 \notin Ids /\ 0 \notin Stamps
  BY DEF Ids, Stamps
<1>2. \A m \in Requests : m.id \in Ids /\ m.stamp \in Stamps
  BY DEF Requests
<1>3. \A m \in Messages : m.id \in Ids /\ m.kind \in Answers
  BY DEF Messages
<1>4. Notice.id = 0 /\ Empty.id = 0 /\ Failure.id = 0
  BY DEF Notice, Empty, Failure, Message
<1>5. \A kind, i, s : Message(kind, i, s).kind = kind
  BY DEF Message
<1>6. \A kind \in Answers, i \in Ids, s \in Stamps : Message(kind, i, s) \in Messages
  BY DEF Message, Messages
<1>7. \A kind \in Ops, i \in Ids, s \in Stamps : Message(kind, i, s) \in Requests
  BY DEF Message, Requests
<1>8. \A kind \in Lines : kind \in {"malformed", "garbled"} /\ kind \notin Answers
  BY CallersAssumption DEF Answers
<1>9. \A m \in Heard : /\ m.kind \in Answers => m \in Messages
                       /\ m.kind \in Answers \cup {"malformed", "garbled"}
  BY <1>3, <1>5, <1>8 DEF Heard
<1> QED BY <1>1, <1>2, <1>3, <1>4, <1>5, <1>6, <1>7, <1>9

LEMMA PipeFreeStep ==
  ASSUME PipeFree, CallerFree, [Next]_vars
  PROVE  PipeFree'
<1>0. PipeSize \in Nat
  BY CallersAssumption
<1>1. CASE UNCHANGED <<wire, accepted, out, server, reader, line>>
  BY <1>1 DEF PipeFree
<1>2. ASSUME NEW c \in Callers, Tools(c) \/ CallTool(c) \/ CallerStep(c)
      PROVE  PipeFree'
  <2>1. CASE FinishWrite(c)
    <3>1. /\ server = "up" /\ Len(wire) < PipeSize /\ UNCHANGED <<accepted, out, server, reader, line>>
          /\ \E m \in {Notice, Message(op[c], id[c], stamp[c])} :
               wire' = Append(wire, m) /\ (m # Notice => m = Message(op[c], id[c], stamp[c]))
      BY <2>1 DEF FinishWrite, Rest, serverVars, readerVars
    <3>2. PICK m \in {Notice, Message(op[c], id[c], stamp[c])} : wire' = Append(wire, m)
      BY <3>1
    <3>3. m \in {Notice} \cup Requests
      <4>1. op[c] \in Ops /\ id[c] \in Ids /\ stamp[c] \in Stamps
        <5>1. pc[c] = "writing"
          BY <2>1 DEF FinishWrite
        <5>2. op[c] \in Ops /\ id[c] \in Ids /\ stamp[c] \in 0..made /\ stamp[c] # 0
              /\ made \in 0..MaxRequests
          BY <5>1 DEF CallerFree
        <5>3. stamp[c] \in Stamps
          BY <5>2, CallersAssumption DEF Stamps
        <5> QED BY <5>2, <5>3
      <4> QED BY <4>1, RequestKinds
    <3>4. wire \in Seq({Notice} \cup Requests)
      BY DEF PipeFree
    <3>5. wire' \in Seq({Notice} \cup Requests) /\ Len(wire') = Len(wire) + 1 /\ Len(wire) \in Nat
      BY <3>2, <3>3, <3>4
    <3>6. Len(wire') <= PipeSize
      BY <1>0, <3>1, <3>5
    <3> QED BY <3>1, <3>5, <3>6 DEF PipeFree
  <2>2. CASE ~FinishWrite(c)
    BY <1>1, <1>2, <2>2
    DEF CallerStep, Tools, CallTool, TakeId, LoadNext, StoreNext, Register, WriteClosed, StartWrite,
        WriteBreaks, Take, Expire, Forget, Rest, pipeVars, serverVars, readerVars
  <2> QED BY <2>1, <2>2
<1>3. CASE ServerRead
  <2>1. /\ wire # <<>> /\ server = "up" /\ wire' = Tail(wire) /\ UNCHANGED <<out, server, reader, line>>
        /\ accepted' = IF Head(wire) = Notice THEN accepted ELSE accepted \cup {Head(wire)}
    BY <1>3 DEF ServerRead, Outside, readerVars
  <2>2. wire \in Seq({Notice} \cup Requests)
    BY DEF PipeFree
  <2>3. /\ Head(wire) \in {Notice} \cup Requests /\ wire' \in Seq({Notice} \cup Requests)
        /\ Len(wire') = Len(wire) - 1 /\ Len(wire) \in Nat
    BY <2>1, <2>2
  <2>4. Len(wire') <= PipeSize
    BY <1>0, <2>3 DEF PipeFree
  <2>5. accepted' \subseteq Requests
    BY <2>1, <2>3 DEF PipeFree
  <2> QED BY <2>1, <2>3, <2>4, <2>5 DEF PipeFree
<1>4. ASSUME Dies, UNCHANGED <<out, reader, line>>
      PROVE  PipeFree'
  <2>1. wire' = <<>> /\ accepted' = {} /\ Len(wire') = 0
    BY <1>4 DEF Dies
  <2>2. <<>> \in Seq({Notice} \cup Requests)
    OBVIOUS
  <2>3. wire' \in Seq({Notice} \cup Requests) /\ accepted' \subseteq Requests /\ Len(wire') <= PipeSize
    BY <1>0, <2>1, <2>2
  <2> QED BY <1>4, <2>1, <2>3 DEF PipeFree
<1>5. ASSUME NEW m \in Heard, server = "up", Len(out) < PipeSize, out' = Append(out, m),
             UNCHANGED <<wire, server, reader, line>>, accepted' \subseteq accepted
      PROVE  PipeFree'
  <2>1. out \in Seq(Heard)
    BY DEF PipeFree
  <2>2. out' \in Seq(Heard) /\ Len(out') = Len(out) + 1 /\ Len(out) \in Nat
    BY <1>5, <2>1
  <2>3. Len(out') <= PipeSize
    BY <1>0, <1>5, <2>2
  <2> QED BY <1>5, <2>2, <2>3 DEF PipeFree
<1>6. ASSUME NEW request \in accepted, NEW kind \in Answers, ServerAnswer(request, kind)
      PROVE  PipeFree'
  <2>1. Message(kind, request.id, request.stamp) \in Heard
    <3>1. request \in Requests
      BY DEF PipeFree
    <3> QED BY <3>1, RequestKinds DEF Heard
  <2>2. /\ server = "up" /\ Len(out) < PipeSize
        /\ out' = Append(out, Message(kind, request.id, request.stamp))
        /\ UNCHANGED <<wire, server, reader, line>> /\ accepted' \subseteq accepted
    BY <1>6 DEF ServerAnswer, Outside, readerVars
  <2> QED BY <1>5, <2>1, <2>2
<1>7. ASSUME NEW kind \in Lines, ServerSays(kind)
      PROVE  PipeFree'
  <2>1. Message(kind, 0, 0) \in Heard
    BY DEF Heard
  <2>2. /\ server = "up" /\ Len(out) < PipeSize /\ out' = Append(out, Message(kind, 0, 0))
        /\ UNCHANGED <<wire, server, reader, line>> /\ accepted' \subseteq accepted
    BY <1>7 DEF ServerSays, Outside, readerVars, serverVars
  <2> QED BY <1>5, <2>1, <2>2
<1>8. CASE ServerExits
  BY <1>4, <1>8 DEF ServerExits, Outside, readerVars
<1>9. CASE ReadLine
  <2>1. /\ out # <<>> /\ out' = Tail(out) /\ UNCHANGED <<wire, accepted, server>>
        /\ line' = IF Head(out).kind \in Answers THEN Head(out) ELSE Empty
        /\ reader' = CASE Head(out).kind \in Answers   -> "pop"
                       [] Head(out).kind = "malformed" -> "fail"
                       [] Head(out).kind = "garbled"   -> "crashed"
    BY <1>9 DEF ReadLine, Elsewhere, pipeVars, serverVars
  <2>2. out \in Seq(Heard)
    BY DEF PipeFree
  <2>3. Head(out) \in Heard /\ out' \in Seq(Heard) /\ Len(out') = Len(out) - 1 /\ Len(out) \in Nat
    BY <2>1, <2>2
  <2>4. Head(out).kind \in Answers \cup {"malformed", "garbled"}
    BY <2>3, RequestKinds
  <2>5. reader' \in {"pop", "put"} => line' \in Messages
    BY <2>1, <2>3, <2>4, RequestKinds DEF Answers
  <2>6. Len(out') <= PipeSize
    BY <1>0, <2>3 DEF PipeFree
  <2> QED BY <2>1, <2>3, <2>5, <2>6 DEF PipeFree
<1>10. CASE ReadEof \/ Pop \/ FailPending \/ Put
  <2>1. UNCHANGED <<wire, accepted, server, out>>
    BY <1>10 DEF ReadEof, Pop, FailPending, Put, Elsewhere, pipeVars, serverVars
  <2>2. reader' \in {"pop", "put"} => reader \in {"pop", "put"} /\ line' = line
    BY <1>10 DEF ReadEof, Pop, FailPending, Put
  <2> QED BY <2>1, <2>2 DEF PipeFree
<1>11. CASE Close \/ CloseStdin \/ Poll \/ Terminate
  BY <1>1, <1>11 DEF Close, CloseStdin, Poll, Terminate, Others, serverVars, readerVars
<1>12. CASE Kill
  BY <1>4, <1>12 DEF Kill, Others, readerVars
<1>13. CASE UNCHANGED vars
  BY <1>1, <1>13 DEF vars, pipeVars, serverVars, readerVars
<1> QED
  BY <1>2, <1>3, <1>6, <1>7, <1>8, <1>9, <1>10, <1>11, <1>12, <1>13
  DEF Next, ReaderStep, CloserStep

-----------------------------------------------------------------------------
\* A queue is in the table at most once, and empty as long as it is there or
\* about to be filled.
QueueInv ==
  /\ pending \in [Ids -> Stamps \cup {0}] /\ to \subseteq Stamps
  /\ inbox \in [Stamps -> Messages \cup {Empty, Failure}]
  /\ \A i, j \in Ids : pending[i] = pending[j] /\ pending[i] # 0 => i = j
  /\ \A i \in Ids : pending[i] # 0 => pending[i] \notin to /\ inbox[pending[i]] = Empty
  /\ \A s \in to : inbox[s] = Empty
  /\ reader \notin {"put", "deliver"} => to = {}

\* The queue of a request that is not registered yet is nowhere else.
Unregistered == {"load", "store", "register"}
Nowhere(s) == (\A i \in Ids : pending[i] # s) /\ s \notin to /\ inbox[s] = Empty
NowhereInv ==
  /\ \A s \in Stamps : s > made => Nowhere(s)
  /\ \A c \in Callers : pc[c] \in Unregistered => Nowhere(stamp[c])

LEMMA OwnStamp ==
  ASSUME CallerFree, NEW c \in Callers, pc[c] \notin {"idle", "begin"}
  PROVE  /\ stamp[c] \in Stamps /\ ~(stamp[c] > made) /\ id[c] \in Ids /\ stamp[c] # 0
         /\ \A d \in Callers : stamp[d] = stamp[c] => d = c
<1>1. made \in 0..MaxRequests /\ stamp[c] \in 0..made /\ stamp[c] # 0 /\ id[c] \in Ids
  BY DEF CallerFree
<1>2. \A d \in Callers : stamp[d] = stamp[c] => d = c
  BY <1>1 DEF CallerFree
<1> QED BY <1>1, <1>2, CallersAssumption DEF Stamps

\* A step that puts no queue anywhere.
LEMMA NowhereKept ==
  ASSUME CallerFree, NowhereInv, made' = made,
         \A s \in Stamps : Nowhere(s) => Nowhere(s)',
         \A c \in Callers : pc'[c] \in Unregistered =>
                              pc[c] \in Unregistered /\ stamp'[c] = stamp[c]
  PROVE  NowhereInv'
<1>1. \A s \in Stamps : s > made' => Nowhere(s)'
  BY DEF NowhereInv
<1>2. ASSUME NEW c \in Callers, pc'[c] \in Unregistered
      PROVE  Nowhere(stamp[c])'
  <2>1. pc[c] \in Unregistered /\ stamp'[c] = stamp[c] /\ Nowhere(stamp[c])
    BY <1>2 DEF NowhereInv
  <2>2. stamp[c] \in Stamps
    BY <2>1, OwnStamp DEF Unregistered
  <2>3. \A i \in Ids : pending'[i] # stamp[c]
    BY <2>1, <2>2 DEF Nowhere
  <2>4. stamp[c] \notin to' /\ inbox'[stamp[c]] = Empty
    BY <2>1, <2>2 DEF Nowhere
  <2> QED BY <2>1, <2>3, <2>4 DEF Nowhere
<1> QED BY <1>1, <1>2 DEF NowhereInv

\* A step that leaves the queues alone.
LEMMA QueuesKept ==
  ASSUME CallerFree, QueueInv, NowhereInv, made' = made, UNCHANGED <<pending, to, inbox>>,
         reader' \in {"put", "deliver"} \/ to = {},
         \A c \in Callers : pc'[c] \in Unregistered =>
                              pc[c] \in Unregistered /\ stamp'[c] = stamp[c]
  PROVE  QueueInv' /\ NowhereInv'
<1>1. \A s \in Stamps : Nowhere(s) => Nowhere(s)'
  BY DEF Nowhere
<1>2. NowhereInv'
  BY <1>1, NowhereKept
<1> QED BY <1>2 DEF QueueInv

\* What a caller's step leaves of the other callers.
LEMMA CallerApart ==
  ASSUME CallerFree, NEW c \in Callers,
         NEW p \in CallerPCs, pc' = [pc EXCEPT ![c] = p],
         stamp' = stamp \/ stamp' = [stamp EXCEPT ![c] = 0],
         p \in Unregistered => pc[c] \in Unregistered /\ stamp' = stamp
  PROVE  \A d \in Callers : pc'[d] \in Unregistered =>
                              pc[d] \in Unregistered /\ stamp'[d] = stamp[d]
BY DEF CallerFree

\* The ends of a request, as far as the queues can tell.
LEMMA EndApart ==
  ASSUME CallerFree, NEW c \in Callers, Leave(c) \/ Return(c)
  PROVE  \A d \in Callers : pc'[d] \in Unregistered =>
                              pc[d] \in Unregistered /\ stamp'[d] = stamp[d]
<1>1. op[c] \in Ops /\ pc \in [Callers -> CallerPCs] /\ stamp \in [Callers -> 0..made]
  BY DEF CallerFree
<1>2. \E p \in {"idle", "write", "begin"} : pc' = [pc EXCEPT ![c] = p]
  BY <1>1 DEF Leave, Return, Continue, Goto, Ops
<1>3. stamp' = stamp \/ stamp' = [stamp EXCEPT ![c] = 0]
  BY <1>1 DEF Leave, Return, Continue, Goto, Ops
<1>4. \A p \in {"idle", "write", "begin"} : p \notin Unregistered
  BY DEF Unregistered
<1> QED BY <1>1, <1>2, <1>3, <1>4

LEMMA TakeIdQueues ==
  ASSUME CallerFree, QueueInv, NowhereInv, NEW c \in Callers, TakeId(c)
  PROVE  QueueInv' /\ NowhereInv'
<1>1. /\ made < MaxRequests /\ made' = made + 1
      /\ stamp' = [stamp EXCEPT ![c] = made + 1] /\ UNCHANGED <<pending, to, inbox, reader>>
      /\ \E p \in CallerPCs : pc' = [pc EXCEPT ![c] = p]
  BY DEF TakeId, Goto, Rest, readerVars, CallerPCs
<1>2. /\ made \in 0..MaxRequests /\ MaxRequests \in Nat
      /\ pc \in [Callers -> CallerPCs] /\ stamp \in [Callers -> 0..made]
  BY CallersAssumption DEF CallerFree
<1>3. \A s : Nowhere(s) <=> Nowhere(s)'
  BY <1>1 DEF Nowhere
<1>4. \A d \in Callers : d # c => pc'[d] = pc[d] /\ stamp'[d] = stamp[d]
  BY <1>1, <1>2
<1>5. stamp'[c] = made + 1 /\ made + 1 \in Stamps /\ made + 1 > made
  BY <1>1, <1>2 DEF Stamps
<1>6. Nowhere(made + 1)
  BY <1>5 DEF NowhereInv
<1>7. \A s \in Stamps : s > made' => Nowhere(s)'
  <2>1. \A s \in Stamps : s > made' => s > made
    BY <1>1, <1>2 DEF Stamps
  <2> QED BY <1>3, <2>1 DEF NowhereInv
<1>8. ASSUME NEW d \in Callers, pc'[d] \in Unregistered
      PROVE  Nowhere(stamp[d])'
  <2>1. Nowhere(stamp'[d])
    BY <1>4, <1>5, <1>6, <1>8 DEF NowhereInv
  <2> QED BY <1>1, <2>1 DEF Nowhere
<1> QED BY <1>1, <1>7, <1>8 DEF QueueInv, NowhereInv

LEMMA RegisterQueues ==
  ASSUME CallerFree, QueueInv, NowhereInv, NEW c \in Callers, Register(c)
  PROVE  QueueInv' /\ NowhereInv'
<1>1. /\ pc[c] = "register" /\ pending' = [pending EXCEPT ![id[c]] = stamp[c]]
      /\ pc' = [pc EXCEPT ![c] = "write"] /\ UNCHANGED <<stamp, to, inbox, reader, made>>
  BY DEF Register, Goto, Rest, readerVars
<1>2. /\ stamp[c] \in Stamps /\ id[c] \in Ids /\ Nowhere(stamp[c]) /\ ~(stamp[c] > made)
      /\ \A d \in Callers : stamp[d] = stamp[c] => d = c
  BY <1>1, OwnStamp DEF NowhereInv, Unregistered
<1>3. /\ pending'[id[c]] = stamp[c] /\ \A i \in Ids : i # id[c] => pending'[i] = pending[i]
      /\ pending' \in [Ids -> Stamps \cup {0}]
  BY <1>1, <1>2 DEF QueueInv
<1>4. \A i, j \in Ids : pending'[i] = pending'[j] /\ pending'[i] # 0 => i = j
  BY <1>2, <1>3 DEF QueueInv, Nowhere
<1>5. \A i \in Ids : pending'[i] # 0 => pending'[i] \notin to /\ inbox[pending'[i]] = Empty
  BY <1>2, <1>3 DEF QueueInv, Nowhere
<1>6. QueueInv'
  BY <1>1, <1>3, <1>4, <1>5 DEF QueueInv
<1>7. \A s : s # stamp[c] /\ Nowhere(s) => Nowhere(s)'
  BY <1>1, <1>3 DEF Nowhere
<1>8. \A s \in Stamps : s > made' => Nowhere(s)'
  BY <1>1, <1>2, <1>7 DEF NowhereInv
<1>9. ASSUME NEW d \in Callers, pc'[d] \in Unregistered
      PROVE  Nowhere(stamp[d])'
  <2>1. d # c
    BY <1>1, <1>9 DEF CallerFree, Unregistered
  <2>2. pc[d] \in Unregistered /\ stamp[d] # stamp[c]
    BY <1>1, <1>2, <1>9, <2>1 DEF CallerFree
  <2>3. Nowhere(stamp[d])
    BY <2>2 DEF NowhereInv
  <2> QED BY <1>1, <1>3, <2>2, <2>3 DEF Nowhere
<1> QED BY <1>6, <1>8, <1>9 DEF NowhereInv

\* A caller empties its queue, or takes itself out of the table.
LEMMA EndQueues ==
  ASSUME CallerFree, QueueInv, NowhereInv, NEW c \in Callers, Take(c) \/ Forget(c)
  PROVE  QueueInv' /\ NowhereInv'
<1>1. /\ UNCHANGED <<made, to, reader>> /\ pc[c] \in {"wait", "expired"}
      /\ Leave(c) \/ Return(c)
      /\ \/ pending' = pending /\ inbox' = [inbox EXCEPT ![stamp[c]] = Empty]
         \/ inbox' = inbox /\ pending' = [pending EXCEPT ![id[c]] = 0]
  BY DEF Take, Forget, Raise, Rest, tableVars, readerVars
<1>2. stamp[c] \in Stamps /\ id[c] \in Ids
  BY <1>1, OwnStamp
<1>3. /\ pending' \in [Ids -> Stamps \cup {0}] /\ \A i \in Ids : pending'[i] \in {0, pending[i]}
      /\ inbox' \in [Stamps -> Messages \cup {Empty, Failure}]
      /\ \A s \in Stamps : inbox'[s] \in {Empty, inbox[s]}
  BY <1>1, <1>2 DEF QueueInv
<1>4. 0 \notin Stamps
  BY DEF Stamps
<1>5. QueueInv'
  <2>1. \A i \in Ids : pending'[i] # 0 => pending'[i] = pending[i] /\ pending[i] \in Stamps
    BY <1>3 DEF QueueInv
  <2> QED BY <1>1, <1>3, <2>1 DEF QueueInv
<1>6. \A s \in Stamps : Nowhere(s) => Nowhere(s)'
  BY <1>1, <1>3, <1>4 DEF Nowhere
<1>7. \A d \in Callers : pc'[d] \in Unregistered =>
                              pc[d] \in Unregistered /\ stamp'[d] = stamp[d]
  BY <1>1, EndApart
<1> QED BY <1>1, <1>5, <1>6, <1>7, NowhereKept

LEMMA PopQueues ==
  ASSUME CallerFree, PipeFree, QueueInv, NowhereInv, Pop \/ FailPending
  PROVE  QueueInv' /\ NowhereInv'
<1>1. /\ UNCHANGED <<made, inbox, pc, stamp>> /\ to = {} /\ reader' \in {"put", "deliver"}
      /\ Pop => reader = "pop"
  BY DEF Pop, FailPending, Elsewhere, callerVars, QueueInv
<1>2. 0 \notin Stamps
  BY DEF Stamps
<1>3. /\ pending' \in [Ids -> Stamps \cup {0}] /\ to' \subseteq Stamps
      /\ \A i \in Ids : pending'[i] \in {0, pending[i]}
      /\ \A s \in to' : \E i \in Ids : pending[i] = s /\ pending'[i] = 0
  <2>1. CASE Pop
    <3>1. line.id \in Ids
      BY <1>1, <2>1, RequestKinds DEF PipeFree
    <3> QED BY <1>2, <2>1, <3>1 DEF Pop, QueueInv
  <2>2. CASE FailPending
    BY <1>2, <2>2 DEF FailPending, QueueInv
  <2> QED BY <2>1, <2>2
<1>4. \A i \in Ids : pending'[i] # 0 => pending'[i] = pending[i] /\ pending[i] \in Stamps
  BY <1>3 DEF QueueInv
<1>5. \A i \in Ids : pending'[i] # 0 => pending'[i] \notin to' /\ inbox[pending'[i]] = Empty
  BY <1>2, <1>3, <1>4 DEF QueueInv
<1>6. \A s \in to' : inbox[s] = Empty
  BY <1>2, <1>3 DEF QueueInv
<1>7. QueueInv'
  BY <1>1, <1>3, <1>4, <1>5, <1>6 DEF QueueInv
<1>8. \A s \in Stamps : Nowhere(s) => Nowhere(s)'
  BY <1>1, <1>2, <1>3 DEF Nowhere
<1> QED BY <1>1, <1>7, <1>8, NowhereKept

LEMMA PutQueues ==
  ASSUME CallerFree, PipeFree, QueueInv, NowhereInv, Put
  PROVE  QueueInv' /\ NowhereInv'
<1>1. UNCHANGED <<made, pending, pc, stamp>> /\ reader \in {"put", "deliver"}
  BY DEF Put, Elsewhere, callerVars
<1>2. CASE to = {}
  <2>1. UNCHANGED <<inbox, to>>
    BY <1>2 DEF Put
  <2> QED BY <1>1, <1>2, <2>1, QueuesKept
<1>3. CASE to # {}
  <2> DEFINE message == IF reader = "put" THEN line ELSE Failure
  <2>1. PICK s \in to : /\ inbox' = [inbox EXCEPT ![s] = message]
                        /\ to' = to \ {s} /\ UNCHANGED <<reader, line>>
    BY <1>3 DEF Put
  <2>2. message \in Messages \cup {Failure}
    BY DEF PipeFree
  <2> HIDE DEF message
  <2>3. s \in Stamps /\ \A i \in Ids : pending[i] # s
    BY DEF QueueInv, Stamps
  <2>4. inbox' \in [Stamps -> Messages \cup {Empty, Failure}]
        /\ \A t \in Stamps : t # s => inbox'[t] = inbox[t]
    BY <2>1, <2>2, <2>3 DEF QueueInv
  <2>5. \A i \in Ids : pending[i] # 0 => pending[i] \in Stamps
    BY DEF QueueInv
  <2>6. \A i \in Ids : pending'[i] # 0 => pending'[i] \notin to' /\ inbox'[pending'[i]] = Empty
    BY <1>1, <2>1, <2>3, <2>4, <2>5 DEF QueueInv
  <2>7. \A t \in to' : inbox'[t] = Empty
    BY <2>1, <2>4 DEF QueueInv
  <2>8. QueueInv'
    BY <1>1, <2>1, <2>4, <2>6, <2>7 DEF QueueInv
  <2>9. \A t \in Stamps : Nowhere(t) => Nowhere(t)'
    BY <1>1, <2>1, <2>4 DEF Nowhere
  <2> QED BY <1>1, <2>8, <2>9, NowhereKept
<1> QED BY <1>2, <1>3

LEMMA QueueStep ==
  ASSUME CallerFree, PipeFree, QueueInv, NowhereInv, [Next]_vars
  PROVE  QueueInv' /\ NowhereInv'
<1>0. reader \in {"put", "deliver"} \/ to = {}
  BY DEF QueueInv
<1>1. CASE UNCHANGED <<made, pending, to, inbox, reader, pc, stamp>>
  BY <1>0, <1>1, QueuesKept
<1>2. ASSUME NEW c \in Callers, Tools(c) \/ CallTool(c) \/ CallerStep(c)
      PROVE  QueueInv' /\ NowhereInv'
  <2>1. CASE Tools(c) \/ CallTool(c) \/ LoadNext(c) \/ StoreNext(c) \/ StartWrite(c) \/ Expire(c)
    <3>1. /\ UNCHANGED <<made, pending, to, inbox, reader, stamp>>
          /\ \/ pc' = [pc EXCEPT ![c] = "begin"] \/ pc' = [pc EXCEPT ![c] = "writing"]
             \/ pc' = [pc EXCEPT ![c] = "expired"]
             \/ pc[c] = "load" /\ pc' = [pc EXCEPT ![c] = "store"]
             \/ pc[c] = "store" /\ pc' = [pc EXCEPT ![c] = "register"]
      BY <2>1 DEF Tools, CallTool, LoadNext, StoreNext, StartWrite, Expire, Goto, Rest,
                  tableVars, readerVars
    <3>2. \A d \in Callers : pc'[d] \in Unregistered =>
                              pc[d] \in Unregistered /\ stamp'[d] = stamp[d]
      BY <3>1 DEF CallerFree, Unregistered
    <3> QED BY <1>0, <3>1, <3>2, QueuesKept
  <2>2. CASE WriteClosed(c) \/ WriteBreaks(c)
    <3>1. Leave(c) /\ UNCHANGED <<made, pending, to, inbox, reader>>
      BY <2>2 DEF WriteClosed, WriteBreaks, Raise, Rest, tableVars, readerVars
    <3> QED BY <1>0, <3>1, EndApart, QueuesKept
  <2>3. CASE FinishWrite(c)
    <3>1. /\ UNCHANGED <<made, pending, to, inbox, reader>>
          /\ Return(c) \/ (pc' = [pc EXCEPT ![c] = "wait"] /\ stamp' = stamp)
      BY <2>3 DEF FinishWrite, Goto, Rest, tableVars, readerVars
    <3>2. CASE Return(c)
      BY <1>0, <3>1, <3>2, EndApart, QueuesKept
    <3>3. CASE pc' = [pc EXCEPT ![c] = "wait"] /\ stamp' = stamp
      <4>1. \A d \in Callers : pc'[d] \in Unregistered =>
                              pc[d] \in Unregistered /\ stamp'[d] = stamp[d]
        BY <3>3 DEF CallerFree, Unregistered
      <4> QED BY <1>0, <3>1, <4>1, QueuesKept
    <3> QED BY <3>1, <3>2, <3>3
  <2>4. \/ Tools(c) \/ CallTool(c) \/ TakeId(c)
        \/ LoadNext(c) \/ StoreNext(c) \/ Register(c) \/ StartWrite(c) \/ Expire(c)
        \/ WriteClosed(c) \/ WriteBreaks(c) \/ Forget(c) \/ Take(c) \/ FinishWrite(c)
    BY <1>2 DEF CallerStep
  <2> QED BY <2>1, <2>2, <2>3, <2>4, TakeIdQueues, RegisterQueues, EndQueues
<1>3. CASE ServerRead \/ ServerExits
           \/ (\E request \in accepted, kind \in Answers : ServerAnswer(request, kind))
           \/ (\E kind \in Lines : ServerSays(kind))
  BY <1>1, <1>3 DEF ServerRead, ServerExits, ServerAnswer, ServerSays, Outside, callerVars, readerVars
<1>4. CASE ReadLine \/ ReadEof
  <2>1. UNCHANGED <<made, pending, to, inbox, pc, stamp>> /\ reader = "read"
    BY <1>4 DEF ReadLine, ReadEof, Elsewhere, callerVars
  <2> QED BY <1>0, <2>1, QueuesKept
<1>5. CASE Close \/ CloserStep
  BY <1>1, <1>5 DEF Close, CloserStep, CloseStdin, Poll, Terminate, Kill, Others, callerVars, readerVars
<1>6. CASE UNCHANGED vars
  BY <1>1, <1>6 DEF vars, callerVars, readerVars
<1> QED
  BY <1>2, <1>3, <1>4, <1>5, <1>6, PopQueues, PutQueues DEF Next, ReaderStep

-----------------------------------------------------------------------------
\* The flags of tools and close.
FlagInv ==
  /\ gil \in BOOLEAN /\ closed \in BOOLEAN /\ lock = (closer = "stdin")
  /\ degraded \in BOOLEAN /\ cache \in {"none", "empty", "full"}
  /\ degraded => cache # "none"

LEMMA FlagStep ==
  ASSUME FlagInv, CallerFree, [Next]_vars
  PROVE  FlagInv'
<1>0. gil' = gil
  BY SameGil
<1>1. CASE UNCHANGED <<closed, lock, closer, degraded, cache>>
  BY <1>0, <1>1 DEF FlagInv
<1>2. ASSUME UNCHANGED <<closed, lock, closer>>,
             \/ UNCHANGED <<degraded, cache>>
             \/ degraded' = TRUE /\ cache' = "empty"
             \/ degraded' = degraded /\ cache' = "full"
      PROVE  FlagInv'
  <2>1. gil' \in BOOLEAN /\ closed' \in BOOLEAN
    BY <1>0, <1>2 DEF FlagInv
  <2>2. lock' = (closer' = "stdin")
    BY <1>2, Zenon DEF FlagInv
  <2>3. degraded' \in BOOLEAN /\ cache' \in {"none", "empty", "full"}
    BY <1>2 DEF FlagInv
  <2>4. degraded' => cache' # "none"
    BY <1>2 DEF FlagInv
  <2> QED BY <2>1, <2>2, <2>3, <2>4, Zenon DEF FlagInv
<1>3. ASSUME NEW c \in Callers, Tools(c) \/ CallTool(c) \/ CallerStep(c)
      PROVE  FlagInv'
  <2>1. UNCHANGED <<closed, lock, closer>>
    BY <1>3 DEF CallerStep, Tools, CallTool, TakeId, LoadNext, StoreNext, Register, WriteClosed,
        StartWrite, FinishWrite, WriteBreaks, Take, Expire, Forget, Rest, closeVars
  <2>2. CASE Return(c) \/ Raise(c)
    <3>1. op[c] \in Ops
      BY DEF CallerFree
    <3>2. \/ UNCHANGED <<degraded, cache>>
          \/ degraded' = TRUE /\ cache' = "empty"
          \/ degraded' = degraded /\ cache' = "full"
      BY <2>2, <3>1 DEF Return, Raise, Continue, Ops, toolVars
    <3> QED BY <1>2, <2>1, <3>2
  <2>3. CASE UNCHANGED toolVars
    BY <1>2, <2>1, <2>3 DEF toolVars
  <2>4. Return(c) \/ Raise(c) \/ UNCHANGED toolVars
    BY <1>3 DEF CallerStep, Tools, CallTool, TakeId, LoadNext, StoreNext, Register, WriteClosed,
        StartWrite, FinishWrite, WriteBreaks, Take, Expire, Forget
  <2> QED BY <2>2, <2>3, <2>4
<1>4. CASE ServerRead \/ ServerExits
           \/ (\E request \in accepted, kind \in Answers : ServerAnswer(request, kind))
           \/ (\E kind \in Lines : ServerSays(kind))
  BY <1>1, <1>4 DEF ServerRead, ServerExits, ServerAnswer, ServerSays, Outside, callerVars,
                    toolVars, closeVars
<1>5. CASE ReaderStep
  <2>1. /\ UNCHANGED <<lock, closer, degraded, cache>> /\ closed' \in {closed, TRUE}
    BY <1>5 DEF ReaderStep, ReadLine, ReadEof, Pop, FailPending, Put, Elsewhere, callerVars, toolVars
  <2> QED BY <1>0, <2>1 DEF FlagInv
<1>6. CASE Close \/ CloserStep
  <2>1. UNCHANGED <<degraded, cache>> /\ closed' \in {closed, TRUE}
    BY <1>6 DEF Close, CloserStep, CloseStdin, Poll, Terminate, Kill, Others, callerVars, toolVars
  <2>2. \/ lock' = lock /\ closer # "stdin" /\ closer' # "stdin"
        \/ lock' = TRUE /\ closer' = "stdin"
        \/ lock' = FALSE /\ closer' # "stdin"
    <3>1. CASE Close
      <4>1. closer # "stdin"
        BY <3>1 DEF Close
      <4>2. (closer' = "done" /\ lock' = lock) \/ (closer' = "stdin" /\ lock' = TRUE)
        BY <3>1, Zenon DEF Close
      <4>3. closer' = "done" => closer' # "stdin"
        OBVIOUS
      <4> QED BY <4>1, <4>2, <4>3, Zenon
    <3>2. CASE CloseStdin
      BY <3>2 DEF CloseStdin
    <3>3. CASE Poll \/ Terminate \/ Kill
      BY <3>3 DEF Poll, Terminate, Kill
    <3> QED BY <1>6, <3>1, <3>2, <3>3 DEF CloserStep
  <2> QED BY <1>0, <2>1, <2>2 DEF FlagInv
<1>7. CASE UNCHANGED vars
  BY <1>1, <1>7 DEF vars, callerVars, toolVars, closeVars
<1> QED BY <1>3, <1>4, <1>5, <1>6, <1>7 DEF Next

-----------------------------------------------------------------------------
FreeInv ==
  /\ CallerFree /\ CountInv /\ BudgetInv /\ PipeFree /\ QueueInv /\ NowhereInv /\ FlagInv

LEMMA InitFree == Init => FreeInv
<1> SUFFICES ASSUME Init PROVE FreeInv
  OBVIOUS
<1>0. MaxRequests \in Nat /\ PipeSize \in Nat
  BY CallersAssumption
<1>1. CallerFree
  BY <1>0 DEF Init, CallerFree, CallerPCs, Ops
<1>2. CountInv
  <2>1. Cardinality(Stored) \in Nat
    BY <1>1, StoredType DEF CallerFree
  <2>2. nextId = 1 /\ \A c \in Callers : pc[c] = "idle" /\ loaded[c] = 0
    BY DEF Init
  <2> QED BY <2>1, <2>2 DEF CountInv
<1>3. BudgetInv
  <2>1. Beginning = {} /\ Opening = {}
    BY DEF Init, Beginning, Opening
  <2>2. IsFiniteSet({}) /\ Cardinality({}) = 0
    BY FS_EmptySet
  <2> QED BY <1>0, <2>1, <2>2 DEF Init, BudgetInv
<1>4. PipeFree
  <2>1. wire = <<>> /\ out = <<>> /\ accepted = {} /\ reader = "read"
    BY DEF Init
  <2> QED BY <1>0, <2>1 DEF PipeFree
<1>5. QueueInv /\ NowhereInv
  <2>1. /\ pending = [i \in Ids |-> 0] /\ to = {} /\ inbox = [s \in Stamps |-> Empty]
        /\ \A c \in Callers : pc[c] = "idle"
    BY DEF Init
  <2>2. 0 \notin Stamps
    BY DEF Stamps
  <2> QED BY <2>1, <2>2 DEF QueueInv, NowhereInv, Nowhere, Unregistered
<1>6. FlagInv
  BY DEF Init, FlagInv
<1> QED BY <1>1, <1>2, <1>3, <1>4, <1>5, <1>6 DEF FreeInv

LEMMA FreeInvariance == Spec => []FreeInv
<1>1. FreeInv /\ [Next]_vars => FreeInv'
  <2> SUFFICES ASSUME FreeInv, [Next]_vars PROVE FreeInv'
    OBVIOUS
  <2>1. /\ CallerFree /\ CountInv /\ BudgetInv /\ PipeFree /\ QueueInv /\ NowhereInv /\ FlagInv
        /\ gil \in BOOLEAN
    BY DEF FreeInv, FlagInv
  <2>2. CallerFree' /\ CountInv'
    BY <2>1, CallerFreeStep
  <2>3. BudgetInv'
    BY <2>1, BudgetStep
  <2>4. PipeFree'
    BY <2>1, PipeFreeStep
  <2>5. QueueInv' /\ NowhereInv'
    BY <2>1, QueueStep
  <2>6. FlagInv'
    BY <2>1, FlagStep
  <2> QED BY <2>2, <2>3, <2>4, <2>5, <2>6 DEF FreeInv
<1> QED BY <1>1, InitFree, PTL DEF Spec

\* Every variable keeps its type, with a global lock or without: _next_id
\* stays within the requests made, and no pipe holds more than it can.
THEOREM McpTyped == Spec => []TypeOK
<1>1. FreeInv => TypeOK
  <2> SUFFICES ASSUME FreeInv PROVE TypeOK
    OBVIOUS
  <2>1. /\ CallerFree /\ CountInv /\ BudgetInv /\ PipeFree /\ QueueInv /\ FlagInv
        /\ MaxRequests \in Nat
    BY CallersAssumption DEF FreeInv
  <2>2. made \in 0..MaxRequests /\ made \in Nat /\ stamp \in [Callers -> 0..made]
        /\ loaded \in [Callers -> Nat]
    BY <2>1 DEF CallerFree
  <2>3. /\ Cardinality(Stored) \in Nat /\ Cardinality(Stored) <= made
        /\ \A x \in 1..made : x \notin Stored => Cardinality(Stored) < made
    BY <2>2, StoredType
  <2>4. stamp \in [Callers -> Stamps \cup {0}]
    <3>1. 0..made \subseteq Stamps \cup {0}
      BY <2>1, <2>2 DEF Stamps
    <3> QED BY <2>2, <3>1
  <2>5. loaded \in [Callers -> 0..MaxRequests]
    <3> SUFFICES ASSUME NEW c \in Callers PROVE loaded[c] \in 0..MaxRequests
      BY <2>2
    <3>1. CASE pc[c] = "store"
      <4>1. stamp[c] \in 1..made
        BY <2>1, <2>2, <3>1 DEF CallerFree
      <4>2. stamp[c] \notin Stored
        BY <3>1 DEF Stored, Advancing
      <4>3. Cardinality(Stored) < made /\ loaded[c] <= 1 + Cardinality(Stored) /\ loaded[c] \in Nat
        BY <2>1, <2>2, <2>3, <3>1, <4>1, <4>2 DEF CountInv
      <4> QED BY <2>1, <2>2, <2>3, <4>3
    <3>2. CASE pc[c] # "store"
      BY <2>1, <3>2 DEF CountInv
    <3> QED BY <3>1, <3>2
  <2>6. made + budget <= MaxRequests
    <3>1. Cardinality(Beginning) \in Nat /\ Cardinality(Opening) \in Nat /\ budget \in Nat
      BY <2>1, FS_CardinalityType DEF BudgetInv
    <3> QED BY <2>1, <2>2, <3>1 DEF BudgetInv
  <2>7. nextId \in 1..MaxRequests + 1
    BY <2>1, <2>2, <2>3 DEF CountInv
  <2>8. CallerType
    BY <2>1, <2>4, <2>5, <2>6 DEF CallerType, CallerFree, QueueInv
  <2>9. TableType
    BY <2>1, <2>7 DEF TableType, FlagInv, QueueInv
  <2>10. PipeType
    BY <2>1 DEF PipeType, PipeFree, QueueInv
  <2> QED BY <2>8, <2>9, <2>10 DEF TypeOK
<1> QED BY <1>1, FreeInvariance, PTL

\* Even without a global lock, when two requests may get the same id, the
\* reader never waits for a caller: every queue it is about to fill is empty.
THEOREM NeverBlocks == Spec => []ReaderNeverBlocks
<1>1. FreeInv => ReaderNeverBlocks
  BY DEF FreeInv, QueueInv, ReaderNeverBlocks
<1> QED BY <1>1, FreeInvariance, PTL

-----------------------------------------------------------------------------
\* close finds the client closed only when the reader has given up on it.
DownInv ==
  /\ closer = "idle" /\ closed = TRUE => reader \in {"deliver", "gone"}
  /\ CloseTearsDown

\* close leaves no server behind, unless the reader gave up after a malformed
\* line: close, _read_loop and _fail_pending.
THEOREM TornDown == Spec => []CloseTearsDown
<1>1. Init => DownInv
  BY DEF Init, DownInv, CloseTearsDown
<1>2. DownInv /\ FreeInv /\ [Next]_vars => DownInv'
  <2> SUFFICES ASSUME DownInv, FreeInv, [Next]_vars PROVE DownInv'
    OBVIOUS
  <2>0. closed \in BOOLEAN
    BY DEF FreeInv, FlagInv
  <2>1. CASE UNCHANGED <<closer, closed, reader>> /\ (server = "dead" => server' = "dead")
    BY <2>1 DEF DownInv, CloseTearsDown
  <2>2. CASE \E c \in Callers : Tools(c) \/ CallTool(c) \/ CallerStep(c)
    BY <2>1, <2>2 DEF CallerStep, Tools, CallTool, TakeId, LoadNext, StoreNext, Register,
        WriteClosed, StartWrite, FinishWrite, WriteBreaks, Take, Expire, Forget, Rest, closeVars,
        serverVars, readerVars
  <2>3. CASE ServerRead \/ ServerExits
           \/ (\E request \in accepted, kind \in Answers : ServerAnswer(request, kind))
           \/ (\E kind \in Lines : ServerSays(kind))
    BY <2>1, <2>3 DEF ServerRead, ServerExits, ServerAnswer, ServerSays, Outside, Dies, closeVars,
        serverVars, readerVars
  <2>4. CASE ReadLine \/ ReadEof \/ Pop \/ Put
    <3>1. UNCHANGED <<closer, closed, server>>
      BY <2>4 DEF ReadLine, ReadEof, Pop, Put, Elsewhere, serverVars
    <3>2. reader \in {"deliver", "gone"} => reader' \in {"deliver", "gone"}
      BY <2>4 DEF ReadLine, ReadEof, Pop, Put
    <3> QED BY <3>1, <3>2 DEF DownInv, CloseTearsDown
  <2>5. CASE FailPending
    BY <2>5 DEF FailPending, DownInv, CloseTearsDown
  <2>6. CASE Close \/ CloserStep
    BY <2>0, <2>6 DEF Close, CloserStep, CloseStdin, Poll, Terminate, Kill, Dies, Others, readerVars,
        serverVars, DownInv, CloseTearsDown
  <2>7. CASE UNCHANGED vars
    BY <2>1, <2>7 DEF vars, closeVars, readerVars, serverVars
  <2> QED BY <2>2, <2>3, <2>4, <2>5, <2>6, <2>7 DEF Next, ReaderStep
<1>3. DownInv => CloseTearsDown
  BY DEF DownInv
<1> QED BY <1>1, <1>2, <1>3, FreeInvariance, PTL DEF Spec

-----------------------------------------------------------------------------
\* Under a global lock the table holds requests in progress, and those whose
\* write failed.  A caller that notifies is out of it.
Active == {"write", "writing", "wait", "expired"}
LingerInv ==
  /\ \A c \in Callers : op[c] = "initialized" => pending[id[c]] = 0
  /\ \A i \in Ids : pending[i] # 0 =>
       i \in unsent \/ \E c \in Callers : id[c] = i /\ pc[c] \in Active

\* What one caller may do to the table.
LEMMA LingerKept ==
  ASSUME Inv, LingerInv, NEW c \in Callers, unsent \subseteq unsent',
         \A d \in Callers \ {c} : pc'[d] = pc[d] /\ op'[d] = op[d] /\ id'[d] = id[d],
         \A i \in Ids : pending'[i] \in {0, pending[i]},
         op'[c] = "initialized" => pending'[id'[c]] = 0,
         pc[c] \in Active => \/ pending'[id[c]] = 0 \/ id[c] \in unsent'
                             \/ id'[c] = id[c] /\ pc'[c] \in Active
  PROVE  LingerInv'
<1>1. ASSUME NEW d \in Callers, op'[d] = "initialized"
      PROVE  pending'[id'[d]] = 0
  <2>1. CASE d = c
    BY <1>1, <2>1
  <2>2. CASE d # c
    <3>1. op[d] = "initialized" /\ id'[d] = id[d] /\ pending[id[d]] = 0
      BY <1>1, <2>2 DEF LingerInv
    <3>2. id[d] \in Ids
      BY <3>1, CallerId DEF Inv, ReachInv
    <3> QED BY <3>1, <3>2
  <2> QED BY <2>1, <2>2
<1>2. ASSUME NEW i \in Ids, pending'[i] # 0
      PROVE  i \in unsent' \/ \E d \in Callers : id'[d] = i /\ pc'[d] \in Active
  <2>1. pending[i] # 0
    BY <1>2
  <2>2. i \in unsent \/ \E d \in Callers : id[d] = i /\ pc[d] \in Active
    BY <2>1 DEF LingerInv
  <2> QED BY <1>2, <2>2
<1> QED BY <1>1, <1>2 DEF LingerInv

LEMMA LingerStep ==
  ASSUME Inv, gil = TRUE, LingerInv, [Next]_vars
  PROVE  LingerInv'
<1>0. /\ pc \in [Callers -> CallerPCs \ {"load", "store"}] /\ op \in [Callers -> Ops]
      /\ stamp = id /\ pending \in [Ids -> Nat] /\ inbox \in [Ids -> OwnMessages(Answers) \cup {Empty, Failure}]
      /\ \A i \in Ids : pending[i] \in {0, i}
  BY DEF Inv, CallerInv, TableInv
<1>1. ASSUME UNCHANGED <<pc, op, id, unsent>>, \A i \in Ids : pending'[i] \in {0, pending[i]}
      PROVE  LingerInv'
  <2>1. \A c \in Callers : op[c] = "initialized" => id[c] \in Ids
    BY CallerId DEF Inv, ReachInv
  <2> QED BY <1>1, <2>1 DEF LingerInv
<1>2. ASSUME NEW c \in Callers, Tools(c) \/ CallTool(c) \/ CallerStep(c)
      PROVE  LingerInv'
  <2>0. op[c] = "initialized" => pc[c] \in {"write", "writing"} /\ pending[id[c]] = 0
    BY DEF Inv, ReachInv, LingerInv
  <2>1. CASE Tools(c) \/ CallTool(c) \/ TakeId(c)
    <3>1. /\ pc[c] \in {"idle", "begin"} /\ UNCHANGED <<pending, unsent>>
          /\ \A d \in Callers \ {c} : pc'[d] = pc[d] /\ op'[d] = op[d] /\ id'[d] = id[d]
          /\ op'[c] # "initialized"
      <4>1. id \in [Callers -> 0..made]
        BY DEF Inv, CallerInv
      <4>2. CASE Tools(c) \/ CallTool(c)
        BY <1>0, <4>2 DEF Tools, CallTool, Goto, tableVars
      <4>3. CASE TakeId(c)
        BY <1>0, <2>0, <4>1, <4>3 DEF TakeId, Goto
      <4> QED BY <2>1, <4>2, <4>3
    <3> QED BY <3>1, LingerKept DEF Active
  <2>2. CASE StartWrite(c) \/ Expire(c)
    <3>1. /\ UNCHANGED <<op, id, pending, unsent>> /\ pc'[c] \in Active
          /\ \A d \in Callers \ {c} : pc'[d] = pc[d]
      BY <1>0, <2>2 DEF StartWrite, Expire, Goto, tableVars, Active
    <3> QED BY <2>0, <3>1, LingerKept
  <2>3. CASE Register(c)
    <3>1. /\ pc[c] = "register" /\ pending' = [pending EXCEPT ![id[c]] = id[c]]
          /\ pc' = [pc EXCEPT ![c] = "write"] /\ UNCHANGED <<op, id, unsent>>
      BY <1>0, <2>3 DEF Register, Goto
    <3>2. id[c] \in Ids /\ \A d \in Callers : id[d] = id[c] => d = c
      BY <3>1, CallerId DEF Inv, CallerInv
    <3>3. op[c] # "initialized"
      BY <2>0, <3>1
    <3>4. pc'[c] \in Active /\ \A d \in Callers \ {c} : pc'[d] = pc[d]
      BY <1>0, <3>1 DEF Active
    <3>5. \A i \in Ids : i # id[c] => pending'[i] = pending[i]
      BY <1>0, <3>1
    <3>6. \A d \in Callers : op[d] = "initialized" => pending'[id[d]] = 0
      <4>1. \A d \in Callers : op[d] = "initialized" => id[d] \in Ids
        BY CallerId DEF Inv, ReachInv
      <4> QED BY <3>2, <3>3, <3>5, <4>1 DEF LingerInv
    <3>7. \A i \in Ids : pending'[i] # 0 =>
            i \in unsent \/ \E d \in Callers : id[d] = i /\ pc'[d] \in Active
      <4> SUFFICES ASSUME NEW i \in Ids, pending'[i] # 0
                   PROVE  i \in unsent \/ \E d \in Callers : id[d] = i /\ pc'[d] \in Active
        OBVIOUS
      <4>1. CASE i = id[c]
        BY <3>4, <4>1
      <4>2. CASE i # id[c]
        <5>1. i \in unsent \/ \E d \in Callers : id[d] = i /\ pc[d] \in Active
          BY <3>5, <4>2 DEF LingerInv
        <5> QED BY <3>4, <4>2, <5>1
      <4> QED BY <4>1, <4>2
    <3> QED BY <3>1, <3>6, <3>7 DEF LingerInv
  <2>4. CASE WriteClosed(c) \/ WriteBreaks(c)
    <3>1. /\ pc[c] \in {"write", "writing"} /\ Leave(c) /\ pending' = pending
          /\ op[c] # "initialized" => unsent' = unsent \cup {stamp[c]}
          /\ unsent \subseteq unsent'
      BY <2>4 DEF WriteClosed, WriteBreaks, Raise, Unsent, tableVars
    <3>2. /\ \A d \in Callers \ {c} : pc'[d] = pc[d] /\ op'[d] = op[d] /\ id'[d] = id[d]
          /\ op'[c] = "call"
      BY <1>0, <3>1 DEF Leave, Goto, Inv, CallerInv
    <3>3. pending'[id[c]] = 0 \/ id[c] \in unsent'
      BY <1>0, <2>0, <3>1
    <3> QED BY <3>1, <3>2, <3>3, LingerKept
  <2>5. CASE Forget(c)
    <3>1. /\ pc[c] = "expired" /\ Leave(c) /\ pending' = [pending EXCEPT ![id[c]] = 0]
          /\ unsent' = unsent
      BY <2>5 DEF Forget, Raise
    <3>2. /\ \A d \in Callers \ {c} : pc'[d] = pc[d] /\ op'[d] = op[d] /\ id'[d] = id[d]
          /\ op'[c] = "call"
      BY <1>0, <3>1 DEF Leave, Goto, Inv, CallerInv
    <3>3. pending'[id[c]] = 0 /\ \A i \in Ids : pending'[i] \in {0, pending[i]}
      BY <1>0, <3>1, CallerId
    <3> QED BY <3>1, <3>2, <3>3, LingerKept
  <2>6. ASSUME Return(c) \/ Leave(c), pending' = pending, pending[id[c]] = 0, unsent' = unsent,
               pc[c] \in {"writing", "wait"}
        PROVE  LingerInv'
    <3>1. \/ id' = id /\ op'[c] \in {"initialized", "list"}
          \/ op'[c] = "call"
      BY <1>0, <2>6 DEF Return, Leave, Continue, Goto, Ops
    <3>2. \A d \in Callers \ {c} : pc'[d] = pc[d] /\ op'[d] = op[d] /\ id'[d] = id[d]
      BY <1>0, <2>6 DEF Return, Leave, Continue, Goto, Ops, Inv, CallerInv
    <3> QED BY <2>6, <3>1, <3>2, LingerKept
  <2>7. CASE FinishWrite(c)
    <3>1. pc[c] = "writing" /\ UNCHANGED <<pending, unsent>>
      BY <2>7 DEF FinishWrite, tableVars
    <3>2. CASE op[c] = "initialized"
      BY <2>0, <2>6, <2>7, <3>1, <3>2 DEF FinishWrite
    <3>3. CASE op[c] # "initialized"
      <4>1. pc' = [pc EXCEPT ![c] = "wait"] /\ UNCHANGED <<op, id>>
        BY <2>7, <3>3 DEF FinishWrite, Goto
      <4>2. pc'[c] \in Active /\ \A d \in Callers \ {c} : pc'[d] = pc[d]
        BY <1>0, <4>1 DEF Active
      <4> QED BY <3>1, <3>3, <4>1, <4>2, LingerKept
    <3> QED BY <3>2, <3>3
  <2>8. CASE Take(c)
    <3>1. /\ pc[c] = "wait" /\ inbox[stamp[c]] # Empty /\ UNCHANGED <<pending, unsent>>
          /\ Return(c) \/ Leave(c)
      BY <2>8 DEF Take, Raise, tableVars
    <3>2. id[c] \in Ids /\ stamp[c] = id[c]
      BY <3>1, CallerId
    <3>3. pending[id[c]] = 0
      BY <1>0, <3>1, <3>2 DEF Inv, TableInv
    <3> QED BY <2>6, <3>1, <3>3
  <2>9. ~LoadNext(c) /\ ~StoreNext(c)
    BY <1>0 DEF LoadNext, StoreNext
  <2>10. \/ Tools(c) \/ CallTool(c) \/ TakeId(c) \/ Register(c) \/ StartWrite(c) \/ Expire(c)
         \/ WriteClosed(c) \/ WriteBreaks(c) \/ Forget(c) \/ Take(c) \/ FinishWrite(c)
    BY <1>2, <2>9 DEF CallerStep
  <2> QED BY <2>1, <2>2, <2>3, <2>4, <2>5, <2>7, <2>8, <2>10
<1>3. CASE ServerRead \/ ServerExits
           \/ (\E request \in accepted, kind \in Answers : ServerAnswer(request, kind))
           \/ (\E kind \in Lines : ServerSays(kind))
  BY <1>1, <1>3 DEF ServerRead, ServerExits, ServerAnswer, ServerSays, Outside, callerVars
<1>4. CASE ReaderStep
  <2>1. UNCHANGED <<pc, op, id, unsent>>
    BY <1>4 DEF ReaderStep, ReadLine, ReadEof, Pop, FailPending, Put, Elsewhere, callerVars
  <2>2. \A i \in Ids : pending'[i] \in {0, pending[i]}
    <3>1. CASE Pop
      BY <1>0, <3>1 DEF Pop
    <3>2. CASE FailPending
      BY <1>0, <3>2 DEF FailPending
    <3>3. CASE ReadLine \/ ReadEof \/ Put
      BY <3>3 DEF ReadLine, ReadEof, Put
    <3> QED BY <1>4, <3>1, <3>2, <3>3 DEF ReaderStep
  <2> QED BY <1>1, <2>1, <2>2
<1>5. CASE Close \/ CloserStep
  BY <1>1, <1>5 DEF Close, CloserStep, CloseStdin, Poll, Terminate, Kill, Others, callerVars
<1>6. CASE UNCHANGED vars
  BY <1>1, <1>6 DEF vars, callerVars
<1> QED BY <1>2, <1>3, <1>4, <1>5, <1>6 DEF Next

\* Under a global lock no ended request stays in the table, whether it was
\* answered, failed or timed out, except one whose write raised: _request.
THEOREM TableEmpties == Spec => []OnlyUnsentLinger
<1>1. Init /\ gil = TRUE => LingerInv
  BY DEF Init, LingerInv
<1>2. Init => ((gil = TRUE) => LingerInv)
  BY <1>1
<1>3. ((gil = TRUE) => Inv) /\ ((gil = TRUE) => LingerInv) /\ [Next]_vars
        => ((gil = TRUE) => LingerInv)'
  <2> SUFFICES ASSUME (gil = TRUE) => Inv, (gil = TRUE) => LingerInv, [Next]_vars, gil' = TRUE
               PROVE  LingerInv'
    OBVIOUS
  <2>1. gil = TRUE
    BY SameGil
  <2> QED BY <2>1, LingerStep
<1>4. ((gil = TRUE) => Inv) /\ ((gil = TRUE) => LingerInv) => OnlyUnsentLinger
  <2> SUFFICES ASSUME Inv, LingerInv, NEW i \in Ids, pending[i] # 0
               PROVE  \/ pending[i] \in unsent
                      \/ \E c \in Callers : stamp[c] = pending[i]
                            /\ pc[c] \in {"write", "writing", "wait", "expired"}
    BY DEF OnlyUnsentLinger
  <2>1. pending[i] = i /\ stamp = id
    BY DEF Inv, TableInv, CallerInv
  <2> QED BY <2>1 DEF LingerInv, Active
<1> QED BY <1>2, <1>3, <1>4, Invariance, PTL DEF Spec
=============================================================================
