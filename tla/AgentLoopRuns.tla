---------------------------- MODULE AgentLoopRuns ----------------------------
(***************************************************************************)
(* TLAPS proofs about what the runs of AgentLoop do.  Handlers: one is     *)
(* called once per tool_use and interrupt, a pause for approval finds      *)
(* nothing run, a held tool runs only once approved.  Provider calls: the  *)
(* ladder of attempts, what a run is reported as, and silence after a      *)
(* terminal error.  Descent: no step of a run goes round for nothing.      *)
(* Pairing: a provider sees every tool_use answered.                       *)
(***************************************************************************)
EXTENDS AgentLoopProofs, FiniteSetTheorems

\* The result of the tool's own run is in the log.
RanToEnd(id) ==
  \E i \in Positions(log, "tool_result") : log[i].num = id /\ log[i].tag = "ran"
Running(id) == current = id /\ pc # "denied"

\* The number of calls the log and the running tool account for.
Accounted(id) ==
  cuts + (IF RanToEnd(id) THEN 1 ELSE 0) + (IF Running(id) THEN 1 ELSE 0)

LEMMA AccountedIs == RunsAccounted <=> \A id \in Ids : ran[id] <= Accounted(id)
BY DEF RunsAccounted, Accounted, RanToEnd, Running

LEMMA RanToEndKept ==
  ASSUME Grows, NEW id, RanToEnd(id)
  PROVE  RanToEnd(id)'
<1>1. PICK i \in Positions(log, "tool_result") : log[i].num = id /\ log[i].tag = "ran"
  BY DEF RanToEnd
<1>2. i \in 1..Len(log) /\ i \in Positions(log', "tool_result")
  BY <1>1, GrowsPositions DEF Positions
<1>3. log'[i] = log[i]
  BY <1>2 DEF Grows
<1> QED BY <1>1, <1>2, <1>3 DEF RanToEnd

LEMMA RunsStep ==
  ASSUME LoopInv, FreshIds, RunsAccounted, [Next]_vars
  PROVE  RunsAccounted'
<1>0. /\ LogType /\ TurnType /\ PassType /\ RunType /\ LogInv /\ PhaseInv /\ OpenInv
      /\ cuts \in Nat /\ ran \in [Ids -> Nat]
      /\ Requested(log) \subseteq Ids
  BY FreshParts, ResultIds, BoundsAssumption DEF LoopInv, TypeOK, RunType
<1>1. Grows
  BY StepGrows
<1>2. \A id \in Ids : RanToEnd(id) => RanToEnd(id)'
  BY <1>1, RanToEndKept
<1>3. \A id \in Ids : id # NoId
  BY DEF Ids, NoId
<1>4. \A id \in Ids : ran[id] <= Accounted(id)
  BY AccountedIs
<1>5. SUFFICES ASSUME NEW id \in Ids
               PROVE  ran'[id] <= Accounted(id)'
  BY DEF RunsAccounted, Accounted, RanToEnd, Running
<1>6. ran[id] \in Nat /\ ran[id] <= Accounted(id)
  BY <1>0, <1>4
\* Whoever was not running a tool has nothing to account for but its calls.
<1>7. ASSUME ~Running(id), ran' = ran, cuts' = cuts
      PROVE  ran'[id] <= Accounted(id)'
  BY <1>0, <1>2, <1>6, <1>7 DEF Accounted
<1>8. ASSUME ran' = ran, cuts' = cuts, current' = current, pc' # "denied"
      PROVE  ran'[id] <= Accounted(id)'
  <2>1. Running(id) => Running(id)'
    BY <1>8 DEF Running
  <2> QED BY <1>0, <1>2, <1>6, <1>8, <2>1 DEF Accounted
\* A tool that starts is the running one.
<1>9. ASSUME ~Running(id), cuts' = cuts, NEW n, Running(n)',
             ran' = [ran EXCEPT ![n] = @ + 1] \/ ran' = ran
      PROVE  ran'[id] <= Accounted(id)'
  <2>1. CASE id # n
    <3>1. ran'[id] = ran[id]
      BY <1>0, <1>9, <2>1
    <3> QED BY <1>0, <1>2, <1>6, <1>9, <3>1 DEF Accounted
  <2>2. CASE id = n
    <3>1. ran'[id] <= ran[id] + 1
      BY <1>0, <1>6, <1>9, <2>2
    <3>2. ran'[id] \in Nat
      BY <1>0, <1>9, <2>2
    <3> QED BY <1>0, <1>2, <1>6, <1>9, <2>2, <3>1, <3>2 DEF Accounted
  <2> QED BY <2>1, <2>2
\* A tool that returns leaves its first and only result.
<1>10. ASSUME current \in Requested(log) \ Resolved(log), ran' = ran, cuts' = cuts,
              Write(Event("tool_result", current, "ran"))
       PROVE  ran'[id] <= Accounted(id)'
  <2> DEFINE e == Event("tool_result", current, "ran")
  <2>1. e \in Events /\ e.type = "tool_result" /\ e.num = current /\ e.tag = "ran"
        /\ Write(e)
    BY <1>0, <1>10, EventOfId DEF EventTypes, Tags, Event
  <2> HIDE DEF e
  <2>2. /\ Positions(log', "tool_result") = Positions(log, "tool_result") \cup {Len(log) + 1}
        /\ log'[Len(log) + 1] = e
    BY <1>0, <2>1, AnswerAdds
  <2>4. CASE id # current
    BY <1>7, <1>10, <2>4 DEF Running
  <2>5. CASE id = current
    <3>1. ~RanToEnd(id)
      BY <1>10, <2>5 DEF RanToEnd, Resolved, IdsOf
    <3>2. RanToEnd(id)'
      <4>1. PICK i \in Positions(log', "tool_result") :
                   log'[i].num = current /\ log'[i].tag = "ran"
        BY <2>1, <2>2
      <4> QED BY <2>5, <4>1 DEF RanToEnd
    <3> QED BY <1>0, <1>6, <1>10, <3>1, <3>2 DEF Accounted
  <2> QED BY <2>4, <2>5
<1>11. pc \notin {"running", "approved", "denied"} => current = NoId
  BY <1>0 DEF PhaseInv
<1>12. pc \notin {"running", "approved"} => ~Running(id)
  BY <1>3, <1>11 DEF Running
<1>13. CASE Chat \/ Reenter
  BY <1>7, <1>12, <1>13 DEF Chat, Reenter, Enter
<1>14. ASSUME NEW n \in Ids, Approve(n)
       PROVE  ran'[id] <= Accounted(id)'
  <2>1. pc = "idle" /\ pc' = "approved" /\ current' = n /\ cuts' = cuts
        /\ (ran' = [ran EXCEPT ![n] = @ + 1] \/ ran' = ran)
    BY <1>14 DEF Approve, Goto, Invoke
  <2>2. Running(n)'
    BY <2>1 DEF Running
  <2> QED BY <1>9, <1>12, <2>1, <2>2
<1>15. ASSUME NEW n \in Ids, Deny(n)
       PROVE  ran'[id] <= Accounted(id)'
  BY <1>7, <1>12, <1>15 DEF Deny, histVars
<1>16. CASE ApprovedReturn
  <2>1. current \in Requested(log) \ Resolved(log)
    BY <1>0, <1>16 DEF ApprovedReturn, PhaseInv
  <2> QED BY <1>10, <1>16, <2>1 DEF ApprovedReturn, histVars
<1>17. CASE DenyResult
  BY <1>7, <1>12, <1>17 DEF DenyResult, histVars
<1>18. CASE \/ FailBeforeCall \/ StayFailed \/ Project \/ TurnAnswered \/ CloseIncomplete
            \/ CollectPending \/ NextDecision \/ BatchDecided \/ RequestApproval
            \/ DenyByHook \/ BatchDispatched
  <2>1. pc \notin {"running", "approved"} /\ ran' = ran /\ cuts' = cuts
    BY <1>18
    DEF FailBeforeCall, StayFailed, Project, TurnAnswered, CloseIncomplete, CollectPending,
        NextDecision, BatchDecided, RequestApproval, DenyByHook, BatchDispatched, histVars
  <2> QED BY <1>7, <1>12, <2>1
<1>19. CASE \/ \E retryable \in BOOLEAN : ProviderFails(retryable)
            \/ \E reason \in StopReasons, n \in 0..MaxBatch : ProviderAnswers(reason, n)
            \/ \E name \in Names : AppendToolUse(name)
            \/ \E effect \in Effects : InvokeHandler(effect)
            \/ \E effect \in PostEffects : PostToolUse(effect)
  <2>1. pc \notin {"running", "approved"} /\ ran' = ran /\ cuts' = cuts
    BY <1>19
    DEF ProviderFails, ProviderAnswers, AppendToolUse, InvokeHandler, PostToolUse, histVars
  <2> QED BY <1>7, <1>12, <2>1
<1>20. CASE RunTool
  <2>1. /\ pc = "dispatch" /\ pc' = "running" /\ cuts' = cuts
        /\ current' = log[First(todo)].num
        /\ \/ ran' = [ran EXCEPT ![log[First(todo)].num] = @ + 1]
           \/ ran' = ran
    BY <1>20 DEF RunTool, Goto, Invoke
  <2>3. ~Running(id)
    BY <1>12, <2>1
  <2>4. PICK n : n = log[First(todo)].num
    OBVIOUS
  <2>5. Running(n)'
    BY <2>1, <2>4 DEF Running
  <2> QED BY <1>9, <2>1, <2>3, <2>4, <2>5
<1>21. CASE ToolReturns
  <2>1. pc = "running" /\ todo # {} /\ current = log[First(todo)].num
    BY <1>0, <1>21 DEF ToolReturns, PhaseInv
  <2>2. current \in Requested(log) \ Resolved(log)
    BY <1>0, <2>1, FirstRequested, TodoFirst DEF OpenInv, Open
  <2> QED BY <1>10, <1>21, <2>2 DEF ToolReturns, histVars
<1>22. CASE Interrupt
  <2>1. ran' = ran /\ cuts' = cuts + 1
    BY <1>22 DEF Interrupt
  <2> QED BY <1>0, <1>2, <1>6, <2>1 DEF Accounted
<1>23. CASE UNCHANGED vars
  <2>1. ran' = ran /\ cuts' = cuts /\ log' = log /\ current' = current /\ pc' = pc
    BY <1>23 DEF vars
  <2> QED BY <1>4, <2>1 DEF Accounted, RanToEnd, Running
<1> QED
  BY <1>13, <1>14, <1>15, <1>16, <1>17, <1>18, <1>19, <1>20, <1>21, <1>22, <1>23
  DEF Next, Host, Step

LEMMA RunsInit == Init => RunsAccounted
<1> SUFFICES ASSUME Init
             PROVE  RunsAccounted
  OBVIOUS
<1>1. cuts = 0 /\ \A id \in Ids : ran[id] = 0
  BY DEF Init
<1> QED BY <1>1 DEF RunsAccounted

\* Under provider-minted ids a tool handler is called at most once per
\* tool_use, plus once for every interrupt that may have hit it running; and
\* a tool_use denied or closed as incomplete was never run.
THEOREM RunsOnce == FreshIds => (Spec => []RunsAccounted)
<1>1. SUFFICES ASSUME FreshIds
               PROVE  Spec => []RunsAccounted
  OBVIOUS
<1>2. LoopInv /\ RunsAccounted /\ [Next]_vars => RunsAccounted'
  BY <1>1, RunsStep
<1> QED BY <1>2, RunsInit, LoopInvariant, PTL DEF Spec

\* The approval pause finds every tool_use of its batch unanswered, and run
\* only where an interrupt cut an earlier attempt short.
THEOREM PauseFindsNothingRun == FreshIds => (Spec => []PauseIsAtomic)
<1>1. SUFFICES ASSUME FreshIds
               PROVE  Spec => []PauseIsAtomic
  OBVIOUS
<1>2. LoopInv /\ RunsAccounted => PauseIsAtomic
  <2> SUFFICES ASSUME LoopInv, RunsAccounted, pc = "pause", NEW i \in DOMAIN verdict
               PROVE  log[i].num \notin Resolved(log) /\ ran[log[i].num] <= cuts
    BY DEF PauseIsAtomic
  <2>1. LogType /\ PassType /\ LogInv /\ PhaseInv /\ OpenInv /\ cuts \in Nat
    BY <1>1, FreshParts, BoundsAssumption DEF LoopInv, TypeOK, RunType
  <2>2. log[i].num \notin Resolved(log)
    BY <2>1 DEF OpenInv, Open
  <2>3. i \in Positions(log, "tool_use")
    BY <2>1 DEF PassType
  <2>4. log[i].num \in Ids
    BY <2>1, <2>3, UseIds
  <2>5. ~RanToEnd(log[i].num)
    BY <2>2 DEF RanToEnd, Resolved, IdsOf
  <2>6. ~Running(log[i].num)
    BY <2>1, <2>4 DEF Running, PhaseInv, Ids, NoId
  <2>7. ran[log[i].num] <= Accounted(log[i].num)
    BY <2>4, AccountedIs
  <2> QED BY <2>1, <2>2, <2>5, <2>6, <2>7 DEF Accounted
<1> QED BY <1>1, <1>2, LoopInvariant, RunsOnce, PTL

-----------------------------------------------------------------------------
(* The hold list.  k is the position of RequireApproval among the handlers. *)

HeldUse(i) == log[i].tag \in Holdlist

\* What the decisions made so far say about the held uses of the batch:
\* handler k has marked every use it has seen, and the batch is executed only
\* if a refusal stands next to each mark.
MarkedInv(k) ==
  /\ pc = "decide" =>
       \A i \in DOMAIN verdict :
         HeldUse(i) /\ (i \notin todo \/ (i = First(todo) /\ h > k)) => "pending" \in verdict[i]
  /\ pc \in {"dispatch", "running", "post"} =>
       \A i \in DOMAIN verdict : HeldUse(i) => Refused(i)

\* A handler has only run for a tool_use of the log.
RanRequested == \A id \in Ids : ran[id] > 0 => id \in Requested(log)

LEMMA RanRequestedStep ==
  ASSUME LoopInv, FreshIds, RanRequested, [Next]_vars
  PROVE  RanRequested'
<1>0. /\ LogType /\ TurnType /\ PassType /\ ran \in [Ids -> Nat]
  BY DEF LoopInv, TypeOK, RunType
<1>1. Requested(log) \subseteq Requested(log')
  <2>1. ASSUME NEW i \in Positions(log, "tool_use")
        PROVE  i \in Positions(log', "tool_use") /\ log'[i] = log[i]
    <3>1. Grows /\ i \in 1..Len(log)
      BY StepGrows DEF Positions
    <3> QED BY <3>1, GrowsPositions DEF Grows
  <2> QED BY <2>1 DEF Requested, IdsOf
<1>2. CASE ran' = ran
  BY <1>1, <1>2 DEF RanRequested
<1>3. ASSUME NEW n \in Requested(log), ran' = [ran EXCEPT ![n] = @ + 1]
      PROVE  RanRequested'
  <2>1. \A id \in Ids : id # n => ran'[id] = ran[id]
    BY <1>0, <1>3
  <2> QED BY <1>1, <1>3, <2>1 DEF RanRequested
<1>4. CASE \E id \in Ids : Approve(id)
  <2>1. PICK id \in Ids : Approve(id)
    BY <1>4
  <2>2. id \in Requested(log) /\ (ran' = [ran EXCEPT ![id] = @ + 1] \/ ran' = ran)
    BY <2>1 DEF Approve, Unresolved, Invoke
  <2> QED BY <1>2, <1>3, <2>2
<1>5. CASE RunTool
  <2>1. /\ todo # {}
        /\ \/ ran' = [ran EXCEPT ![log[First(todo)].num] = @ + 1]
           \/ ran' = ran
    BY <1>5 DEF RunTool, Invoke
  <2>2. log[First(todo)].num \in Requested(log)
    BY <1>0, <2>1, FirstRequested
  <2> QED BY <1>2, <1>3, <2>1, <2>2
<1>6. ASSUME ~RunTool, ~\E id \in Ids : Approve(id)
      PROVE  ran' = ran
  BY <1>6
  DEF Next, Host, Step, vars, Chat, Reenter, Enter, Deny, ApprovedReturn, DenyResult,
      FailBeforeCall, StayFailed, Project, ProviderFails, ProviderAnswers, AppendToolUse,
      TurnAnswered, CloseIncomplete, CollectPending, InvokeHandler, NextDecision,
      BatchDecided, RequestApproval, DenyByHook, ToolReturns, PostToolUse,
      BatchDispatched, Interrupt, histVars
<1> QED BY <1>2, <1>4, <1>5, <1>6

\* The decisions of a batch keep the marks of the held uses.
LEMMA MarkedStep ==
  ASSUME LoopInv, NEW k \in 1..Len(Policy), Policy[k] = RequireApproval,
         MarkedInv(k), [Next]_vars
  PROVE  MarkedInv(k)'
<1>0. /\ LogType /\ PassType /\ PhaseInv /\ LogInv
      /\ todo \subseteq Positions(log, "tool_use") /\ Len(Policy) \in Nat
  BY PolicyAssumption DEF LoopInv, TypeOK, PassType
<1>1. Grows
  BY StepGrows
<1>2. ASSUME NEW i \in Positions(log, "tool_use")
      PROVE  log'[i] = log[i]
  <2>1. i \in 1..Len(log)
    BY DEF Positions
  <2> QED BY <1>1, <2>1 DEF Grows
<1>3. \A i \in DOMAIN verdict : HeldUse(i)' <=> HeldUse(i)
  BY <1>0, <1>2 DEF HeldUse, PassType
<1>4. ASSUME pc' \notin {"decide", "dispatch", "running", "post"}
      PROVE  MarkedInv(k)'
  BY <1>4 DEF MarkedInv
<1>5. ASSUME pc \in {"dispatch", "running", "post"}, verdict' = verdict, pc' # "decide"
      PROVE  MarkedInv(k)'
  BY <1>3, <1>5 DEF MarkedInv, Refused
<1>6. CASE CollectPending
  <2>1. pc' = "decide" /\ h' = 1 /\ todo' = DOMAIN verdict'
    BY <1>6 DEF CollectPending, Goto
  <2>2. ~(h' > k)
    BY <2>1
  <2> QED BY <2>1, <2>2 DEF MarkedInv
<1>7. ASSUME NEW effect \in Effects, InvokeHandler(effect)
      PROVE  MarkedInv(k)'
  <2>1. /\ pc = "decide" /\ todo # {} /\ h <= Len(Policy) /\ h' = h + 1 /\ todo' = todo
        /\ effect \in Policy[h][log[First(todo)].tag]
        /\ verdict' = [verdict EXCEPT ![First(todo)] = @ \cup ({effect} \cap Verdicts)]
        /\ pc' \in {"decide", "idle"}
    BY <1>7 DEF InvokeHandler, EndRun
  <2>2. First(todo) \in Positions(log, "tool_use") /\ First(todo) \in DOMAIN verdict
    BY <1>0, <2>1, TodoFirst DEF PhaseInv
  <2>3. DOMAIN verdict' = DOMAIN verdict
    BY <2>1
  <2>4. \A i \in DOMAIN verdict : verdict[i] \subseteq verdict'[i]
    BY <2>1
  <2>5. HeldUse(First(todo)) /\ h = k => "pending" \in verdict'[First(todo)]
    <3> SUFFICES ASSUME HeldUse(First(todo)), h = k
                 PROVE  "pending" \in verdict'[First(todo)]
      OBVIOUS
    <3>1. log[First(todo)].tag \in Names /\ log[First(todo)].tag \in Holdlist
      BY <1>0, <2>2, UseIds DEF HeldUse
    <3>2. effect = "pending"
      BY <2>1, <3>1 DEF RequireApproval
    <3> QED BY <2>1, <2>2, <3>2 DEF Verdicts
  <2>6. SUFFICES ASSUME pc' = "decide", NEW i \in DOMAIN verdict, HeldUse(i),
                        i \notin todo \/ (i = First(todo) /\ h + 1 > k)
                 PROVE  "pending" \in verdict'[i]
    BY <1>3, <2>1, <2>3 DEF MarkedInv, First
  <2>7. CASE i \notin todo \/ (i = First(todo) /\ h > k)
    BY <2>1, <2>4, <2>6, <2>7 DEF MarkedInv
  <2>8. CASE i = First(todo) /\ h = k
    BY <2>5, <2>6, <2>8
  <2>9. h \in Nat
    BY <1>0 DEF PassType
  <2> QED BY <2>6, <2>7, <2>8, <2>9
<1>8. CASE NextDecision
  <2>1. /\ pc = "decide" /\ todo # {} /\ h > Len(Policy) /\ h' = 1 /\ pc' = pc
        /\ todo' = todo \ {First(todo)} /\ verdict' = verdict /\ log' = log
    BY <1>8 DEF NextDecision, logVars
  <2>2. h > k /\ ~(h' > k)
    <3>1. h \in Nat
      BY <1>0 DEF PassType
    <3> QED BY <1>0, <2>1, <3>1
  <2>3. SUFFICES ASSUME NEW i \in DOMAIN verdict, HeldUse(i), i \notin todo'
                 PROVE  "pending" \in verdict[i]
    BY <1>3, <2>1, <2>2 DEF MarkedInv
  <2> QED BY <2>1, <2>2, <2>3 DEF MarkedInv
<1>9. CASE BatchDecided
  <2>1. /\ pc = "decide" /\ todo = {} /\ verdict' = verdict /\ log' = log
        /\ \/ Held = {} /\ pc' = "dispatch"
           \/ pc' = "pause"
    BY <1>9 DEF BatchDecided, Goto, logVars
  <2>2. \A i \in DOMAIN verdict : HeldUse(i) => "pending" \in verdict[i]
    BY <2>1 DEF MarkedInv
  <2>3. Held = {} => \A i \in DOMAIN verdict : "pending" \in verdict[i] => Refused(i)
    BY DEF Held
  <2> QED BY <1>3, <2>1, <2>2, <2>3 DEF MarkedInv, Refused
<1>10. CASE DenyByHook \/ RunTool \/ ToolReturns
  <2>1. pc \in {"dispatch", "running", "post"} /\ verdict' = verdict
        /\ pc' \in {"running", "post"}
    BY <1>10 DEF DenyByHook, RunTool, ToolReturns, Goto, passVars
  <2> QED BY <1>5, <2>1
<1>11. ASSUME NEW effect \in PostEffects, PostToolUse(effect)
       PROVE  MarkedInv(k)'
  <2>1. pc = "post" /\ verdict' = verdict /\ pc' \in {"dispatch", "idle"}
    BY <1>11 DEF PostToolUse, EndRun, Goto
  <2> QED BY <1>5, <2>1
<1>12. CASE Chat \/ Reenter \/ \E id \in Ids : Approve(id) \/ Deny(id)
  BY <1>4, <1>12 DEF Chat, Reenter, Enter, Approve, Deny, Goto
<1>13. CASE \/ ApprovedReturn \/ DenyResult \/ FailBeforeCall \/ StayFailed \/ Project
            \/ TurnAnswered \/ CloseIncomplete \/ RequestApproval \/ BatchDispatched
            \/ Interrupt
  BY <1>4, <1>13
  DEF ApprovedReturn, DenyResult, FailBeforeCall, StayFailed, Project, TurnAnswered,
      CloseIncomplete, RequestApproval, BatchDispatched, Interrupt, Goto, EndRun
<1>14. CASE \/ \E retryable \in BOOLEAN : ProviderFails(retryable)
            \/ \E reason \in StopReasons, n \in 0..MaxBatch : ProviderAnswers(reason, n)
            \/ \E name \in Names : AppendToolUse(name)
  BY <1>4, <1>14 DEF ProviderFails, ProviderAnswers, AppendToolUse, Goto, EndRun
<1>15. CASE UNCHANGED vars
  <2>1. UNCHANGED <<log, pc, h, todo, verdict>>
    BY <1>15 DEF vars
  <2> QED BY <2>1 DEF MarkedInv, HeldUse, Refused, First
<1> QED
  BY <1>6, <1>7, <1>8, <1>9, <1>10, <1>11, <1>12, <1>13, <1>14, <1>15
  DEF Next, Host, Step

Approved(i) ==
  \E j \in Positions(log, "approval_resolved") :
    j > i /\ log[j].num = log[i].num /\ log[j].tag = "approved"

LEMMA ApprovedKept ==
  ASSUME Grows, NEW i \in Positions(log, "tool_use"), Approved(i)
  PROVE  Approved(i)'
<1>1. PICK j \in Positions(log, "approval_resolved") :
             j > i /\ log[j].num = log[i].num /\ log[j].tag = "approved"
  BY DEF Approved
<1>2. i \in 1..Len(log) /\ j \in 1..Len(log) /\ j \in Positions(log', "approval_resolved")
  BY <1>1, GrowsPositions DEF Positions
<1>3. log'[i] = log[i] /\ log'[j] = log[j]
  BY <1>2 DEF Grows
<1> QED BY <1>1, <1>2, <1>3 DEF Approved

LEMMA HeldStep ==
  ASSUME LoopInv, FreshIds, RanRequested, HeldRunsOnlyApproved,
         NEW k \in 1..Len(Policy), MarkedInv(k), [Next]_vars
  PROVE  HeldRunsOnlyApproved'
<1>0. /\ LogType /\ TurnType /\ PassType /\ PhaseInv /\ LogInv /\ ran \in [Ids -> Nat]
      /\ log \in Seq(Events)
      /\ \A i, j \in Positions(log, "tool_use") : log[i].num = log[j].num => i = j
  BY DEF LoopInv, TypeOK, RunType, FreshInv, LogType
<1>1. Grows
  BY StepGrows
<1>2. ASSUME NEW i \in Positions(log, "tool_use")
      PROVE  log'[i] = log[i] /\ i \in 1..Len(log) /\ log[i].num \in Ids
  <2>1. i \in 1..Len(log)
    BY DEF Positions
  <2>2. log[i].num \in Ids
    BY <1>0, UseIds
  <2> QED BY <1>1, <2>1, <2>2 DEF Grows
<1>3. ASSUME NEW i \in Positions(log, "tool_use"), HeldUse(i), ran[log[i].num] > 0
      PROVE  Approved(i)'
  <2>1. Approved(i)
    BY <1>3 DEF HeldRunsOnlyApproved, HeldUse, Approved
  <2> QED BY <1>1, <2>1, ApprovedKept
\* It is enough that a held use that starts running is approved.
<1>4. ASSUME Positions(log', "tool_use") = Positions(log, "tool_use"),
             \A i \in Positions(log, "tool_use") :
               HeldUse(i) /\ ran'[log[i].num] # ran[log[i].num] => Approved(i)'
      PROVE  HeldRunsOnlyApproved'
  <2>1. SUFFICES ASSUME NEW i \in Positions(log, "tool_use"), log'[i].tag \in Holdlist,
                        ran'[log'[i].num] > 0
                 PROVE  Approved(i)'
    BY <1>4 DEF HeldRunsOnlyApproved, Approved
  <2>2. HeldUse(i) /\ log'[i] = log[i]
    BY <1>2, <2>1 DEF HeldUse
  <2> QED BY <1>3, <1>4, <2>1, <2>2
<1>5. ASSUME Silent \/ Notes \/ Answers
      PROVE  Positions(log', "tool_use") = Positions(log, "tool_use")
  <2>1. CASE Silent
    BY <2>1 DEF Silent, logVars
  <2>2. CASE Notes
    BY <1>0, <2>2, NoteKeeps
  <2>3. CASE Answers
    BY <1>0, <2>3, AnswerAdds DEF Answers
  <2> QED BY <1>5, <2>1, <2>2, <2>3
<1>6. CASE Requests
  <2>1. PICK name \in Names : AppendToolUse(name)
    BY <1>6 DEF Requests
  <2> DEFINE e == Event("tool_use", NextId, name)
  <2>2. /\ Positions(log', "tool_use") = Positions(log, "tool_use") \cup {Len(log) + 1}
        /\ log'[Len(log) + 1] = e
    BY <1>0, <2>1, RequestAdds
  <2>3. e.num = minted + 1
    BY DEF Event, NextId
  <2>4. ran' = ran
    BY <2>1 DEF AppendToolUse, histVars
  <2> HIDE DEF e
  <2>5. minted + 1 \in Ids /\ minted + 1 \notin Requested(log)
    <3>1. left > 0 /\ left <= MaxUses - minted
      BY <1>0, <2>1 DEF AppendToolUse, PhaseInv
    <3>2. \A id \in Requested(log) : id \in 1..minted
      BY <1>0 DEF LogInv, Requested, IdsOf
    <3>3. minted + 1 \notin 1..minted
      BY <1>0, MintedNat
    <3>4. minted + 1 \in Ids
      BY <1>0, <3>1, MintedNat, BoundsAssumption DEF TurnType, Ids
    <3> QED BY <3>2, <3>3, <3>4
  <2>6. ~(ran[minted + 1] > 0)
    BY <2>5 DEF RanRequested
  <2>7. SUFFICES ASSUME NEW i \in Positions(log', "tool_use"), log'[i].tag \in Holdlist,
                        ran'[log'[i].num] > 0
                 PROVE  Approved(i)'
    BY DEF HeldRunsOnlyApproved, Approved
  <2>8. i \in Positions(log, "tool_use")
    BY <2>2, <2>3, <2>4, <2>6, <2>7
  <2>9. log'[i] = log[i]
    BY <1>2, <2>8
  <2> QED BY <1>3, <2>4, <2>7, <2>8, <2>9 DEF HeldUse
<1>7. CASE RunTool
  <2>1. /\ pc = "dispatch" /\ todo # {} /\ ~Refused(First(todo)) /\ Silent
        /\ \/ ran' = [ran EXCEPT ![log[First(todo)].num] = @ + 1]
           \/ ran' = ran
    BY <1>7 DEF RunTool, Invoke, Silent
  <2>2. First(todo) \in Positions(log, "tool_use") /\ First(todo) \in DOMAIN verdict
    BY <1>0, <2>1, TodoFirst DEF PhaseInv
  <2>3. ~HeldUse(First(todo))
    BY <2>1, <2>2 DEF MarkedInv
  <2>4. ASSUME NEW i \in Positions(log, "tool_use"), HeldUse(i)
        PROVE  ran'[log[i].num] = ran[log[i].num]
    <3>1. log[i].num # log[First(todo)].num
      BY <1>0, <2>2, <2>3, <2>4
    <3> QED BY <1>0, <1>2, <2>1, <2>4, <3>1
  <2> QED BY <1>4, <1>5, <2>1, <2>4
<1>8. ASSUME NEW id \in Ids, Approve(id)
      PROVE  HeldRunsOnlyApproved'
  <2> DEFINE e == Event("approval_resolved", id, "approved")
  <2>1. /\ Write(e) /\ (ran' = [ran EXCEPT ![id] = @ + 1] \/ ran' = ran)
    BY <1>8 DEF Approve, Invoke
  <2>2. e \in Events /\ e.type = "approval_resolved" /\ e.num = id /\ e.tag = "approved"
    BY EventOfId DEF EventTypes, Tags, Event
  <2> HIDE DEF e
  <2>3. log' = Append(log, e) /\ log'[Len(log) + 1] = e /\ Len(log) \in Nat
    BY <1>0, <2>1, <2>2, AppendEvent DEF Write
  <2>4. Len(log) + 1 \in Positions(log', "approval_resolved")
    <3>1. Len(log') = Len(log) + 1
      BY <1>0, <2>2, <2>3, AppendEvent
    <3>2. log'[Len(log) + 1].type = "approval_resolved"
      BY <2>2, <2>3
    <3>3. Len(log) + 1 \in 1..Len(log')
      BY <2>3, <3>1
    <3> QED BY <3>2, <3>3 DEF Positions
  <2>5. Notes
    BY <2>1, <2>2 DEF Notes
  <2>6. ASSUME NEW i \in Positions(log, "tool_use"), ran'[log[i].num] # ran[log[i].num]
        PROVE  Approved(i)'
    <3>1. log[i].num = id
      BY <1>0, <1>2, <2>1, <2>6
    <3>2. Len(log) + 1 > i /\ log'[i].num = id
      BY <1>2, <2>3, <3>1
    <3> QED BY <2>2, <2>3, <2>4, <3>2 DEF Approved
  <2> QED BY <1>4, <1>5, <2>5, <2>6
<1>9. ASSUME ~RunTool, ~\E id \in Ids : Approve(id)
      PROVE  ran' = ran
  BY <1>9
  DEF Next, Host, Step, vars, Chat, Reenter, Enter, Deny, ApprovedReturn, DenyResult,
      FailBeforeCall, StayFailed, Project, ProviderFails, ProviderAnswers, AppendToolUse,
      TurnAnswered, CloseIncomplete, CollectPending, InvokeHandler, NextDecision,
      BatchDecided, RequestApproval, DenyByHook, ToolReturns, PostToolUse,
      BatchDispatched, Interrupt, histVars
<1> QED BY <1>4, <1>5, <1>6, <1>7, <1>8, <1>9, LogSteps

\* If RequireApproval is installed, wherever among the handlers and whatever
\* the others decide, a tool on its hold list runs only after the host has
\* approved that tool_use.
THEOREM HoldIsKept ==
  ASSUME FreshIds, NEW k \in 1..Len(Policy), Policy[k] = RequireApproval
  PROVE  Spec => []HeldRunsOnlyApproved
<1> DEFINE Inv == RanRequested /\ MarkedInv(k) /\ HeldRunsOnlyApproved
<1>1. Init => Inv
  <2> SUFFICES ASSUME Init
               PROVE  Inv
    OBVIOUS
  <2>1. Positions(log, "tool_use") = {} /\ pc = "idle"
    BY DEF Init, Positions
  <2>2. \A id \in Ids : ~(ran[id] > 0)
    BY DEF Init
  <2> QED BY <2>1, <2>2 DEF RanRequested, MarkedInv, HeldRunsOnlyApproved
<1>2. LoopInv /\ Inv /\ [Next]_vars => Inv'
  BY RanRequestedStep, MarkedStep, HeldStep
<1>3. Inv => HeldRunsOnlyApproved
  OBVIOUS
<1> QED BY <1>1, <1>2, <1>3, LoopInvariant, PTL DEF Spec

-----------------------------------------------------------------------------
(* What the provider is asked, and what a run is reported as.                *)

\* A bounded set of positions has a last one.
LEMMA LastInSet ==
  ASSUME NEW n \in Nat, NEW S, S \subseteq 1..n
  PROVE  /\ LastOf(S) \in 0..n
         /\ S # {} => LastOf(S) \in S /\ \A j \in S : j <= LastOf(S)
<1>1. CASE S = {}
  BY <1>1 DEF LastOf
<1>2. CASE S # {}
  <2> DEFINE T == {n - x : x \in S}
  <2>1. T \subseteq Nat /\ T # {}
    <3>1. \A x \in S : n - x \in Nat
      OBVIOUS
    <3> QED BY <1>2, <3>1
  <2>2. First(T) \in T /\ \A y \in T : First(T) <= y
    <3> HIDE DEF T
    <3> QED BY <2>1, FirstInSet
  <2>3. PICK i \in S : First(T) = n - i
    BY <2>2
  <2>4. \A j \in S : n - j \in T
    OBVIOUS
  <2>5. \A j \in S : n - i <= n - j
    BY <2>2, <2>3, <2>4
  <2> HIDE DEF T
  <2>6. \A j \in S : j <= i
    BY <2>5
  <2>7. LastOf(S) \in S /\ \A j \in S : j <= LastOf(S)
    BY <1>2, <2>6 DEF LastOf
  <2>8. 1..n \subseteq 0..n
    OBVIOUS
  <2> QED BY <1>2, <2>7, <2>8, Zenon
<1> QED BY <1>1, <1>2

\* A position that all others precede is the last one.
LEMMA LastAdded ==
  ASSUME NEW n \in Nat, NEW S, S \subseteq 1..n
  PROVE  LastOf(S \cup {n + 1}) = n + 1
<1> DEFINE T == S \cup {n + 1}
<1>1. T \subseteq 1..(n + 1) /\ n + 1 \in T /\ n + 1 \in Nat
  OBVIOUS
<1>2. LastOf(T) \in T /\ \A j \in T : j <= LastOf(T)
  <2> HIDE DEF T
  <2> QED BY <1>1, LastInSet
<1>3. n + 1 <= LastOf(T) /\ LastOf(T) \in 1..(n + 1)
  BY <1>1, <1>2
<1> QED BY <1>3

\* The reports of a log are its answers and failures at positions of its own.
LEMMA ReportType ==
  ASSUME NEW l \in Seq(Events)
  PROVE  /\ Len(l) \in Nat /\ TerminalFailures(l) \subseteq 1..Len(l)
         /\ Positions(l, "assistant_message") \subseteq 1..Len(l)
         /\ Response(l) \in 0..Len(l) /\ LastOf(TerminalFailures(l)) \in 0..Len(l)
<1>1. /\ Len(l) \in Nat /\ TerminalFailures(l) \subseteq 1..Len(l)
      /\ Positions(l, "assistant_message") \subseteq 1..Len(l)
  BY DEF TerminalFailures, Positions
<1> QED BY <1>1, LastInSet DEF Response

\* The failures of a log after one more event.
LEMMA FailuresAppend ==
  ASSUME NEW l \in Seq(Events), NEW e \in Events
  PROVE  /\ e.type = "provider_error" /\ e.tag = "terminal" =>
              TerminalFailures(Append(l, e)) = TerminalFailures(l) \cup {Len(l) + 1}
         /\ ~(e.type = "provider_error" /\ e.tag = "terminal") =>
              TerminalFailures(Append(l, e)) = TerminalFailures(l)
<1> DEFINE m == Append(l, e)
<1>1. /\ \A i \in 1..Len(l) : m[i] = l[i]
      /\ m[Len(l) + 1] = e
  BY AppendEvent
<1>2. Positions(l, "provider_error") \subseteq 1..Len(l) /\ Len(l) + 1 \notin 1..Len(l)
  BY DEF Positions
<1>3. /\ e.type = "provider_error" =>
           Positions(m, "provider_error") = Positions(l, "provider_error") \cup {Len(l) + 1}
      /\ e.type # "provider_error" => Positions(m, "provider_error") = Positions(l, "provider_error")
  BY AppendPositions
<1> HIDE DEF m
<1>4. CASE e.type = "provider_error"
  BY <1>1, <1>2, <1>3, <1>4 DEF m, TerminalFailures
<1>5. CASE e.type # "provider_error"
  BY <1>1, <1>2, <1>3, <1>5 DEF m, TerminalFailures
<1> QED BY <1>4, <1>5

\* What one more event does to the reports of a log.
SameReport(l, m) ==
  /\ TerminalError(m) <=> TerminalError(l)
  /\ ProviderError(m) <=> ProviderError(l)
  /\ Response(m) = Response(l)

LEMMA ReportAppend ==
  ASSUME NEW l \in Seq(Events), NEW e \in Events
  PROVE  /\ e.type \notin {"runtime_error", "assistant_message", "provider_error"} =>
              SameReport(l, Append(l, e))
         /\ e.type = "provider_error" /\ e.tag # "terminal" => SameReport(l, Append(l, e))
         /\ e.type # "runtime_error" => (TerminalError(Append(l, e)) <=> TerminalError(l))
         /\ e.type = "runtime_error" =>
              /\ TerminalError(Append(l, e))
              /\ ProviderError(Append(l, e)) <=> ProviderError(l)
              /\ Response(Append(l, e)) = Response(l)
         /\ e.type = "provider_error" /\ e.tag = "terminal" => ProviderError(Append(l, e))
         /\ e.type = "assistant_message" =>
              ~ProviderError(Append(l, e)) /\ Response(Append(l, e)) = Len(l) + 1
<1> DEFINE m == Append(l, e)
<1>1. m \in Seq(Events) /\ Len(m) = Len(l) + 1 /\ Len(l) \in Nat
  BY AppendEvent
<1>2. e.type # "runtime_error" => Positions(m, "runtime_error") = Positions(l, "runtime_error")
  BY AppendPositions
<1>3. e.type = "runtime_error" => Positions(m, "runtime_error") # {}
  BY AppendPositions
<1>4. e.type # "assistant_message" => Response(m) = Response(l)
  BY AppendPositions DEF Response
<1>5. e.type = "assistant_message" => Response(m) = Len(l) + 1
  <2>1. Positions(l, "assistant_message") \subseteq 1..Len(l)
    BY ReportType
  <2>2. LastOf(Positions(l, "assistant_message") \cup {Len(l) + 1}) = Len(l) + 1
    BY <1>1, <2>1, LastAdded
  <2>3. e.type = "assistant_message" =>
          Positions(m, "assistant_message") = Positions(l, "assistant_message") \cup {Len(l) + 1}
    BY AppendPositions
  <2> QED BY <2>2, <2>3, Zenon DEF Response
<1>6. ~(e.type = "provider_error" /\ e.tag = "terminal") =>
        TerminalFailures(m) = TerminalFailures(l)
  BY FailuresAppend
<1>7. e.type = "provider_error" /\ e.tag = "terminal" => LastOf(TerminalFailures(m)) = Len(l) + 1
  BY <1>1, FailuresAppend, LastAdded, ReportType
<1>8. Response(l) \in 0..Len(l) /\ LastOf(TerminalFailures(l)) \in 0..Len(l)
  BY ReportType
<1> HIDE DEF m
<1>9. e.type = "assistant_message" => ~ProviderError(m)
  BY <1>1, <1>5, <1>6, <1>8 DEF ProviderError
<1>10. e.type = "provider_error" /\ e.tag = "terminal" => ProviderError(m)
  BY <1>1, <1>4, <1>7, <1>8 DEF ProviderError
<1>11. e.type # "assistant_message" /\ ~(e.type = "provider_error" /\ e.tag = "terminal") =>
         (ProviderError(m) <=> ProviderError(l))
  BY <1>4, <1>6 DEF ProviderError
<1> QED BY <1>2, <1>3, <1>4, <1>5, <1>9, <1>10, <1>11 DEF m, SameReport, TerminalError

-----------------------------------------------------------------------------
\* An event of a type other than the ones the provider's calls write.
Others == \E e \in Events :
            e.type \notin {"provider_error", "assistant_message"} /\ log' = Append(log, e)
Fails   == \E retryable \in BOOLEAN : ProviderFails(retryable)
Replies == \E reason \in StopReasons, n \in 0..MaxBatch : ProviderAnswers(reason, n)

\* The event a step appended is the log's last.
LEMMA Appended ==
  ASSUME NEW l \in Seq(Events), NEW e
  PROVE  Append(l, e)[Len(l) + 1] = e
OBVIOUS

\* Only a provider's answer writes an assistant_message, and only its failure
\* a provider_error.
LEMMA StepWrites ==
  ASSUME LoopInv, [Next]_vars
  PROVE  Silent \/ Fails \/ Replies \/ Others
<1>1. log \in Seq(Events)
  BY DEF LoopInv, TypeOK, LogType
<1>2. Silent \/ \E e \in Events : log' = Append(log, e)
  <2>1. CASE Requests
    <3>1. PICK name \in Names : AppendToolUse(name)
      BY <2>1 DEF Requests
    <3> QED BY <3>1, RequestAdds DEF LoopInv, TypeOK
  <2> QED BY <2>1, LogSteps DEF Notes, Answers, Write
<1>3. ASSUME NEW f, log' = Append(log, f), f.type \notin {"provider_error", "assistant_message"}
      PROVE  Silent \/ Others
  <2>1. CASE Silent
    BY <2>1
  <2>2. CASE \E e \in Events : log' = Append(log, e)
    <3>1. PICK e \in Events : log' = Append(log, e)
      BY <2>2
    <3>2. e = log'[Len(log) + 1]
      BY <1>1, <3>1, Appended
    <3>3. f = log'[Len(log) + 1]
      BY <1>1, <1>3, Appended
    <3> QED BY <1>3, <3>1, <3>2, <3>3 DEF Others
  <2> QED BY <1>2, <2>1, <2>2
<1>4. ASSUME NEW type, NEW num, NEW tag, Write(Event(type, num, tag)),
             type \notin {"provider_error", "assistant_message"}
      PROVE  Silent \/ Others
  <2>1. Event(type, num, tag).type = type
    BY DEF Event
  <2> QED BY <1>3, <1>4, <2>1 DEF Write
<1>5. Write(RuntimeError) => Silent \/ Others
  BY <1>4 DEF RuntimeError
<1>6. CASE Chat
  <2>1. PICK tag : Write(Event("user_message", NoId, tag))
    BY <1>6 DEF Chat
  <2> QED BY <1>4, <2>1
<1>7. ASSUME NEW id \in Ids, Approve(id) \/ Deny(id)
      PROVE  Silent \/ Others
  BY <1>4, <1>7 DEF Approve, Deny
<1>8. CASE ApprovedReturn \/ DenyResult \/ DenyByHook \/ ToolReturns
  BY <1>4, <1>8 DEF ApprovedReturn, DenyResult, DenyByHook, ToolReturns
<1>9. CASE CloseIncomplete \/ RequestApproval
  <2>1. \/ Silent
        \/ \E num, tag : \/ Write(Event("tool_result", num, tag))
                         \/ Write(Event("approval_requested", num, tag))
    BY <1>9 DEF CloseIncomplete, RequestApproval, Silent
  <2> QED BY <1>4, <2>1
<1>10. CASE FailBeforeCall
  BY <1>5, <1>10 DEF FailBeforeCall
<1>11. ASSUME NEW effect, InvokeHandler(effect) \/ PostToolUse(effect)
       PROVE  Silent \/ Others
  BY <1>5, <1>11 DEF InvokeHandler, PostToolUse, Silent
<1>12. ASSUME NEW name \in Names, AppendToolUse(name)
       PROVE  Others
  <2>1. Event("tool_use", NextId, name).type = "tool_use"
    BY DEF Event
  <2> QED BY <1>12, <2>1, RequestAdds DEF Others, LoopInv, TypeOK
<1>13. CASE Reenter \/ StayFailed \/ Project \/ TurnAnswered \/ CollectPending \/ NextDecision
            \/ BatchDecided \/ RunTool \/ BatchDispatched \/ Interrupt
  BY <1>13 DEF Silent, Reenter, StayFailed, Project, TurnAnswered, CollectPending, NextDecision,
               BatchDecided, RunTool, BatchDispatched, Interrupt
<1>14. CASE UNCHANGED vars
  BY <1>14 DEF vars, Silent, logVars
<1> QED
  BY <1>6, <1>7, <1>8, <1>9, <1>10, <1>11, <1>12, <1>13, <1>14
  DEF Next, Host, Step, Fails, Replies

\* The last attempt of a call that goes on is the one the log ends with.
LadderInv ==
  /\ RetryLadder
  /\ \A i \in Positions(log, "provider_error") : log[i].num > 1 => i > 1
  /\ pc = "call" /\ attempt > 1 =>
       Len(log) > 0 /\ log[Len(log)] = Event("provider_error", attempt - 1, "retry")

LEMMA LadderStep ==
  ASSUME LoopInv, LadderInv, [Next]_vars
  PROVE  LadderInv'
<1>0. LogType /\ TurnType /\ log \in Seq(Events) /\ Len(log) \in Nat /\ attempt \in 1..MaxAttempts
      /\ MaxAttempts \in Nat
  BY BoundsAssumption DEF LoopInv, TypeOK, LogType, TurnType
<1>1. \A i \in Positions(log, "provider_error") : i \in 1..Len(log)
  BY DEF Positions
<1>2. ASSUME Positions(log', "provider_error") = Positions(log, "provider_error"), Grows,
             ~(pc' = "call" /\ attempt' > 1)
      PROVE  LadderInv'
  <2>1. \A i \in Positions(log, "provider_error") :
          log'[i] = log[i] /\ (log[i].num > 1 => log'[i - 1] = log[i - 1])
    <3> SUFFICES ASSUME NEW i \in Positions(log, "provider_error")
                 PROVE  log'[i] = log[i] /\ (log[i].num > 1 => log'[i - 1] = log[i - 1])
      OBVIOUS
    <3>1. i \in 1..Len(log) /\ (log[i].num > 1 => i - 1 \in 1..Len(log))
      BY <1>0, <1>1 DEF LadderInv
    <3> QED BY <1>2, <3>1 DEF Grows
  <2> QED BY <1>2, <2>1 DEF LadderInv, RetryLadder
<1>3. CASE Fails
  <2>1. PICK retryable \in BOOLEAN : ProviderFails(retryable)
    BY <1>3 DEF Fails
  <2> DEFINE e == Event("provider_error", attempt,
                        IF Retries(retryable) THEN "retry" ELSE "terminal")
  <2>2. /\ pc = "call" /\ log' = Append(log, e)
        /\ IF Retries(retryable) THEN attempt' = attempt + 1 /\ pc' = pc
                                 ELSE pc' = "idle"
    BY <2>1 DEF ProviderFails, Write, EndRun
  <2>3. /\ e \in Events /\ e.type = "provider_error" /\ e.num = attempt
        /\ Retries(retryable) => e = Event("provider_error", attempt, "retry")
        /\ ~Retries(retryable) => e.tag = "terminal"
    <3>1. e.type = "provider_error" /\ e.num = attempt
          /\ (Retries(retryable) => e = Event("provider_error", attempt, "retry"))
          /\ (~Retries(retryable) => e.tag = "terminal")
      BY DEF Event
    <3>2. attempt \in Nat
      BY <1>0
    <3>3. e \in Events
      BY <3>2 DEF Event, Events, EventTypes, Tags
    <3> QED BY <3>1, <3>3
  <2> HIDE DEF e
  <2>4. /\ Positions(log', "provider_error") = Positions(log, "provider_error") \cup {Len(log) + 1}
        /\ log'[Len(log) + 1] = e /\ Len(log') = Len(log) + 1
        /\ \A i \in 1..Len(log) : log'[i] = log[i]
    BY <1>0, <2>2, <2>3, AppendPositions, AppendEvent
  <2>5. attempt > 1 => Len(log) > 0 /\ log'[Len(log)] = Event("provider_error", attempt - 1, "retry")
    BY <1>0, <2>2, <2>4 DEF LadderInv
  <2>6. attempt = MaxAttempts => e.tag = "terminal"
    BY <1>0, <2>3 DEF Retries
  <2>7. ASSUME NEW i \in Positions(log, "provider_error")
        PROVE  /\ log'[i] = log[i] /\ log[i].num \in 1..MaxAttempts
               /\ log[i].num = MaxAttempts => log[i].tag = "terminal"
               /\ log[i].num > 1 =>
                    i > 1 /\ log'[i - 1] = Event("provider_error", log[i].num - 1, "retry")
    <3>1. log[i].num > 1 => i - 1 \in 1..Len(log)
      BY <1>0, <1>1 DEF LadderInv
    <3> QED BY <1>1, <2>4, <3>1 DEF LadderInv, RetryLadder
  <2>8. RetryLadder' /\ \A i \in Positions(log', "provider_error") : log'[i].num > 1 => i > 1
    <3> SUFFICES ASSUME NEW i \in Positions(log', "provider_error")
                 PROVE  /\ log'[i].num \in 1..MaxAttempts
                        /\ log'[i].num = MaxAttempts => log'[i].tag = "terminal"
                        /\ log'[i].num > 1 =>
                             i > 1 /\ log'[i - 1] = Event("provider_error", log'[i].num - 1, "retry")
      BY DEF RetryLadder
    <3>1. CASE i \in Positions(log, "provider_error")
      BY <2>7, <3>1
    <3>2. CASE i = Len(log) + 1
      <4>1. log'[i] = e /\ i - 1 = Len(log)
        BY <1>0, <2>4, <3>2
      <4> QED BY <1>0, <2>3, <2>5, <2>6, <3>2, <4>1
    <3> QED BY <2>4, <3>1, <3>2
  <2>9. pc' = "call" =>
          Len(log') > 0 /\ log'[Len(log')] = Event("provider_error", attempt' - 1, "retry")
    <3>1. pc' = "call" => Retries(retryable) /\ attempt' - 1 = attempt
      BY <1>0, <2>2
    <3> QED BY <1>0, <2>3, <2>4, <3>1
  <2> QED BY <2>8, <2>9 DEF LadderInv
<1>4. ASSUME ~Fails
      PROVE  ~(pc' = "call" /\ attempt' > 1) \/ UNCHANGED <<log, pc, attempt>>
  <2>1. CASE Host
    BY <2>1 DEF Host, Chat, Reenter, Enter, Approve, Deny, Goto
  <2>2. CASE ApprovedReturn \/ DenyResult \/ FailBeforeCall \/ StayFailed \/ Project
             \/ TurnAnswered \/ CollectPending \/ NextDecision \/ BatchDecided
             \/ DenyByHook \/ RunTool \/ ToolReturns \/ BatchDispatched \/ Interrupt
    BY <1>0, <2>2 DEF ApprovedReturn, DenyResult, FailBeforeCall, StayFailed, Project, TurnAnswered,
      CollectPending, NextDecision, BatchDecided, DenyByHook, RunTool, ToolReturns,
      BatchDispatched, Interrupt, Goto, EndRun
  <2>3. CASE CloseIncomplete \/ RequestApproval
    BY <2>3 DEF CloseIncomplete, RequestApproval, EndRun
  <2>4. ASSUME NEW reason, NEW n, ProviderAnswers(reason, n)
        PROVE  pc' # "call"
    BY <2>4 DEF ProviderAnswers, Goto
  <2>5. ASSUME NEW name, AppendToolUse(name)
        PROVE  pc' # "call"
    BY <2>5 DEF AppendToolUse
  <2>6. ASSUME NEW effect, InvokeHandler(effect) \/ PostToolUse(effect)
        PROVE  pc' # "call"
    BY <2>6 DEF InvokeHandler, PostToolUse, Goto, EndRun
  <2>7. CASE UNCHANGED vars
    BY <2>7 DEF vars
  <2> QED BY <1>4, <2>1, <2>2, <2>3, <2>4, <2>5, <2>6, <2>7 DEF Fails, Next, Step
<1>5. CASE Silent \/ Replies \/ Others
  <2>1. Positions(log', "provider_error") = Positions(log, "provider_error") /\ Grows
    <3>1. CASE Silent
      BY <1>0, <3>1, QuietGrows DEF Silent, logVars
    <3>2. CASE Replies
      <4>1. PICK reason \in StopReasons : Write(Event("assistant_message", NoId, reason))
        BY <3>2 DEF Replies, ProviderAnswers
      <4>2. /\ Event("assistant_message", NoId, reason) \in Events
            /\ Event("assistant_message", NoId, reason).type # "provider_error"
        BY EventOfId DEF EventTypes, Tags, Event
      <4> QED BY <1>0, <4>1, <4>2, AppendPositions, WriteGrows DEF Write
    <3>3. CASE Others
      BY <1>0, <3>3, AppendPositions, StepGrows DEF Others
    <3> QED BY <1>5, <3>1, <3>2, <3>3
  <2>2. CASE UNCHANGED <<log, pc, attempt>>
    BY <2>2 DEF LadderInv, RetryLadder
  <2>3. CASE ~(pc' = "call" /\ attempt' > 1)
    BY <1>2, <2>1, <2>3
  <2>4. CASE Fails
    BY <1>3, <2>4
  <2> QED BY <1>4, <2>2, <2>3, <2>4
<1> QED BY <1>3, <1>5, StepWrites

\* The attempts of a provider call are numbered without a gap, never pass
\* max_attempts, and only the last is terminal, whatever interrupts the run
\* and whoever re-enters it (AgentLoop's retry loop and RetryPolicy.decide).
THEOREM Ladder == Spec => []RetryLadder
<1>1. Init => LadderInv
  BY DEF Init, LadderInv, RetryLadder, Positions
<1>2. LoopInv /\ LadderInv /\ [Next]_vars => LadderInv'
  BY LadderStep
<1>3. LadderInv => RetryLadder
  BY DEF LadderInv
<1> QED BY <1>1, <1>2, <1>3, LoopInvariant, PTL DEF Spec

-----------------------------------------------------------------------------
\* An event that is no report of its own changes none.
LEMMA PlainReports ==
  ASSUME LogType, NEW id \in Ids \cup {NoId}, NEW tag \in Tags,
         NEW type \in {"user_message", "tool_use", "tool_result", "approval_requested",
                       "approval_resolved"},
         Write(Event(type, id, tag))
  PROVE  SameReport(log, log')
<1> DEFINE e == Event(type, id, tag)
<1>1. e \in Events
  BY EventOfId DEF EventTypes
<1>2. e.type \notin {"runtime_error", "assistant_message", "provider_error"}
  BY DEF Event
<1>3. log \in Seq(Events) /\ log' = Append(log, e)
  BY DEF LogType, Write
<1> HIDE DEF e
<1> QED BY <1>1, <1>2, <1>3, ReportAppend

\* A terminal runtime_error adds one report and leaves the provider's alone.
LEMMA FatalReports ==
  ASSUME LogType, Write(RuntimeError)
  PROVE  /\ TerminalError(log')
         /\ (ProviderError(log') <=> ProviderError(log)) /\ Response(log') = Response(log)
<1>1. RuntimeError \in Events /\ RuntimeError.type = "runtime_error"
  BY RuntimeErrorEvent DEF RuntimeError, Event
<1>2. log \in Seq(Events) /\ log' = Append(log, RuntimeError)
  BY DEF LogType, Write
<1> QED BY <1>1, <1>2, ReportAppend

LEMMA SilentReports ==
  ASSUME UNCHANGED logVars
  PROVE  SameReport(log, log')
BY DEF logVars, SameReport

\* What an ended run may have been reported as.
Ended == {"idle", "approved", "denied"}
TurnClosed  == \A i \in UsesOfTurn : log[i].num \in Resolved(log)
TurnClosing == \A i \in UsesOfTurn : i \in todo \/ log[i].num \in Resolved(log)
EndedAs ==
  /\ outcome = "incomplete_tool_batch" => TurnClosed
  /\ outcome = "runtime_failed" => TerminalError(log)
  /\ outcome = "provider_failed" => ProviderError(log)
  /\ outcome \in {"end_turn", "incomplete_tool_batch", "no_pending_tools", "max_turns_reached"} =>
       ~TerminalError(log) /\ ~ProviderError(log)
  /\ outcome = "end_turn" => Response(log) > start

\* The reports a run finds and leaves behind.
ReportInv ==
  /\ pc \in {"call", "ingest", "close", "collect"} => ~TerminalError(log)
  /\ pc \in {"ingest", "close", "collect", "decide", "pause", "dispatch", "running", "post"} =>
       ~ProviderError(log)
  /\ pc = "ingest" => Response(log) > start
  /\ pc = "close" => TurnClosing
  /\ pc \in Ended => EndedAs

\* A turn that is closed stays closed while the host resolves approvals.
LEMMA ClosedKept ==
  ASSUME LoopInv, Silent \/ Notes \/ Answers, start' = start, TurnClosed
  PROVE  TurnClosed'
<1>1. LogType /\ Grows
  <2>1. LogType
    BY DEF LoopInv, TypeOK
  <2> QED BY <2>1, WriteGrows, QuietGrows DEF Silent, Notes, Answers
<1>2. Positions(log', "tool_use") = Positions(log, "tool_use")
      /\ Resolved(log) \subseteq Resolved(log')
  <2>1. CASE Silent
    BY <2>1 DEF Silent, logVars
  <2>2. CASE Notes
    BY <1>1, <2>2, NoteKeeps
  <2>3. CASE Answers
    BY <1>1, <2>3, AnswerAdds DEF Answers
  <2> QED BY <2>1, <2>2, <2>3
<1>3. UsesOfTurn' = UsesOfTurn
  BY <1>2, UsesKept
<1>4. \A i \in UsesOfTurn : log'[i] = log[i]
  BY <1>1 DEF UsesOfTurn, Positions, Grows
<1> QED BY <1>2, <1>3, <1>4 DEF TurnClosed

LEMMA ReportStep ==
  ASSUME LoopInv, ReportInv, [Next]_vars
  PROVE  ReportInv'
<1>0. /\ LogType /\ TurnType /\ PassType /\ RunType /\ PhaseInv /\ LogInv
      /\ log \in Seq(Events) /\ Len(log) \in Nat /\ start \in Nat /\ start <= Len(log)
      /\ current \in Ids \cup {NoId} /\ pc \in PCs
  BY DEF LoopInv, TypeOK, LogType, TurnType, RunType
<1> HIDE DEF ReportInv
\* A phase that leads on, with the same reports.
<1>1. ASSUME SameReport(log, log'), pc' \in {"project", "decide", "pause", "dispatch", "running",
                                             "post"},
             pc' = "project" \/ pc \notin {"idle", "project", "call", "approved", "denied"}
      PROVE  ReportInv'
  BY <1>0, <1>1 DEF ReportInv, SameReport, Ended, PCs
\* The host's calls between two runs.
<1>2. ASSUME SameReport(log, log'), pc \in Ended, pc' \in Ended, outcome' = outcome,
             start' = start, Silent \/ Notes \/ Answers
      PROVE  ReportInv'
  <2>1. TurnClosed => TurnClosed'
    BY <1>2, ClosedKept
  <2> QED BY <1>2, <2>1 DEF ReportInv, EndedAs, SameReport, Ended
<1>3. CASE Chat
  <2>1. PICK tag \in {""} : Write(Event("user_message", NoId, tag))
    BY <1>3 DEF Chat
  <2>2. tag \in Tags
    BY DEF Tags
  <2>3. SameReport(log, log')
    BY <1>0, <2>1, <2>2, PlainReports
  <2> QED BY <1>1, <1>3, <2>3 DEF Chat, Enter, Goto
<1>4. CASE Reenter
  BY <1>1, <1>4, SilentReports DEF Reenter, Enter, Goto
<1>5. ASSUME NEW id \in Ids, Approve(id) \/ Deny(id)
      PROVE  ReportInv'
  <2>1. PICK tag \in Tags : Write(Event("approval_resolved", id, tag))
    BY <1>5 DEF Approve, Deny, Tags
  <2>2. SameReport(log, log')
    BY <1>0, <2>1, PlainReports
  <2>3. Notes
    <3>1. Event("approval_resolved", id, tag) \in Events
      BY EventOfId DEF EventTypes
    <3> QED BY <2>1, <3>1 DEF Notes, Event
  <2>4. pc \in Ended /\ pc' \in Ended /\ outcome' = outcome /\ start' = start
    BY <1>5 DEF Approve, Deny, Ended, Goto, turnVars
  <2> QED BY <1>2, <2>2, <2>3, <2>4
<1>6. CASE ApprovedReturn \/ DenyResult
  <2>1. PICK tag \in Tags : Write(Event("tool_result", current, tag))
    BY <1>6 DEF ApprovedReturn, DenyResult, Tags
  <2>2. SameReport(log, log')
    BY <1>0, <2>1, PlainReports
  <2>3. Silent \/ Notes \/ Answers
    <3>1. ~Requests
      BY <1>6 DEF Requests, ApprovedReturn, DenyResult, AppendToolUse
    <3> QED BY <3>1, LogSteps
  <2>4. pc \in Ended /\ pc' \in Ended /\ outcome' = outcome /\ start' = start
    BY <1>6 DEF ApprovedReturn, DenyResult, Ended, Goto, turnVars
  <2> QED BY <1>2, <2>2, <2>3, <2>4
<1>7. CASE FailBeforeCall
  <2>1. TerminalError(log') /\ pc' = "idle" /\ outcome' = "runtime_failed"
    BY <1>0, <1>7, FatalReports DEF FailBeforeCall, EndRun
  <2> QED BY <2>1 DEF ReportInv, EndedAs, Ended
<1>8. CASE StayFailed
  <2>1. TerminalError(log') /\ pc' = "idle" /\ outcome' = "runtime_failed"
    BY <1>8 DEF StayFailed, EndRun, logVars
  <2> QED BY <2>1 DEF ReportInv, EndedAs, Ended
<1>9. CASE Project
  <2>1. ~TerminalError(log') /\ pc' = "call"
    BY <1>9 DEF Project, Goto, logVars
  <2> QED BY <2>1 DEF ReportInv, Ended
<1>10. ASSUME NEW retryable \in BOOLEAN, ProviderFails(retryable)
       PROVE  ReportInv'
  <2> DEFINE e == Event("provider_error", attempt,
                        IF Retries(retryable) THEN "retry" ELSE "terminal")
  <2>1. e \in Events /\ e.type = "provider_error"
    <3>1. attempt \in Nat
      BY <1>0, BoundsAssumption DEF TurnType
    <3> QED BY <3>1 DEF Event, Events, EventTypes, Tags
  <2>2. ~Retries(retryable) => e.tag = "terminal"
    BY DEF Event
  <2>3. pc = "call" /\ log' = Append(log, e)
        /\ \/ Retries(retryable) /\ pc' = "call"
           \/ ~Retries(retryable) /\ pc' = "idle" /\ outcome' = "provider_failed"
    BY <1>10 DEF ProviderFails, Write, EndRun
  <2> HIDE DEF e
  <2>4. ~TerminalError(log) /\ (TerminalError(log') <=> TerminalError(log))
    BY <1>0, <2>1, <2>3, ReportAppend DEF ReportInv
  <2>5. ~Retries(retryable) => ProviderError(log')
    BY <1>0, <2>1, <2>2, <2>3, ReportAppend
  <2> QED BY <2>3, <2>4, <2>5 DEF ReportInv, EndedAs, Ended
<1>11. ASSUME NEW reason \in StopReasons, NEW n \in 0..MaxBatch, ProviderAnswers(reason, n)
       PROVE  ReportInv'
  <2> DEFINE e == Event("assistant_message", NoId, reason)
  <2>1. e \in Events /\ e.type = "assistant_message"
    BY EventOfId DEF Event, EventTypes, Tags
  <2>2. pc = "call" /\ log' = Append(log, e) /\ pc' = "ingest" /\ start' = start
    BY <1>11 DEF ProviderAnswers, Write, Goto
  <2> HIDE DEF e
  <2>3. /\ ~ProviderError(log') /\ Response(log') = Len(log) + 1
        /\ (TerminalError(log') <=> TerminalError(log))
    BY <1>0, <2>1, <2>2, ReportAppend
  <2>4. ~TerminalError(log) /\ Response(log') > start'
    BY <1>0, <2>2, <2>3 DEF ReportInv
  <2> QED BY <2>2, <2>3, <2>4 DEF ReportInv, Ended
<1>12. ASSUME NEW name \in Names, AppendToolUse(name)
       PROVE  ReportInv'
  <2> DEFINE e == Event("tool_use", NextId, name)
  <2>1. e \in Events /\ log' = Append(log, e)
    BY <1>0, <1>12, RequestAdds
  <2>2. e.type \notin {"runtime_error", "assistant_message", "provider_error"}
    BY DEF Event
  <2> HIDE DEF e
  <2>3. SameReport(log, log')
    BY <1>0, <2>1, <2>2, ReportAppend
  <2>4. pc = "ingest" /\ pc' = "ingest" /\ start' = start
    BY <1>12 DEF AppendToolUse
  <2> QED BY <2>3, <2>4 DEF ReportInv, SameReport, Ended
<1>13. CASE TurnAnswered
  <2>1. /\ pc = "ingest" /\ UNCHANGED logVars /\ start' = start
        /\ \/ pc' = "collect"
           \/ pc' = "idle" /\ outcome' = "end_turn"
           \/ pc' = "close" /\ todo' = UsesOfTurn
    BY <1>13 DEF TurnAnswered, Goto, EndRun, turnVars
  <2>2. SameReport(log, log') /\ log' = log
    BY <2>1, SilentReports DEF logVars
  <2>3. pc' = "close" => TurnClosing'
    BY <2>1, <2>2 DEF TurnClosing, UsesOfTurn
  <2> QED BY <2>1, <2>2, <2>3 DEF ReportInv, SameReport, Ended, EndedAs
<1>14. CASE CloseIncomplete
  <2>1. pc = "close" /\ start' = start
    BY <1>14 DEF CloseIncomplete, turnVars
  <2>2. CASE todo = {}
    <3>1. pc' = "idle" /\ outcome' = "incomplete_tool_batch" /\ UNCHANGED logVars
      BY <1>14, <2>2 DEF CloseIncomplete, EndRun
    <3>2. TurnClosed /\ SameReport(log, log')
      BY <2>1, <2>2, <3>1, SilentReports DEF ReportInv, TurnClosing, TurnClosed
    <3>3. TurnClosed'
      BY <2>1, <3>1, <3>2, ClosedKept DEF Silent
    <3> QED BY <2>1, <3>1, <3>2, <3>3 DEF ReportInv, SameReport, Ended, EndedAs
  <2>3. CASE todo # {}
    <3> DEFINE k == First(todo)
               e == Event("tool_result", log[k].num, "incomplete")
    <3>1. Write(e) /\ todo' = todo \ {k} /\ pc' = "close"
      BY <1>14, <2>1, <2>3 DEF CloseIncomplete
    <3>2. k \in Positions(log, "tool_use") /\ log[k].num \in Ids
      BY <1>0, <2>3, TodoFirst, UseIds
    <3>3. e \in Events /\ e.type = "tool_result" /\ e.num = log[k].num
      BY <3>2, EventOfId DEF EventTypes, Tags, Event
    <3>4. SameReport(log, log')
      <4>1. "incomplete" \in Tags
        BY DEF Tags
      <4> QED BY <1>0, <3>1, <3>2, <4>1, PlainReports
    <3> HIDE DEF e, k
    <3>5. /\ Positions(log', "tool_use") = Positions(log, "tool_use")
          /\ Resolved(log') = Resolved(log) \cup {log[k].num} /\ Grows
      BY <1>0, <3>1, <3>3, AnswerAdds, WriteGrows
    <3>6. UsesOfTurn' = UsesOfTurn /\ \A i \in UsesOfTurn : log'[i] = log[i]
      <4>1. UsesOfTurn' = UsesOfTurn
        BY <2>1, <3>5, UsesKept
      <4>2. \A i \in UsesOfTurn : i \in 1..Len(log)
        BY DEF UsesOfTurn, Positions
      <4> QED BY <3>5, <4>1, <4>2 DEF Grows
    <3>7. TurnClosing
      BY <2>1 DEF ReportInv
    <3>8. TurnClosing'
      BY <3>1, <3>5, <3>6, <3>7 DEF TurnClosing
    <3> QED BY <2>1, <3>1, <3>4, <3>8 DEF ReportInv, SameReport, Ended
  <2> QED BY <2>2, <2>3
<1>15. CASE CollectPending \/ NextDecision \/ BatchDecided \/ RunTool
  <2>1. /\ UNCHANGED logVars
        /\ pc \in {"collect", "decide", "dispatch"} /\ pc' \in {"decide", "pause", "dispatch", "running"}
    BY <1>15 DEF CollectPending, NextDecision, BatchDecided, RunTool, Goto
  <2> QED BY <1>1, <2>1, SilentReports
\* A handler that goes on, or fails the run, or leaves the log alone.
<1>16. ASSUME NEW effect, InvokeHandler(effect) \/ PostToolUse(effect)
       PROVE  ReportInv'
  <2>1. /\ pc \in {"decide", "post"}
        /\ UNCHANGED logVars \/ Write(RuntimeError)
        /\ \/ Write(RuntimeError) /\ pc' = "idle" /\ outcome' = "runtime_failed"
           \/ pc' \in {"decide", "dispatch"}
    BY <1>16 DEF InvokeHandler, PostToolUse, EndRun, Goto
  <2>2. ~ProviderError(log')
    <3>1. ~ProviderError(log)
      BY <2>1 DEF ReportInv
    <3> QED BY <1>0, <2>1, <3>1, FatalReports, SilentReports DEF SameReport
  <2>3. pc' = "idle" => TerminalError(log')
    BY <1>0, <2>1, FatalReports
  <2> QED BY <2>1, <2>2, <2>3 DEF ReportInv, Ended, EndedAs
<1>17. CASE RequestApproval
  <2>1. pc = "pause"
    BY <1>17 DEF RequestApproval
  <2>2. CASE todo = {}
    <3>1. pc' = "idle" /\ outcome' = "awaiting_approval"
      BY <1>17, <2>2 DEF RequestApproval, EndRun
    <3> QED BY <3>1 DEF ReportInv, Ended, EndedAs
  <2>3. CASE todo # {}
    <3>1. PICK tag \in {""} : Write(Event("approval_requested", log[First(todo)].num, tag))
      BY <1>17, <2>3 DEF RequestApproval
    <3>2. tag \in Tags /\ log[First(todo)].num \in Ids /\ pc' = "pause"
      BY <1>0, <1>17, <2>1, <2>3, TodoFirst, UseIds DEF Tags, RequestApproval
    <3>3. SameReport(log, log')
      BY <1>0, <3>1, <3>2, PlainReports
    <3> QED BY <1>1, <2>1, <3>2, <3>3
  <2> QED BY <2>2, <2>3
<1>18. CASE DenyByHook
  <2>1. /\ pc = "dispatch" /\ pc' = "post" /\ todo # {}
        /\ Write(Event("tool_result", log[First(todo)].num, "denied"))
    BY <1>18 DEF DenyByHook, Goto
  <2>2. log[First(todo)].num \in Ids /\ "denied" \in Tags
    BY <1>0, <2>1, TodoFirst, UseIds DEF Tags
  <2>3. SameReport(log, log')
    BY <1>0, <2>1, <2>2, PlainReports
  <2> QED BY <1>1, <2>1, <2>3
<1>19. CASE ToolReturns
  <2>1. /\ pc = "running" /\ pc' = "post" /\ "ran" \in Tags
        /\ Write(Event("tool_result", current, "ran"))
    BY <1>19 DEF ToolReturns, Goto, Tags
  <2>2. SameReport(log, log')
    BY <1>0, <2>1, PlainReports
  <2> QED BY <1>1, <2>1, <2>2
<1>20. CASE BatchDispatched
  <2>1. /\ pc = "dispatch" /\ log' = log
        /\ \/ TerminalError(log) /\ pc' = "idle" /\ outcome' = "runtime_failed"
           \/ /\ ~TerminalError(log) /\ pc' = "idle"
              /\ outcome' \in {"no_pending_tools", "max_turns_reached"}
           \/ pc' = "project"
    BY <1>20 DEF BatchDispatched, Goto, EndRun, logVars
  <2> QED BY <2>1 DEF ReportInv, Ended, EndedAs
<1>21. CASE Interrupt
  <2>1. pc' = "idle" /\ outcome' = "interrupted"
    BY <1>21 DEF Interrupt, EndRun
  <2> QED BY <2>1 DEF ReportInv, Ended, EndedAs
<1>22. CASE UNCHANGED vars
  BY <1>22 DEF vars, ReportInv, EndedAs, TurnClosed, TurnClosing, UsesOfTurn
<1> QED
  BY <1>3, <1>4, <1>5, <1>6, <1>7, <1>8, <1>9, <1>10, <1>11, <1>12, <1>13, <1>14, <1>15,
     <1>16, <1>17, <1>18, <1>19, <1>20, <1>21, <1>22
  DEF Next, Host, Step

LEMMA ReportInvariant == Spec => []ReportInv
<1>1. Init => ReportInv
  BY DEF Init, ReportInv, Ended, EndedAs
<1>2. LoopInv /\ ReportInv /\ [Next]_vars => ReportInv'
  BY ReportStep
<1> QED BY <1>1, <1>2, LoopInvariant, PTL DEF Spec

\* Whatever the earlier runs of the session went through, how the last run
\* ended and what Agent.chat, command_run and command_chat report of it agree.
THEOREM ReportsTruthful == Spec => []OutcomeTruthful
<1>1. ReportInv => OutcomeTruthful
  BY DEF ReportInv, Ended, EndedAs, TurnClosed, OutcomeTruthful, ExitStatus, Status, Shown,
     ErrorShown
<1> QED BY <1>1, ReportInvariant, PTL

\* No provider is called once a terminal runtime_error is in the log: no step
\* of this run or a later one writes a provider_error or an assistant_message.
THEOREM FailedStaysSilent == Spec => TerminalStopsProvider
<1> DEFINE Stops == TerminalError(log) =>
                      IdsOf(log', "provider_error") = IdsOf(log, "provider_error")
                      /\ Positions(log', "assistant_message") = Positions(log, "assistant_message")
<1>1. LoopInv /\ ReportInv /\ [Next]_vars => [Stops]_vars
  <2> SUFFICES ASSUME LoopInv, ReportInv, [Next]_vars, TerminalError(log)
               PROVE  /\ IdsOf(log', "provider_error") = IdsOf(log, "provider_error")
                      /\ Positions(log', "assistant_message") = Positions(log, "assistant_message")
    OBVIOUS
  <2>1. log \in Seq(Events)
    BY DEF LoopInv, TypeOK, LogType
  <2>2. CASE Silent
    BY <2>2 DEF Silent, logVars
  <2>3. CASE Others
    BY <2>1, <2>3, AppendPositions, AppendIds DEF Others
  <2>4. pc # "call"
    BY DEF ReportInv
  <2>5. ~Fails /\ ~Replies
    BY <2>4 DEF Fails, Replies, ProviderFails, ProviderAnswers
  <2> QED BY <2>2, <2>3, <2>5, StepWrites
<1> HIDE DEF Stops
<1>2. Spec => [][Stops]_vars
  BY <1>1, LoopInvariant, ReportInvariant, PTL DEF Spec
<1> QED BY <1>2 DEF Stops, TerminalStopsProvider

-----------------------------------------------------------------------------
(* Descent: what each step of a run leaves before its return.                *)

\* What a run still has before it, most significant first: turns, the phases of
\* the turn, what the phase has to go through, the steps of one visit.
Phases ==
  CASE pc = "project" -> 5 [] pc = "call" -> 4 [] pc = "ingest" -> 3 [] pc = "collect" -> 2
    [] pc = "decide" -> 1 [] OTHER -> 0
ToGo ==
  CASE pc = "call"    -> MaxAttempts - attempt
    [] pc = "ingest"  -> left
    [] OTHER          -> Cardinality(todo)
Visit ==
  CASE pc = "decide" -> Len(Policy) + 1 - h [] pc = "dispatch" -> 2 [] pc = "running" -> 1
    [] OTHER -> 0
Left == <<MaxTurns - turn, Phases, ToGo, Visit>>

\* m comes before n in the lexicographic order on quadruples of naturals.
Below(m, n) ==
  /\ m \in [1..4 -> Nat] /\ n \in [1..4 -> Nat]
  /\ \E i \in 1..4 : m[i] < n[i] /\ \A j \in 1..(i - 1) : m[j] = n[j]
Measures == [1..4 -> Nat]
Descent  == {d \in Measures \X Measures : Below(d[1], d[2])}

\* No loop of a run goes round without getting nearer to its return: every step
\* that does not return leaves less before it, whatever the provider answers,
\* the handlers decide and the tools do, so that no run is infinite.
RunDescends == [][pc # "idle" => pc' = "idle" \/ <<Left', Left>> \in Descent]_vars

\* The counters of Left are naturals.
LeftTyped ==
  /\ Left = <<MaxTurns - turn, Phases, ToGo, Visit>>
  /\ MaxTurns - turn \in Nat /\ Phases \in Nat /\ ToGo \in Nat /\ Visit \in Nat
  /\ IsFiniteSet(todo) /\ Cardinality(todo) \in Nat
LEMMA LeftType == TypeOK => LeftTyped
<1> SUFFICES ASSUME TypeOK PROVE LeftTyped
  OBVIOUS
<1>1. IsFiniteSet(todo) /\ Cardinality(todo) \in Nat
  <2>1. Len(log) \in Nat /\ todo \subseteq Positions(log, "tool_use")
    BY DEF TypeOK, LogType, PassType
  <2>2. IsFiniteSet(1..Len(log))
    BY <2>1, FS_Interval
  <2>3. todo \in SUBSET (1..Len(log))
    BY <2>1 DEF Positions
  <2>4. IsFiniteSet(todo)
    BY <2>2, <2>3, FS_Subset, Zenon
  <2> QED BY <2>4, FS_CardinalityType, Zenon
<1>2. MaxTurns - turn \in Nat /\ MaxAttempts - attempt \in Nat /\ left \in Nat
  BY BoundsAssumption DEF TypeOK, TurnType
<1>3. Len(Policy) + 1 - h \in Nat
  <2>1. Len(Policy) \in Nat
    BY PolicyAssumption
  <2> QED BY <2>1 DEF TypeOK, PassType
<1>4. ToGo \in Nat
  BY <1>1, <1>2 DEF ToGo
<1>5. Phases \in Nat /\ Visit \in Nat
  BY <1>3 DEF Phases, Visit
<1> QED BY <1>1, <1>2, <1>4, <1>5 DEF Left, LeftTyped

LEMMA LeftTypeNext == TypeOK' => LeftTyped'
BY LeftType, PTL

\* The first of the counters that differs decides.
LEMMA LowerAt ==
  ASSUME NEW a \in Nat, NEW b \in Nat, NEW c \in Nat, NEW d \in Nat,
         NEW s \in Nat, NEW t \in Nat, NEW u \in Nat, NEW v \in Nat,
         \/ s < a
         \/ s = a /\ t < b
         \/ s = a /\ t = b /\ u < c
         \/ s = a /\ t = b /\ u = c /\ v < d
  PROVE  Below(<<s, t, u, v>>, <<a, b, c, d>>)
<1> DEFINE m == <<s, t, u, v>>
           n == <<a, b, c, d>>
<1>1. /\ m \in [1..4 -> Nat] /\ m[1] = s /\ m[2] = t /\ m[3] = u /\ m[4] = v
      /\ n \in [1..4 -> Nat] /\ n[1] = a /\ n[2] = b /\ n[3] = c /\ n[4] = d
  OBVIOUS
<1> HIDE DEF m, n
<1>2. \E i \in 1..4 : m[i] < n[i] /\ \A j \in 1..(i - 1) : m[j] = n[j]
  <2>1. CASE s < a
    BY <1>1, <2>1
  <2>2. CASE s = a /\ t < b
    <3>1. m[2] < n[2] /\ \A j \in 1..(2 - 1) : m[j] = n[j]
      BY <1>1, <2>2
    <3> QED BY <3>1
  <2>3. CASE s = a /\ t = b /\ u < c
    <3>1. m[3] < n[3] /\ \A j \in 1..(3 - 1) : m[j] = n[j]
      BY <1>1, <2>3
    <3> QED BY <3>1
  <2>4. CASE s = a /\ t = b /\ u = c /\ v < d
    <3>1. m[4] < n[4] /\ \A j \in 1..(4 - 1) : m[j] = n[j]
      BY <1>1, <2>4
    <3> QED BY <3>1
  <2> QED BY <2>1, <2>2, <2>3, <2>4
<1> QED BY <1>1, <1>2 DEF Below, m, n

\* A step gets nearer to the run's return when it leaves fewer turns, or as
\* many and an earlier count of Left lower.
LEMMA Nearer ==
  ASSUME TypeOK, TypeOK',
         \/ turn' > turn
         \/ turn' = turn /\ Phases' < Phases
         \/ turn' = turn /\ Phases' = Phases /\ ToGo' < ToGo
         \/ turn' = turn /\ Phases' = Phases /\ ToGo' = ToGo /\ Visit' < Visit
  PROVE  Below(Left', Left)
<1>1. LeftTyped /\ LeftTyped'
  BY LeftType, LeftTypeNext
<1>2. turn \in Nat /\ turn' \in Nat /\ MaxTurns \in Nat
  BY BoundsAssumption DEF TypeOK, TurnType
<1>3. \A a, b, m \in Nat : b > a => m - b < m - a
  OBVIOUS
<1>4. turn' > turn => MaxTurns - turn' < MaxTurns - turn
  BY <1>2, <1>3, Zenon
<1> QED BY <1>1, <1>4, LowerAt DEF LeftTyped

\* A loop over todo that has visited its first position has one less to visit.
LEMMA VisitsLess ==
  ASSUME TypeOK, todo # {}, todo' = todo \ {First(todo)}
  PROVE  Cardinality(todo') < Cardinality(todo)
<1>1. First(todo) \in todo
  BY TodoFirst DEF TypeOK
<1>2. IsFiniteSet(todo) /\ Cardinality(todo) \in Nat
  BY LeftType DEF LeftTyped
<1> QED BY <1>1, <1>2, FS_RemoveElement

\* Each step of a run returns or gets nearer to it.
LEMMA Descends ==
  ASSUME LoopInv, LoopInv', Next, pc # "idle"
  PROVE  pc' = "idle" \/ Below(Left', Left)
<1> DEFINE Nearer1 ==
         \/ turn' > turn
         \/ turn' = turn /\ Phases' < Phases
         \/ turn' = turn /\ Phases' = Phases /\ ToGo' < ToGo
         \/ turn' = turn /\ Phases' = Phases /\ ToGo' = ToGo /\ Visit' < Visit
<1>1. TypeOK /\ TypeOK'
  BY DEF LoopInv
<1>2. /\ attempt \in Nat /\ left \in Nat /\ h \in Nat /\ turn \in Nat
      /\ Len(Policy) \in Nat /\ MaxAttempts \in Nat
  <2>1. Len(Policy) \in Nat
    BY PolicyAssumption
  <2>2. h \in Nat
    BY <1>1, <2>1 DEF TypeOK, PassType
  <2> QED BY <1>1, <2>1, <2>2, BoundsAssumption DEF TypeOK, TurnType
<1>3. ~Host
  BY DEF Host, Chat, Reenter, Approve, Deny
<1>4. ASSUME ApprovedReturn \/ DenyResult \/ FailBeforeCall \/ StayFailed \/ Interrupt
      PROVE  pc' = "idle"
  BY <1>4 DEF ApprovedReturn, DenyResult, FailBeforeCall, StayFailed, Interrupt, EndRun, Goto
<1> SUFFICES ASSUME pc' # "idle" PROVE Nearer1
  BY <1>1, Nearer
<1>5. CASE Project
  BY <1>5 DEF Project, Goto, Phases
<1>6. ASSUME NEW retryable \in BOOLEAN, ProviderFails(retryable) PROVE Nearer1
  BY <1>2, <1>6 DEF ProviderFails, EndRun, Phases, ToGo
<1>7. ASSUME NEW reason \in StopReasons, NEW n \in 0..MaxBatch, ProviderAnswers(reason, n)
      PROVE  Nearer1
  BY <1>7 DEF ProviderAnswers, Goto, Phases
<1>8. ASSUME NEW name \in Names, AppendToolUse(name) PROVE Nearer1
  BY <1>2, <1>8 DEF AppendToolUse, Phases, ToGo
<1>9. CASE TurnAnswered
  BY <1>9 DEF TurnAnswered, turnVars, EndRun, Goto, Phases
<1>10. CASE CloseIncomplete
  BY <1>1, <1>10, VisitsLess DEF CloseIncomplete, turnVars, EndRun, Phases, ToGo
<1>11. CASE CollectPending
  BY <1>11 DEF CollectPending, turnVars, Goto, Phases
<1>12. ASSUME NEW effect \in Effects, InvokeHandler(effect) PROVE Nearer1
  BY <1>2, <1>12 DEF InvokeHandler, turnVars, EndRun, Phases, ToGo, Visit
<1>13. CASE NextDecision
  BY <1>1, <1>13, VisitsLess DEF NextDecision, turnVars, Phases, ToGo
<1>14. CASE BatchDecided
  BY <1>14 DEF BatchDecided, turnVars, Goto, Phases
<1>15. CASE RequestApproval
  BY <1>1, <1>15, VisitsLess DEF RequestApproval, turnVars, EndRun, Phases, ToGo
<1>16. CASE DenyByHook
  BY <1>16 DEF DenyByHook, turnVars, passVars, Goto, Phases, ToGo, Visit
<1>17. CASE RunTool
  BY <1>17 DEF RunTool, turnVars, passVars, Goto, Phases, ToGo, Visit
<1>18. CASE ToolReturns
  BY <1>18 DEF ToolReturns, turnVars, passVars, Goto, Phases, ToGo, Visit
<1>19. ASSUME NEW effect \in PostEffects, PostToolUse(effect) PROVE Nearer1
  <2>1. todo # {}
    BY <1>19 DEF LoopInv, PhaseInv, PostToolUse
  <2> QED BY <1>1, <1>19, <2>1, VisitsLess DEF PostToolUse, turnVars, EndRun, Goto, Phases, ToGo
<1>20. CASE BatchDispatched
  BY <1>2, <1>20 DEF BatchDispatched, EndRun, Goto
<1> HIDE DEF Nearer1
<1> QED BY <1>3, <1>4, <1>5, <1>6, <1>7, <1>8, <1>9, <1>10, <1>11, <1>12, <1>13, <1>14,
           <1>15, <1>16, <1>17, <1>18, <1>19, <1>20 DEF Next, Step

\* Nothing gets less for ever in that order.
LEMMA DescentIsWellFounded == IsWellFoundedOn(Descent, Measures)
<1> DEFINE R == OpToRel(<, Nat)
<1>1. IsWellFoundedOn(LexProductOrdering(R, Nat, 4), [1..4 -> Nat])
  BY NatLessThanWellFounded, WFLexProductOrdering
<1>2. LexProductOrdering(R, Nat, 4) = Descent
  <2>1. ASSUME NEW f \in [1..4 -> Nat], NEW g \in [1..4 -> Nat]
        PROVE  (\E j \in 1..4 : (\A i \in 1..(j - 1) : f[i] = g[i]) /\ <<f[j], g[j]>> \in R)
                 <=> Below(f, g)
    <3>1. \A j \in 1..4 : <<f[j], g[j]>> \in R <=> f[j] < g[j]
      BY DEF OpToRel
    <3> HIDE DEF R
    <3> QED BY <3>1 DEF Below
  <2> HIDE DEF R
  <2> QED BY <2>1 DEF LexProductOrdering, Descent, Measures
<1> QED BY <1>1, <1>2 DEF Measures

\* AgentLoop.run, approve and deny have no loop that could go round without an
\* end: each step leaves less of the turns, attempts, answers and batches that
\* are still to come, for any limits and any handlers, in an order in which
\* nothing gets less for ever, so that a run is a finite number of steps.
THEOREM NoRunGoesRound == IsWellFoundedOn(Descent, Measures) /\ (Spec => RunDescends)
<1> DEFINE Progress == pc # "idle" => pc' = "idle" \/ <<Left', Left>> \in Descent
<1>1. LoopInv /\ LoopInv' /\ [Next]_vars => [Progress]_vars
  BY Descends DEF Below, Descent, Measures
<1> HIDE DEF Progress
<1>2. Spec => [][Progress]_vars
  BY <1>1, LoopInvariant, PTL DEF Spec
<1>3. Spec => RunDescends
  BY <1>2 DEF Progress, RunDescends
<1> QED BY <1>3, DescentIsWellFounded

-----------------------------------------------------------------------------
(* Pairing: which tool_uses still lack a result, and where the loop will     *)
(* write one.                                                                *)

Asked == IdsOf(log, "approval_requested")
\* Requested ids with neither a result nor an approval to wait for.
Owed == Requested(log) \ (Resolved(log) \cup Asked)
OwedIn(S) == \A id \in Owed : \E i \in S : log[i].num = id

\* What an appended event does to the owed ids.
LEMMA OwedAppend ==
  ASSUME log \in Seq(Events), NEW e \in Events, log' = Append(log, e)
  PROVE  /\ e.type \in {"tool_result", "approval_requested"} => Owed' \subseteq Owed \ {e.num}
         /\ e.type = "tool_use" => Owed' \subseteq Owed \cup {e.num}
         /\ e.type # "tool_use" => Owed' \subseteq Owed
<1>1. ASSUME NEW t
      PROVE  /\ e.type = t => IdsOf(log', t) = IdsOf(log, t) \cup {e.num}
             /\ e.type # t => IdsOf(log', t) = IdsOf(log, t)
  BY AppendIds
<1>2. ASSUME NEW t
      PROVE  IdsOf(log, t) \subseteq IdsOf(log', t)
  BY <1>1
<1>3. e.type # "tool_use" => Requested(log') = Requested(log)
  BY <1>1 DEF Requested
<1>4. e.type = "tool_use" => Requested(log') = Requested(log) \cup {e.num}
  BY <1>1 DEF Requested
<1>5. Resolved(log) \subseteq Resolved(log') /\ Asked \subseteq Asked'
  BY <1>2 DEF Resolved, Asked
<1>6. e.type = "tool_result" => e.num \in Resolved(log')
  BY <1>1 DEF Resolved
<1>7. e.type = "approval_requested" => e.num \in Asked'
  BY <1>1 DEF Asked
<1>8. Owed' = Requested(log') \ (Resolved(log') \cup Asked')
  BY DEF Owed
<1> QED BY <1>3, <1>4, <1>5, <1>6, <1>7, <1>8 DEF Owed

\* A loop that answers or asks for one use at a time keeps the rest in sight.
LEMMA OwedKept ==
  ASSUME Grows, NEW S, S \subseteq Positions(log, "tool_use"), OwedIn(S), Owed' \subseteq Owed
  PROVE  \A id \in Owed' : \E i \in S : log'[i].num = id
<1>1. \A i \in S : log'[i] = log[i]
  BY DEF Grows, Positions
<1> QED BY <1>1 DEF OwedIn

LEMMA OwedOthers ==
  ASSUME Grows, NEW S, S \subseteq Positions(log, "tool_use"), OwedIn(S), NEW k,
         Owed' \subseteq Owed \ {log[k].num}
  PROVE  \A id \in Owed' : \E i \in S \ {k} : log'[i].num = id
<1>1. \A i \in S : log'[i] = log[i]
  BY DEF Grows, Positions
<1> QED BY <1>1 DEF OwedIn

\* With no interrupt and no terminal error, every owed use is one the loop
\* still has to visit; between two turns nothing is owed.
OwedInv ==
  /\ pc \in {"idle", "project", "call", "approved", "denied"} => OwedIn({})
  /\ pc \in {"ingest", "collect"} => OwedIn(UsesOfTurn)
  /\ pc \in {"close", "pause", "dispatch", "running"} => OwedIn(todo)
  /\ pc = "decide" => OwedIn(DOMAIN verdict)
  /\ pc = "post" => OwedIn(todo \ {First(todo)})

\* What _event_scan_index and _fulfilled_tool_use_ids leave out is resolved
\* or older than the turn.
ScanInv ==
  /\ fulfilled \subseteq Resolved(log)
  /\ pc \in {"call", "ingest", "collect"} => scan <= start

PairedInv == ScanInv /\ (cuts = 0 /\ ~TerminalError(log) => OwedInv)

\* A pause covers its whole batch, or there is none.
WholeInv == pc = "decide" /\ todo = {} => Held \in {{}, DOMAIN verdict}

LEMMA ResolvedGrows ==
  ASSUME Grows
  PROVE  Resolved(log) \subseteq Resolved(log')
<1>1. \A i \in Positions(log, "tool_result") : i \in 1..Len(log) /\ i \in Positions(log', "tool_result")
  BY GrowsPositions DEF Positions
<1>2. \A i \in Positions(log, "tool_result") : log'[i] = log[i]
  BY <1>1 DEF Grows
<1> QED BY <1>1, <1>2 DEF Resolved, IdsOf

LEMMA ScanInvStep ==
  ASSUME LoopInv, ScanInv, [Next]_vars
  PROVE  ScanInv'
<1>0. LogType /\ TurnType /\ ScanType /\ scan \in Nat /\ start \in Nat /\ Len(log) \in Nat
      /\ scan <= Len(log)
  BY DEF LoopInv, TypeOK, LogType, TurnType, ScanType
<1>1. Resolved(log) \subseteq Resolved(log')
  BY StepGrows, ResolvedGrows
<1>2. ASSUME UNCHANGED scanVars, pc' \in {"call", "ingest", "collect"} =>
                                   pc \in {"call", "ingest", "collect"} /\ start' = start
      PROVE  ScanInv'
  BY <1>1, <1>2 DEF ScanInv, scanVars
<1>3. ASSUME NEW l, Remember(l), l = log', pc' \notin {"call", "ingest", "collect"}
      PROVE  ScanInv'
  <2>1. ScannedResults(l) \subseteq Resolved(l)
    BY DEF ScannedResults, Resolved, IdsOf
  <2> QED BY <1>1, <1>3, <2>1 DEF ScanInv, Remember
<1>4. CASE Chat \/ Reenter
  BY <1>1, <1>4 DEF Chat, Reenter, Enter, ScanInv, scanVars, Goto
<1>5. CASE \E id \in Ids : Approve(id) \/ Deny(id)
  BY <1>2, <1>5 DEF Approve, Deny, Goto
<1>6. CASE Project
  BY <1>0, <1>1, <1>6 DEF Project, ScanInv, scanVars, Goto
<1>7. CASE CollectPending
  <2>1. UNCHANGED scanVars \/ Remember(log)
    BY <1>7 DEF CollectPending
  <2>2. log' = log /\ pc' = "decide"
    BY <1>7 DEF CollectPending, Goto, logVars
  <2> QED BY <1>2, <1>3, <2>1, <2>2
<1>8. CASE DenyByHook \/ ToolReturns
  BY <1>3, <1>8 DEF DenyByHook, ToolReturns, Goto
<1>9. CASE ApprovedReturn \/ DenyResult \/ FailBeforeCall \/ StayFailed \/ CloseIncomplete
           \/ NextDecision \/ BatchDecided \/ RequestApproval \/ RunTool \/ BatchDispatched
           \/ Interrupt \/ TurnAnswered
  BY <1>2, <1>9 DEF ApprovedReturn, DenyResult, FailBeforeCall, StayFailed, CloseIncomplete,
     NextDecision, BatchDecided, RequestApproval, RunTool, BatchDispatched, Interrupt,
     TurnAnswered, turnVars, Goto, EndRun
<1>10. CASE \/ \E retryable \in BOOLEAN : ProviderFails(retryable)
            \/ \E reason \in StopReasons, n \in 0..MaxBatch : ProviderAnswers(reason, n)
            \/ \E name \in Names : AppendToolUse(name)
            \/ \E effect \in Effects : InvokeHandler(effect)
            \/ \E effect \in PostEffects : PostToolUse(effect)
  BY <1>2, <1>10 DEF ProviderFails, ProviderAnswers, AppendToolUse, InvokeHandler, PostToolUse,
     turnVars, Goto, EndRun
<1>11. CASE UNCHANGED vars
  BY <1>2, <1>11 DEF vars, scanVars
<1> QED
  BY <1>4, <1>5, <1>6, <1>7, <1>8, <1>9, <1>10, <1>11 DEF Next, Host, Step

LEMMA PairedStep ==
  ASSUME LoopInv, HasRunner, WholeInv, PairedInv, [Next]_vars
  PROVE  PairedInv'
<1>0. /\ LogType /\ TurnType /\ ScanType /\ PassType /\ RunType /\ PhaseInv /\ LogInv
      /\ log \in Seq(Events) /\ pc \in PCs /\ Len(log) \in Nat /\ start \in Nat
      /\ cuts \in Nat /\ current \in Ids \cup {NoId}
  BY BoundsAssumption DEF LoopInv, TypeOK, LogType, RunType, TurnType
<1>1. Grows /\ ScanInv /\ ScanInv'
  BY StepGrows, ScanInvStep DEF PairedInv
<1>2. SUFFICES ASSUME cuts' = 0, ~TerminalError(log')
               PROVE  OwedInv'
  BY <1>1 DEF PairedInv
<1>3. cuts = 0 /\ ~TerminalError(log)
  <2>1. cuts' = cuts \/ Interrupt
    BY DEF Next, Host, Step, Chat, Reenter, Enter, Approve, Deny, ApprovedReturn, DenyResult,
      FailBeforeCall, StayFailed, Project, ProviderFails, ProviderAnswers, AppendToolUse,
      TurnAnswered, CloseIncomplete, CollectPending, InvokeHandler, NextDecision, BatchDecided,
      RequestApproval, DenyByHook, RunTool, ToolReturns, PostToolUse, BatchDispatched, vars,
      histVars
  <2>2. cuts' = cuts
    BY <1>0, <1>2, <2>1 DEF Interrupt
  <2>3. Positions(log, "runtime_error") \subseteq Positions(log', "runtime_error")
    BY <1>1, GrowsPositions
  <2> QED BY <1>2, <2>2, <2>3 DEF TerminalError
<1>4. OwedInv
  BY <1>3 DEF PairedInv
<1>5. todo \subseteq Positions(log, "tool_use") /\ DOMAIN verdict \subseteq Positions(log, "tool_use")
      /\ UsesOfTurn \subseteq Positions(log, "tool_use")
  BY <1>0 DEF PassType, UsesOfTurn
\* What the appended event owes or pays.
<1>6. UNCHANGED logVars => Owed' = Owed /\ log' = log
  BY DEF logVars, Owed, Asked
<1>7. ASSUME NEW type \in {"user_message", "assistant_message", "approval_resolved"},
             NEW id \in Ids \cup {NoId}, NEW tag \in Tags, Write(Event(type, id, tag))
      PROVE  Owed' \subseteq Owed
  <2> DEFINE e == Event(type, id, tag)
  <2>1. e \in Events /\ e.type # "tool_use"
    BY EventOfId DEF Event, EventTypes
  <2> HIDE DEF e
  <2> QED BY <1>0, <1>7, <2>1, OwedAppend DEF Write, e
<1>8. ASSUME NEW type \in {"tool_result", "approval_requested"},
             NEW id \in Ids \cup {NoId}, NEW tag \in Tags, Write(Event(type, id, tag))
      PROVE  Owed' \subseteq Owed \ {id}
  <2> DEFINE e == Event(type, id, tag)
  <2>1. e \in Events /\ e.type = type /\ e.num = id
    BY EventOfId DEF Event, EventTypes
  <2> HIDE DEF e
  <2> QED BY <1>0, <1>8, <2>1, OwedAppend DEF Write, e
<1>9. ASSUME OwedIn({}), Owed' \subseteq Owed
      PROVE  OwedIn({})'
  BY <1>9 DEF OwedIn
<1>10. OwedIn({})' => \A S : \A id \in Owed' : \E i \in S : log'[i].num = id
  BY DEF OwedIn
\* Between two turns.
<1>11. ASSUME pc \in {"idle", "project", "call", "approved", "denied"}, Owed' \subseteq Owed,
              pc' \in {"idle", "project", "call", "approved", "denied", "ingest"}
       PROVE  OwedInv'
  <2>1. OwedIn({})'
    BY <1>4, <1>9, <1>11 DEF OwedInv
  <2> QED BY <1>10, <1>11, <2>1 DEF OwedInv, OwedIn
\* The last use has been visited.
<1>12. ASSUME OwedIn({}), UNCHANGED logVars, pc' \in {"idle", "project"}
       PROVE  OwedInv'
  <2>1. OwedIn({})'
    BY <1>6, <1>9, <1>12
  <2> QED BY <1>12, <2>1 DEF OwedInv
\* The loop visits one more use, or asks for its approval.
<1>13. ASSUME todo # {}, OwedIn(todo), NEW type \in {"tool_result", "approval_requested"},
              NEW tag \in Tags, Write(Event(type, log[First(todo)].num, tag))
       PROVE  \A id \in Owed' : \E i \in todo \ {First(todo)} : log'[i].num = id
  <2>1. log[First(todo)].num \in Ids
    BY <1>0, <1>13, TodoFirst, UseIds
  <2>2. Owed' \subseteq Owed \ {log[First(todo)].num}
    BY <1>8, <1>13, <2>1
  <2> QED BY <1>1, <1>5, <1>13, <2>2, OwedOthers
<1>14. CASE Chat \/ Reenter
  <2>1. pc = "idle" /\ pc' = "project"
    BY <1>14 DEF Chat, Reenter, Enter, Goto
  <2>2. Owed' \subseteq Owed
    <3>1. UNCHANGED logVars \/ \E tag \in {""} : Write(Event("user_message", NoId, tag))
      BY <1>14 DEF Chat, Reenter
    <3>2. \A tag \in {""} : tag \in Tags
      BY DEF Tags
    <3> QED BY <1>6, <1>7, <3>1, <3>2
  <2> QED BY <1>11, <2>1, <2>2
<1>15. ASSUME NEW id \in Ids, Approve(id) \/ Deny(id)
       PROVE  OwedInv'
  <2>1. PICK tag \in Tags : Write(Event("approval_resolved", id, tag))
    BY <1>15 DEF Approve, Deny, Tags
  <2>2. Owed' \subseteq Owed
    BY <1>7, <2>1
  <2> QED BY <1>11, <1>15, <2>2 DEF Approve, Deny, Goto
<1>16. CASE ApprovedReturn \/ DenyResult
  <2>1. PICK tag \in Tags : Write(Event("tool_result", current, tag))
    BY <1>16 DEF ApprovedReturn, DenyResult, Tags
  <2>2. Owed' \subseteq Owed
    BY <1>0, <1>8, <2>1
  <2> QED BY <1>11, <1>16, <2>2 DEF ApprovedReturn, DenyResult, Goto
<1>17. ASSUME Write(RuntimeError)
       PROVE  FALSE
  BY <1>0, <1>2, <1>17, FatalReports
<1>18. CASE FailBeforeCall
  BY <1>17, <1>18 DEF FailBeforeCall
<1>19. CASE StayFailed \/ Project
  BY <1>6, <1>11, <1>19 DEF StayFailed, Project, Goto, EndRun
<1>20. ASSUME NEW retryable \in BOOLEAN, ProviderFails(retryable)
       PROVE  OwedInv'
  <2> DEFINE e == Event("provider_error", attempt,
                        IF Retries(retryable) THEN "retry" ELSE "terminal")
  <2>1. e \in Events /\ e.type # "tool_use"
    <3>1. attempt \in Nat
      BY <1>0, BoundsAssumption DEF TurnType
    <3> QED BY <3>1 DEF Event, Events, EventTypes, Tags
  <2>2. log' = Append(log, e) /\ pc = "call" /\ pc' \in {"call", "idle"}
    BY <1>20 DEF ProviderFails, Write, EndRun
  <2> HIDE DEF e
  <2>3. Owed' \subseteq Owed
    BY <1>0, <2>1, <2>2, OwedAppend
  <2> QED BY <1>11, <2>2, <2>3
<1>21. ASSUME NEW reason \in StopReasons, NEW n \in 0..MaxBatch, ProviderAnswers(reason, n)
       PROVE  OwedInv'
  <2>1. Write(Event("assistant_message", NoId, reason)) /\ reason \in Tags
        /\ pc = "call" /\ pc' = "ingest"
    BY <1>21 DEF ProviderAnswers, Tags, Goto
  <2>2. Owed' \subseteq Owed
    BY <1>7, <2>1
  <2> QED BY <1>11, <2>1, <2>2
<1>22. ASSUME NEW name \in Names, AppendToolUse(name)
       PROVE  OwedInv'
  <2> DEFINE e == Event("tool_use", NextId, name)
             new == Len(log) + 1
  <2>1. /\ e \in Events /\ log' = Append(log, e) /\ e.type = "tool_use"
        /\ Positions(log', "tool_use") = Positions(log, "tool_use") \cup {new}
        /\ log'[new] = e
    BY <1>0, <1>22, RequestAdds DEF Event
  <2> HIDE DEF e
  <2>2. Owed' \subseteq Owed \cup {e.num}
    BY <1>0, <2>1, OwedAppend
  <2>3. pc = "ingest" /\ pc' = "ingest" /\ start' = start
    BY <1>22 DEF AppendToolUse
  <2>4. UsesOfTurn' = UsesOfTurn \cup {new}
    <3>1. new > start
      BY <1>0 DEF TurnType
    <3> QED BY <2>1, <2>3, <3>1 DEF UsesOfTurn
  <2>5. \A i \in UsesOfTurn : log'[i] = log[i]
    BY <1>1, <1>5 DEF Positions, Grows
  <2>6. OwedIn(UsesOfTurn)
    BY <1>4, <2>3 DEF OwedInv
  <2>7. ASSUME NEW id \in Owed'
        PROVE  \E i \in UsesOfTurn' : log'[i].num = id
    <3>1. CASE id = e.num
      BY <2>1, <2>4, <3>1
    <3>2. CASE id \in Owed
      BY <2>4, <2>5, <2>6, <3>2 DEF OwedIn
    <3> QED BY <2>2, <2>7, <3>1, <3>2
  <2> QED BY <2>3, <2>7 DEF OwedInv, OwedIn
<1>23. CASE TurnAnswered
  <2>1. /\ pc = "ingest" /\ UNCHANGED logVars /\ start' = start
        /\ \/ pc' = "collect"
           \/ pc' = "idle" /\ UsesOfTurn = {}
           \/ pc' = "close" /\ todo' = UsesOfTurn
    BY <1>23 DEF TurnAnswered, Goto, EndRun, turnVars
  <2>2. OwedIn(UsesOfTurn)
    BY <1>4, <2>1 DEF OwedInv
  <2>3. UsesOfTurn' = UsesOfTurn
    BY <1>6, <2>1 DEF UsesOfTurn
  <2>4. CASE pc' = "idle"
    <3>1. OwedIn({})
      BY <2>1, <2>2, <2>4
    <3> QED BY <1>12, <2>1, <2>4, <3>1
  <2>5. CASE pc' \in {"collect", "close"}
    <3>1. \A id \in Owed' : \E i \in UsesOfTurn : log'[i].num = id
      BY <1>6, <2>1, <2>2 DEF OwedIn
    <3> QED BY <2>1, <2>3, <2>5, <3>1 DEF OwedInv, OwedIn
  <2> QED BY <2>1, <2>4, <2>5
<1>24. ASSUME pc \in {"close", "pause"}, NEW type \in {"tool_result", "approval_requested"},
              NEW tag \in Tags, todo # {}, Write(Event(type, log[First(todo)].num, tag)),
              pc' = pc, todo' = todo \ {First(todo)}
       PROVE  OwedInv'
  <2>1. OwedIn(todo)
    BY <1>4, <1>24 DEF OwedInv
  <2>2. \A id \in Owed' : \E i \in todo' : log'[i].num = id
    BY <1>13, <1>24, <2>1
  <2> QED BY <1>24, <2>2 DEF OwedInv, OwedIn
<1>25. CASE CloseIncomplete \/ RequestApproval
  <2>1. pc \in {"close", "pause"}
    BY <1>25 DEF CloseIncomplete, RequestApproval
  <2>2. CASE todo = {}
    <3>1. UNCHANGED logVars /\ pc' = "idle"
      BY <1>25, <2>2 DEF CloseIncomplete, RequestApproval, EndRun
    <3>2. OwedIn({})
      BY <1>4, <2>1, <2>2 DEF OwedInv
    <3> QED BY <1>12, <3>1, <3>2
  <2>3. CASE todo # {}
    <3>1. /\ pc' = pc /\ todo' = todo \ {First(todo)}
          /\ \E type \in {"tool_result", "approval_requested"}, tag \in {"incomplete", ""} :
               Write(Event(type, log[First(todo)].num, tag))
      BY <1>25, <2>3 DEF CloseIncomplete, RequestApproval
    <3>2. \A tag \in {"incomplete", ""} : tag \in Tags
      BY DEF Tags
    <3> QED BY <1>24, <2>1, <2>3, <3>1, <3>2
  <2> QED BY <2>2, <2>3
<1>26. CASE CollectPending
  <2>1. /\ pc = "collect" /\ pc' = "decide" /\ UNCHANGED logVars
        /\ DOMAIN verdict' = PendingUses
    BY <1>26 DEF CollectPending, Goto
  <2>2. OwedIn(UsesOfTurn) /\ scan <= start
    BY <1>1, <1>4, <2>1 DEF OwedInv, ScanInv
  <2>3. fulfilled \cup ScannedResults(log) \subseteq Resolved(log)
    BY <1>1 DEF ScanInv, ScannedResults, Resolved, IdsOf
  <2>4. ASSUME NEW id \in Owed
        PROVE  \E i \in PendingUses : log[i].num = id
    <3>1. PICK i \in UsesOfTurn : log[i].num = id
      BY <2>2 DEF OwedIn
    <3>2. i > scan
      BY <1>0, <1>5, <2>2, <3>1 DEF UsesOfTurn, ScanType, Positions
    <3>3. id \notin Resolved(log)
      BY <2>4 DEF Owed
    <3> QED BY <1>5, <2>3, <3>1, <3>2, <3>3 DEF PendingUses
  <2>5. \A id \in Owed' : \E i \in DOMAIN verdict' : log'[i].num = id
    BY <1>6, <2>1, <2>4
  <2> QED BY <2>1, <2>5 DEF OwedInv, OwedIn
<1>27. ASSUME NEW effect, InvokeHandler(effect)
       PROVE  OwedInv'
  <2>1. /\ pc = "decide" /\ pc' = "decide" /\ UNCHANGED logVars
        /\ DOMAIN verdict' = DOMAIN verdict
    BY <1>17, <1>27 DEF InvokeHandler
  <2>2. OwedIn(DOMAIN verdict)
    BY <1>4, <2>1 DEF OwedInv
  <2>3. \A id \in Owed' : \E i \in DOMAIN verdict' : log'[i].num = id
    BY <1>6, <2>1, <2>2 DEF OwedIn
  <2> QED BY <2>1, <2>3 DEF OwedInv, OwedIn
<1>28. CASE NextDecision
  <2>1. pc = "decide" /\ pc' = "decide" /\ UNCHANGED logVars /\ verdict' = verdict
    BY <1>28 DEF NextDecision
  <2>2. OwedIn(DOMAIN verdict)
    BY <1>4, <2>1 DEF OwedInv
  <2>3. \A id \in Owed' : \E i \in DOMAIN verdict' : log'[i].num = id
    BY <1>6, <2>1, <2>2 DEF OwedIn
  <2> QED BY <2>1, <2>3 DEF OwedInv, OwedIn
<1>29. CASE BatchDecided
  <2>1. /\ pc = "decide" /\ pc' \in {"dispatch", "pause"} /\ UNCHANGED logVars
        /\ \/ Held = {} /\ todo' = DOMAIN verdict
           \/ Held # {} /\ todo' = Held
        /\ todo = {}
    BY <1>29 DEF BatchDecided, Goto
  <2>2. todo' = DOMAIN verdict
    BY <2>1 DEF WholeInv
  <2>3. OwedIn(DOMAIN verdict)
    BY <1>4, <2>1 DEF OwedInv
  <2>4. \A id \in Owed' : \E i \in todo' : log'[i].num = id
    BY <1>6, <2>1, <2>2, <2>3 DEF OwedIn
  <2> QED BY <2>1, <2>4 DEF OwedInv, OwedIn
<1>30. CASE RunTool
  <2>1. pc = "dispatch" /\ pc' = "running" /\ UNCHANGED logVars /\ todo' = todo
    BY <1>30 DEF RunTool, Goto, passVars
  <2>2. OwedIn(todo)
    BY <1>4, <2>1 DEF OwedInv
  <2>3. \A id \in Owed' : \E i \in todo' : log'[i].num = id
    BY <1>6, <2>1, <2>2 DEF OwedIn
  <2> QED BY <2>1, <2>3 DEF OwedInv, OwedIn
<1>31. CASE DenyByHook \/ ToolReturns
  <2>1. pc \in {"dispatch", "running"} /\ pc' = "post" /\ todo' = todo /\ todo # {}
    BY <1>0, <1>31 DEF DenyByHook, ToolReturns, Goto, passVars, PhaseInv
  <2>2. \E tag \in Tags : Write(Event("tool_result", log[First(todo)].num, tag))
    BY <1>0, <1>31 DEF DenyByHook, ToolReturns, Tags, PhaseInv
  <2>3. OwedIn(todo)
    BY <1>4, <2>1 DEF OwedInv
  <2>4. \A id \in Owed' : \E i \in todo \ {First(todo)} : log'[i].num = id
    BY <1>13, <2>1, <2>2, <2>3
  <2> QED BY <2>1, <2>4 DEF OwedInv, OwedIn, First
<1>32. ASSUME NEW effect, PostToolUse(effect)
       PROVE  OwedInv'
  <2>1. /\ pc = "post" /\ pc' \in {"dispatch", "idle"} /\ UNCHANGED logVars
        /\ todo' = todo \ {First(todo)} /\ (pc' = "idle" => effect = "fail")
    BY <1>17, <1>32 DEF PostToolUse, Goto, EndRun
  <2>2. pc' = "dispatch"
    <3>1. effect # "fail"
      BY <1>17, <1>32 DEF PostToolUse
    <3> QED BY <2>1, <3>1
  <2>3. OwedIn(todo \ {First(todo)})
    BY <1>4, <2>1 DEF OwedInv
  <2>4. \A id \in Owed' : \E i \in todo' : log'[i].num = id
    BY <1>6, <2>1, <2>3 DEF OwedIn
  <2> QED BY <2>2, <2>4 DEF OwedInv, OwedIn
<1>33. CASE BatchDispatched
  <2>1. pc = "dispatch" /\ todo = {} /\ UNCHANGED logVars /\ pc' \in {"idle", "project"}
    BY <1>33 DEF BatchDispatched, Goto, EndRun
  <2>2. OwedIn({})
    BY <1>4, <2>1 DEF OwedInv
  <2> QED BY <1>12, <2>1, <2>2
<1>34. CASE Interrupt
  BY <1>0, <1>2, <1>34 DEF Interrupt
<1>35. CASE UNCHANGED vars
  BY <1>4, <1>35 DEF vars, OwedInv, OwedIn, Owed, Asked, UsesOfTurn, First
<1> QED
  BY <1>14, <1>15, <1>16, <1>18, <1>19, <1>20, <1>21, <1>22, <1>23, <1>25, <1>26, <1>27,
     <1>28, <1>29, <1>30, <1>31, <1>32, <1>33, <1>34, <1>35
  DEF Next, Host, Step

-----------------------------------------------------------------------------
(* Which handlers make the pauses whole.                                     *)

\* No installed handler ever returns the decision d.
Never(d) == \A k \in 1..Len(Policy), n \in Names : d \notin Policy[k][n]

\* RequireApproval holds every tool, and nobody refuses one.
HoldsEverything ==
  /\ Never("refuse") /\ Names \subseteq Holdlist
  /\ \E k \in 1..Len(Policy) : Policy[k] = RequireApproval

\* Either nothing is ever held, or everything is: a batch in which only some
\* uses are held leaves the others unanswered (run agent_loop_siblings).
WholePauses == Never("pending") \/ HoldsEverything

\* A decision nobody returns is in no verdict.
AbsentInv(d) == pc = "decide" => \A i \in DOMAIN verdict : d \notin verdict[i]

LEMMA AbsentStep ==
  ASSUME LoopInv, NEW d, Never(d), AbsentInv(d), [Next]_vars
  PROVE  AbsentInv(d)'
<1>0. LogType /\ PassType /\ LogInv /\ PhaseInv
  BY DEF LoopInv, TypeOK
<1>1. CASE pc' # "decide"
  BY <1>1 DEF AbsentInv
<1>2. CASE CollectPending
  <2>1. \A i \in DOMAIN verdict' : verdict'[i] = {}
    BY <1>2 DEF CollectPending
  <2> QED BY <2>1 DEF AbsentInv
<1>3. ASSUME NEW effect, InvokeHandler(effect)
      PROVE  AbsentInv(d)'
  <2>1. /\ pc = "decide" /\ todo # {} /\ h <= Len(Policy)
        /\ effect \in Policy[h][log[First(todo)].tag]
        /\ verdict' = [verdict EXCEPT ![First(todo)] = @ \cup ({effect} \cap Verdicts)]
    BY <1>3 DEF InvokeHandler
  <2>2. First(todo) \in Positions(log, "tool_use")
    BY <1>0, <2>1, TodoFirst
  <2>3. log[First(todo)].tag \in Names
    BY <1>0, <2>2, UseIds
  <2>4. h \in 1..Len(Policy)
    BY <1>0, <2>1, PolicyAssumption DEF PassType
  <2>5. effect # d
    BY <2>1, <2>3, <2>4 DEF Never
  <2>6. \A i \in DOMAIN verdict : d \notin verdict[i]
    BY <2>1 DEF AbsentInv
  <2> QED BY <2>1, <2>5, <2>6 DEF AbsentInv
<1>4. ASSUME pc = "decide", UNCHANGED verdict
      PROVE  AbsentInv(d)'
  BY <1>4 DEF AbsentInv
<1>5. CASE NextDecision \/ BatchDecided
  BY <1>4, <1>5 DEF NextDecision, BatchDecided
<1>6. CASE Interrupt
  BY <1>1, <1>6 DEF Interrupt, EndRun
<1>7. CASE UNCHANGED vars
  BY <1>7 DEF vars, AbsentInv
<1>8. CASE Host \/ ApprovedReturn \/ DenyResult \/ FailBeforeCall \/ StayFailed \/ Project
  BY <1>1, <1>8 DEF Host, Chat, Reenter, Enter, Approve, Deny, ApprovedReturn, DenyResult,
     FailBeforeCall, StayFailed, Project, Goto, EndRun
<1>9. CASE TurnAnswered \/ CloseIncomplete \/ RequestApproval \/ DenyByHook \/ RunTool
           \/ ToolReturns \/ BatchDispatched
  BY <1>1, <1>9 DEF TurnAnswered, CloseIncomplete, RequestApproval, DenyByHook, RunTool,
     ToolReturns, BatchDispatched, Goto, EndRun
<1>10. CASE \/ \E retryable \in BOOLEAN : ProviderFails(retryable)
            \/ \E reason \in StopReasons, n \in 0..MaxBatch : ProviderAnswers(reason, n)
            \/ \E name \in Names : AppendToolUse(name)
            \/ \E effect \in PostEffects : PostToolUse(effect)
  BY <1>1, <1>10 DEF ProviderFails, ProviderAnswers, AppendToolUse, PostToolUse, Goto, EndRun
<1> QED BY <1>2, <1>3, <1>5, <1>6, <1>7, <1>8, <1>9, <1>10 DEF Next, Step

\* What nobody returns no verdict ever shows.
LEMMA PendingAbsent == Never("pending") => (Spec => []AbsentInv("pending"))
<1>1. Init => AbsentInv("pending")
  BY DEF Init, AbsentInv
<1>2. Never("pending") /\ LoopInv /\ AbsentInv("pending") /\ [Next]_vars => AbsentInv("pending")'
  BY AbsentStep
<1>3. SUFFICES ASSUME Never("pending")
               PROVE  Spec => []AbsentInv("pending")
  OBVIOUS
<1>4. LoopInv /\ AbsentInv("pending") /\ [Next]_vars => AbsentInv("pending")'
  BY <1>2, <1>3
<1> QED BY <1>1, <1>4, LoopInvariant, PTL DEF Spec

LEMMA RefusalAbsent == Never("refuse") => (Spec => []AbsentInv("refuse"))
<1>1. Init => AbsentInv("refuse")
  BY DEF Init, AbsentInv
<1>2. Never("refuse") /\ LoopInv /\ AbsentInv("refuse") /\ [Next]_vars => AbsentInv("refuse")'
  BY AbsentStep
<1>3. SUFFICES ASSUME Never("refuse")
               PROVE  Spec => []AbsentInv("refuse")
  OBVIOUS
<1>4. LoopInv /\ AbsentInv("refuse") /\ [Next]_vars => AbsentInv("refuse")'
  BY <1>2, <1>3
<1> QED BY <1>1, <1>4, LoopInvariant, PTL DEF Spec

\* The marks of the held uses, for any RequireApproval among the handlers.
LEMMA MarkedInvariant ==
  ASSUME NEW k \in 1..Len(Policy), Policy[k] = RequireApproval
  PROVE  Spec => []MarkedInv(k)
<1>1. Init => MarkedInv(k)
  BY DEF Init, MarkedInv
<1>2. LoopInv /\ MarkedInv(k) /\ [Next]_vars => MarkedInv(k)'
  BY MarkedStep
<1> QED BY <1>1, <1>2, LoopInvariant, PTL DEF Spec

LEMMA WholeInvariant == WholePauses => (Spec => []WholeInv)
<1>1. CASE Never("pending")
  <2>1. AbsentInv("pending") => WholeInv
    BY DEF AbsentInv, WholeInv, Held
  <2>2. Spec => []AbsentInv("pending")
    BY <1>1, PendingAbsent
  <2> QED BY <2>1, <2>2, PTL
<1>2. CASE HoldsEverything
  <2>1. PICK k \in 1..Len(Policy) : Policy[k] = RequireApproval
    BY <1>2 DEF HoldsEverything
  <2>2. Spec => []MarkedInv(k)
    BY <2>1, MarkedInvariant
  <2>3. Spec => []AbsentInv("refuse")
    BY <1>2, RefusalAbsent DEF HoldsEverything
  <2>4. LoopInv /\ MarkedInv(k) /\ AbsentInv("refuse") => WholeInv
    <3> SUFFICES ASSUME LoopInv, MarkedInv(k), AbsentInv("refuse"), pc = "decide", todo = {}
                 PROVE  Held = DOMAIN verdict
      BY DEF WholeInv
    <3>1. ASSUME NEW i \in DOMAIN verdict
          PROVE  i \in Held
      <4>1. LogType /\ LogInv /\ i \in Positions(log, "tool_use")
        BY <3>1 DEF LoopInv, TypeOK, PassType
      <4>2. log[i].tag \in Holdlist
        BY <1>2, <4>1, UseIds DEF HoldsEverything
      <4>3. "pending" \in verdict[i] /\ "refuse" \notin verdict[i]
        BY <3>1, <4>2 DEF MarkedInv, HeldUse, AbsentInv
      <4> QED BY <3>1, <4>3 DEF Held, Refused
    <3>2. Held \subseteq DOMAIN verdict
      BY DEF Held
    <3> QED BY <3>1, <3>2
  <2> QED BY <2>2, <2>3, <2>4, LoopInvariant, PTL
<1>3. WholePauses => Never("pending") \/ HoldsEverything
  BY DEF WholePauses
<1> QED BY <1>1, <1>2, <1>3

LEMMA PairedInvariant ==
  ASSUME HasRunner, WholePauses
  PROVE  Spec => []PairedInv
<1>1. Init => PairedInv
  <2> SUFFICES ASSUME Init
               PROVE  PairedInv
    OBVIOUS
  <2>1. Requested(log) = {}
    BY DEF Init, Requested, IdsOf, Positions
  <2>2. pc = "idle" /\ fulfilled = {}
    BY DEF Init
  <2> QED BY <2>1, <2>2 DEF PairedInv, ScanInv, OwedInv, OwedIn, Owed
<1>2. LoopInv /\ WholeInv /\ PairedInv /\ [Next]_vars => PairedInv'
  BY PairedStep
<1>3. Spec => []WholeInv
  BY WholeInvariant
<1> QED BY <1>1, <1>2, <1>3, LoopInvariant, PTL DEF Spec

\* As long as no run was interrupted, a provider is called only with every
\* tool_use paired with a result, whatever batches earlier runs closed as
\* incomplete, denied, or left for the host to approve, and for any number of
\* turns and runs of the same loop or of new ones.
THEOREM ProviderSeesPairs ==
  ASSUME HasRunner, WholePauses
  PROVE  Spec => [](cuts = 0 => CallsArePaired)
<1>1. ReportInv /\ PairedInv => (cuts = 0 => CallsArePaired)
  <2> SUFFICES ASSUME ReportInv, PairedInv, cuts = 0, pc = "call",
                      IdsOf(log, "approval_requested") \subseteq Resolved(log)
               PROVE  Requested(log) \subseteq Resolved(log)
    BY DEF CallsArePaired
  <2>1. ~TerminalError(log)
    BY DEF ReportInv
  <2>2. Owed = {}
    BY <2>1 DEF PairedInv, OwedInv, OwedIn
  <2> QED BY <2>2 DEF Owed, Asked
<1>2. Spec => []PairedInv
  BY PairedInvariant
<1> QED BY <1>1, <1>2, ReportInvariant, PTL

-----------------------------------------------------------------------------
\* With fresh ids a result follows the tool_use it answers.
OwnOrder ==
  \A i \in Positions(log, "tool_use"), j \in Positions(log, "tool_result") :
    log[i].num = log[j].num => j > i

LEMMA OrderStep ==
  ASSUME LoopInv, FreshIds, OwnOrder, [Next]_vars
  PROVE  OwnOrder'
<1>0. LogType /\ TurnType /\ LogInv /\ log \in Seq(Events) /\ Len(log) \in Nat
  BY DEF LoopInv, TypeOK, LogType
<1>1. Grows
  BY StepGrows
<1>2. ASSUME NEW t, NEW i \in Positions(log, t)
      PROVE  log'[i] = log[i] /\ i \in 1..Len(log)
  BY <1>1, <1>2 DEF Grows, Positions
<1>3. CASE Silent
  BY <1>3 DEF Silent, logVars, OwnOrder
<1>4. CASE Notes
  BY <1>0, <1>2, <1>4, NoteKeeps DEF OwnOrder
<1>5. CASE Answers
  <2>1. /\ Positions(log', "tool_use") = Positions(log, "tool_use")
        /\ Positions(log', "tool_result") = Positions(log, "tool_result") \cup {Len(log) + 1}
    BY <1>0, <1>5, AnswerAdds DEF Answers
  <2>2. SUFFICES ASSUME NEW i \in Positions(log, "tool_use"),
                        NEW j \in Positions(log', "tool_result"), log'[i].num = log'[j].num
                 PROVE  j > i
    BY <2>1 DEF OwnOrder
  <2>3. CASE j = Len(log) + 1
    <3>1. i \in 1..Len(log)
      BY <1>2
    <3> QED BY <1>0, <2>3, <3>1
  <2>4. CASE j \in Positions(log, "tool_result")
    <3>1. log'[i] = log[i] /\ log'[j] = log[j]
      BY <1>2, <2>4
    <3> QED BY <2>2, <2>4, <3>1 DEF OwnOrder
  <2> QED BY <2>1, <2>3, <2>4
<1>6. CASE Requests
  <2>1. PICK name \in Names : AppendToolUse(name)
    BY <1>6 DEF Requests
  <2> DEFINE e == Event("tool_use", NextId, name)
  <2>2. /\ Positions(log', "tool_use") = Positions(log, "tool_use") \cup {Len(log) + 1}
        /\ Positions(log', "tool_result") = Positions(log, "tool_result")
        /\ log'[Len(log) + 1] = e
    BY <1>0, <2>1, RequestAdds
  <2>3. e.num = minted + 1
    BY DEF Event, NextId
  <2> HIDE DEF e
  <2>4. SUFFICES ASSUME NEW i \in Positions(log', "tool_use"),
                        NEW j \in Positions(log, "tool_result"), log'[i].num = log'[j].num
                 PROVE  j > i
    BY <2>2 DEF OwnOrder
  <2>5. log'[j] = log[j]
    BY <1>2
  <2>6. log[j].num # minted + 1
    <3>1. log[j].num \in Requested(log)
      BY <1>0 DEF LogInv, Resolved, IdsOf
    <3>2. \A id \in Requested(log) : id \in 1..minted
      BY <1>0 DEF LogInv, Requested, IdsOf
    <3> QED BY <1>0, <3>1, <3>2, MintedNat
  <2>7. i \in Positions(log, "tool_use")
    BY <2>2, <2>3, <2>4, <2>5, <2>6
  <2>8. log'[i] = log[i]
    BY <1>2, <2>7
  <2> QED BY <2>4, <2>5, <2>7, <2>8 DEF OwnOrder
<1> QED BY <1>3, <1>4, <1>5, <1>6, LogSteps

\* Without an interrupt, a session whose approvals are all resolved and whose
\* last run ended well has a result behind every tool_use.
THEOREM SettledIsAnswered ==
  ASSUME FreshIds, HasRunner, WholePauses
  PROVE  Spec => [](cuts = 0 /\ Asked \subseteq Resolved(log) => AnsweredByOwnResult)
<1>1. Init => OwnOrder
  BY DEF Init, OwnOrder, Positions
<1>2. LoopInv /\ OwnOrder /\ [Next]_vars => OwnOrder'
  BY OrderStep
<1>3. Spec => []OwnOrder
  BY <1>1, <1>2, LoopInvariant, PTL DEF Spec
<1>4. ReportInv /\ PairedInv /\ OwnOrder =>
        (cuts = 0 /\ Asked \subseteq Resolved(log) => AnsweredByOwnResult)
  <2> SUFFICES ASSUME ReportInv, PairedInv, OwnOrder, cuts = 0, Asked \subseteq Resolved(log),
                      pc = "idle", outcome \in {"end_turn", "no_pending_tools"},
                      NEW i \in Positions(log, "tool_use")
               PROVE  \E j \in Positions(log, "tool_result") : j > i /\ log[j].num = log[i].num
    BY DEF AnsweredByOwnResult
  <2>1. ~TerminalError(log)
    BY DEF ReportInv, Ended, EndedAs
  <2>2. Owed = {}
    BY <2>1 DEF PairedInv, OwedInv, OwedIn
  <2>3. log[i].num \in Resolved(log)
    BY <2>2 DEF Owed, Requested, IdsOf
  <2> QED BY <2>3 DEF Resolved, IdsOf, OwnOrder
<1>5. Spec => []PairedInv
  BY PairedInvariant
<1> QED BY <1>3, <1>4, <1>5, ReportInvariant, PTL

\* Where no handler holds a tool no approval is ever asked for ...
NoneAsked == Asked = {} /\ pc # "pause"

LEMMA NoneAskedStep ==
  ASSUME LoopInv, AbsentInv("pending"), NoneAsked, [Next]_vars
  PROVE  NoneAsked'
<1>0. LogType /\ TurnType /\ PassType /\ RunType /\ LogInv /\ log \in Seq(Events)
      /\ current \in Ids \cup {NoId}
  BY DEF LoopInv, TypeOK, LogType, RunType
<1>1. ASSUME NEW e \in Events, e.type # "approval_requested", log' = Append(log, e)
      PROVE  Asked' = {}
  BY <1>0, <1>1, AppendIds DEF NoneAsked, Asked
<1>2. UNCHANGED logVars => Asked' = {}
  BY DEF logVars, NoneAsked, Asked
<1>3. ASSUME NEW type \in EventTypes \ {"approval_requested"}, NEW id \in Ids \cup {NoId},
             NEW tag \in Tags, Write(Event(type, id, tag))
      PROVE  Asked' = {}
  <2>1. Event(type, id, tag) \in Events /\ Event(type, id, tag).type # "approval_requested"
    BY EventOfId DEF Event
  <2> QED BY <1>1, <1>3, <2>1 DEF Write
<1>4. Write(RuntimeError) => Asked' = {}
  <2>1. RuntimeError \in Events /\ RuntimeError.type # "approval_requested"
    BY RuntimeErrorEvent DEF RuntimeError, Event
  <2> QED BY <1>1, <2>1 DEF Write
<1>5. \A tag \in {"", "ran", "denied", "incomplete", "approved"} \cup StopReasons : tag \in Tags
  BY DEF Tags
<1>6. CASE Chat
  <2>1. \E tag \in {""} : Write(Event("user_message", NoId, tag))
    BY <1>6 DEF Chat
  <2>2. Asked' = {}
    BY <1>3, <1>5, <2>1 DEF EventTypes
  <2> QED BY <1>6, <2>2 DEF Chat, Enter, Goto, NoneAsked
<1>7. CASE Reenter
  BY <1>2, <1>7 DEF Reenter, Enter, Goto, NoneAsked
<1>8. ASSUME NEW id \in Ids, Approve(id) \/ Deny(id)
      PROVE  NoneAsked'
  <2>1. \E tag \in Tags : Write(Event("approval_resolved", id, tag))
    BY <1>5, <1>8 DEF Approve, Deny
  <2>2. Asked' = {}
    BY <1>3, <2>1 DEF EventTypes
  <2> QED BY <1>8, <2>2 DEF Approve, Deny, Goto, NoneAsked
<1>9. CASE ApprovedReturn \/ DenyResult \/ ToolReturns
  <2>1. \E tag \in Tags : Write(Event("tool_result", current, tag))
    BY <1>5, <1>9 DEF ApprovedReturn, DenyResult, ToolReturns
  <2>2. Asked' = {}
    BY <1>0, <1>3, <2>1 DEF EventTypes
  <2> QED BY <1>9, <2>2 DEF ApprovedReturn, DenyResult, ToolReturns, Goto, NoneAsked
<1>10. CASE FailBeforeCall
  BY <1>4, <1>10 DEF FailBeforeCall, EndRun, NoneAsked
<1>11. CASE StayFailed \/ Project \/ TurnAnswered \/ CollectPending \/ NextDecision \/ RunTool
            \/ BatchDispatched \/ Interrupt
  <2>1. UNCHANGED logVars /\ (pc' # "pause" \/ pc' = pc)
    BY <1>11 DEF StayFailed, Project, TurnAnswered, CollectPending, NextDecision, RunTool,
       BatchDispatched, Interrupt, Goto, EndRun
  <2> QED BY <1>2, <2>1 DEF NoneAsked
<1>12. ASSUME NEW retryable \in BOOLEAN, ProviderFails(retryable)
       PROVE  NoneAsked'
  <2> DEFINE e == Event("provider_error", attempt,
                        IF Retries(retryable) THEN "retry" ELSE "terminal")
  <2>1. e \in Events /\ e.type # "approval_requested"
    <3>1. attempt \in Nat
      BY <1>0, BoundsAssumption DEF TurnType
    <3> QED BY <3>1 DEF Event, Events, EventTypes, Tags
  <2>2. log' = Append(log, e) /\ pc' # "pause"
    BY <1>12 DEF ProviderFails, Write, EndRun
  <2> HIDE DEF e
  <2> QED BY <1>1, <2>1, <2>2 DEF NoneAsked
<1>13. ASSUME NEW reason \in StopReasons, NEW n, ProviderAnswers(reason, n)
       PROVE  NoneAsked'
  <2>1. Asked' = {}
    BY <1>3, <1>5, <1>13 DEF ProviderAnswers, EventTypes
  <2> QED BY <1>13, <2>1 DEF ProviderAnswers, Goto, NoneAsked
<1>14. ASSUME NEW name \in Names, AppendToolUse(name)
       PROVE  NoneAsked'
  <2> DEFINE e == Event("tool_use", NextId, name)
  <2>1. e \in Events /\ log' = Append(log, e)
    BY <1>0, <1>14, RequestAdds
  <2>2. e.type # "approval_requested"
    BY DEF Event
  <2> HIDE DEF e
  <2>3. Asked' = {}
    BY <1>1, <2>1, <2>2
  <2> QED BY <1>14, <2>3 DEF AppendToolUse, NoneAsked
<1>15. CASE CloseIncomplete \/ DenyByHook
  <2>1. /\ pc' # "pause"
        /\ \/ UNCHANGED logVars
           \/ todo # {} /\ \E tag \in Tags : Write(Event("tool_result", log[First(todo)].num, tag))
    BY <1>5, <1>15 DEF CloseIncomplete, DenyByHook, Goto, EndRun
  <2>2. todo # {} => log[First(todo)].num \in Ids
    BY <1>0, TodoFirst, UseIds
  <2>3. Asked' = {}
    BY <1>2, <1>3, <2>1, <2>2 DEF EventTypes
  <2> QED BY <2>1, <2>3 DEF NoneAsked
<1>16. ASSUME NEW effect, InvokeHandler(effect) \/ PostToolUse(effect)
       PROVE  NoneAsked'
  <2>1. (UNCHANGED logVars \/ Write(RuntimeError)) /\ pc' # "pause"
    BY <1>16 DEF InvokeHandler, PostToolUse, Goto, EndRun
  <2> QED BY <1>2, <1>4, <2>1 DEF NoneAsked
<1>17. CASE BatchDecided
  <2>1. pc = "decide" /\ UNCHANGED logVars /\ (Held = {} => pc' = "dispatch")
    BY <1>17 DEF BatchDecided, Goto
  <2>2. Held = {}
    BY <2>1 DEF AbsentInv, Held
  <2> QED BY <1>2, <2>1, <2>2 DEF NoneAsked
<1>18. CASE RequestApproval
  BY <1>18 DEF RequestApproval, NoneAsked
<1>19. CASE UNCHANGED vars
  BY <1>19 DEF vars, NoneAsked, Asked
<1> QED
  BY <1>6, <1>7, <1>8, <1>9, <1>10, <1>11, <1>12, <1>13, <1>14, <1>15, <1>16, <1>17, <1>18,
     <1>19
  DEF Next, Host, Step

\* ... and every tool_use of a session without an interrupt whose last run
\* ended well has a result of its own behind it.
THEOREM EndsAnswered ==
  ASSUME FreshIds, HasRunner, Never("pending")
  PROVE  Spec => [](cuts = 0 => AnsweredByOwnResult)
<1>1. Spec => []AbsentInv("pending")
  BY PendingAbsent
<1>2. Init => NoneAsked
  BY DEF Init, NoneAsked, Asked, IdsOf, Positions
<1>3. LoopInv /\ AbsentInv("pending") /\ NoneAsked /\ [Next]_vars => NoneAsked'
  BY NoneAskedStep
<1>4. NoneAsked => Asked \subseteq Resolved(log)
  BY DEF NoneAsked
<1>5. Spec => [](cuts = 0 /\ Asked \subseteq Resolved(log) => AnsweredByOwnResult)
  BY SettledIsAnswered DEF WholePauses
<1> QED BY <1>1, <1>2, <1>3, <1>4, <1>5, LoopInvariant, PTL DEF Spec
=============================================================================
