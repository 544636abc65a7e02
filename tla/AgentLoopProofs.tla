-------------------------- MODULE AgentLoopProofs --------------------------
(***************************************************************************)
(* TLAPS proofs about AgentLoop for every value of its constants: the      *)
(* inductive invariant LoopInv, and from it type correctness, the single   *)
(* result per tool_use, and the refinement of the ToolLedger.              *)
(***************************************************************************)
EXTENDS AgentLoop, TLAPS, WellFoundedInduction, SequenceTheorems

\* A non-empty set of positions has a first one: the loops over todo always
\* find the next tool_use to visit.
LEMMA FirstInSet ==
  ASSUME NEW S, S \subseteq Nat, S # {}
  PROVE  First(S) \in S /\ \A y \in S : First(S) <= y
<1> DEFINE Less == {ss \in Nat \X Nat : ss[1] < ss[2]}
<1>1. IsWellFoundedOn(Less, Nat)
  BY NatLessThanWellFounded DEF OpToRel
<1>2. \E x \in S : \A y \in S : ~(<<y, x>> \in Less)
  <2> HIDE DEF Less
  <2> QED BY <1>1, WFMin
<1>3. \A x, y \in Nat : <<y, x>> \in Less <=> y < x
  OBVIOUS
<1>4. \E x \in S : \A y \in S : x <= y
  <2> HIDE DEF Less
  <2>1. PICK x \in S : \A y \in S : ~(<<y, x>> \in Less)
    BY <1>2
  <2>2. \A y \in S : ~(y < x)
    BY <2>1, <1>3
  <2> QED BY <2>2
<1> QED BY <1>4 DEF First

\* Appending an event keeps every earlier one in its place.
LEMMA AppendEvent ==
  ASSUME NEW l \in Seq(Events), NEW e \in Events
  PROVE  /\ Append(l, e) \in Seq(Events)
         /\ Len(l) \in Nat /\ Len(Append(l, e)) = Len(l) + 1
         /\ \A i \in 1..Len(l) : Append(l, e)[i] = l[i]
         /\ Append(l, e)[Len(l) + 1] = e
OBVIOUS

\* It adds its own position and id to those of its type, and to no other.
LEMMA AppendPositions ==
  ASSUME NEW l \in Seq(Events), NEW e \in Events, NEW t
  PROVE  /\ e.type = t => Positions(Append(l, e), t) = Positions(l, t) \cup {Len(l) + 1}
         /\ e.type # t => Positions(Append(l, e), t) = Positions(l, t)
<1>1. Positions(Append(l, e), t) \subseteq Positions(l, t) \cup {Len(l) + 1}
  BY AppendEvent DEF Positions
<1>2. Positions(l, t) \subseteq Positions(Append(l, e), t)
  BY AppendEvent DEF Positions
<1>3. Len(l) + 1 \in Positions(Append(l, e), t) <=> e.type = t
  BY AppendEvent DEF Positions
<1>4. Len(l) + 1 \notin Positions(l, t)
  BY AppendEvent DEF Positions
<1> QED BY <1>1, <1>2, <1>3, <1>4

LEMMA IdsExtend ==
  ASSUME NEW l, NEW m, NEW t, NEW E,
         Positions(m, t) = Positions(l, t) \cup E,
         \A i \in Positions(l, t) : m[i].num = l[i].num
  PROVE  IdsOf(m, t) = IdsOf(l, t) \cup {m[i].num : i \in E}
BY DEF IdsOf

LEMMA AppendIds ==
  ASSUME NEW l \in Seq(Events), NEW e \in Events, NEW t
  PROVE  /\ e.type = t => IdsOf(Append(l, e), t) = IdsOf(l, t) \cup {e.num}
         /\ e.type # t => IdsOf(Append(l, e), t) = IdsOf(l, t)
<1> DEFINE m == Append(l, e)
<1>1. \A i \in Positions(l, t) : m[i].num = l[i].num
  BY AppendEvent DEF Positions
<1>2. m[Len(l) + 1].num = e.num
  BY AppendEvent
<1> HIDE DEF m
<1>3. CASE e.type = t
  <2>1. Positions(m, t) = Positions(l, t) \cup {Len(l) + 1}
    BY <1>3, AppendPositions DEF m
  <2>2. IdsOf(m, t) = IdsOf(l, t) \cup {m[i].num : i \in {Len(l) + 1}}
    BY <1>1, <2>1, IdsExtend
  <2> QED BY <1>2, <1>3, <2>2 DEF m
<1>4. CASE e.type # t
  <2>1. Positions(m, t) = Positions(l, t)
    BY <1>4, AppendPositions DEF m
  <2>2. IdsOf(m, t) = IdsOf(l, t) \cup {m[i].num : i \in {}}
    <3>1. Positions(m, t) = Positions(l, t) \cup {}
      BY <2>1
    <3> QED BY <1>1, <3>1, IdsExtend
  <2> QED BY <1>4, <2>2 DEF m
<1> QED BY <1>3, <1>4

-----------------------------------------------------------------------------
\* What every step does to the log: nothing, or one more event at its end.
Grows ==
  /\ log' \in Seq(Events) /\ minted' \in minted..MaxUses
  /\ Len(log) \in Nat /\ Len(log') \in Nat /\ Len(log') >= Len(log)
  /\ \A i \in 1..Len(log) : log'[i] = log[i]

LEMMA MintedNat ==
  ASSUME LogType
  PROVE  minted \in Nat /\ MaxUses \in Nat /\ minted <= MaxUses
BY BoundsAssumption DEF LogType

LEMMA WriteGrows ==
  ASSUME LogType, NEW e \in Events, Write(e)
  PROVE  Grows
<1>1. log \in Seq(Events) /\ log' = Append(log, e) /\ minted' = minted
  BY DEF LogType, Write
<1>2. minted' \in minted..MaxUses
  BY <1>1, MintedNat
<1>3. /\ log' \in Seq(Events)
      /\ Len(log) \in Nat /\ Len(log') \in Nat /\ Len(log') >= Len(log)
      /\ \A i \in 1..Len(log) : log'[i] = log[i]
  BY <1>1, AppendEvent
<1> QED BY <1>2, <1>3 DEF Grows

LEMMA QuietGrows ==
  ASSUME LogType, UNCHANGED logVars
  PROVE  Grows
<1>1. log \in Seq(Events) /\ log' = log /\ minted' = minted
  BY DEF LogType, logVars
<1>2. minted' \in minted..MaxUses
  BY <1>1, MintedNat
<1> QED BY <1>1, <1>2 DEF Grows

LEMMA GrowsPositions ==
  ASSUME Grows, NEW t
  PROVE  Positions(log, t) \subseteq Positions(log', t)
BY DEF Grows, Positions

\* The parts of the type invariant survive a step that leaves their variables
\* alone while the log grows.
LEMMA LogFrame ==
  ASSUME LogType, Grows
  PROVE  LogType'
BY MintedNat DEF LogType, Grows

LEMMA TurnFrame ==
  ASSUME LogType, TurnType, Grows, UNCHANGED turnVars
  PROVE  TurnType'
<1>1. start' \in 0..Len(log')
  BY DEF TurnType, Grows, turnVars
<1>2. serial' \in 0..minted'
  BY MintedNat DEF TurnType, Grows, turnVars
<1> QED BY <1>1, <1>2 DEF TurnType, turnVars

LEMMA ScanFrame ==
  ASSUME ScanType, Grows, UNCHANGED scanVars
  PROVE  ScanType'
BY DEF ScanType, Grows, scanVars

LEMMA PassFrame ==
  ASSUME PassType, Grows, UNCHANGED passVars
  PROVE  PassType'
<1>1. verdict' = verdict /\ todo' = todo /\ h' = h
  BY DEF passVars
<1> QED BY <1>1, GrowsPositions DEF PassType

\* The same for the pass variables when only the loop over todo advances.
LEMMA PassNarrows ==
  ASSUME PassType, Grows, verdict' = verdict, h' \in 1..Len(Policy) + 1,
         todo' \subseteq Positions(log, "tool_use")
  PROVE  PassType'
BY GrowsPositions DEF PassType

-----------------------------------------------------------------------------
\* The loop over todo visits a position of the log.
LEMMA TodoFirst ==
  ASSUME LogType, PassType, todo # {}
  PROVE  /\ First(todo) \in todo
         /\ First(todo) \in Positions(log, "tool_use")
         /\ log[First(todo)] \in Events
<1>1. todo \subseteq Positions(log, "tool_use") /\ log \in Seq(Events)
  BY DEF LogType, PassType
<1>2. Positions(log, "tool_use") \subseteq 1..Len(log)
  BY DEF Positions
<1>3. Len(log) \in Nat
  BY <1>1
<1>4. todo \subseteq Nat
  BY <1>1, <1>2, <1>3
<1>5. First(todo) \in todo
  BY <1>4, FirstInSet, Zenon
<1>6. First(todo) \in 1..Len(log)
  BY <1>1, <1>2, <1>5, Zenon
<1>7. log[First(todo)] \in Events
  BY <1>1, <1>6, ElementOfSeq, Zenon
<1> QED BY <1>1, <1>5, <1>7, Zenon

\* Ids recorded in the log are among Ids.
LEMMA UseIds ==
  ASSUME LogType, LogInv, NEW i \in Positions(log, "tool_use")
  PROVE  log[i].num \in Ids /\ log[i].tag \in Names
<1>1. log[i].num \in 1..minted /\ log[i].tag \in Names
  BY DEF LogInv
<1> QED BY <1>1, MintedNat DEF Ids

LEMMA ResultIds ==
  ASSUME LogType, LogInv
  PROVE  /\ Requested(log) \subseteq Ids /\ Resolved(log) \subseteq Ids
         /\ ScannedResults(log) \subseteq Ids
<1>1. Requested(log) \subseteq Ids
  BY UseIds DEF Requested, IdsOf
<1>2. ScannedResults(log) \subseteq Resolved(log)
  BY DEF ScannedResults, Resolved, IdsOf
<1>3. Resolved(log) \subseteq Requested(log)
  BY DEF LogInv
<1> QED BY <1>1, <1>2, <1>3

\* _remember_new_tool_results after a result was appended scans it too.
LEMMA RememberWritten ==
  ASSUME LogType, LogInv, ScanType, NEW e \in Events, e.num \in Ids, Write(e),
         Remember(log')
  PROVE  ScanType'
<1>1. log \in Seq(Events) /\ log' = Append(log, e)
  BY DEF LogType, Write
<1>2. IdsOf(log', "tool_result") \subseteq IdsOf(log, "tool_result") \cup {e.num}
  <2>1. \/ IdsOf(Append(log, e), "tool_result") = IdsOf(log, "tool_result") \cup {e.num}
        \/ IdsOf(Append(log, e), "tool_result") = IdsOf(log, "tool_result")
    BY <1>1, AppendIds, Zenon
  <2> QED BY <1>1, <2>1
<1>3. ScannedResults(log') \subseteq IdsOf(log', "tool_result")
  BY DEF ScannedResults, IdsOf
<1>4. Len(log') \in Nat
  BY <1>1
<1>5. IdsOf(log, "tool_result") \subseteq Ids
  BY ResultIds DEF Resolved
<1>6. scan' = Len(log') /\ fulfilled' = fulfilled \cup ScannedResults(log')
  BY DEF Remember
<1> QED BY <1>2, <1>3, <1>4, <1>5, <1>6 DEF ScanType

-----------------------------------------------------------------------------
\* What the steps append are events.
LEMMA RuntimeErrorEvent == RuntimeError \in Events
BY DEF RuntimeError, Event, Events, EventTypes, Tags, NoId

LEMMA EventOfId ==
  ASSUME NEW id \in Ids \cup {NoId}, NEW type \in EventTypes, NEW tag \in Tags
  PROVE  Event(type, id, tag) \in Events
BY DEF Event, Events, Ids, NoId

\* Type correctness is preserved by every step.
LEMMA TypeStep ==
  ASSUME TypeOK, LogInv, PhaseInv, [Next]_vars
  PROVE  TypeOK'
<1>0. LogType /\ TurnType /\ ScanType /\ PassType /\ RunType
  BY DEF TypeOK
<1>1. ASSUME Enter, Grows, pc = "idle"
      PROVE  TypeOK'
  <2>1. /\ turn' = 1 /\ pc' = "project" /\ entries < MaxEntries /\ entries' = entries + 1
        /\ UNCHANGED <<attempt, stop, left, start, current, outcome, ran, cuts>>
        /\ UNCHANGED passVars
        /\ \/ scan' = 0 /\ fulfilled' = {} /\ serial' \in {serial, 0}
           \/ UNCHANGED scanVars /\ UNCHANGED serial
    BY <1>1 DEF Enter, Goto
  <2>2. LogType' /\ PassType'
    BY <1>0, <1>1, <2>1, LogFrame, PassFrame
  <2>3. TurnType'
    <3>1. start' \in 0..Len(log')
      BY <1>0, <1>1, <2>1 DEF TurnType, Grows
    <3>2. serial' \in 0..minted'
      BY <1>0, <1>1, <2>1, MintedNat DEF TurnType, Grows
    <3>3. turn' \in 1..MaxTurns
      BY <2>1, BoundsAssumption
    <3> QED BY <1>0, <2>1, <3>1, <3>2, <3>3 DEF TurnType
  <2>4. ScanType'
    <3>1. CASE scan' = 0 /\ fulfilled' = {}
      BY <1>1, <3>1 DEF ScanType, Grows
    <3>2. CASE UNCHANGED scanVars
      BY <1>0, <1>1, <3>2, ScanFrame
    <3> QED BY <2>1, <3>1, <3>2
  <2>5. RunType'
    <3>1. entries' \in 0..MaxEntries
      BY <1>0, <2>1, BoundsAssumption DEF RunType
    <3> QED BY <1>0, <2>1, <3>1 DEF RunType, PCs
  <2> QED BY <2>2, <2>3, <2>4, <2>5 DEF TypeOK
<1>2. CASE Chat
  <2>1. Write(Event("user_message", NoId, "")) /\ Enter /\ pc = "idle"
    BY <1>2 DEF Chat
  <2>2. Event("user_message", NoId, "") \in Events
    BY EventOfId DEF EventTypes, Tags
  <2> QED BY <1>0, <1>1, <2>1, <2>2, WriteGrows
<1>3. CASE Reenter
  <2>1. UNCHANGED logVars /\ Enter /\ pc = "idle"
    BY <1>3 DEF Reenter
  <2> QED BY <1>0, <1>1, <2>1, QuietGrows
\* Steps that only append an event and move the control state.
<1>4. ASSUME Grows, UNCHANGED <<turnVars, scanVars, passVars>>, RunType'
      PROVE  TypeOK'
  BY <1>0, <1>4, LogFrame, TurnFrame, ScanFrame, PassFrame DEF TypeOK
<1>5. ASSUME NEW id \in Ids, Approve(id)
      PROVE  TypeOK'
  <2>1. Grows
    <3>1. Event("approval_resolved", id, "approved") \in Events
      BY EventOfId DEF EventTypes, Tags
    <3> QED BY <1>0, <1>5, <3>1, WriteGrows DEF Approve
  <2>2. RunType'
    <3>1. ran' \in [Ids -> Nat]
      BY <1>0, <1>5 DEF Approve, Invoke, RunType
    <3> QED BY <1>0, <1>5, <3>1 DEF Approve, Goto, RunType, PCs
  <2> QED BY <1>4, <1>5, <2>1, <2>2 DEF Approve
<1>6. ASSUME NEW id \in Ids, Deny(id)
      PROVE  TypeOK'
  <2>1. Grows
    <3>1. Event("approval_resolved", id, "denied") \in Events
      BY EventOfId DEF EventTypes, Tags
    <3> QED BY <1>0, <1>6, <3>1, WriteGrows DEF Deny
  <2>2. RunType'
    BY <1>0, <1>6 DEF Deny, Goto, RunType, PCs, histVars
  <2> QED BY <1>4, <1>6, <2>1, <2>2 DEF Deny
<1>7. CASE ApprovedReturn
  <2>1. Grows
    <3>1. Event("tool_result", current, "ran") \in Events
      BY <1>0, EventOfId DEF EventTypes, Tags, RunType
    <3> QED BY <1>0, <1>7, <3>1, WriteGrows DEF ApprovedReturn
  <2>2. RunType'
    BY <1>0, <1>7 DEF ApprovedReturn, Goto, RunType, PCs, histVars
  <2> QED BY <1>4, <1>7, <2>1, <2>2 DEF ApprovedReturn
<1>8. CASE DenyResult
  <2>1. Grows
    <3>1. Event("tool_result", current, "denied") \in Events
      BY <1>0, EventOfId DEF EventTypes, Tags, RunType
    <3> QED BY <1>0, <1>8, <3>1, WriteGrows DEF DenyResult
  <2>2. RunType'
    BY <1>0, <1>8 DEF DenyResult, Goto, RunType, PCs, histVars
  <2> QED BY <1>4, <1>8, <2>1, <2>2 DEF DenyResult
<1>9. CASE FailBeforeCall
  <2>1. Grows
    BY <1>0, <1>9, RuntimeErrorEvent, WriteGrows DEF FailBeforeCall
  <2>2. RunType'
    BY <1>0, <1>9 DEF FailBeforeCall, EndRun, RunType, PCs, Outcomes, histVars
  <2> QED BY <1>4, <1>9, <2>1, <2>2 DEF FailBeforeCall
<1>10. CASE StayFailed
  <2>1. Grows
    BY <1>0, <1>10, QuietGrows DEF StayFailed
  <2>2. RunType'
    BY <1>0, <1>10 DEF StayFailed, EndRun, RunType, PCs, Outcomes, histVars
  <2> QED BY <1>4, <1>10, <2>1, <2>2 DEF StayFailed
<1>11. CASE Project
  <2>1. Grows
    BY <1>0, <1>11, QuietGrows DEF Project
  <2>2. TurnType'
    <3>1. /\ attempt' = 1 /\ start' = Len(log) /\ UNCHANGED logVars
          /\ UNCHANGED <<turn, stop, left, serial>>
      BY <1>11 DEF Project
    <3>2. start' \in 0..Len(log') /\ attempt' \in 1..MaxAttempts
      BY <2>1, <3>1, BoundsAssumption DEF Grows, logVars
    <3> QED BY <1>0, <3>1, <3>2 DEF TurnType, logVars
  <2>3. RunType'
    BY <1>0, <1>11 DEF Project, Goto, RunType, PCs, histVars
  <2> QED BY <1>0, <1>11, <2>1, <2>2, <2>3, LogFrame, ScanFrame, PassFrame DEF Project, TypeOK
<1>12. ASSUME NEW retryable \in BOOLEAN, ProviderFails(retryable)
       PROVE  TypeOK'
  <2>1. Grows
    <3> DEFINE tag == IF Retries(retryable) THEN "retry" ELSE "terminal"
    <3>1. attempt \in Nat /\ tag \in Tags
      BY <1>0, BoundsAssumption DEF TurnType, Tags
    <3>2. Event("provider_error", attempt, tag) \in Events
      BY <3>1 DEF Event, Events, EventTypes
    <3> QED BY <1>0, <1>12, <3>2, WriteGrows DEF ProviderFails
  <2>2. TurnType'
    <3>1. attempt' \in 1..MaxAttempts
      BY <1>0, <1>12, BoundsAssumption DEF TurnType, ProviderFails, Retries
    <3>2. UNCHANGED <<turn, stop, left, start, serial>> /\ minted' = minted
      BY <1>12 DEF ProviderFails, Write
    <3>3. start' \in 0..Len(log')
      BY <1>0, <2>1, <3>2 DEF TurnType, Grows
    <3> QED BY <1>0, <3>1, <3>2, <3>3 DEF TurnType
  <2>3. RunType'
    BY <1>0, <1>12 DEF ProviderFails, EndRun, RunType, PCs, Outcomes, histVars
  <2> QED
    BY <1>0, <1>12, <2>1, <2>2, <2>3, LogFrame, ScanFrame, PassFrame DEF ProviderFails, TypeOK
<1>13. ASSUME NEW reason \in StopReasons, NEW n \in 0..MaxBatch,
              ProviderAnswers(reason, n)
       PROVE  TypeOK'
  <2>1. Grows
    <3>1. Event("assistant_message", NoId, reason) \in Events
      BY EventOfId DEF EventTypes, Tags
    <3> QED BY <1>0, <1>13, <3>1, WriteGrows DEF ProviderAnswers
  <2>2. TurnType'
    <3>1. UNCHANGED <<turn, attempt, start, serial>> /\ minted' = minted
      BY <1>13 DEF ProviderAnswers, Write
    <3>2. start' \in 0..Len(log')
      BY <1>0, <2>1, <3>1 DEF TurnType, Grows
    <3> QED BY <1>0, <1>13, <3>1, <3>2 DEF TurnType, ProviderAnswers
  <2>3. RunType'
    BY <1>0, <1>13 DEF ProviderAnswers, Goto, RunType, PCs, histVars
  <2> QED
    BY <1>0, <1>13, <2>1, <2>2, <2>3, LogFrame, ScanFrame, PassFrame DEF ProviderAnswers, TypeOK
<1>14. ASSUME NEW name \in Names, AppendToolUse(name)
       PROVE  TypeOK'
  <2>1. NextId \in Nat
    BY <1>0, MintedNat DEF NextId, TurnType
  <2>2. Event("tool_use", NextId, name) \in Events
    BY <2>1 DEF Event, Events, EventTypes, Tags
  <2>3. left > 0 /\ left <= MaxUses - minted /\ minted' = minted + 1 /\ left' = left - 1
    BY <1>14 DEF AppendToolUse, PhaseInv
  <2>4. minted' \in minted..MaxUses
    BY <1>0, <2>3, MintedNat, BoundsAssumption DEF TurnType
  <2>5. Grows
    BY <1>0, <1>14, <2>2, <2>4, AppendEvent DEF AppendToolUse, LogType, Grows
  <2>6. TurnType'
    <3>1. UNCHANGED <<turn, attempt, stop, start>> /\ serial' \in {serial, serial + 1}
      BY <1>14 DEF AppendToolUse
    <3>2. start' \in 0..Len(log')
      BY <1>0, <2>5, <3>1 DEF TurnType, Grows
    <3>3. serial' \in 0..minted'
      BY <1>0, <2>3, <3>1, MintedNat DEF TurnType
    <3>4. left' \in 0..MaxBatch
      BY <1>0, <2>3, BoundsAssumption DEF TurnType
    <3> QED BY <1>0, <3>1, <3>2, <3>3, <3>4 DEF TurnType
  <2>7. RunType'
    BY <1>0, <1>14 DEF AppendToolUse, RunType, histVars
  <2> QED
    BY <1>0, <1>14, <2>5, <2>6, <2>7, LogFrame, ScanFrame, PassFrame DEF AppendToolUse, TypeOK
\* Steps of the loops over todo: the verdicts stay, the log may grow.
<1>15. ASSUME Grows, UNCHANGED <<turnVars, scanVars>>, RunType', verdict' = verdict,
              h' \in 1..Len(Policy) + 1, todo' \subseteq Positions(log, "tool_use")
       PROVE  TypeOK'
  BY <1>0, <1>15, LogFrame, TurnFrame, ScanFrame, PassNarrows DEF TypeOK
<1>16. todo \subseteq Positions(log, "tool_use") /\ h \in 1..Len(Policy) + 1
  BY <1>0 DEF PassType
<1>17. CASE TurnAnswered
  <2>1. Grows
    BY <1>0, <1>17, QuietGrows DEF TurnAnswered
  <2>2. todo' \subseteq Positions(log, "tool_use")
    BY <1>16, <1>17 DEF TurnAnswered, UsesOfTurn
  <2>3. RunType'
    BY <1>0, <1>17 DEF TurnAnswered, Goto, EndRun, RunType, PCs, Outcomes, histVars
  <2> QED BY <1>15, <1>16, <1>17, <2>1, <2>2, <2>3 DEF TurnAnswered
<1>18. CASE CloseIncomplete
  <2>1. Grows
    <3>1. CASE todo = {}
      BY <1>0, <1>18, <3>1, QuietGrows DEF CloseIncomplete
    <3>2. CASE todo # {}
      <4>1. log[First(todo)].num \in Ids
        BY <1>0, <3>2, TodoFirst, UseIds
      <4>2. Event("tool_result", log[First(todo)].num, "incomplete") \in Events
        BY <4>1, EventOfId DEF EventTypes, Tags
      <4> QED BY <1>0, <1>18, <3>2, <4>2, WriteGrows DEF CloseIncomplete
    <3> QED BY <3>1, <3>2
  <2>2. todo' \subseteq Positions(log, "tool_use")
    BY <1>16, <1>18 DEF CloseIncomplete
  <2>3. RunType'
    BY <1>0, <1>18 DEF CloseIncomplete, EndRun, RunType, PCs, Outcomes, histVars
  <2> QED BY <1>15, <1>16, <1>18, <2>1, <2>2, <2>3 DEF CloseIncomplete
<1>19. CASE CollectPending
  <2>1. Grows
    BY <1>0, <1>19, QuietGrows DEF CollectPending
  <2>2. ScanType'
    <3>1. CASE HasRunner
      <4>1. scan' = Len(log) /\ fulfilled' = fulfilled \cup ScannedResults(log)
        BY <1>19, <3>1 DEF CollectPending, Remember
      <4>2. ScannedResults(log) \subseteq Ids /\ fulfilled \subseteq Ids
        BY <1>0, ResultIds DEF ScanType
      <4> QED BY <2>1, <4>1, <4>2 DEF ScanType, Grows
    <3>2. CASE ~HasRunner
      BY <1>0, <1>19, <2>1, <3>2, ScanFrame DEF CollectPending
    <3> QED BY <3>1, <3>2
  <2>3. PassType'
    <3>1. PendingUses \subseteq Positions(log, "tool_use")
      BY DEF PendingUses
    <3>2. log' = log /\ h' = 1
      BY <1>19 DEF CollectPending, logVars
    <3>3. PICK S : /\ S \subseteq Positions(log, "tool_use")
                   /\ verdict' = [i \in S |-> {}] /\ todo' = S
      BY <1>19, <3>1 DEF CollectPending
    <3>4. Len(Policy) \in Nat
      BY PolicyAssumption
    <3> QED BY <3>2, <3>3, <3>4 DEF PassType
  <2>4. RunType'
    BY <1>0, <1>19 DEF CollectPending, Goto, RunType, PCs, histVars
  <2> QED BY <1>0, <1>19, <2>1, <2>2, <2>3, <2>4, LogFrame, TurnFrame DEF CollectPending, TypeOK
<1>20. ASSUME NEW effect \in Effects, InvokeHandler(effect)
       PROVE  TypeOK'
  <2>1. Grows
    BY <1>0, <1>20, RuntimeErrorEvent, WriteGrows, QuietGrows DEF InvokeHandler
  <2>2. PassType'
    <3>1. /\ verdict' = [verdict EXCEPT ![First(todo)] = @ \cup ({effect} \cap Verdicts)]
          /\ h <= Len(Policy) /\ h' = h + 1 /\ todo' = todo
      BY <1>20 DEF InvokeHandler
    <3>2. DOMAIN verdict' = DOMAIN verdict /\ verdict' \in [DOMAIN verdict -> SUBSET Verdicts]
      BY <1>0, <3>1 DEF PassType
    <3>3. Positions(log, "tool_use") \subseteq Positions(log', "tool_use")
      BY <2>1, GrowsPositions
    <3>4. h' \in 1..Len(Policy) + 1
      BY <1>16, <3>1, PolicyAssumption
    <3> QED BY <1>0, <3>1, <3>2, <3>3, <3>4 DEF PassType
  <2>3. RunType'
    BY <1>0, <1>20 DEF InvokeHandler, EndRun, RunType, PCs, Outcomes, histVars
  <2> QED
    BY <1>0, <1>20, <2>1, <2>2, <2>3, LogFrame, TurnFrame, ScanFrame DEF InvokeHandler, TypeOK
<1>21. CASE NextDecision
  <2>1. Grows
    BY <1>0, <1>21, QuietGrows DEF NextDecision
  <2>2. RunType'
    BY <1>0, <1>21 DEF NextDecision, RunType, histVars
  <2>3. h' \in 1..Len(Policy) + 1
    BY <1>21, PolicyAssumption DEF NextDecision
  <2> QED BY <1>15, <1>16, <1>21, <2>1, <2>2, <2>3 DEF NextDecision
<1>22. CASE BatchDecided
  <2>1. Grows
    BY <1>0, <1>22, QuietGrows DEF BatchDecided
  <2>2. todo' \subseteq Positions(log, "tool_use")
    BY <1>0, <1>22 DEF BatchDecided, Held, PassType
  <2>3. RunType'
    BY <1>0, <1>22 DEF BatchDecided, Goto, RunType, PCs, histVars
  <2> QED BY <1>15, <1>16, <1>22, <2>1, <2>2, <2>3 DEF BatchDecided
<1>23. CASE RequestApproval
  <2>1. Grows
    <3>1. CASE todo = {}
      BY <1>0, <1>23, <3>1, QuietGrows DEF RequestApproval
    <3>2. CASE todo # {}
      <4>1. log[First(todo)].num \in Ids
        BY <1>0, <3>2, TodoFirst, UseIds
      <4>2. Event("approval_requested", log[First(todo)].num, "") \in Events
        BY <4>1, EventOfId DEF EventTypes, Tags
      <4> QED BY <1>0, <1>23, <3>2, <4>2, WriteGrows DEF RequestApproval
    <3> QED BY <3>1, <3>2
  <2>2. todo' \subseteq Positions(log, "tool_use")
    BY <1>16, <1>23 DEF RequestApproval
  <2>3. RunType'
    BY <1>0, <1>23 DEF RequestApproval, EndRun, RunType, PCs, Outcomes, histVars
  <2> QED BY <1>15, <1>16, <1>23, <2>1, <2>2, <2>3 DEF RequestApproval
<1>24. CASE DenyByHook
  <2> DEFINE e == Event("tool_result", log[First(todo)].num, "denied")
  <2>1. todo # {} /\ Write(e) /\ Remember(log')
    BY <1>24 DEF DenyByHook
  <2>2. log[First(todo)].num \in Ids
    BY <1>0, <2>1, TodoFirst, UseIds
  <2>3. e \in Events /\ e.num \in Ids
    BY <2>2, EventOfId DEF EventTypes, Tags, Event
  <2>4. Grows /\ ScanType'
    <3> HIDE DEF e
    <3> QED BY <1>0, <2>1, <2>3, WriteGrows, RememberWritten
  <2>5. RunType'
    BY <1>0, <1>24 DEF DenyByHook, Goto, RunType, PCs, histVars
  <2> QED BY <1>0, <1>24, <2>4, <2>5, LogFrame, TurnFrame, PassFrame DEF DenyByHook, TypeOK
<1>25. CASE RunTool
  <2>1. Grows
    BY <1>0, <1>25, QuietGrows DEF RunTool
  <2>2. log[First(todo)].num \in Ids
    BY <1>0, <1>25, TodoFirst, UseIds DEF RunTool
  <2>3. ran' \in [Ids -> Nat]
    BY <1>0, <1>25, <2>2 DEF RunTool, Invoke, RunType
  <2>4. RunType'
    BY <1>0, <1>25, <2>2, <2>3 DEF RunTool, Goto, RunType, PCs
  <2> QED BY <1>4, <1>25, <2>1, <2>4 DEF RunTool
<1>26. CASE ToolReturns
  <2> DEFINE e == Event("tool_result", current, "ran")
  <2>1. pc = "running" /\ Write(e) /\ Remember(log')
    BY <1>26 DEF ToolReturns
  <2>2. current \in Ids
    <3>1. todo # {} /\ current = log[First(todo)].num
      BY <2>1 DEF PhaseInv
    <3> QED BY <1>0, <3>1, TodoFirst, UseIds
  <2>3. e \in Events /\ e.num \in Ids
    BY <2>2, EventOfId DEF EventTypes, Tags, Event
  <2>4. Grows /\ ScanType'
    <3> HIDE DEF e
    <3> QED BY <1>0, <2>1, <2>3, WriteGrows, RememberWritten
  <2>5. RunType'
    BY <1>0, <1>26 DEF ToolReturns, Goto, RunType, PCs, histVars
  <2> QED BY <1>0, <1>26, <2>4, <2>5, LogFrame, TurnFrame, PassFrame DEF ToolReturns, TypeOK
<1>27. ASSUME NEW effect \in PostEffects, PostToolUse(effect)
       PROVE  TypeOK'
  <2>1. Grows
    BY <1>0, <1>27, RuntimeErrorEvent, WriteGrows, QuietGrows DEF PostToolUse
  <2>2. todo' \subseteq Positions(log, "tool_use")
    BY <1>16, <1>27 DEF PostToolUse
  <2>3. RunType'
    BY <1>0, <1>27 DEF PostToolUse, Goto, EndRun, RunType, PCs, Outcomes, histVars
  <2> QED BY <1>15, <1>16, <1>27, <2>1, <2>2, <2>3 DEF PostToolUse
<1>28. CASE BatchDispatched
  <2>1. Grows
    BY <1>0, <1>28, QuietGrows DEF BatchDispatched
  <2>2. TurnType'
    <3>1. turn' \in 1..MaxTurns
      BY <1>0, <1>28, BoundsAssumption DEF TurnType, BatchDispatched
    <3>2. UNCHANGED <<attempt, stop, left, start, serial>> /\ UNCHANGED logVars
      BY <1>28 DEF BatchDispatched
    <3> QED BY <1>0, <3>1, <3>2 DEF TurnType, logVars
  <2>3. PassType'
    BY <1>0, <1>28, <2>1, PassFrame DEF BatchDispatched, passVars
  <2>4. RunType'
    BY <1>0, <1>28 DEF BatchDispatched, Goto, EndRun, RunType, PCs, Outcomes, histVars
  <2> QED BY <1>0, <1>28, <2>1, <2>2, <2>3, <2>4, LogFrame, ScanFrame DEF BatchDispatched, TypeOK
<1>29. CASE Interrupt
  <2>1. Grows
    BY <1>0, <1>29, QuietGrows DEF Interrupt
  <2>2. RunType'
    BY <1>0, <1>29, BoundsAssumption DEF Interrupt, EndRun, RunType, PCs, Outcomes
  <2> QED BY <1>4, <1>29, <2>1, <2>2 DEF Interrupt
<1>30. CASE UNCHANGED vars
  <2>1. Grows
    BY <1>0, <1>30, QuietGrows DEF vars, logVars
  <2>2. RunType'
    BY <1>0, <1>30 DEF vars, RunType
  <2> QED BY <1>4, <1>30, <2>1, <2>2 DEF vars, turnVars, scanVars, passVars
<1> QED
  BY <1>2, <1>3, <1>5, <1>6, <1>7, <1>8, <1>9, <1>10, <1>11, <1>12, <1>13, <1>14, <1>17,
     <1>18, <1>19, <1>20, <1>21, <1>22, <1>23, <1>24, <1>25, <1>26, <1>27, <1>28,
     <1>29, <1>30
  DEF Next, Host, Step

-----------------------------------------------------------------------------
(* The four things a step may do to the log. *)

Silent == UNCHANGED logVars
Notes ==
  \E e \in Events : e.type \notin {"tool_use", "tool_result"} /\ Write(e)
Answers ==
  \E e \in Events :
    /\ e.type = "tool_result" /\ e.num \in Requested(log)
    /\ FreshIds => e.num \notin Resolved(log)
    /\ Write(e)
Requests == \E name \in Names : AppendToolUse(name)

\* An event of another type leaves the ids of a type as they are.
LEMMA NoteKeeps ==
  ASSUME LogType, Notes
  PROVE  /\ Positions(log', "tool_use") = Positions(log, "tool_use")
         /\ Positions(log', "tool_result") = Positions(log, "tool_result")
         /\ Requested(log') = Requested(log) /\ Resolved(log') = Resolved(log)
         /\ minted' = minted
<1>1. PICK e \in Events : e.type \notin {"tool_use", "tool_result"} /\ Write(e)
  BY DEF Notes
<1>2. log \in Seq(Events) /\ log' = Append(log, e) /\ minted' = minted
  BY <1>1 DEF LogType, Write
<1>3. e.type # "tool_use" /\ e.type # "tool_result"
  BY <1>1
<1>4. /\ Positions(log', "tool_use") = Positions(log, "tool_use")
      /\ Positions(log', "tool_result") = Positions(log, "tool_result")
  BY <1>2, <1>3, AppendPositions
<1>5. /\ IdsOf(log', "tool_use") = IdsOf(log, "tool_use")
      /\ IdsOf(log', "tool_result") = IdsOf(log, "tool_result")
  BY <1>2, <1>3, AppendIds
<1> QED BY <1>2, <1>4, <1>5 DEF Requested, Resolved

\* A result answers one id and requests nothing.
LEMMA AnswerAdds ==
  ASSUME LogType, NEW e \in Events, e.type = "tool_result", Write(e)
  PROVE  /\ Positions(log', "tool_use") = Positions(log, "tool_use")
         /\ Positions(log', "tool_result") = Positions(log, "tool_result") \cup {Len(log) + 1}
         /\ Requested(log') = Requested(log)
         /\ Resolved(log') = Resolved(log) \cup {e.num}
         /\ log'[Len(log) + 1] = e /\ minted' = minted
<1>1. log \in Seq(Events) /\ log' = Append(log, e) /\ minted' = minted
  BY DEF LogType, Write
<1>2. e.type # "tool_use"
  OBVIOUS
<1>3. /\ Positions(log', "tool_use") = Positions(log, "tool_use")
      /\ Positions(log', "tool_result") = Positions(log, "tool_result") \cup {Len(log) + 1}
  BY <1>1, <1>2, AppendPositions
<1>4. /\ IdsOf(log', "tool_use") = IdsOf(log, "tool_use")
      /\ IdsOf(log', "tool_result") = IdsOf(log, "tool_result") \cup {e.num}
  BY <1>1, <1>2, AppendIds
<1>5. log'[Len(log) + 1] = e
  BY <1>1, AppendEvent
<1> QED BY <1>1, <1>3, <1>4, <1>5 DEF Requested, Resolved

\* A tool_use requests one id, at most minted + 1, and answers nothing.
LEMMA RequestAdds ==
  ASSUME LogType, TurnType, NEW name \in Names, AppendToolUse(name)
  PROVE  /\ Positions(log', "tool_use") = Positions(log, "tool_use") \cup {Len(log) + 1}
         /\ Positions(log', "tool_result") = Positions(log, "tool_result")
         /\ Requested(log') = Requested(log) \cup {NextId}
         /\ Resolved(log') = Resolved(log)
         /\ log'[Len(log) + 1] = Event("tool_use", NextId, name)
         /\ minted' = minted + 1 /\ NextId \in 1..minted + 1
         /\ log' = Append(log, Event("tool_use", NextId, name))
         /\ Event("tool_use", NextId, name) \in Events
<1> DEFINE e == Event("tool_use", NextId, name)
<1>1. NextId \in 1..minted + 1 /\ NextId \in Nat
  BY MintedNat DEF NextId, TurnType
<1>2. e \in Events /\ e.type = "tool_use" /\ e.num = NextId /\ e.type # "tool_result"
  BY <1>1 DEF Event, Events, EventTypes, Tags
<1>3. log \in Seq(Events) /\ log' = Append(log, e) /\ minted' = minted + 1
  BY DEF LogType, AppendToolUse
<1> HIDE DEF e
<1>4. /\ Positions(log', "tool_use") = Positions(log, "tool_use") \cup {Len(log) + 1}
      /\ Positions(log', "tool_result") = Positions(log, "tool_result")
  BY <1>2, <1>3, AppendPositions
<1>5. /\ IdsOf(log', "tool_use") = IdsOf(log, "tool_use") \cup {e.num}
      /\ IdsOf(log', "tool_result") = IdsOf(log, "tool_result")
  BY <1>2, <1>3, AppendIds
<1>6. log'[Len(log) + 1] = e
  BY <1>2, <1>3, AppendEvent
<1> QED BY <1>1, <1>2, <1>3, <1>4, <1>5, <1>6 DEF e, Requested, Resolved

\* The use the loop is at has been requested.
LEMMA FirstRequested ==
  ASSUME LogType, PassType, todo # {}
  PROVE  log[First(todo)].num \in Requested(log)
BY TodoFirst DEF Requested, IdsOf

\* Every step does one of the four.
LEMMA LogSteps ==
  ASSUME LoopInv, [Next]_vars
  PROVE  Silent \/ Notes \/ Answers \/ Requests
<1>0. LogType /\ TurnType /\ ScanType /\ PassType /\ RunType /\ PhaseInv
  BY DEF LoopInv, TypeOK
<1>1. Write(RuntimeError) => Notes
  BY RuntimeErrorEvent DEF Notes, RuntimeError, Event
<1>2. ASSUME NEW id \in Ids \cup {NoId}, NEW type \in EventTypes \ {"tool_use", "tool_result"},
             NEW tag \in Tags, Write(Event(type, id, tag))
      PROVE  Notes
  <2>1. Event(type, id, tag) \in Events
    BY EventOfId
  <2> QED BY <1>2, <2>1 DEF Notes, Event
<1>3. ASSUME NEW id \in Requested(log), FreshIds => id \notin Resolved(log),
             NEW tag \in Tags, Write(Event("tool_result", id, tag))
      PROVE  Answers
  <2>1. id \in Ids
    BY <1>0, ResultIds DEF LoopInv
  <2>2. Event("tool_result", id, tag) \in Events
    BY <2>1, EventOfId DEF EventTypes
  <2> QED BY <1>3, <2>2 DEF Answers, Event
<1>4. ASSUME todo # {}, pc \in {"close", "dispatch", "running"}
      PROVE  /\ log[First(todo)].num \in Requested(log) /\ log[First(todo)].num \in Ids
             /\ FreshIds => log[First(todo)].num \notin Resolved(log)
  <2>1. log[First(todo)].num \in Requested(log) /\ log[First(todo)].num \in Ids
    BY <1>0, <1>4, FirstRequested, ResultIds DEF LoopInv
  <2>2. First(todo) \in todo
    BY <1>0, <1>4, TodoFirst
  <2> QED BY <1>4, <2>1, <2>2 DEF LoopInv, FreshInv
<1>5. CASE Chat
  BY <1>2, <1>5 DEF Chat, EventTypes, Tags
<1>6. CASE Reenter
  BY <1>6 DEF Reenter, Silent
<1>7. ASSUME NEW id \in Ids, Approve(id) \/ Deny(id)
      PROVE  Notes
  BY <1>2, <1>7 DEF Approve, Deny, EventTypes, Tags
<1>8. CASE ApprovedReturn \/ DenyResult
  <2>1. current \in Requested(log) \ Resolved(log)
    BY <1>0, <1>8 DEF ApprovedReturn, DenyResult, PhaseInv
  <2> QED BY <1>3, <1>8, <2>1 DEF ApprovedReturn, DenyResult, Tags
<1>9. CASE FailBeforeCall
  BY <1>1, <1>9 DEF FailBeforeCall
<1>10. CASE StayFailed \/ Project \/ TurnAnswered \/ CollectPending \/ NextDecision
         \/ BatchDecided \/ RunTool \/ BatchDispatched \/ Interrupt
  BY <1>10 DEF Silent, StayFailed, Project, TurnAnswered, CollectPending, NextDecision,
               BatchDecided, RunTool, BatchDispatched, Interrupt
<1>11. ASSUME NEW retryable \in BOOLEAN, ProviderFails(retryable)
       PROVE  Notes
  <2> DEFINE e == Event("provider_error", attempt,
                        IF Retries(retryable) THEN "retry" ELSE "terminal")
  <2>1. attempt \in Nat
    BY <1>0, BoundsAssumption DEF TurnType
  <2>2. e \in Events /\ e.type \notin {"tool_use", "tool_result"}
    BY <2>1 DEF Event, Events, EventTypes, Tags
  <2> QED BY <1>11, <2>2 DEF ProviderFails, Notes
<1>12. ASSUME NEW reason \in StopReasons, NEW n \in 0..MaxBatch,
              ProviderAnswers(reason, n)
       PROVE  Notes
  BY <1>2, <1>12 DEF ProviderAnswers, EventTypes, Tags
<1>13. CASE CloseIncomplete
  <2>1. CASE todo = {}
    BY <1>13, <2>1 DEF CloseIncomplete, Silent
  <2>2. CASE todo # {}
    <3>1. pc = "close" /\ Write(Event("tool_result", log[First(todo)].num, "incomplete"))
      BY <1>13, <2>2 DEF CloseIncomplete
    <3> QED BY <1>3, <1>4, <2>2, <3>1 DEF Tags
  <2> QED BY <2>1, <2>2
<1>14. ASSUME NEW effect \in Effects, InvokeHandler(effect)
       PROVE  Silent \/ Notes
  BY <1>1, <1>14 DEF InvokeHandler, Silent
<1>15. CASE RequestApproval
  <2>1. CASE todo = {}
    BY <1>15, <2>1 DEF RequestApproval, Silent
  <2>2. CASE todo # {}
    <3>1. log[First(todo)].num \in Ids
      BY <1>0, <2>2, FirstRequested, ResultIds DEF LoopInv
    <3>2. Write(Event("approval_requested", log[First(todo)].num, ""))
      BY <1>15, <2>2 DEF RequestApproval
    <3> QED BY <1>2, <3>1, <3>2 DEF EventTypes, Tags
  <2> QED BY <2>1, <2>2
<1>16. CASE DenyByHook
  <2>1. /\ pc = "dispatch" /\ todo # {}
        /\ Write(Event("tool_result", log[First(todo)].num, "denied"))
    BY <1>16 DEF DenyByHook
  <2> QED BY <1>3, <1>4, <2>1 DEF Tags
<1>17. CASE ToolReturns
  <2>1. pc = "running" /\ Write(Event("tool_result", current, "ran"))
    BY <1>17 DEF ToolReturns
  <2>2. todo # {} /\ current = log[First(todo)].num
    BY <1>0, <2>1 DEF PhaseInv
  <2> QED BY <1>3, <1>4, <2>1, <2>2 DEF Tags
<1>18. ASSUME NEW effect \in PostEffects, PostToolUse(effect)
       PROVE  Silent \/ Notes
  BY <1>1, <1>18 DEF PostToolUse, Silent
<1>19. CASE UNCHANGED vars
  BY <1>19 DEF vars, Silent, logVars
<1> QED
  BY <1>5, <1>6, <1>7, <1>8, <1>9, <1>10, <1>11, <1>12, <1>13, <1>14, <1>15, <1>16,
     <1>17, <1>18, <1>19
  DEF Next, Host, Step, Requests

-----------------------------------------------------------------------------
\* Every step keeps the log consistent: ids minted, results requested.
LEMMA LogStep ==
  ASSUME LoopInv, [Next]_vars
  PROVE  LogInv'
<1>0. LogType /\ TurnType /\ LogInv /\ log \in Seq(Events)
  BY DEF LoopInv, TypeOK, LogType
<1>1. \A i \in Positions(log, "tool_use") : i \in 1..Len(log)
  BY DEF Positions
<1>2. ASSUME Positions(log', "tool_use") = Positions(log, "tool_use"), minted' = minted,
             \A i \in 1..Len(log) : log'[i] = log[i],
             Resolved(log') \subseteq Requested(log')
      PROVE  LogInv'
  BY <1>0, <1>1, <1>2 DEF LogInv
<1>3. CASE Silent
  BY <1>0, <1>3 DEF Silent, logVars, LogInv
<1>4. CASE Notes
  <2>1. Grows
    BY <1>0, <1>4, WriteGrows DEF Notes
  <2> QED BY <1>0, <1>2, <1>4, <2>1, NoteKeeps DEF Grows, LogInv
<1>5. CASE Answers
  <2>1. PICK e \in Events : /\ e.type = "tool_result" /\ e.num \in Requested(log)
                            /\ Write(e)
    BY <1>5 DEF Answers
  <2>2. Grows
    BY <1>0, <2>1, WriteGrows
  <2>3. /\ Positions(log', "tool_use") = Positions(log, "tool_use") /\ minted' = minted
        /\ Requested(log') = Requested(log)
        /\ Resolved(log') = Resolved(log) \cup {e.num}
    BY <1>0, <2>1, AnswerAdds
  <2> QED BY <1>0, <1>2, <2>1, <2>2, <2>3 DEF Grows, LogInv
<1>6. CASE Requests
  <2>1. PICK name \in Names : AppendToolUse(name)
    BY <1>6 DEF Requests
  <2> DEFINE e == Event("tool_use", NextId, name)
  <2>2. /\ Positions(log', "tool_use") = Positions(log, "tool_use") \cup {Len(log) + 1}
        /\ log'[Len(log) + 1] = e /\ log' = Append(log, e) /\ e \in Events
        /\ Requested(log') = Requested(log) \cup {NextId}
        /\ Resolved(log') = Resolved(log)
        /\ minted' = minted + 1 /\ NextId \in 1..minted + 1
    BY <1>0, <2>1, RequestAdds
  <2>3. \A i \in Positions(log, "tool_use") : log'[i] = log[i]
    BY <1>0, <1>1, <2>2, AppendEvent
  <2>4. \A i \in Positions(log, "tool_use") :
          log'[i].num \in 1..minted + 1 /\ log'[i].tag \in Names
    BY <1>0, <2>3, MintedNat DEF LogInv
  <2>5. e.num \in 1..minted + 1 /\ e.tag \in Names
    BY <2>2 DEF Event
  <2> HIDE DEF e
  <2> QED BY <1>0, <2>2, <2>4, <2>5 DEF LogInv
<1> QED BY <1>3, <1>4, <1>5, <1>6, LogSteps

-----------------------------------------------------------------------------
\* UsesOfTurn after a step that leaves turn_start alone.
LEMMA UsesKept ==
  ASSUME start' = start, Positions(log', "tool_use") = Positions(log, "tool_use")
  PROVE  UsesOfTurn' = UsesOfTurn
BY DEF UsesOfTurn

\* Every step keeps what the phases of the loop rely on.
LEMMA PhaseStep ==
  ASSUME LoopInv, [Next]_vars
  PROVE  PhaseInv'
<1>0. LogType /\ TurnType /\ PassType /\ RunType /\ PhaseInv /\ log \in Seq(Events)
  BY DEF LoopInv, TypeOK, LogType
<1>1. ASSUME pc' \in {"idle", "project", "close", "collect"}, current' = NoId
      PROVE  PhaseInv'
  BY <1>1 DEF PhaseInv
<1>2. pc \in {"idle", "project", "call", "ingest", "close", "collect", "decide", "pause",
              "dispatch", "post"} => current = NoId
  BY DEF LoopInv, PhaseInv
<1>3. ASSUME pc' = pc, pc \in {"decide", "pause", "dispatch"}, current' = current,
             todo' \subseteq todo, DOMAIN verdict' = DOMAIN verdict
      PROVE  PhaseInv'
  BY <1>0, <1>3 DEF PhaseInv
<1>4. CASE Chat \/ Reenter
  BY <1>1, <1>2, <1>4 DEF Chat, Reenter, Enter, Goto
<1>5. ASSUME NEW id \in Ids, Approve(id) \/ Deny(id)
      PROVE  PhaseInv'
  <2>1. Notes
    <3>1. PICK tag \in Tags : Write(Event("approval_resolved", id, tag))
      BY <1>5 DEF Approve, Deny, Tags
    <3>2. Event("approval_resolved", id, tag) \in Events
      BY EventOfId DEF EventTypes
    <3> QED BY <3>1, <3>2 DEF Notes, Event
  <2>2. Requested(log') = Requested(log) /\ Resolved(log') = Resolved(log)
    BY <1>0, <2>1, NoteKeeps
  <2>3. pc' \in {"approved", "denied"} /\ current' = id /\ Unresolved(id)
    BY <1>5 DEF Approve, Deny, Goto
  <2> QED BY <2>2, <2>3 DEF PhaseInv, Unresolved
<1>6. CASE ApprovedReturn \/ DenyResult
  BY <1>1, <1>6 DEF ApprovedReturn, DenyResult, Goto
<1>7. CASE FailBeforeCall \/ StayFailed
  BY <1>1, <1>2, <1>7 DEF FailBeforeCall, StayFailed, EndRun
<1>8. CASE Project
  <2>1. pc' = "call" /\ current' = NoId /\ start' = Len(log) /\ log' = log
    BY <1>2, <1>8 DEF Project, Goto, logVars
  <2>2. UsesOfTurn' = {}
    BY <1>0, <2>1 DEF UsesOfTurn, Positions
  <2> QED BY <2>1, <2>2 DEF PhaseInv
<1>9. ASSUME NEW retryable \in BOOLEAN, ProviderFails(retryable)
      PROVE  PhaseInv'
  <2>1. pc = "call" /\ current' = NoId /\ start' = start /\ pc' \in {"call", "idle"}
    BY <1>2, <1>9 DEF ProviderFails, EndRun
  <2>2. Notes
    <3> DEFINE e == Event("provider_error", attempt,
                          IF Retries(retryable) THEN "retry" ELSE "terminal")
    <3>1. attempt \in Nat
      BY <1>0, BoundsAssumption DEF TurnType
    <3>2. e \in Events /\ e.type \notin {"tool_use", "tool_result"}
      BY <3>1 DEF Event, Events, EventTypes, Tags
    <3> QED BY <1>9, <3>2 DEF ProviderFails, Notes
  <2>3. UsesOfTurn' = UsesOfTurn
    BY <1>0, <2>1, <2>2, NoteKeeps, UsesKept
  <2> QED BY <1>0, <2>1, <2>3 DEF PhaseInv
<1>10. ASSUME NEW reason \in StopReasons, NEW n \in 0..MaxBatch,
              ProviderAnswers(reason, n)
       PROVE  PhaseInv'
  BY <1>2, <1>10 DEF ProviderAnswers, PhaseInv, Goto, Write
<1>11. ASSUME NEW name \in Names, AppendToolUse(name)
       PROVE  PhaseInv'
  <2>1. pc = "ingest" /\ pc' = "ingest" /\ current' = NoId
        /\ left' = left - 1 /\ minted' = minted + 1
    BY <1>2, <1>11 DEF AppendToolUse
  <2>2. left' <= MaxUses - minted'
    BY <1>0, <2>1, MintedNat, BoundsAssumption DEF PhaseInv, TurnType
  <2> QED BY <2>1, <2>2 DEF PhaseInv
<1>12. CASE TurnAnswered
  BY <1>1, <1>2, <1>12 DEF TurnAnswered, Goto, EndRun
<1>13. CASE CloseIncomplete
  BY <1>1, <1>2, <1>13 DEF CloseIncomplete, EndRun
<1>14. CASE CollectPending
  <2>1. pc' = "decide" /\ current' = NoId
    BY <1>2, <1>14 DEF CollectPending, Goto
  <2>2. todo' = DOMAIN verdict'
    BY <1>14 DEF CollectPending
  <2> QED BY <2>1, <2>2 DEF PhaseInv
<1>15. ASSUME NEW effect \in Effects, InvokeHandler(effect)
       PROVE  PhaseInv'
  <2>1. /\ pc = "decide" /\ pc' \in {"decide", "idle"} /\ current' = current
        /\ todo' = todo /\ DOMAIN verdict' = DOMAIN verdict
    BY <1>15 DEF InvokeHandler, EndRun
  <2> QED BY <1>1, <1>2, <1>3, <2>1
<1>16. CASE NextDecision
  BY <1>3, <1>16 DEF NextDecision
<1>17. CASE BatchDecided
  <2>1. pc' \in {"dispatch", "pause"} /\ current' = NoId /\ verdict' = verdict
    BY <1>2, <1>17 DEF BatchDecided, Goto
  <2>2. todo' \subseteq DOMAIN verdict
    BY <1>17 DEF BatchDecided, Held
  <2> QED BY <2>1, <2>2 DEF PhaseInv
<1>18. CASE RequestApproval
  <2>1. /\ pc = "pause" /\ pc' \in {"pause", "idle"} /\ current' = current
        /\ todo' \subseteq todo /\ verdict' = verdict
    BY <1>18 DEF RequestApproval, EndRun
  <2> QED BY <1>1, <1>2, <1>3, <2>1
<1>19. CASE DenyByHook
  <2>1. /\ pc = "dispatch" /\ todo # {} /\ pc' = "post" /\ current' = NoId
        /\ todo' = todo /\ verdict' = verdict
    BY <1>2, <1>19 DEF DenyByHook, Goto, passVars
  <2> QED BY <1>0, <2>1 DEF PhaseInv
<1>20. CASE RunTool
  <2>1. /\ pc = "dispatch" /\ todo # {} /\ pc' = "running"
        /\ current' = log[First(todo)].num
        /\ todo' = todo /\ verdict' = verdict /\ log' = log
    BY <1>20 DEF RunTool, Goto, passVars, logVars
  <2> QED BY <1>0, <2>1 DEF PhaseInv
<1>21. CASE ToolReturns
  <2>1. /\ pc = "running" /\ pc' = "post" /\ current' = NoId
        /\ todo' = todo /\ verdict' = verdict
    BY <1>21 DEF ToolReturns, Goto, passVars
  <2> QED BY <1>0, <2>1 DEF PhaseInv
<1>22. ASSUME NEW effect \in PostEffects, PostToolUse(effect)
       PROVE  PhaseInv'
  <2>1. /\ pc = "post" /\ pc' \in {"dispatch", "idle"} /\ current' = NoId
        /\ todo' \subseteq todo /\ verdict' = verdict
    BY <1>2, <1>22 DEF PostToolUse, EndRun, Goto
  <2>2. todo \subseteq DOMAIN verdict
    BY <1>0, <2>1 DEF PhaseInv
  <2> QED BY <2>1, <2>2 DEF PhaseInv
<1>23. CASE BatchDispatched
  BY <1>1, <1>2, <1>23 DEF BatchDispatched, EndRun, Goto
<1>24. CASE Interrupt
  BY <1>1, <1>24 DEF Interrupt, EndRun
<1>25. CASE UNCHANGED vars
  <2>1. UsesOfTurn' = UsesOfTurn
    BY <1>25 DEF vars, UsesOfTurn
  <2>2. UNCHANGED <<log, pc, left, minted, todo, verdict, current>>
    BY <1>25 DEF vars
  <2> QED BY <1>0, <2>1, <2>2 DEF PhaseInv
<1> QED
  BY <1>4, <1>5, <1>6, <1>7, <1>8, <1>9, <1>10, <1>11, <1>12, <1>13, <1>14, <1>15, <1>16,
     <1>17, <1>18, <1>19, <1>20, <1>21, <1>22, <1>23, <1>24, <1>25
  DEF Next, Host, Step

-----------------------------------------------------------------------------
(* The rest of the inductive step assumes that ids are fresh. *)

\* No two tool_uses share an id: a new one takes the id after the last.
LEMMA UniqueStep ==
  ASSUME LoopInv, FreshIds, [Next]_vars
  PROVE  \A i, j \in Positions(log', "tool_use") : log'[i].num = log'[j].num => i = j
<1>0. /\ LogType /\ TurnType /\ LogInv
      /\ \A i, j \in Positions(log, "tool_use") : log[i].num = log[j].num => i = j
  BY DEF LoopInv, TypeOK, FreshInv
<1>1. \A i \in Positions(log, "tool_use") : i \in 1..Len(log)
  BY DEF Positions
<1>2. ASSUME Positions(log', "tool_use") = Positions(log, "tool_use"), Grows
      PROVE  \A i, j \in Positions(log', "tool_use") : log'[i].num = log'[j].num => i = j
  BY <1>0, <1>1, <1>2 DEF Grows
<1>3. CASE Silent
  BY <1>0, <1>2, <1>3, QuietGrows DEF Silent, logVars
<1>4. CASE Notes
  BY <1>0, <1>2, <1>4, WriteGrows, NoteKeeps DEF Notes
<1>5. CASE Answers
  BY <1>0, <1>2, <1>5, WriteGrows, AnswerAdds DEF Answers
<1>6. CASE Requests
  <2>1. PICK name \in Names : AppendToolUse(name)
    BY <1>6 DEF Requests
  <2> DEFINE e == Event("tool_use", NextId, name)
  <2>2. /\ Positions(log', "tool_use") = Positions(log, "tool_use") \cup {Len(log) + 1}
        /\ log'[Len(log) + 1] = e /\ log' = Append(log, e) /\ e \in Events
    BY <1>0, <2>1, RequestAdds
  <2>3. \A i \in Positions(log, "tool_use") : log'[i] = log[i]
    BY <1>0, <1>1, <2>2, AppendEvent DEF LogType
  <2>4. e.num = minted + 1
    BY DEF Event, NextId
  <2> HIDE DEF e
  <2>5. \A i \in Positions(log, "tool_use") : log[i].num \in 1..minted
    BY <1>0 DEF LogInv
  <2>6. \A i \in Positions(log, "tool_use") : log'[i].num # log'[Len(log) + 1].num
    <3>1. minted \in Nat
      BY <1>0, MintedNat
    <3>2. \A n \in 1..minted : n # minted + 1
      BY <3>1
    <3>3. log'[Len(log) + 1].num = minted + 1
      BY <2>2, <2>4
    <3>4. \A i \in Positions(log, "tool_use") : log'[i].num \in 1..minted
      BY <2>3, <2>5
    <3> QED BY <3>2, <3>3, <3>4
  <2>7. \A i, j \in Positions(log, "tool_use") : log'[i].num = log'[j].num => i = j
    BY <1>0, <2>3
  <2> QED BY <2>2, <2>6, <2>7
<1> QED BY <1>3, <1>4, <1>5, <1>6, LogSteps

\* No tool_use is answered twice: an answered id is never written again.
LEMMA OnceStep ==
  ASSUME LoopInv, FreshIds, [Next]_vars
  PROVE  ResultAtMostOnce'
<1>0. LogType /\ TurnType /\ ResultAtMostOnce
  BY DEF LoopInv, TypeOK
<1>1. \A i \in Positions(log, "tool_result") : i \in 1..Len(log)
  BY DEF Positions
<1>2. ASSUME Positions(log', "tool_result") = Positions(log, "tool_result"), Grows
      PROVE  ResultAtMostOnce'
  BY <1>0, <1>1, <1>2 DEF Grows, ResultAtMostOnce
<1>3. CASE Silent
  BY <1>0, <1>2, <1>3, QuietGrows DEF Silent, logVars
<1>4. CASE Notes
  BY <1>0, <1>2, <1>4, WriteGrows, NoteKeeps DEF Notes
<1>5. CASE Answers
  <2>1. PICK e \in Events : e.type = "tool_result" /\ e.num \notin Resolved(log) /\ Write(e)
    BY <1>5 DEF Answers
  <2>2. /\ Positions(log', "tool_result") = Positions(log, "tool_result") \cup {Len(log) + 1}
        /\ log'[Len(log) + 1] = e
    BY <1>0, <2>1, AnswerAdds
  <2>3. \A i \in Positions(log, "tool_result") : log'[i] = log[i]
    BY <1>0, <1>1, <2>1, WriteGrows DEF Grows
  <2>4. \A i \in Positions(log, "tool_result") : log'[i].num # log'[Len(log) + 1].num
    BY <2>1, <2>2, <2>3 DEF Resolved, IdsOf
  <2> QED BY <1>0, <2>2, <2>3, <2>4 DEF ResultAtMostOnce
<1>6. CASE Requests
  <2>1. PICK name \in Names : AppendToolUse(name)
    BY <1>6 DEF Requests
  <2> DEFINE e == Event("tool_use", NextId, name)
  <2>2. /\ Positions(log', "tool_result") = Positions(log, "tool_result")
        /\ log' = Append(log, e) /\ e \in Events
    BY <1>0, <2>1, RequestAdds
  <2>3. \A i \in Positions(log, "tool_result") : log'[i] = log[i]
    BY <1>0, <1>1, <2>2, AppendEvent DEF LogType
  <2> QED BY <1>0, <2>2, <2>3 DEF ResultAtMostOnce
<1> QED BY <1>3, <1>4, <1>5, <1>6, LogSteps

\* The loop knows every result it has scanned.
ScannedKnown ==
  \A i \in Positions(log, "tool_result") : i <= scan => log[i].num \in fulfilled

\* Scanning the whole of a log leaves no result unknown.
LEMMA RememberKnows ==
  ASSUME ScannedKnown, LogType, ScanType, Grows, Remember(log')
  PROVE  ScannedKnown'
<1>1. scan' = Len(log') /\ fulfilled' = fulfilled \cup ScannedResults(log')
  BY DEF Remember
<1>2. SUFFICES ASSUME NEW i \in Positions(log', "tool_result")
               PROVE  log'[i].num \in fulfilled \cup ScannedResults(log')
  BY <1>1 DEF ScannedKnown
<1>3. scan \in 0..Len(log) /\ i \in 1..Len(log')
  BY DEF ScanType, Positions
<1>4. CASE i <= scan
  <2>1. i \in 1..Len(log) /\ log'[i] = log[i]
    BY <1>3, <1>4 DEF Grows
  <2>2. i \in Positions(log, "tool_result")
    BY <2>1 DEF Positions
  <2> QED BY <1>4, <2>1, <2>2 DEF ScannedKnown
<1>5. CASE i > scan
  BY <1>5 DEF ScannedResults
<1> QED BY <1>3, <1>4, <1>5 DEF Grows

LEMMA KnownFrame ==
  ASSUME ScannedKnown, LogType, ScanType, Grows, UNCHANGED scanVars
  PROVE  ScannedKnown'
<1>1. SUFFICES ASSUME NEW i \in Positions(log', "tool_result"), i <= scan
               PROVE  log'[i].num \in fulfilled
  BY DEF ScannedKnown, scanVars
<1>2. scan \in 0..Len(log) /\ i \in 1..Len(log')
  BY DEF ScanType, Positions
<1>3. i \in 1..Len(log) /\ log'[i] = log[i]
  BY <1>1, <1>2 DEF Grows
<1>4. i \in Positions(log, "tool_result")
  BY <1>3 DEF Positions
<1> QED BY <1>1, <1>3, <1>4 DEF ScannedKnown

\* Every step lets the log grow.
LEMMA StepGrows ==
  ASSUME LoopInv, [Next]_vars
  PROVE  Grows
<1>0. LogType /\ TurnType /\ PhaseInv
  BY DEF LoopInv, TypeOK
<1>1. CASE Silent
  BY <1>0, <1>1, QuietGrows DEF Silent
<1>2. CASE Notes
  BY <1>0, <1>2, WriteGrows DEF Notes
<1>3. CASE Answers
  BY <1>0, <1>3, WriteGrows DEF Answers
<1>4. CASE Requests
  <2>1. PICK name \in Names : AppendToolUse(name)
    BY <1>4 DEF Requests
  <2> DEFINE e == Event("tool_use", NextId, name)
  <2>2. log' = Append(log, e) /\ e \in Events /\ minted' = minted + 1
    BY <1>0, <2>1, RequestAdds
  <2>3. left > 0 /\ left <= MaxUses - minted
    BY <1>0, <2>1 DEF AppendToolUse, PhaseInv
  <2>4. minted' \in minted..MaxUses
    BY <1>0, <2>2, <2>3, MintedNat, BoundsAssumption DEF TurnType
  <2> HIDE DEF e
  <2> QED BY <1>0, <2>2, <2>4, AppendEvent DEF LogType, Grows
<1> QED BY <1>1, <1>2, <1>3, <1>4, LogSteps

LEMMA ScanStep ==
  ASSUME LoopInv, FreshIds, [Next]_vars
  PROVE  ScannedKnown'
<1>0. LogType /\ ScanType /\ ScannedKnown
  BY DEF LoopInv, TypeOK, FreshInv, ScannedKnown
<1>1. Grows
  BY StepGrows
<1>2. CASE UNCHANGED scanVars
  BY <1>0, <1>1, <1>2, KnownFrame
<1>3. ASSUME scan' = 0
      PROVE  ScannedKnown'
  BY <1>3 DEF ScannedKnown, Positions
<1>4. CASE Chat \/ Reenter
  BY <1>2, <1>3, <1>4 DEF Chat, Reenter, Enter
<1>5. CASE CollectPending
  <2>1. CASE HasRunner
    <3>1. Remember(log')
      BY <1>5, <2>1 DEF CollectPending, logVars
    <3> QED BY <1>0, <1>1, <3>1, RememberKnows
  <2>2. CASE ~HasRunner
    BY <1>2, <1>5, <2>2 DEF CollectPending
  <2> QED BY <2>1, <2>2
<1>6. CASE DenyByHook \/ ToolReturns
  <2>1. Remember(log')
    BY <1>6 DEF DenyByHook, ToolReturns
  <2> QED BY <1>0, <1>1, <2>1, RememberKnows
<1>7. CASE \E id \in Ids : Approve(id) \/ Deny(id)
  BY <1>2, <1>7 DEF Approve, Deny
<1>8. CASE \/ ApprovedReturn \/ DenyResult \/ FailBeforeCall \/ StayFailed \/ Project
           \/ TurnAnswered \/ CloseIncomplete \/ NextDecision \/ BatchDecided
           \/ RequestApproval \/ RunTool \/ BatchDispatched \/ Interrupt
  BY <1>2, <1>8
  DEF ApprovedReturn, DenyResult, FailBeforeCall, StayFailed, Project, TurnAnswered,
      CloseIncomplete, NextDecision, BatchDecided, RequestApproval, RunTool,
      BatchDispatched, Interrupt
<1>9. CASE \/ \E retryable \in BOOLEAN : ProviderFails(retryable)
           \/ \E reason \in StopReasons, n \in 0..MaxBatch : ProviderAnswers(reason, n)
           \/ \E name \in Names : AppendToolUse(name)
           \/ \E effect \in Effects : InvokeHandler(effect)
           \/ \E effect \in PostEffects : PostToolUse(effect)
  BY <1>2, <1>9
  DEF ProviderFails, ProviderAnswers, AppendToolUse, InvokeHandler, PostToolUse
<1>10. CASE UNCHANGED vars
  BY <1>2, <1>10 DEF vars, scanVars
<1> QED
  BY <1>4, <1>5, <1>6, <1>7, <1>8, <1>9, <1>10 DEF Next, Host, Step

-----------------------------------------------------------------------------
\* The tool_uses at the positions of S have no result.
Open(S) == \A i \in S : log[i].num \notin Resolved(log)

OpenInv ==
  /\ pc = "ingest" => Open(UsesOfTurn)
  /\ pc \in {"close", "dispatch", "running"} => Open(todo)
  /\ pc \in {"decide", "pause"} => Open(DOMAIN verdict)
  /\ pc = "post" => Open(todo \ {First(todo)})

LEMMA FreshParts ==
  FreshInv <=> /\ \A i, j \in Positions(log, "tool_use") : log[i].num = log[j].num => i = j
               /\ ScannedKnown /\ OpenInv
BY DEF FreshInv, ScannedKnown, OpenInv, Open

\* Uses stay open while no result is written ...
LEMMA OpenKept ==
  ASSUME Grows, NEW S, S \subseteq Positions(log, "tool_use"), Open(S),
         Resolved(log') = Resolved(log)
  PROVE  \A i \in S : log'[i].num \notin Resolved(log')
<1>1. \A i \in S : i \in 1..Len(log)
  BY DEF Positions
<1> QED BY <1>1 DEF Grows, Open

\* ... and while the result of another one is.
LEMMA OpenOthers ==
  ASSUME Grows, NEW S, S \subseteq Positions(log, "tool_use"), Open(S),
         NEW k \in Positions(log, "tool_use"), k \notin S,
         \A i, j \in Positions(log, "tool_use") : log[i].num = log[j].num => i = j,
         Resolved(log') = Resolved(log) \cup {log[k].num}
  PROVE  \A i \in S : log'[i].num \notin Resolved(log')
<1>1. \A i \in S : i \in 1..Len(log)
  BY DEF Positions
<1>2. \A i \in S : log'[i] = log[i]
  BY <1>1 DEF Grows
<1>3. \A i \in S : log[i].num # log[k].num
  OBVIOUS
<1> QED BY <1>2, <1>3 DEF Open

\* What _pending_tool_uses keeps has no result anywhere in the log.
LEMMA PendingOpen ==
  ASSUME LogType, ScanType, ScannedKnown
  PROVE  Open(PendingUses)
<1>1. SUFFICES ASSUME NEW i \in PendingUses, NEW j \in Positions(log, "tool_result"),
                      log[i].num = log[j].num
               PROVE  FALSE
  BY DEF Open, Resolved, IdsOf
<1>2. log[i].num \notin fulfilled /\ log[i].num \notin ScannedResults(log)
  BY DEF PendingUses
<1>3. ~(j <= scan)
  BY <1>1, <1>2 DEF ScannedKnown
<1>4. ~(j > scan)
  BY <1>1, <1>2 DEF ScannedResults
<1>5. j \in Nat /\ scan \in Nat
  BY DEF ScanType, LogType, Positions
<1> QED BY <1>3, <1>4, <1>5

\* Every step keeps the uses the loop still has to visit open.
LEMMA OpenStep ==
  ASSUME LoopInv, FreshIds, [Next]_vars
  PROVE  OpenInv'
<1>0. /\ LogType /\ TurnType /\ ScanType /\ PassType /\ RunType /\ LogInv /\ PhaseInv
      /\ ScannedKnown /\ OpenInv
      /\ \A i, j \in Positions(log, "tool_use") : log[i].num = log[j].num => i = j
  BY FreshParts DEF LoopInv, TypeOK
<1>1. Grows
  BY StepGrows
<1>2. ASSUME pc' \in {"idle", "project", "call", "collect", "approved", "denied"}
      PROVE  OpenInv'
  BY <1>2 DEF OpenInv
<1>3. /\ UsesOfTurn \subseteq Positions(log, "tool_use")
      /\ todo \subseteq Positions(log, "tool_use")
      /\ DOMAIN verdict \subseteq Positions(log, "tool_use")
  BY <1>0 DEF UsesOfTurn, PassType
<1>4. ASSUME Silent \/ Notes
      PROVE  Resolved(log') = Resolved(log)
  BY <1>0, <1>4, NoteKeeps DEF Silent, logVars
<1>5. Write(RuntimeError) => Notes
  BY RuntimeErrorEvent DEF Notes, RuntimeError, Event
<1>6. CASE Chat \/ Reenter
  BY <1>2, <1>6 DEF Chat, Reenter, Enter, Goto
<1>7. ASSUME NEW id \in Ids, Approve(id) \/ Deny(id)
      PROVE  OpenInv'
  BY <1>2, <1>7 DEF Approve, Deny, Goto
<1>8. CASE ApprovedReturn \/ DenyResult \/ FailBeforeCall \/ StayFailed \/ Project
  BY <1>2, <1>8 DEF ApprovedReturn, DenyResult, FailBeforeCall, StayFailed, Project,
                    Goto, EndRun
<1>9. ASSUME NEW retryable \in BOOLEAN, ProviderFails(retryable)
      PROVE  OpenInv'
  BY <1>2, <1>9 DEF ProviderFails, EndRun
<1>10. ASSUME NEW reason \in StopReasons, NEW n \in 0..MaxBatch,
              ProviderAnswers(reason, n)
       PROVE  OpenInv'
  <2>1. /\ pc = "call" /\ pc' = "ingest" /\ start' = start
        /\ Write(Event("assistant_message", NoId, reason))
    BY <1>10 DEF ProviderAnswers, Goto
  <2>2. Notes
    <3>1. Event("assistant_message", NoId, reason) \in Events
      BY EventOfId DEF EventTypes, Tags
    <3> QED BY <2>1, <3>1 DEF Notes, Event
  <2>3. UsesOfTurn' = {}
    BY <1>0, <2>1, <2>2, NoteKeeps, UsesKept DEF PhaseInv
  <2> QED BY <2>1, <2>3 DEF OpenInv, Open
<1>11. ASSUME NEW name \in Names, AppendToolUse(name)
       PROVE  OpenInv'
  <2>1. pc = "ingest" /\ pc' = "ingest" /\ start' = start
    BY <1>11 DEF AppendToolUse
  <2> DEFINE e == Event("tool_use", NextId, name)
  <2>2. /\ Positions(log', "tool_use") = Positions(log, "tool_use") \cup {Len(log) + 1}
        /\ log'[Len(log) + 1] = e /\ Resolved(log') = Resolved(log)
    BY <1>0, <1>11, RequestAdds
  <2>3. UsesOfTurn' \subseteq UsesOfTurn \cup {Len(log) + 1}
    BY <2>1, <2>2 DEF UsesOfTurn
  <2>4. \A i \in UsesOfTurn : log'[i].num \notin Resolved(log')
    BY <1>0, <1>1, <1>3, <2>1, <2>2, OpenKept DEF OpenInv
  <2>5. e.num \notin Resolved(log)
    <3>1. e.num = minted + 1
      BY DEF Event, NextId
    <3>2. \A id \in Requested(log) : id \in 1..minted
      BY <1>0 DEF LogInv, Requested, IdsOf
    <3>3. minted + 1 \notin 1..minted
      BY <1>0, MintedNat
    <3>4. Resolved(log) \subseteq Requested(log)
      BY <1>0 DEF LogInv
    <3> QED BY <3>1, <3>2, <3>3, <3>4
  <2> HIDE DEF e
  <2>6. \A i \in UsesOfTurn' : log'[i].num \notin Resolved(log')
    BY <2>2, <2>3, <2>4, <2>5
  <2> QED BY <2>1, <2>6 DEF OpenInv, Open
<1>12. CASE TurnAnswered
  <2>1. pc = "ingest" /\ log' = log /\ pc' \in {"collect", "idle", "close"}
        /\ (pc' = "close" => todo' = UsesOfTurn)
    BY <1>12 DEF TurnAnswered, Goto, EndRun, logVars
  <2> QED BY <1>0, <2>1 DEF OpenInv, Open
<1>13. CASE CloseIncomplete
  <2>1. CASE todo = {}
    BY <1>2, <1>13, <2>1 DEF CloseIncomplete, EndRun
  <2>2. CASE todo # {}
    <3> DEFINE e == Event("tool_result", log[First(todo)].num, "incomplete")
    <3>1. pc = "close" /\ pc' = "close" /\ Write(e) /\ todo' = todo \ {First(todo)}
      BY <1>13, <2>2 DEF CloseIncomplete
    <3>2. log[First(todo)].num \in Ids /\ First(todo) \in Positions(log, "tool_use")
      BY <1>0, <2>2, TodoFirst, UseIds
    <3>3. e \in Events /\ e.type = "tool_result" /\ e.num = log[First(todo)].num
      BY <3>2, EventOfId DEF EventTypes, Tags, Event
    <3> HIDE DEF e
    <3>4. Resolved(log') = Resolved(log) \cup {log[First(todo)].num}
      BY <1>0, <3>1, <3>3, AnswerAdds
    <3>5. Open(todo')
      BY <1>0, <3>1 DEF OpenInv, Open
    <3>6. \A i \in todo' : log'[i].num \notin Resolved(log')
      BY <1>0, <1>1, <1>3, <3>1, <3>2, <3>4, <3>5, OpenOthers
    <3> QED BY <3>1, <3>6 DEF OpenInv, Open
  <2> QED BY <2>1, <2>2
<1>14. CASE CollectPending
  <2>1. pc' = "decide" /\ log' = log
        /\ (verdict' = [i \in PendingUses |-> {}] \/ verdict' = [i \in {} |-> {}])
    BY <1>14 DEF CollectPending, Goto, logVars
  <2>2. DOMAIN verdict' \subseteq PendingUses
    BY <2>1
  <2>3. Open(PendingUses)
    BY <1>0, PendingOpen
  <2> QED BY <2>1, <2>2, <2>3 DEF OpenInv, Open
<1>15. ASSUME pc \in {"decide", "pause"}, Silent \/ Notes, DOMAIN verdict' = DOMAIN verdict,
              pc' \in {"decide", "pause", "idle"}
       PROVE  OpenInv'
  <2>1. \A i \in DOMAIN verdict : log'[i].num \notin Resolved(log')
    BY <1>0, <1>1, <1>3, <1>4, <1>15, OpenKept DEF OpenInv
  <2> QED BY <1>15, <2>1 DEF OpenInv, Open
<1>16. ASSUME NEW effect \in Effects, InvokeHandler(effect)
       PROVE  OpenInv'
  <2>1. pc = "decide" /\ (Silent \/ Notes) /\ pc' \in {"decide", "idle"}
    BY <1>5, <1>16 DEF InvokeHandler, EndRun, Silent
  <2>2. DOMAIN verdict' = DOMAIN verdict
    BY <1>16 DEF InvokeHandler
  <2> QED BY <1>15, <2>1, <2>2
<1>17. CASE NextDecision
  BY <1>15, <1>17 DEF NextDecision, Silent
<1>18. CASE BatchDecided
  <2>1. /\ pc = "decide" /\ log' = log /\ verdict' = verdict /\ Silent
        /\ \/ pc' = "dispatch" /\ todo' = DOMAIN verdict
           \/ pc' = "pause"
    BY <1>18 DEF BatchDecided, Goto, Silent, logVars
  <2>2. Open(DOMAIN verdict)
    BY <1>0, <2>1 DEF OpenInv
  <2> QED BY <2>1, <2>2 DEF OpenInv, Open
<1>19. CASE RequestApproval
  <2>1. pc = "pause" /\ verdict' = verdict /\ pc' \in {"pause", "idle"}
    BY <1>19 DEF RequestApproval, EndRun
  <2>2. Silent \/ Notes
    <3>1. CASE todo = {}
      BY <1>19, <3>1 DEF RequestApproval, Silent
    <3>2. CASE todo # {}
      <4>1. log[First(todo)].num \in Ids
        BY <1>0, <3>2, TodoFirst, UseIds
      <4>2. Event("approval_requested", log[First(todo)].num, "") \in Events
        BY <4>1, EventOfId DEF EventTypes, Tags
      <4>3. Write(Event("approval_requested", log[First(todo)].num, ""))
        BY <1>19, <3>2 DEF RequestApproval
      <4> QED BY <4>2, <4>3 DEF Notes, Event
    <3> QED BY <3>1, <3>2
  <2> QED BY <1>15, <2>1, <2>2
<1>20. ASSUME todo # {}, pc \in {"dispatch", "running"}, pc' = "post", todo' = todo,
              NEW tag \in Tags, Write(Event("tool_result", log[First(todo)].num, tag))
       PROVE  OpenInv'
  <2> DEFINE e == Event("tool_result", log[First(todo)].num, tag)
  <2>1. log[First(todo)].num \in Ids /\ First(todo) \in Positions(log, "tool_use")
    BY <1>0, <1>20, TodoFirst, UseIds
  <2>2. e \in Events /\ e.type = "tool_result" /\ e.num = log[First(todo)].num /\ Write(e)
    BY <1>20, <2>1, EventOfId DEF EventTypes, Event
  <2> HIDE DEF e
  <2>3. Resolved(log') = Resolved(log) \cup {log[First(todo)].num}
    BY <1>0, <2>2, AnswerAdds
  <2> DEFINE S == todo \ {First(todo)}
  <2>4. Open(S) /\ S \subseteq Positions(log, "tool_use") /\ First(todo) \notin S
    BY <1>0, <1>3, <1>20 DEF OpenInv, Open
  <2>5. \A i \in S : log'[i].num \notin Resolved(log')
    <3> HIDE DEF S
    <3> QED BY <1>0, <1>1, <2>1, <2>3, <2>4, OpenOthers
  <2>6. (todo \ {First(todo)})' = S
    BY <1>20 DEF First
  <2> QED BY <1>20, <2>5, <2>6 DEF OpenInv, Open
<1>21. CASE DenyByHook
  BY <1>20, <1>21 DEF DenyByHook, Goto, passVars, Tags
<1>22. CASE RunTool
  <2>1. pc = "dispatch" /\ pc' = "running" /\ todo' = todo /\ log' = log
    BY <1>22 DEF RunTool, Goto, passVars, logVars
  <2> QED BY <1>0, <2>1 DEF OpenInv, Open
<1>23. CASE ToolReturns
  <2>1. /\ pc = "running" /\ pc' = "post" /\ todo' = todo
        /\ Write(Event("tool_result", current, "ran"))
    BY <1>23 DEF ToolReturns, Goto, passVars
  <2>2. todo # {} /\ current = log[First(todo)].num
    BY <1>0, <2>1 DEF PhaseInv
  <2> QED BY <1>20, <2>1, <2>2 DEF Tags
<1>24. ASSUME NEW effect \in PostEffects, PostToolUse(effect)
       PROVE  OpenInv'
  <2>1. /\ pc = "post" /\ (Silent \/ Notes) /\ pc' \in {"dispatch", "idle"}
        /\ todo' = todo \ {First(todo)}
    BY <1>5, <1>24 DEF PostToolUse, EndRun, Goto, Silent
  <2>2. \A i \in todo' : log'[i].num \notin Resolved(log')
    BY <1>0, <1>1, <1>3, <1>4, <2>1, OpenKept DEF OpenInv
  <2> QED BY <2>1, <2>2 DEF OpenInv, Open
<1>25. CASE BatchDispatched \/ Interrupt
  BY <1>2, <1>25 DEF BatchDispatched, Interrupt, EndRun, Goto
<1>26. CASE UNCHANGED vars
  <2>1. UNCHANGED <<log, pc, start, todo, verdict>>
    BY <1>26 DEF vars
  <2> QED BY <1>0, <2>1 DEF OpenInv, Open, UsesOfTurn, First
<1> QED
  BY <1>6, <1>7, <1>8, <1>9, <1>10, <1>11, <1>12, <1>13, <1>14, <1>16, <1>17, <1>18,
     <1>19, <1>21, <1>22, <1>23, <1>24, <1>25, <1>26
  DEF Next, Host, Step

-----------------------------------------------------------------------------
\* The inductive invariant: it holds initially and every step keeps it.
LEMMA InitInv == Init => LoopInv
<1> SUFFICES ASSUME Init
             PROVE  LoopInv
  OBVIOUS
<1>1. log = <<>> /\ \A t : Positions(log, t) = {}
  BY DEF Init, Positions
<1>2. LogType /\ TurnType /\ ScanType
  BY <1>1, BoundsAssumption DEF Init, LogType, TurnType, ScanType, StopReasons
<1>3. PassType
  BY <1>1, PolicyAssumption DEF Init, PassType
<1>4. RunType
  BY BoundsAssumption DEF Init, RunType, PCs, Outcomes
<1>5. LogInv /\ PhaseInv /\ FreshInv /\ ResultAtMostOnce
  BY <1>1 DEF Init, LogInv, PhaseInv, FreshInv, ResultAtMostOnce, Resolved, Requested, IdsOf
<1> QED BY <1>2, <1>3, <1>4, <1>5 DEF LoopInv, TypeOK

LEMMA NextInv == LoopInv /\ [Next]_vars => LoopInv'
<1> SUFFICES ASSUME LoopInv, [Next]_vars
             PROVE  LoopInv'
  OBVIOUS
<1>1. TypeOK' /\ LogInv' /\ PhaseInv'
  BY TypeStep, LogStep, PhaseStep DEF LoopInv
<1>2. FreshIds => FreshInv' /\ ResultAtMostOnce'
  <2> SUFFICES ASSUME FreshIds
               PROVE  FreshInv' /\ ResultAtMostOnce'
    OBVIOUS
  <2>1. ScannedKnown' /\ OpenInv' /\ ResultAtMostOnce'
    BY ScanStep, OpenStep, OnceStep
  <2> QED BY <2>1, UniqueStep DEF FreshInv, ScannedKnown, OpenInv, Open
<1> QED BY <1>1, <1>2 DEF LoopInv

\* LoopInv holds in every reachable state.
LEMMA LoopInvariant == Spec => []LoopInv
BY InitInv, NextInv, PTL DEF Spec

\* Type correctness, for any number of turns, attempts, tools and handlers:
\* the loop's counters stay within their limits, and what it remembers of the
\* log (turn_start, the scan index, the batch) are positions of the log.
THEOREM Types == Spec => []TypeOK
<1>1. LoopInv => TypeOK
  BY DEF LoopInv
<1> QED BY <1>1, LoopInvariant, PTL

\* When the provider mints the ids, no tool_use is ever answered twice, in
\* any interleaving of hook denials, approvals, tool runs, closed batches,
\* interrupts and re-entered loops.
THEOREM AnsweredOnce == FreshIds => (Spec => []ResultAtMostOnce)
<1>1. SUFFICES ASSUME FreshIds
               PROVE  Spec => []ResultAtMostOnce
  OBVIOUS
<1>2. LoopInv => ResultAtMostOnce
  BY <1>1 DEF LoopInv
<1> QED BY <1>2, LoopInvariant, PTL

-----------------------------------------------------------------------------
(* The ToolLedger. *)

LEMMA LedgerInit == Init => Ledger!Init
<1> SUFFICES ASSUME Init
             PROVE  Ledger!Init
  OBVIOUS
<1>1. Requested(log) = {} /\ Resolved(log) = {}
  BY DEF Init, Requested, Resolved, IdsOf, Positions
<1>2. pc = "idle" /\ ran = [id \in Ids |-> 0]
  BY DEF Init
<1> QED BY <1>1, <1>2 DEF Ledger!Init

\* A step that neither requests nor answers anything and runs no tool.
LedgerStutters ==
  /\ Requested(log') = Requested(log) /\ Resolved(log') = Resolved(log)
  /\ ran' = ran
  /\ pc \notin {"running", "approved"} /\ pc' \notin {"running", "approved"}

\* A result written while no other tool runs settles its tool_use.
LEMMA AnswerSettles ==
  ASSUME LogType, LogInv, NEW id \in Ids, id \in Requested(log) \ Resolved(log),
         NEW tag \in Tags, Write(Event("tool_result", id, tag)),
         ran' = ran, pc \in {"running", "approved"} => current = id,
         pc' \notin {"running", "approved"}
  PROVE  Ledger!Settle(id)
<1> DEFINE e == Event("tool_result", id, tag)
<1>1. e \in Events /\ e.type = "tool_result" /\ e.num = id /\ Write(e)
  BY EventOfId DEF EventTypes, Event
<1> HIDE DEF e
<1>2. Requested(log') = Requested(log) /\ Resolved(log') = Resolved(log) \cup {id}
  BY <1>1, AnswerAdds
<1> QED BY <1>2 DEF Ledger!Settle

\* Every step of the loop is a step of the ledger, or leaves it alone.
LEMMA LedgerStep ==
  ASSUME LoopInv, FreshIds, [Next]_vars
  PROVE  [Ledger!Next]_(Ledger!lvars)
<1>0. /\ LogType /\ TurnType /\ PassType /\ RunType /\ LogInv /\ PhaseInv /\ OpenInv
      /\ Requested(log) \subseteq Ids
  BY FreshParts, ResultIds DEF LoopInv, TypeOK
<1>1. LedgerStutters => UNCHANGED Ledger!lvars
  BY DEF LedgerStutters, Ledger!lvars
<1>2. ASSUME Silent \/ Notes, ran' = ran, pc \notin {"running", "approved"},
             pc' \notin {"running", "approved"}
      PROVE  UNCHANGED Ledger!lvars
  BY <1>0, <1>1, <1>2, NoteKeeps DEF LedgerStutters, Silent, logVars
<1>3. ASSUME NEW id \in Ids, NEW type \in EventTypes \ {"tool_use", "tool_result"},
             NEW tag \in Tags, Write(Event(type, id, tag))
      PROVE  Notes
  <2>1. Event(type, id, tag) \in Events
    BY EventOfId
  <2> QED BY <1>3, <2>1 DEF Notes, Event
<1>4. ASSUME pc \in {"close", "dispatch", "running"}, todo # {}
      PROVE  log[First(todo)].num \in Requested(log) \ Resolved(log)
  BY <1>0, <1>4, FirstRequested, TodoFirst DEF OpenInv, Open
<1>5. ASSUME NEW id \in Requested(log) \ Resolved(log), NEW tag \in Tags,
             Write(Event("tool_result", id, tag)), ran' = ran,
             pc \in {"running", "approved"} => current = id,
             pc' \notin {"running", "approved"}
      PROVE  Ledger!Next
  <2>1. id \in Ids
    BY <1>0
  <2>2. Ledger!Settle(id)
    BY <1>0, <1>5, <2>1, AnswerSettles
  <2> QED BY <2>1, <2>2 DEF Ledger!Next
<1>6. ASSUME NEW id \in Requested(log) \ Resolved(log), NEW called \in BOOLEAN,
             pc \notin {"running", "approved"}, pc' \in {"running", "approved"},
             current' = id, Silent \/ Notes,
             ran' = IF called THEN [ran EXCEPT ![id] = @ + 1] ELSE ran
      PROVE  Ledger!Next
  <2>1. Requested(log') = Requested(log) /\ Resolved(log') = Resolved(log)
    BY <1>0, <1>6, NoteKeeps DEF Silent, logVars
  <2>2. Ledger!Start(id, called)
    BY <1>6, <2>1 DEF Ledger!Start
  <2>3. id \in Ids
    BY <1>0
  <2> QED BY <2>2, <2>3 DEF Ledger!Next
<1>7. CASE Chat \/ Reenter
  <2>1. pc = "idle" /\ pc' = "project" /\ ran' = ran
    BY <1>7 DEF Chat, Reenter, Enter, Goto
  <2>2. Silent \/ Notes
    <3>1. Event("user_message", NoId, "") \in Events
      BY EventOfId DEF EventTypes, Tags
    <3> QED BY <1>7, <3>1 DEF Chat, Reenter, Silent, Notes, Event
  <2> QED BY <1>2, <2>1, <2>2
<1>8. ASSUME NEW id \in Ids, Approve(id)
      PROVE  Ledger!Next
  <2>1. Write(Event("approval_resolved", id, "approved"))
    BY <1>8 DEF Approve
  <2>2. Notes
    BY <1>3, <2>1 DEF EventTypes, Tags
  <2>3. /\ pc = "idle" /\ pc' = "approved" /\ current' = id
        /\ id \in Requested(log) \ Resolved(log) /\ Invoke(id, NameOf(id))
    BY <1>8 DEF Approve, Goto, Unresolved
  <2> DEFINE called == NameOf(id) \in Registered
  <2>4. called \in BOOLEAN /\ ran' = IF called THEN [ran EXCEPT ![id] = @ + 1] ELSE ran
    BY <2>3 DEF Invoke
  <2> HIDE DEF called
  <2> QED BY <1>6, <2>2, <2>3, <2>4
<1>9. ASSUME NEW id \in Ids, Deny(id)
      PROVE  UNCHANGED Ledger!lvars
  <2>1. Write(Event("approval_resolved", id, "denied"))
    BY <1>9 DEF Deny
  <2>2. Notes
    BY <1>3, <2>1 DEF EventTypes, Tags
  <2>3. pc = "idle" /\ pc' = "denied" /\ ran' = ran
    BY <1>9 DEF Deny, Goto, histVars
  <2> QED BY <1>2, <2>2, <2>3
<1>10. CASE ApprovedReturn \/ DenyResult
  <2>1. current \in Requested(log) \ Resolved(log)
    BY <1>0, <1>10 DEF ApprovedReturn, DenyResult, PhaseInv
  <2>2. PICK tag \in Tags : Write(Event("tool_result", current, tag))
    BY <1>10 DEF ApprovedReturn, DenyResult, Tags
  <2>3. pc' = "idle" /\ ran' = ran
    BY <1>10 DEF ApprovedReturn, DenyResult, Goto, histVars
  <2> QED BY <1>5, <2>1, <2>2, <2>3
<1>11. CASE FailBeforeCall \/ StayFailed \/ Project
  <2>1. /\ pc = "project" /\ pc' \in {"idle", "call"} /\ ran' = ran
        /\ Silent \/ Write(RuntimeError)
    BY <1>11 DEF FailBeforeCall, StayFailed, Project, Goto, EndRun, histVars, Silent
  <2>2. Silent \/ Notes
    BY <2>1, RuntimeErrorEvent DEF Notes, RuntimeError, Event
  <2> QED BY <1>2, <2>1, <2>2
<1>12. ASSUME NEW retryable \in BOOLEAN, ProviderFails(retryable)
       PROVE  UNCHANGED Ledger!lvars
  <2> DEFINE e == Event("provider_error", attempt,
                        IF Retries(retryable) THEN "retry" ELSE "terminal")
  <2>1. attempt \in Nat
    BY <1>0, BoundsAssumption DEF TurnType
  <2>2. e \in Events /\ e.type \notin {"tool_use", "tool_result"}
    BY <2>1 DEF Event, Events, EventTypes, Tags
  <2>3. Notes
    BY <1>12, <2>2 DEF ProviderFails, Notes
  <2>4. pc = "call" /\ pc' \in {"call", "idle"} /\ ran' = ran
    BY <1>12 DEF ProviderFails, EndRun, histVars
  <2> QED BY <1>2, <2>3, <2>4
<1>13. ASSUME NEW reason \in StopReasons, NEW n \in 0..MaxBatch,
              ProviderAnswers(reason, n)
       PROVE  UNCHANGED Ledger!lvars
  <2>1. Event("assistant_message", NoId, reason) \in Events
    BY EventOfId DEF EventTypes, Tags
  <2>2. Notes
    BY <1>13, <2>1 DEF ProviderAnswers, Notes, Event
  <2>3. pc = "call" /\ pc' = "ingest" /\ ran' = ran
    BY <1>13 DEF ProviderAnswers, Goto, histVars
  <2> QED BY <1>2, <2>2, <2>3
<1>14. ASSUME NEW name \in Names, AppendToolUse(name)
       PROVE  Ledger!Next
  <2>1. Requested(log') = Requested(log) \cup {NextId} /\ Resolved(log') = Resolved(log)
    BY <1>0, <1>14, RequestAdds
  <2>2. NextId = minted + 1
    BY DEF NextId
  <2>3. NextId \notin Requested(log)
    <3>1. \A id \in Requested(log) : id \in 1..minted
      BY <1>0 DEF LogInv, Requested, IdsOf
    <3>2. minted + 1 \notin 1..minted
      BY <1>0, MintedNat
    <3> QED BY <2>2, <3>1, <3>2
  <2>4. NextId \in Ids
    <3>1. left > 0 /\ left <= MaxUses - minted
      BY <1>0, <1>14 DEF AppendToolUse, PhaseInv
    <3> QED BY <1>0, <2>2, <3>1, MintedNat, BoundsAssumption DEF TurnType, Ids
  <2>5. pc = "ingest" /\ pc' = pc /\ ran' = ran
    BY <1>14 DEF AppendToolUse, histVars
  <2>6. Ledger!Request(NextId)
    BY <2>1, <2>3, <2>5 DEF Ledger!Request
  <2> QED BY <2>4, <2>6 DEF Ledger!Next
<1>15. CASE TurnAnswered \/ CollectPending \/ NextDecision \/ BatchDecided \/ BatchDispatched
  <2>1. /\ Silent /\ ran' = ran
        /\ pc \notin {"running", "approved"} /\ pc' \notin {"running", "approved"}
    BY <1>15 DEF TurnAnswered, CollectPending, NextDecision, BatchDecided, BatchDispatched,
                 Goto, EndRun, histVars, Silent
  <2> QED BY <1>2, <2>1
<1>16. CASE CloseIncomplete
  <2>1. pc = "close" /\ pc' \in {"close", "idle"} /\ ran' = ran
    BY <1>16 DEF CloseIncomplete, EndRun, histVars
  <2>2. CASE todo = {}
    BY <1>2, <1>16, <2>1, <2>2 DEF CloseIncomplete, Silent
  <2>3. CASE todo # {}
    <3>1. Write(Event("tool_result", log[First(todo)].num, "incomplete"))
      BY <1>16, <2>3 DEF CloseIncomplete
    <3> QED BY <1>4, <1>5, <2>1, <2>3, <3>1 DEF Tags
  <2> QED BY <2>2, <2>3
<1>17. ASSUME NEW effect \in Effects, InvokeHandler(effect)
       PROVE  UNCHANGED Ledger!lvars
  <2>1. /\ pc = "decide" /\ pc' \in {"decide", "idle"} /\ ran' = ran
        /\ Silent \/ Write(RuntimeError)
    BY <1>17 DEF InvokeHandler, EndRun, histVars, Silent
  <2>2. Silent \/ Notes
    BY <2>1, RuntimeErrorEvent DEF Notes, RuntimeError, Event
  <2> QED BY <1>2, <2>1, <2>2
<1>18. CASE RequestApproval
  <2>1. pc = "pause" /\ pc' \in {"pause", "idle"} /\ ran' = ran
    BY <1>18 DEF RequestApproval, EndRun, histVars
  <2>2. Silent \/ Notes
    <3>1. CASE todo = {}
      BY <1>18, <3>1 DEF RequestApproval, Silent
    <3>2. CASE todo # {}
      <4>1. log[First(todo)].num \in Ids
        BY <1>0, <3>2, TodoFirst, UseIds
      <4>2. Write(Event("approval_requested", log[First(todo)].num, ""))
        BY <1>18, <3>2 DEF RequestApproval
      <4> QED BY <1>3, <4>1, <4>2 DEF EventTypes, Tags
    <3> QED BY <3>1, <3>2
  <2> QED BY <1>2, <2>1, <2>2
<1>19. CASE DenyByHook
  <2>1. /\ pc = "dispatch" /\ pc' = "post" /\ ran' = ran /\ todo # {}
        /\ Write(Event("tool_result", log[First(todo)].num, "denied"))
    BY <1>19 DEF DenyByHook, Goto, histVars
  <2> QED BY <1>4, <1>5, <2>1 DEF Tags
<1>20. CASE RunTool
  <2> DEFINE id == log[First(todo)].num
             called == log[First(todo)].tag \in Registered
  <2>1. /\ pc = "dispatch" /\ pc' = "running" /\ current' = id /\ todo # {} /\ Silent
        /\ ran' = IF called THEN [ran EXCEPT ![id] = @ + 1] ELSE ran
    BY <1>20 DEF RunTool, Goto, Silent, Invoke
  <2>2. id \in Requested(log) \ Resolved(log) /\ called \in BOOLEAN
    BY <1>4, <2>1
  <2> HIDE DEF id, called
  <2> QED BY <1>6, <2>1, <2>2
<1>21. CASE ToolReturns
  <2>1. /\ pc = "running" /\ pc' = "post" /\ ran' = ran
        /\ Write(Event("tool_result", current, "ran"))
    BY <1>21 DEF ToolReturns, Goto, histVars
  <2>2. current \in Requested(log) \ Resolved(log)
    BY <1>0, <1>4, <2>1 DEF PhaseInv
  <2> QED BY <1>5, <2>1, <2>2 DEF Tags
<1>22. ASSUME NEW effect \in PostEffects, PostToolUse(effect)
       PROVE  UNCHANGED Ledger!lvars
  <2>1. /\ pc = "post" /\ pc' \in {"dispatch", "idle"} /\ ran' = ran
        /\ Silent \/ Write(RuntimeError)
    BY <1>22 DEF PostToolUse, EndRun, Goto, histVars, Silent
  <2>2. Silent \/ Notes
    BY <2>1, RuntimeErrorEvent DEF Notes, RuntimeError, Event
  <2> QED BY <1>2, <2>1, <2>2
<1>23. CASE Interrupt
  <2>1. Silent /\ ran' = ran /\ pc' = "idle" /\ log' = log
    BY <1>23 DEF Interrupt, EndRun, Silent, logVars
  <2>2. CASE pc \in {"running", "approved"}
    BY <2>1, <2>2 DEF Ledger!Abandon, Ledger!Next
  <2>3. CASE pc \notin {"running", "approved"}
    BY <1>2, <2>1, <2>3
  <2> QED BY <2>2, <2>3
<1>24. CASE UNCHANGED vars
  BY <1>24 DEF vars, Ledger!lvars
<1> QED
  BY <1>7, <1>8, <1>9, <1>10, <1>11, <1>12, <1>13, <1>14, <1>15, <1>16, <1>17, <1>18,
     <1>19, <1>20, <1>21, <1>22, <1>23, <1>24
  DEF Next, Host, Step

\* With provider-minted ids the loop and the approval calls implement the
\* ToolLedger: a tool_use is requested once, run only while unresolved and
\* never two at a time, and settled once.
THEOREM Refinement == FreshIds => (Spec => ImplementsLedger)
<1>1. SUFFICES ASSUME FreshIds
               PROVE  Spec => ImplementsLedger
  OBVIOUS
<1>2. LoopInv /\ [Next]_vars => [Ledger!Next]_(Ledger!lvars)
  BY <1>1, LedgerStep
<1> QED BY <1>2, LedgerInit, LoopInvariant, PTL DEF Spec, ImplementsLedger, Ledger!Spec

\* Inside the ledger a handler runs for an open use only, and what is settled
\* stays settled and uncalled.
LEMMA LedgerOrderly ==
  Ledger!Init /\ [][Ledger!Next]_(Ledger!lvars) => []Ledger!Orderly /\ Ledger!SettledForGood
<1> DEFINE requested == Requested(log)
           settled   == Resolved(log)
           running   == IF pc \in {"running", "approved"} THEN {current} ELSE {}
           Settles   == settled \subseteq settled' /\ \A id \in settled : ran'[id] = ran[id]
           Called    == ran \in [Ids -> Nat]
<1>1. Ledger!Init => Ledger!Orderly /\ Called
  BY DEF Ledger!Init, Ledger!Orderly
<1>2. Ledger!Orderly /\ Called /\ [Ledger!Next]_(Ledger!lvars)
        => Ledger!Orderly' /\ Called' /\ [Settles]_(Ledger!lvars)
  <2> SUFFICES ASSUME Ledger!Orderly, Called, [Ledger!Next]_(Ledger!lvars)
               PROVE  Ledger!Orderly' /\ Called' /\ Settles
    OBVIOUS
  <2>1. /\ settled \subseteq requested /\ running \subseteq requested \ settled
        /\ \A id \in Ids : ran[id] > 0 => id \in requested
    BY DEF Ledger!Orderly
  <2>2. ASSUME NEW id \in Ids, Ledger!Request(id)
        PROVE  Ledger!Orderly' /\ Called' /\ Settles
    BY <2>1, <2>2 DEF Ledger!Request, Ledger!Orderly
  <2>3. ASSUME NEW id \in Ids, Ledger!Settle(id)
        PROVE  Ledger!Orderly' /\ Called' /\ Settles
    BY <2>1, <2>3 DEF Ledger!Settle, Ledger!Orderly
  <2>4. ASSUME NEW id \in Ids, NEW called \in BOOLEAN, Ledger!Start(id, called)
        PROVE  Ledger!Orderly' /\ Called' /\ Settles
    BY <2>1, <2>4 DEF Ledger!Start, Ledger!Orderly
  <2>5. CASE Ledger!Abandon
    BY <2>1, <2>5 DEF Ledger!Abandon, Ledger!Orderly
  <2>6. CASE UNCHANGED Ledger!lvars
    BY <2>1, <2>6 DEF Ledger!lvars, Ledger!Orderly
  <2> QED BY <2>2, <2>3, <2>4, <2>5, <2>6 DEF Ledger!Next
<1> HIDE DEF Settles, Called
<1>3. Ledger!Init /\ [][Ledger!Next]_(Ledger!lvars)
        => []Ledger!Orderly /\ [][Settles]_(Ledger!lvars)
  BY <1>1, <1>2, PTL
<1> QED BY <1>3, PTL DEF Settles, Ledger!SettledForGood

\* A tool_use with a result is never run again, nor does a handler run for one
\* that is not in the log, whichever of the loop, approve, deny and the closing
\* of a turn settled it: the code implements the ledger.
THEOREM LedgerKept == FreshIds => (Spec => []Ledger!Orderly /\ Ledger!SettledForGood)
BY Refinement, LedgerOrderly, PTL DEF ImplementsLedger, Ledger!Spec
=============================================================================
