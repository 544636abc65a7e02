----------------------------- MODULE GuardsProofs -----------------------------
(***************************************************************************)
(* What the wrappers of tools/middleware.py, the loader and the guards     *)
(* keep for every rate, window, limit, number of attempts and manifest:    *)
(* MinuteKept, NothingWrittenOver, TypeOK and NeverCalledPastALimit.  The  *)
(* loop and the guards above the wrappers only call Begin and the steps of *)
(* Work, so each step of the specification is, for the wrappers, one of    *)
(* theirs, a step of the world, or none (StepsOf).  What loading has       *)
(* established by a stage stays as it is while the loop runs (Frozen), and *)
(* the loop's invariant says of each limit that only a log that is to stop *)
(* is at it.                                                               *)
(***************************************************************************)
EXTENDS Guards, FiniteSetTheorems, FunctionTheorems, SequenceTheorems, WellFoundedInduction, TLAPS

MwStep == (\E c \in Wrapped : Begin(c)) \/ Work \/ World \/ UNCHANGED mwVars

\* Every step of the loop is one of the wrappers, of the world, or none of
\* theirs (Guards.Next).
LEMMA StepsOf == ASSUME [Next]_vars PROVE MwStep
<1> USE DEF toolVars, MwStep
<1>1. CASE UNCHANGED vars BY <1>1 DEF vars
<1>2. CASE Run BY <1>2 DEF Run
<1>3. CASE PreProjection BY <1>3 DEF PreProjection
<1>4. CASE Answer BY <1>4 DEF Answer
<1>5. CASE Decide BY <1>5 DEF Decide
<1>6. CASE Decided BY <1>6 DEF Decided
<1>7. CASE Reject BY <1>7 DEF Reject
<1>8. CASE RunOutside BY <1>8 DEF RunOutside
<1>9. CASE RunWrapped BY <1>9 DEF RunWrapped
<1>10. CASE ToolStep BY <1>10 DEF ToolStep
<1>11. CASE ToolReturns BY <1>11 DEF ToolReturns
<1>12. CASE EndBatch BY <1>12 DEF EndBatch
<1>13. CASE Loading /\ UNCHANGED <<mwVars, loopVars>> BY <1>13
<1>14. CASE Running /\ World /\ UNCHANGED <<manifestVars, loopVars>> BY <1>14
<1> QED BY <1>1, <1>2, <1>3, <1>4, <1>5, <1>6, <1>7, <1>8, <1>9, <1>10, <1>11, <1>12, <1>13, <1>14
       DEF Next

-----------------------------------------------------------------------------
(* The rate                                                                  *)

\* The limiter holds the end of the list of admitted calls, and everything in
\* front of it is older than a window.
EndOf(k, list) ==
  /\ list \in Seq(Nat) /\ Len(list) = Len(admitted) - k
  /\ \A i \in 1..Len(list) : list[i] = admitted[k + i]
Holds(k) ==
  /\ EndOf(k, timestamps)
  /\ \A j \in 1..k : admitted[j] < now - Minute

InOrder ==
  /\ now \in Nat /\ admitted \in Seq(Nat)
  /\ \A i \in DOMAIN admitted : admitted[i] <= now
  /\ \A i, j \in DOMAIN admitted : i <= j => admitted[i] <= admitted[j]

RateInv ==
  /\ InOrder
  /\ \E k \in 0..Len(admitted) : Holds(k)
  /\ MinuteKept

\* A set of numbers with a member has a least one.
LEMMA LeastIn ==
  ASSUME NEW S, S \subseteq Nat, S # {}
  PROVE  \E x \in S : \A y \in S : x <= y
<1> DEFINE Below == {ss \in Nat \X Nat : ss[1] < ss[2]}
<1>1. IsWellFoundedOn(Below, Nat)
  BY NatLessThanWellFounded DEF OpToRel
<1>2. \A x, y \in Nat : <<y, x>> \in Below <=> y < x
  OBVIOUS
<1>3. PICK x \in S : \A y \in S : ~(<<y, x>> \in Below)
  <2> HIDE DEF Below
  <2> QED BY <1>1, WFMin
<1> HIDE DEF Below
<1>4. \A y \in S : ~(y < x)
  BY <1>2, <1>3
<1> QED BY <1>3, <1>4

\* What is dropped of the end of the list is older than the window.
LEMMA RecentHolds ==
  ASSUME InOrder, NEW k \in 0..Len(admitted), Holds(k)
  PROVE  \E m \in k..Len(admitted) :
           /\ EndOf(m, Recent)
           /\ \A j \in 1..m : admitted[j] < now - Minute
<1> DEFINE L == Len(admitted)
           kept == {i \in DOMAIN timestamps : timestamps[i] >= now - Minute}
<1>0. Minute \in Nat /\ now \in Nat /\ L \in Nat BY MiddlewareAssumption DEF InOrder
<1>1. Len(timestamps) = L - k /\ DOMAIN timestamps = 1..(L - k) /\ timestamps \in Seq(Nat)
      /\ \A i \in 1..(L - k) : timestamps[i] = admitted[k + i] /\ timestamps[i] \in Nat
  BY DEF Holds, EndOf
\* An admitted call behind the k oldest is in the limiter's list.
<1>2. ASSUME NEW j \in 1..L, j > k, ~((j - k) \in kept) PROVE admitted[j] < now - Minute
  <2>1. j - k \in 1..(L - k) /\ k + (j - k) = j BY <1>2, <1>0
  <2>2. timestamps[j - k] = admitted[j] /\ timestamps[j - k] \in Nat BY <1>1, <2>1
  <2>3. ~(timestamps[j - k] >= now - Minute) BY <1>1, <1>2, <2>1
  <2> QED BY <2>2, <2>3, <1>0
<1>3. CASE kept = {}
  <2>1. Recent = <<>> BY <1>3 DEF Recent, TimestampsFrom
  <2>2. EndOf(L, <<>>) BY <1>0 DEF EndOf
  <2>3. ASSUME NEW j \in 1..L PROVE admitted[j] < now - Minute
    <3>1. CASE j <= k BY <3>1 DEF Holds
    <3>2. CASE j > k BY <1>3, <1>2, <3>2
    <3> QED BY <3>1, <3>2
  <2> QED BY <2>1, <2>2, <2>3, <1>0
<1>4. CASE kept # {}
  <2> DEFINE f == CHOOSE i \in kept : \A j \in kept : i <= j
  <2>1. PICK least \in kept : \A j \in kept : least <= j
    <3>1. kept \subseteq Nat BY <1>1
    <3> QED BY <3>1, <1>4, LeastIn
  <2>2. f \in kept /\ \A j \in kept : f <= j BY <2>1
  <2>3. f \in 1..(L - k) BY <2>2, <1>1
  <2>4. Recent = SubSeq(timestamps, f, L - k) BY <1>1, <1>4 DEF Recent, TimestampsFrom
  <2> HIDE DEF f
  <2>5. EndOf(k + f - 1, Recent)
    <3>1. /\ SubSeq(timestamps, f, L - k) \in Seq(Nat)
          /\ Len(SubSeq(timestamps, f, L - k)) = L - k - f + 1
          /\ \A i \in 1..(L - k - f + 1) : SubSeq(timestamps, f, L - k)[i] = timestamps[f + i - 1]
      BY <1>0, <1>1, <2>3, SubSeqProperties
    <3>2. ASSUME NEW i \in 1..(L - k - f + 1) PROVE timestamps[f + i - 1] = admitted[(k + f - 1) + i]
      <4>1. f + i - 1 \in 1..(L - k) /\ k + (f + i - 1) = (k + f - 1) + i BY <1>0, <2>3
      <4> QED BY <1>1, <4>1
    <3>3. L - (k + f - 1) = L - k - f + 1 BY <1>0, <2>3
    <3> QED BY <2>4, <3>1, <3>2, <3>3 DEF EndOf
  <2>6. k + f - 1 \in k..L BY <1>0, <2>3
  <2>7. ASSUME NEW j \in 1..(k + f - 1) PROVE admitted[j] < now - Minute
    <3>1. CASE j <= k BY <3>1 DEF Holds
    <3>2. CASE j > k
      <4>1. j \in 1..L /\ ~(f <= j - k) BY <1>0, <2>3, <3>2
      <4> QED BY <1>2, <2>2, <3>2, <4>1
    <3> QED BY <3>1, <3>2
  <2> QED BY <2>5, <2>6, <2>7
<1> QED BY <1>3, <1>4

\* Every step keeps the rate: only Tick and Admit touch what RateInv speaks of.
LEMMA RateStep == ASSUME RateInv, MwStep PROVE RateInv'
<1> USE DEF RateInv
<1>0. Minute \in Nat /\ PerMinute \in Nat \ {0} /\ MaxTime \in Nat BY MiddlewareAssumption
<1>1. PICK k \in 0..Len(admitted) : Holds(k) OBVIOUS
<1>2. CASE UNCHANGED <<now, timestamps, admitted>>
  <2>1. InOrder' /\ MinuteKept' BY <1>2 DEF InOrder, MinuteKept
  <2>2. k \in 0..Len(admitted') /\ Holds(k)' BY <1>1, <1>2 DEF Holds, EndOf
  <2> QED BY <2>1, <2>2
<1>3. CASE Tick
  <2>1. now' = now + 1 /\ UNCHANGED <<timestamps, admitted>> BY <1>3 DEF Tick
  <2>2. InOrder' BY <2>1 DEF InOrder
  <2>3. MinuteKept' BY <2>1 DEF MinuteKept
  <2>4. k \in 0..Len(admitted') /\ Holds(k)'
    <3>1. \A j \in 1..k : admitted[j] \in Nat BY DEF InOrder
    <3>2. \A j \in 1..k : admitted[j] < now + 1 - Minute
      BY <1>0, <1>1, <3>1 DEF Holds, InOrder
    <3>3. EndOf(k, timestamps)' BY <1>1, <2>1 DEF Holds, EndOf
    <3>4. now' - Minute = now + 1 - Minute /\ admitted' = admitted
      BY <1>0, <2>1 DEF InOrder
    <3>5. \A j \in 1..k : admitted'[j] < now' - Minute BY <3>2, <3>4
    <3> QED BY <3>3, <3>4, <3>5 DEF Holds
  <2> QED BY <2>2, <2>3, <2>4
<1>4. CASE Admit
  <2> DEFINE L == Len(admitted)
  <2>1. PICK m \in k..L : EndOf(m, Recent) /\ \A j \in 1..m : admitted[j] < now - Minute
    BY <1>1, RecentHolds
  <2>2. now' = now /\ now \in Nat /\ L \in Nat BY <1>4 DEF Admit, InOrder
  <2>3. CASE Len(Recent) >= PerMinute
    <3>1. timestamps' = Recent /\ admitted' = admitted BY <1>4, <2>3 DEF Admit
    <3>2. InOrder' /\ MinuteKept' BY <2>2, <3>1 DEF InOrder, MinuteKept
    <3>3. EndOf(m, timestamps)' BY <2>1, <3>1 DEF EndOf
    <3>4. m \in 0..Len(admitted') /\ Holds(m)' BY <2>1, <2>2, <3>1, <3>3 DEF Holds
    <3> QED BY <3>2, <3>4
  <2>4. CASE ~(Len(Recent) >= PerMinute)
    <3>1. timestamps' = Append(Recent, now) /\ admitted' = Append(admitted, now)
      BY <1>4, <2>4 DEF Admit
    <3>2. /\ admitted' \in Seq(Nat) /\ Len(admitted') = L + 1 /\ DOMAIN admitted' = 1..(L + 1)
          /\ \A j \in 1..L : admitted'[j] = admitted[j] /\ admitted[j] \in Nat
          /\ admitted'[L + 1] = now
      BY <3>1 DEF InOrder
    <3>3. InOrder'
      <4>1. ASSUME NEW i \in DOMAIN admitted' PROVE admitted'[i] <= now'
        <5>1. CASE i \in 1..L
          <6>1. admitted[i] <= now BY <5>1 DEF InOrder
          <6> QED BY <2>2, <3>2, <5>1, <6>1
        <5>2. CASE i = L + 1 BY <2>2, <3>2, <5>2
        <5> QED BY <2>2, <3>2, <5>1, <5>2
      <4>2. ASSUME NEW i \in DOMAIN admitted', NEW j \in DOMAIN admitted', i <= j
            PROVE  admitted'[i] <= admitted'[j]
        <5>1. CASE j \in 1..L
          <6>1. i \in 1..L BY <3>2, <4>2, <5>1
          <6>2. admitted[i] <= admitted[j] BY <4>2, <5>1, <6>1 DEF InOrder
          <6> QED BY <3>2, <5>1, <6>1, <6>2
        <5>2. CASE j = L + 1 BY <2>2, <3>2, <4>1, <5>2
        <5> QED BY <2>2, <3>2, <5>1, <5>2
      <4> QED BY <2>2, <3>2, <4>1, <4>2 DEF InOrder
    <3>4. m \in 0..Len(admitted') /\ Holds(m)'
      <4>1. /\ timestamps' \in Seq(Nat) /\ Len(timestamps') = L - m + 1
            /\ \A i \in 1..(L - m) : timestamps'[i] = Recent[i]
            /\ timestamps'[L - m + 1] = now
        BY <2>1, <2>2, <3>1 DEF EndOf
      <4>2. ASSUME NEW i \in 1..(L - m + 1) PROVE timestamps'[i] = admitted'[m + i]
        <5>1. CASE i \in 1..(L - m)
          <6>1. m + i \in 1..L BY <2>2, <5>1
          <6>2. Recent[i] = admitted[m + i] BY <2>1, <5>1 DEF EndOf
          <6> QED BY <3>2, <4>1, <5>1, <6>1, <6>2
        <5>2. CASE i = L - m + 1
          <6>1. m + i = L + 1 BY <2>2, <5>2
          <6> QED BY <3>2, <4>1, <5>2, <6>1
        <5> QED BY <2>2, <5>1, <5>2
      <4>3. EndOf(m, timestamps)' BY <2>2, <3>2, <4>1, <4>2 DEF EndOf
      <4>4. ASSUME NEW j \in 1..m PROVE admitted'[j] < now' - Minute
        <5>1. j \in 1..L BY <2>2
        <5>2. admitted'[j] = admitted[j] BY <3>2, <5>1
        <5>3. admitted[j] < now - Minute BY <2>1
        <5> QED BY <2>2, <5>2, <5>3
      <4> QED BY <2>2, <3>2, <4>3, <4>4 DEF Holds
    <3>5. ASSUME NEW i \in DOMAIN admitted'
          PROVE  Cardinality({j \in 1..i : admitted'[j] >= admitted'[i] - Minute}) <= PerMinute
      <4>1. CASE i \in 1..L
        <5>1. {j \in 1..i : admitted'[j] >= admitted'[i] - Minute}
              = {j \in 1..i : admitted[j] >= admitted[i] - Minute}
          <6>1. \A j \in 1..i : j \in 1..L /\ admitted'[j] = admitted[j] BY <2>2, <3>2, <4>1
          <6> QED BY <4>1, <6>1
        <5>2. i \in DOMAIN admitted BY <4>1 DEF InOrder
        <5>3. Cardinality({j \in 1..i : admitted[j] >= admitted[i] - Minute}) <= PerMinute
          BY <5>2 DEF MinuteKept
        <5> QED BY <5>1, <5>3
      <4>2. CASE i = L + 1
        <5> DEFINE new == {j \in 1..i : admitted'[j] >= admitted'[i] - Minute}
        <5>1. new \subseteq (m + 1)..(L + 1)
          <6> SUFFICES ASSUME NEW j \in new, j <= m PROVE FALSE BY <4>2
          <6>1. j \in 1..m /\ admitted'[j] >= now - Minute BY <3>2, <4>2
          <6>2. admitted'[j] = admitted[j] /\ admitted[j] \in Nat BY <2>2, <3>2, <6>1
          <6> QED BY <2>1, <2>2, <6>1, <6>2, <1>0
        <5>2. IsFiniteSet((m + 1)..(L + 1)) /\ Cardinality((m + 1)..(L + 1)) = L + 1 - m
          BY FS_Interval
        <5>3. Cardinality(new) <= L + 1 - m
          <6> HIDE DEF new
          <6>1. PICK window : window = (m + 1)..(L + 1) OBVIOUS
          <6>2. new \subseteq window /\ IsFiniteSet(window) BY <5>1, <5>2, <6>1
          <6>3. Cardinality(new) <= Cardinality(window) BY <6>2, FS_Subset
          <6> QED BY <5>2, <6>1, <6>3
        <5>4. Len(Recent) = L - m BY <2>1, <2>2 DEF EndOf
        <5>5. IsFiniteSet(new) /\ Cardinality(new) \in Nat
          <6> HIDE DEF new
          <6> QED BY <5>1, <5>2, FS_Subset, FS_CardinalityType
        <5>6. L + 1 - m <= PerMinute BY <2>4, <5>4, <1>0
        <5> HIDE DEF new
        <5>7. Cardinality(new) <= PerMinute BY <5>3, <5>5, <5>6, <1>0
        <5> QED BY <5>7 DEF new
      <4> QED BY <3>2, <4>1, <4>2
    <3>6. MinuteKept' BY <3>5 DEF MinuteKept
    <3> QED BY <3>3, <3>4, <3>6
  <2> QED BY <2>3, <2>4
<1>5. CASE \E c \in Wrapped : Begin(c) BY <1>5, <1>2 DEF Begin
<1>6. CASE Work /\ ~Admit BY <1>6, <1>2 DEF Work, CheckFresh, Read, Write, FailToWrite, Record, Hash
<1>7. CASE Intrude BY <1>7, <1>2 DEF Intrude
<1>8. CASE UNCHANGED mwVars BY <1>8, <1>2 DEF mwVars
<1> QED BY <1>3, <1>4, <1>5, <1>6, <1>7, <1>8 DEF MwStep, Work, World

\* However the calls fall, no window sees more than per_minute admitted.
THEOREM Rate == Spec => []MinuteKept
<1>1. Init => RateInv
  <2> SUFFICES ASSUME Init PROVE RateInv OBVIOUS
  <2>1. now = 0 /\ timestamps = <<>> /\ admitted = <<>> BY DEF Init, MiddlewareInit
  <2>2. InOrder BY <2>1 DEF InOrder
  <2>3. 0 \in 0..Len(admitted) /\ Holds(0) BY <2>1 DEF Holds, EndOf
  <2>4. MinuteKept BY <2>1 DEF MinuteKept
  <2> QED BY <2>2, <2>3, <2>4 DEF RateInv
<1>2. RateInv /\ [Next]_vars => RateInv' BY RateStep, StepsOf
<1>3. RateInv => MinuteKept BY DEF RateInv
<1> QED BY <1>1, <1>2, <1>3, PTL DEF Spec

-----------------------------------------------------------------------------
(* The file                                                                  *)

\* The hash is of a content that was seen; a window never opens on one that was
\* not; and of a file nobody else touches, the text of a write that was done is
\* on disk or is what the guard compares with, so that it is not written again
\* over anything else.
FileInv ==
  /\ disk \in Contents \cup {Absent} /\ hash \in Contents \cup {None}
  /\ step \in Steps /\ applied \in Nat
  /\ call = "write" => text \in Contents
  /\ call = "read" => applied = 0
  /\ hash # None => hash \in seen
  /\ Window => disk \in seen \cup {Absent}
  /\ ~blind
  /\ applied >= 1 => disk = text \/ text = hash
  /\ step \in {"record", "hash"} /\ applied >= 1 => disk = text
  /\ step = "handle" /\ call = "write" /\ applied >= 1 => text = hash
  /\ applied > 1 => text = hash

\* A wrapped call that raises goes back to the start or ends.
LEMMA Raised ==
  ASSUME Raise
  PROVE  step' \in {"admit", "idle"} /\ text' = text /\ call' \in {call, "none"}
BY DEF Raise, End

\* A call that raises, its file as it was, or with what it was called for done.
LEMMA RaisedFile ==
  ASSUME FileInv, Raise, UNCHANGED <<disk, hash, seen, blind, applied>>
  PROVE  FileInv'
<1>1. step' \in {"admit", "idle"} /\ text' = text /\ call' \in {call, "none"} BY Raised
<1> QED BY <1>1 DEF FileInv, Window, Steps

\* A call that goes on to a step with no window.
LEMMA GoneFile ==
  ASSUME FileInv, NEW s \in {"check", "handle"}, Go(s), s = "handle" => call # "write",
         UNCHANGED <<disk, hash, seen, blind, applied>>
  PROVE  FileInv'
BY DEF FileInv, Go, Window, Steps

\* Every step of the wrappers and of the world keeps it.
LEMMA FileStep == ASSUME FileInv, MwStep PROVE FileInv'
<1>0. Absent \notin Contents /\ None \notin Contents /\ Absent # None
  BY MiddlewareAssumption DEF Absent, None
<1>1. CASE UNCHANGED mwVars BY <1>1 DEF FileInv, mwVars, callVars, Window
<1>2. CASE Tick BY <1>2 DEF FileInv, Tick, callVars, Window
<1>3. CASE Intrude
  <2>1. /\ disk' \in Contents \cup {Absent} /\ applied' = 0
        /\ seen' = (IF Window /\ disk' # Absent THEN seen \cup {disk'} ELSE seen)
        /\ UNCHANGED <<hash, call, text, step, blind>>
    BY <1>3 DEF Intrude, callVars
  <2>2. Window' = Window BY <2>1 DEF Window
  <2>3. seen \subseteq seen' /\ (Window => disk' \in seen' \cup {Absent}) BY <2>1
  <2> QED BY <2>1, <2>2, <2>3 DEF FileInv
<1>4. ASSUME NEW c \in Wrapped, Begin(c) PROVE FileInv'
  <2>1. /\ call' = c /\ step' = "admit" /\ applied' = 0 /\ UNCHANGED <<disk, hash, seen, blind>>
        /\ c = "write" => text' \in Contents
    BY <1>4 DEF Begin
  <2> QED BY <2>1 DEF FileInv, Window, Steps
<1>5. CASE Admit
  <2>1. UNCHANGED <<disk, hash, seen, blind, applied>> BY <1>5 DEF Admit
  <2>2. CASE Raise BY <2>1, <2>2, RaisedFile
  <2>3. CASE ~Raise
    <3>1. Go(IF call = "write" THEN "check" ELSE "handle") BY <1>5, <2>3 DEF Admit
    <3> QED BY <2>1, <3>1, GoneFile
  <2> QED BY <2>2, <2>3
<1>6. CASE CheckFresh
  <2>1. UNCHANGED <<disk, hash, seen, blind, applied>> BY <1>6 DEF CheckFresh
  <2>2. CASE Fresh
    <3>1. step' = "handle" /\ UNCHANGED <<call, text>> BY <1>6, <2>2 DEF CheckFresh, Go
    <3>2. disk \in seen \cup {Absent} BY <2>2 DEF Fresh, FileInv
    <3>3. call = "write" /\ applied >= 1 => text = hash
      <4>1. CASE hash = None BY <1>0, <2>2, <4>1 DEF Fresh, FileInv
      <4>2. CASE hash # None BY <2>2, <4>2 DEF Fresh, FileInv
      <4> QED BY <4>1, <4>2
    <3> QED BY <2>1, <3>1, <3>2, <3>3 DEF FileInv, Window, Steps
  <2>3. CASE ~Fresh BY <1>6, <2>1, <2>3, RaisedFile DEF CheckFresh
  <2> QED BY <2>2, <2>3
<1>7. CASE Read
  <2>1. UNCHANGED <<disk, hash, blind, applied>> /\ call = "read" BY <1>7 DEF Read
  <2>2. CASE disk = Absent BY <1>7, <2>1, <2>2, RaisedFile DEF Read
  <2>3. CASE disk # Absent
    <3>1. step' = "record" /\ seen' = seen \cup {disk} /\ UNCHANGED <<call, text>>
      BY <1>7, <2>3 DEF Read, Go
    <3> QED BY <2>1, <3>1 DEF FileInv, Window, Steps
  <2> QED BY <2>2, <2>3
<1>8. CASE Write
  <2>1. /\ step = "handle" /\ call = "write" /\ text \in Contents /\ disk \in seen \cup {Absent}
        /\ applied >= 1 => text = hash
        /\ hash' = hash
    BY <1>8 DEF Write, Window, FileInv
  <2>2. PICK content \in Contents :
          /\ WriteFile(content)
          /\ \/ content = text /\ Go("record")
             \/ Raise
    BY <1>8, <2>1 DEF Write
  <2>3. /\ disk' = content /\ seen' = seen \cup {content} /\ ~blind'
        /\ applied' = IF content = text THEN applied + 1 ELSE applied
    BY <2>1, <2>2 DEF WriteFile, FileInv
  <2>4. /\ text' = text /\ call' \in {call, "none"}
        /\ step' \in {"record", "admit", "idle"} /\ (step' = "record" => content = text)
    BY <2>2, Raised DEF Go
  <2>5. applied' \in Nat /\ (applied' > 1 => applied >= 1) /\ (applied' >= 1 => content = text \/ applied >= 1)
    BY <2>3 DEF FileInv
  <2> QED BY <2>1, <2>3, <2>4, <2>5 DEF FileInv, Window, Steps
<1>9. CASE FailToWrite BY <1>9, RaisedFile DEF FailToWrite
<1>10. CASE Record
  <2>1. UNCHANGED <<disk, hash, seen, blind, applied>> /\ step = "record" BY <1>10 DEF Record
  <2>2. UNCHANGED text /\ ((step' = "idle" /\ call' = "none") \/ (step' = "hash" /\ call' = call))
    BY <1>10 DEF Record, End, Go
  <2> QED BY <2>1, <2>2 DEF FileInv, Window, Steps
<1>11. CASE Hash
  <2>1. UNCHANGED <<disk, blind, applied>> /\ step = "hash" BY <1>11 DEF Hash
  <2>2. CASE disk = Absent BY <1>11, <2>1, <2>2, RaisedFile DEF Hash
  <2>3. CASE disk # Absent
    <3>1. /\ hash' = disk /\ seen' = {disk} /\ call' = "none" /\ step' = "idle" /\ text' = text
      BY <1>11, <2>3 DEF Hash, End
    <3> QED BY <2>1, <2>3, <3>1 DEF FileInv, Window, Steps
  <2> QED BY <2>2, <2>3
<1> QED BY <1>1, <1>2, <1>3, <1>4, <1>5, <1>6, <1>7, <1>8, <1>9, <1>10, <1>11 DEF MwStep, Work, World

\* A write never goes over a content that was not seen, unless it came where the
\* guard cannot see; and a write that was done is done again only over the
\* content of the hash, or when another process changed the file.
THEOREM FileKept == Spec => []NothingWrittenOver
<1>1. Init => FileInv
  BY DEF Init, MiddlewareInit, FileInv, Steps, Window
<1>2. FileInv /\ [Next]_vars => FileInv' BY FileStep, StepsOf
<1>3. FileInv => NothingWrittenOver BY DEF FileInv, NothingWrittenOver
<1> QED BY <1>1, <1>2, <1>3, PTL DEF Spec

-----------------------------------------------------------------------------
(* What loading and the loop keep                                            *)

\* What a point of the session holds; and a manifest that validation let pass.
Handlers == [name : STRING, on_error : OnErrors]
Accepted ==
  ValidTools(manifest.tools) /\ ValidStrategies(manifest.strategies) /\ ValidHooks(manifest.hooks)

\* What each stage of loading has established: the manifest is valid, its
\* classes are known, its tools are registered, its provider streams.
StagesInv ==
  /\ stage \notin {"validate", "refused"} => Accepted
  /\ stage \in {"hooks", "built", "install", "ready"} =>
       \A k \in DOMAIN manifest.strategies : manifest.strategies[k].name \in STRATEGY_CLASSES
  /\ stage \notin {"validate", "registry", "refused"} =>
       /\ \A k \in DOMAIN manifest.tools :
            /\ manifest.tools[k].name \in DOMAIN registry
            /\ registry[manifest.tools[k].name] = manifest.tools[k].handler
       /\ Cardinality(DOMAIN registry) = Len(manifest.tools)
  /\ stage \in {"strategies", "hooks", "built", "install", "ready"} =>
       (manifest.provider.kind # "mock" => streaming)
  /\ stage = "ready" => installed = Len(Installing)

\* Those installed so far listen, in their order, and nobody else.
HooksInv ==
  \A p \in Points :
    /\ Len(hooks[p]) = Cardinality(Upto(installed, p))
    /\ \A k \in Upto(installed, p) : hooks[p][Cardinality(Upto(k, p))] = Handler(Installing[k])

\* The state of loading at any of its stages.
LoadInv ==
  /\ source \in DOMAIN Manifests /\ facade \in {"agent", "runtime"}
  /\ stage \in {"validate", "registry", "provider", "strategies", "hooks", "built", "install",
                "ready", "refused"}
  /\ (stage = "refused") = (refusal # "none")
  /\ streaming \in BOOLEAN /\ installed \in 0..Len(Installing)
  /\ hooks \in [Points -> Seq(Handlers)]
  /\ StagesInv /\ HooksInv

\* Behind a boundary, what it refuses.
Refusable == {"outside", "half", "unsupported"}
Dispatched == {"ok", "error", "rejected"}
Outcomes == Dispatched \cup {"incomplete"}

\* The bad results at the end of the log are counted; as long as no guard has
\* stopped the loop, there were never more of them in a row than allowed.
Trails(bad, count) ==
  \A m \in 1..Len(results) :
    Unbroken(bad, m, Len(results)) => Cardinality(BadIn(bad, m, Len(results))) <= count
ResultsInv ==
  /\ Trails({"error", "rejected"}, failures) /\ Trails({"rejected"}, rejections)
  /\ ~fatal => ~InARow({"error", "rejected"}, MaxFailures) /\ ~InARow({"rejected"}, MaxRejections)

\* A batch is of what its boundary knows, and a call the boundary refuses was
\* allowed only if the loop is to stop and the boundary could not stop it.
BatchInv ==
  /\ n \in 1..(Len(batch) + 1) /\ \A m \in DOMAIN batch : batch[m] \in KeysBehind[Boundary]
  /\ Len(verdicts) = IF pc = "decide" THEN n - 1 ELSE Len(batch)
  /\ pc = "tool" => n <= Len(batch)
  /\ (\E m \in DOMAIN verdicts : batch[m] \in Refusable /\ verdicts[m] = "allow") => fatal /\ ~FailsTurn

\* The types of the loop, of the guards and of the log.
LoopTypes ==
  /\ pc \in {"idle", "project", "call", "decide", "dispatch", "tool"}
  /\ turn \in 0..Turns /\ runs \in 0..MaxRuns /\ used \in Nat /\ fatal \in BOOLEAN
  /\ checks \in Nat /\ n \in Nat /\ batch \in Seq(Keys)
  /\ verdicts \in Seq({"allow", "deny"})
  /\ calls \in [Keys -> Nat] /\ failures \in Nat /\ rejections \in Nat /\ violations \in Nat
  /\ results \in Seq(Outcomes)

\* The loop runs over an agent that was handed out; as long as nothing is to
\* stop it, no counter is at its limit, and the provider is only called then.
LoopInv ==
  /\ LoopTypes
  /\ pc # "idle" => Running
  /\ pc = "call" => ~fatal /\ used <= MaxTokens
  /\ pc \in {"decide", "dispatch", "tool"} => BatchInv
  /\ ~fatal => \A key \in Keys : calls[key] < MaxIdentical
  /\ ResultsInv

-----------------------------------------------------------------------------
(* Loading                                                                   *)

\* What is installed are the strategies and behind them the hooks.
LEMMA InstallingIs ==
  ASSUME source \in DOMAIN Manifests
  PROVE  LET s == manifest.strategies
             h == manifest.hooks
         IN  /\ Len(s) \in Nat /\ Len(h) \in Nat /\ Len(Installing) = Len(s) + Len(h)
             /\ DOMAIN s = 1..Len(s) /\ DOMAIN h = 1..Len(h) /\ DOMAIN Installing = 1..Len(Installing)
             /\ \A k \in 1..Len(s) : Installing[k] = s[k] /\ s[k].name \in STRING
             /\ \A k \in (Len(s) + 1)..Len(Installing) :
                  /\ k - Len(s) \in 1..Len(h)
                  /\ Installing[k] = h[k - Len(s)] /\ h[k - Len(s)].name \in STRING
<1> DEFINE S == [name : STRING, on_error : STRING, canonical : BOOLEAN, config : BOOLEAN, prompt : STRING]
           H == [name : STRING, handler : STRING, point : STRING, shaped : BOOLEAN, on_error : STRING]
<1>1. PICK s, h : s = manifest.strategies /\ h = manifest.hooks OBVIOUS
<1>2. s \in Seq(S) /\ h \in Seq(H) BY <1>1, ManifestsAssumption DEF ManifestsAssumption, manifest
<1>3. Installing = s \o h BY <1>1 DEF Installing
<1>4. (\A x \in S : x.name \in STRING) /\ (\A x \in H : x.name \in STRING) OBVIOUS
<1> HIDE DEF S, H
<1>5. /\ Len(s) \in Nat /\ Len(h) \in Nat /\ Len(s \o h) = Len(s) + Len(h)
      /\ DOMAIN s = 1..Len(s) /\ DOMAIN h = 1..Len(h) /\ DOMAIN (s \o h) = 1..(Len(s) + Len(h))
      /\ \A k \in 1..Len(s) : (s \o h)[k] = s[k] /\ s[k] \in S
      /\ \A k \in (Len(s) + 1)..(Len(s) + Len(h)) :
           k - Len(s) \in 1..Len(h) /\ (s \o h)[k] = h[k - Len(s)] /\ h[k - Len(s)] \in H
  BY <1>2
<1> QED BY <1>1, <1>3, <1>4, <1>5

\* One more of them, at the points it listens at.
LEMMA OneListens ==
  ASSUME LoadInv, Accepted, installed < Len(Installing), installed' = installed + 1,
         source' = source, NEW points,
         \A p \in Points : p \in points <=> ListensTo(installed + 1, p),
         Listen(Installing[installed + 1], points)
  PROVE  HooksInv' /\ hooks' \in [Points -> Seq(Handlers)]
<1>0. source \in DOMAIN Manifests /\ installed \in 0..Len(Installing) /\ hooks \in [Points -> Seq(Handlers)]
  BY DEF LoadInv
<1>1. PICK c \in Nat : c = installed BY <1>0, InstallingIs
<1>2. PICK e : e = Handler(Installing[c + 1]) OBVIOUS
<1>3. e \in Handlers
  <2>1. c + 1 \in 1..Len(Installing) BY <1>0, <1>1, InstallingIs
  <2>2. CASE c + 1 <= Len(manifest.strategies)
    <3>1. c + 1 \in 1..Len(manifest.strategies) BY <1>1, <2>2
    <3>2. Installing[c + 1] = manifest.strategies[c + 1] /\ Installing[c + 1].name \in STRING
          /\ c + 1 \in DOMAIN manifest.strategies
      BY <1>0, <3>1, InstallingIs
    <3>3. Installing[c + 1].on_error \in OnErrors BY <3>2 DEF Accepted, ValidStrategies
    <3> QED BY <1>2, <3>2, <3>3 DEF Handler, Handlers
  <2>3. CASE ~(c + 1 <= Len(manifest.strategies))
    <3>1. c + 1 \in (Len(manifest.strategies) + 1)..Len(Installing) BY <1>0, <1>1, <2>1, <2>3, InstallingIs
    <3>2. PICK j \in DOMAIN manifest.hooks : Installing[c + 1] = manifest.hooks[j]
                                             /\ manifest.hooks[j].name \in STRING
      BY <1>0, <3>1, InstallingIs
    <3>3. Installing[c + 1].on_error \in OnErrors BY <3>2 DEF Accepted, ValidHooks
    <3> QED BY <1>2, <3>2, <3>3 DEF Handler, Handlers
  <2> QED BY <2>2, <2>3
<1>4. \A k, p : Upto(k, p)' = Upto(k, p) BY DEF Upto, ListensTo, manifest, Installing
<1>5. Installing' = Installing BY DEF manifest, Installing
<1>6. hooks' = [p \in Points |-> IF p \in points THEN Append(hooks[p], e) ELSE hooks[p]]
  BY <1>1, <1>2 DEF Listen
<1>7. ASSUME NEW p \in Points
      PROVE  /\ hooks'[p] \in Seq(Handlers)
             /\ Len(hooks'[p]) = Cardinality(Upto(c + 1, p))
             /\ \A k \in Upto(c + 1, p) : hooks'[p][Cardinality(Upto(k, p))] = Handler(Installing[k])
  <2>1. /\ hooks[p] \in Seq(Handlers) /\ Len(hooks[p]) = Cardinality(Upto(c, p))
        /\ \A k \in Upto(c, p) : hooks[p][Cardinality(Upto(k, p))] = Handler(Installing[k])
    BY <1>0, <1>1 DEF LoadInv, HooksInv
  <2>2. IsFiniteSet(Upto(c, p)) /\ c + 1 \notin Upto(c, p)
    <3>1. IsFiniteSet(1..c) /\ c + 1 \notin 1..c BY <1>1, FS_Interval
    <3> QED BY <3>1, FS_Subset DEF Upto
  <2>3. CASE p \in points
    <3>1. ListensTo(c + 1, p) BY <1>1, <2>3
    <3>2. Upto(c + 1, p) = Upto(c, p) \cup {c + 1}
      <4>1. 1..(c + 1) = (1..c) \cup {c + 1} BY <1>1
      <4> QED BY <3>1, <4>1 DEF Upto
    <3>3. Cardinality(Upto(c + 1, p)) = Cardinality(Upto(c, p)) + 1 /\ Cardinality(Upto(c, p)) \in Nat
      BY <2>2, <3>2, FS_AddElement, FS_CardinalityType
    <3>4. hooks'[p] = Append(hooks[p], e) BY <1>6, <2>3
    <3>5. /\ hooks'[p] \in Seq(Handlers) /\ Len(hooks'[p]) = Len(hooks[p]) + 1
          /\ \A j \in 1..Len(hooks[p]) : hooks'[p][j] = hooks[p][j]
          /\ hooks'[p][Len(hooks[p]) + 1] = e
      BY <1>3, <2>1, <3>4, AppendProperties
    <3>6. ASSUME NEW k \in Upto(c + 1, p) PROVE hooks'[p][Cardinality(Upto(k, p))] = Handler(Installing[k])
      <4>1. CASE k = c + 1 BY <1>2, <2>1, <3>3, <3>5, <4>1
      <4>2. CASE k # c + 1
        <5>1. k \in Upto(c, p) BY <3>2, <4>2
        <5>2. Cardinality(Upto(k, p)) \in 1..Len(hooks[p])
          <6>1. Upto(k, p) \subseteq Upto(c, p) /\ k \in Upto(k, p)
            BY <1>1, <5>1 DEF Upto
          <6>2. Cardinality(Upto(k, p)) <= Cardinality(Upto(c, p)) /\ IsFiniteSet(Upto(k, p))
            BY <2>2, <6>1, FS_Subset
          <6>3. Cardinality(Upto(k, p)) \in Nat /\ Cardinality(Upto(k, p)) # 0
            BY <6>1, <6>2, FS_CardinalityType, FS_EmptySet
          <6> QED BY <2>1, <3>3, <6>2, <6>3
        <5> QED BY <2>1, <3>5, <5>1, <5>2
      <4> QED BY <4>1, <4>2
    <3> QED BY <2>1, <3>3, <3>5, <3>6
  <2>4. CASE p \notin points
    <3>1. ~ListensTo(c + 1, p) BY <1>1, <2>4
    <3>2. Upto(c + 1, p) = Upto(c, p)
      <4>1. 1..(c + 1) = (1..c) \cup {c + 1} BY <1>1
      <4> QED BY <3>1, <4>1 DEF Upto
    <3>3. hooks'[p] = hooks[p] BY <1>6, <2>4
    <3> QED BY <2>1, <3>2, <3>3
  <2> QED BY <2>3, <2>4
<1>8. hooks' \in [Points -> Seq(Handlers)] BY <1>6, <1>7
<1>9. HooksInv' BY <1>1, <1>4, <1>5, <1>7 DEF HooksInv
<1> QED BY <1>8, <1>9

\* Everybody installed is found at each point it listens at.
LEMMA FoundListening ==
  ASSUME LoadInv, stage = "ready", NEW k \in DOMAIN Installing, NEW p \in Points, ListensTo(k, p)
  PROVE  \E j \in DOMAIN hooks[p] : hooks[p][j] = Handler(Installing[k])
<1>0. Len(Installing) \in Nat BY InstallingIs DEF LoadInv
<1>1. PICK c \in Nat : c = Len(Installing) BY <1>0
<1>2. /\ hooks[p] \in Seq(Handlers) /\ Len(hooks[p]) = Cardinality(Upto(c, p))
      /\ \A i \in Upto(c, p) : hooks[p][Cardinality(Upto(i, p))] = Handler(Installing[i])
  BY <1>1 DEF LoadInv, StagesInv, HooksInv
<1>3. k \in Upto(c, p) /\ k \in 1..c BY <1>1, InstallingIs DEF Upto, LoadInv
<1>4. IsFiniteSet(Upto(c, p))
  <2>1. IsFiniteSet(1..c) BY FS_Interval
  <2> QED BY <2>1, FS_Subset DEF Upto
<1>5. Upto(k, p) \subseteq Upto(c, p) /\ k \in Upto(k, p) BY <1>3 DEF Upto
<1>6. Cardinality(Upto(k, p)) <= Cardinality(Upto(c, p)) /\ IsFiniteSet(Upto(k, p))
  BY <1>4, <1>5, FS_Subset
<1>7. Cardinality(Upto(k, p)) \in Nat /\ Cardinality(Upto(k, p)) # 0 /\ Cardinality(Upto(c, p)) \in Nat
  BY <1>4, <1>5, <1>6, FS_CardinalityType, FS_EmptySet
<1>8. Cardinality(Upto(k, p)) \in DOMAIN hooks[p] BY <1>2, <1>6, <1>7
<1> QED BY <1>2, <1>3, <1>8

\* Every tool is registered, under a name of its own.
LEMMA RegistryBuilt ==
  ASSUME LoadInv, BuildRegistry, stage' # "refused"
  PROVE  /\ \A k \in DOMAIN manifest.tools :
              /\ manifest.tools[k].name \in DOMAIN registry'
              /\ registry'[manifest.tools[k].name] = manifest.tools[k].handler
         /\ Cardinality(DOMAIN registry') = Len(manifest.tools)
<1> DEFINE T == [name : STRING, handler : STRING, shaped : BOOLEAN]
<1>1. PICK t : t = manifest.tools OBVIOUS
<1>2. t \in Seq(T) BY <1>1, ManifestsAssumption DEF ManifestsAssumption, manifest, LoadInv
<1> DEFINE named == {t[k].name : k \in DOMAIN t}
           HandlerOf(c) == (CHOOSE k \in DOMAIN t : t[k].name = c)
<1>3. registry' = [c \in named |-> t[HandlerOf(c)].handler]
  BY <1>1 DEF BuildRegistry, Refuse
<1>4. \A k, j \in DOMAIN t : t[k].name = t[j].name => k = j
  BY <1>1 DEF BuildRegistry, LoadInv, StagesInv, Accepted, ValidTools
<1>5. \A k \in DOMAIN t : HandlerOf(t[k].name) = k BY <1>4
<1>6. \A k \in DOMAIN t : t[k].name \in DOMAIN registry' /\ registry'[t[k].name] = t[k].handler
  <2>1. DOMAIN registry' = named /\ \A c \in named : registry'[c] = t[HandlerOf(c)].handler
    <3> HIDE DEF HandlerOf, named
    <3> QED BY <1>3
  <2> HIDE DEF HandlerOf
  <2> QED BY <1>5, <2>1
<1>7. Cardinality(DOMAIN registry') = Len(t)
  <2>1. DOMAIN registry' = named BY <1>3
  <2> HIDE DEF T
  <2>2. Len(t) \in Nat /\ DOMAIN t = 1..Len(t) BY <1>2, LenProperties
  <2>3. IsFiniteSet(1..Len(t)) /\ Cardinality(1..Len(t)) = Len(t)
    <3>1. PICK l \in Nat : l = Len(t) BY <2>2
    <3>2. IsFiniteSet(1..l) /\ Cardinality(1..l) = l BY FS_Interval
    <3> QED BY <3>1, <3>2
  <2> DEFINE f == [k \in DOMAIN t |-> t[k].name]
  <2>4. f \in Bijection(DOMAIN t, named)
    <3>1. f \in [DOMAIN t -> named] OBVIOUS
    <3>2. \A a, b \in DOMAIN t : f[a] = f[b] => a = b BY <1>4
    <3>3. \A x \in named : \E a \in DOMAIN t : f[a] = x OBVIOUS
    <3> HIDE DEF f, named
    <3> QED BY <3>1, <3>2, <3>3, Fun_IsBij
  <2> HIDE DEF f, named
  <2>5. ExistsBijection(DOMAIN t, named) BY <2>4 DEF ExistsBijection
  <2>6. Cardinality(named) = Cardinality(DOMAIN t) BY <2>2, <2>3, <2>5, FS_Bijection
  <2> QED BY <2>1, <2>2, <2>3, <2>6
<1> QED BY <1>1, <1>6, <1>7

\* Every step of loading establishes what its stage says.
LEMMA LoadStep == ASSUME LoadInv, Loading PROVE LoadInv'
<1>0. source' = source /\ facade' = facade
  BY DEF Loading, Validate, BuildRegistry, BuildProvider, BuildStrategies, BuildHooks,
         InstallStrategies, InstallStrategy, InstallHook, Return, Refuse
<1>1. manifest' = manifest /\ Installing' = Installing BY <1>0 DEF manifest, Installing
<1>2. Accepted' <=> Accepted BY <1>1 DEF Accepted
<1>3. ASSUME UNCHANGED <<hooks, installed>> PROVE HooksInv'
  <2>1. \A k, p : Upto(k, p)' = Upto(k, p) BY <1>1 DEF Upto, ListensTo
  <2> QED BY <1>1, <1>3, <2>1 DEF LoadInv, HooksInv
<1>4. ASSUME NEW class, class # "none", Refuse(class) PROVE LoadInv'
  <2>1. HooksInv' BY <1>3, <1>4 DEF Refuse
  <2>2. StagesInv' BY <1>4 DEF Refuse, StagesInv
  <2> QED BY <1>0, <1>1, <1>4, <2>1, <2>2 DEF Refuse, LoadInv
<1>5. ASSUME stage # "refused", stage' # "refused", refusal' = refusal, streaming' \in BOOLEAN,
             stage' \in {"registry", "provider", "strategies", "hooks", "built", "install", "ready"},
             UNCHANGED <<hooks, installed>>, StagesInv'
      PROVE  LoadInv'
  <2>1. HooksInv' BY <1>3, <1>5
  <2>2. (stage' = "refused") = (refusal' # "none") BY <1>5 DEF LoadInv
  <2> QED BY <1>0, <1>1, <1>5, <2>1, <2>2 DEF LoadInv
<1>6. CASE Validate
  <2>1. CASE stage' = "registry"
    <3>1. UNCHANGED <<refusal, registry, streaming, installed, hooks>> /\ stage = "validate"
          /\ Accepted
      BY <1>6, <2>1 DEF Validate, Refuse, Accepted
    <3>2. StagesInv' BY <1>2, <2>1, <3>1 DEF StagesInv
    <3> QED BY <1>5, <2>1, <3>1, <3>2 DEF LoadInv
  <2>2. CASE stage' # "registry"
    <3>1. \E class \in {"ValidationError", "UnsupportedVersionError", "UnknownProviderError"} : Refuse(class)
      BY <1>6, <2>2 DEF Validate
    <3> QED BY <1>4, <3>1
  <2> QED BY <2>1, <2>2
<1>7. CASE BuildRegistry
  <2>1. CASE stage' = "refused"
    <3>1. Refuse("UnresolvedHandlerError") BY <1>7, <2>1 DEF BuildRegistry
    <3> QED BY <1>4, <3>1
  <2>2. CASE stage' # "refused"
    <3>1. stage = "registry" /\ stage' = "provider" /\ UNCHANGED <<refusal, streaming, installed, hooks>>
      BY <1>7, <2>2 DEF BuildRegistry, Refuse
    <3>2. StagesInv' BY <1>1, <1>2, <1>7, <2>2, <3>1, RegistryBuilt DEF LoadInv, StagesInv
    <3> QED BY <1>5, <3>1, <3>2 DEF LoadInv
  <2> QED BY <2>1, <2>2
<1>8. CASE BuildProvider
  <2>1. CASE stage' = "refused"
    <3>1. Refuse("ManifestError") BY <1>8, <2>1 DEF BuildProvider
    <3> QED BY <1>4, <3>1
  <2>2. CASE stage' # "refused"
    <3>1. /\ stage = "provider" /\ stage' = "strategies" /\ UNCHANGED <<refusal, registry, installed, hooks>>
          /\ streaming' = (manifest.provider.kind # "mock" \/ manifest.provider.kind \in StreamProviders)
      BY <1>8, <2>2 DEF BuildProvider, Refuse
    <3>2. StagesInv' BY <1>1, <1>2, <3>1 DEF LoadInv, StagesInv
    <3>3. streaming' \in BOOLEAN BY <3>1
    <3> QED BY <1>5, <3>1, <3>2, <3>3
  <2> QED BY <2>1, <2>2
<1>9. CASE BuildStrategies
  <2>1. CASE stage' = "refused"
    <3>1. \E class \in {"UnknownStrategyError", "UnresolvedHandlerError"} : Refuse(class)
      BY <1>9, <2>1 DEF BuildStrategies
    <3> QED BY <1>4, <3>1
  <2>2. CASE stage' # "refused"
    <3>1. /\ stage = "strategies" /\ stage' = "hooks" /\ UNCHANGED <<refusal, registry, streaming, installed, hooks>>
          /\ \A k \in DOMAIN manifest.strategies : manifest.strategies[k].name \in STRATEGY_CLASSES
      BY <1>9, <2>2 DEF BuildStrategies, Refuse
    <3>2. StagesInv' BY <1>1, <1>2, <3>1 DEF LoadInv, StagesInv
    <3> QED BY <1>5, <3>1, <3>2 DEF LoadInv
  <2> QED BY <2>1, <2>2
<1>10. CASE BuildHooks
  <2>1. CASE stage' = "refused"
    <3>1. Refuse("UnresolvedHandlerError") BY <1>10, <2>1 DEF BuildHooks
    <3> QED BY <1>4, <3>1
  <2>2. CASE stage' # "refused"
    <3>1. /\ stage = "hooks" /\ stage' \in {"install", "built"}
          /\ UNCHANGED <<refusal, registry, streaming, installed, hooks>>
      BY <1>10, <2>2 DEF BuildHooks, Refuse
    <3>2. StagesInv' BY <1>1, <1>2, <3>1 DEF LoadInv, StagesInv
    <3> QED BY <1>5, <3>1, <3>2 DEF LoadInv
  <2> QED BY <2>1, <2>2
<1>11. CASE InstallStrategies
  <2>1. /\ stage = "built" /\ stage' = "install"
        /\ UNCHANGED <<refusal, registry, streaming, installed, hooks>>
    BY <1>11 DEF InstallStrategies
  <2>2. StagesInv' BY <1>1, <1>2, <2>1 DEF LoadInv, StagesInv
  <2> QED BY <1>5, <2>1, <2>2 DEF LoadInv
<1>12. ASSUME stage = "install", installed < Len(Installing), installed' = installed + 1,
              UNCHANGED <<stage, refusal, registry, streaming>>,
              HooksInv', hooks' \in [Points -> Seq(Handlers)]
       PROVE  LoadInv'
  <2>1. installed' \in 0..Len(Installing)
    <3>1. Len(Installing) \in Nat BY InstallingIs DEF LoadInv
    <3> QED BY <1>12, <3>1 DEF LoadInv
  <2>2. StagesInv' BY <1>1, <1>2, <1>12 DEF LoadInv, StagesInv
  <2> QED BY <1>0, <1>1, <1>12, <2>1, <2>2 DEF LoadInv
<1>13. CASE InstallStrategy
  <2>1. CASE stage' = "refused"
    <3>1. Refuse("TypeError") BY <1>13, <2>1 DEF InstallStrategy
    <3> QED BY <1>4, <3>1
  <2>2. CASE stage' # "refused"
    <3> DEFINE s == manifest.strategies[installed + 1]
    <3>1. /\ stage = "install" /\ installed < Len(manifest.strategies) /\ installed' = installed + 1
          /\ Listen(s, ListensAt[s.name]) /\ UNCHANGED <<stage, refusal, registry, streaming>>
      BY <1>13, <2>2 DEF InstallStrategy, Refuse
    <3>2. installed < Len(Installing) /\ Installing[installed + 1] = s
          /\ installed + 1 <= Len(manifest.strategies)
      <4>1. /\ Len(manifest.strategies) \in Nat /\ Len(manifest.hooks) \in Nat
            /\ Len(Installing) = Len(manifest.strategies) + Len(manifest.hooks)
            /\ \A k \in 1..Len(manifest.strategies) : Installing[k] = manifest.strategies[k]
        BY InstallingIs DEF LoadInv
      <4>2. installed \in 0..Len(Installing) BY DEF LoadInv
      <4>3. installed \in Nat BY <4>1, <4>2
      <4>4. installed + 1 \in 1..Len(manifest.strategies) BY <3>1, <4>1, <4>3
      <4>5. PICK a, b, c \in Nat : a = Len(manifest.strategies) /\ b = Len(manifest.hooks) /\ c = installed
        BY <4>1, <4>3
      <4>6. c < a
        <5>1. installed < Len(manifest.strategies) BY <3>1
        <5> QED BY <4>5, <5>1
      <4>7. c < a + b /\ c + 1 <= a BY <4>6
      <4>8. Len(Installing) = a + b BY <4>1, <4>5
      <4>9. installed < Len(Installing) /\ installed + 1 <= Len(manifest.strategies)
        BY <4>5, <4>7, <4>8
      <4> QED BY <4>1, <4>4, <4>9
    <3> HIDE DEF s
    <3>3. Accepted BY <3>1 DEF LoadInv, StagesInv
    <3>4. \A p \in Points : p \in ListensAt[s.name] <=> ListensTo(installed + 1, p)
      BY <3>2 DEF ListensTo
    <3>5. HooksInv' /\ hooks' \in [Points -> Seq(Handlers)]
      BY <1>0, <3>1, <3>2, <3>3, <3>4, OneListens
    <3> QED BY <1>12, <3>1, <3>2, <3>5
  <2> QED BY <2>1, <2>2
<1>14. CASE InstallHook
  <2> DEFINE h == Installing[installed + 1]
  <2>1. /\ stage = "install" /\ installed >= Len(manifest.strategies) /\ installed < Len(Installing)
        /\ Listen(h, {h.point}) /\ installed' = installed + 1
        /\ UNCHANGED <<stage, refusal, registry, streaming>>
    BY <1>14 DEF InstallHook
  <2>2. Accepted BY <2>1 DEF LoadInv, StagesInv
  <2>3. ~(installed + 1 <= Len(manifest.strategies))
    <3>1. Len(manifest.strategies) \in Nat /\ Len(Installing) \in Nat BY InstallingIs DEF LoadInv
    <3> QED BY <2>1, <3>1 DEF LoadInv
  <2>4. \A p \in Points : p \in {h.point} <=> ListensTo(installed + 1, p) BY <2>3 DEF ListensTo
  <2>5. HooksInv' /\ hooks' \in [Points -> Seq(Handlers)]
    BY <1>0, <2>1, <2>2, <2>4, OneListens
  <2> QED BY <1>12, <2>1, <2>5
<1>15. CASE Return
  <2>1. /\ stage = "install" /\ stage' = "ready" /\ installed = Len(Installing)
        /\ UNCHANGED <<refusal, registry, streaming, installed, hooks>>
    BY <1>15 DEF Return
  <2>2. StagesInv' BY <1>1, <1>2, <2>1 DEF LoadInv, StagesInv
  <2> QED BY <1>5, <2>1, <2>2 DEF LoadInv
<1> QED BY <1>6, <1>7, <1>8, <1>9, <1>10, <1>11, <1>13, <1>14, <1>15 DEF Loading

-----------------------------------------------------------------------------
(* Types of the wrappers                                                     *)

\* The types of the clock, of the file and of the call.
RateTypes == now \in 0..MaxTime /\ timestamps \in Seq(0..now) /\ admitted \in Seq(0..now)
FileTypes ==
  /\ disk \in Contents \cup {Absent} /\ hash \in Contents \cup {None}
  /\ seen \subseteq Contents /\ blind \in BOOLEAN /\ applied \in Nat
CallTypes ==
  /\ call \in {"none", "read", "write"} /\ step \in Steps
  /\ text \in Contents \cup {None} /\ (call = "write" => text # None)
  /\ failed \in 0..(Attempts - 1) /\ result \in {"ok", "error"}

LEMMA TypesAre == MiddlewareTypeOK <=> RateTypes /\ FileTypes /\ CallTypes
BY DEF MiddlewareTypeOK, RateTypes, FileTypes, CallTypes

\* An attempt that fails is one of those a call has.
LEMMA RaiseTyped == ASSUME CallTypes, Raise PROVE CallTypes'
<1>1. Attempts \in Nat \ {0} /\ failed \in 0..(Attempts - 1) BY MiddlewareAssumption DEF CallTypes
<1>2. CASE call = "write" /\ failed + 1 < Attempts
  <2>1. failed' = failed + 1 /\ step' = "admit" /\ UNCHANGED <<call, text, result>> BY <1>2 DEF Raise
  <2>2. failed + 1 \in 0..(Attempts - 1) BY <1>1, <1>2
  <2> QED BY <2>1, <2>2 DEF CallTypes, Steps
<1>3. CASE ~(call = "write" /\ failed + 1 < Attempts)
  <2>1. End("error") BY <1>3 DEF Raise
  <2> QED BY <1>1, <2>1 DEF End, CallTypes, Steps
<1> QED BY <1>2, <1>3

LEMMA GoTyped == ASSUME CallTypes, NEW s \in Steps, Go(s) PROVE CallTypes'
BY DEF CallTypes, Go

LEMMA EndTyped == ASSUME CallTypes, End("ok") PROVE CallTypes'
BY DEF CallTypes, End, Steps

\* What is left of the timestamps are timestamps.
LEMMA RecentTyped == ASSUME MiddlewareTypeOK PROVE Recent \in Seq(0..now)
<1> DEFINE kept == {k \in DOMAIN timestamps : timestamps[k] >= now - Minute}
<1>1. timestamps \in Seq(0..now) /\ Len(timestamps) \in Nat /\ DOMAIN timestamps = 1..Len(timestamps)
  BY LenProperties DEF MiddlewareTypeOK
<1>2. CASE kept = {}
  <2>1. Recent = <<>> BY <1>2 DEF Recent, TimestampsFrom
  <2>2. <<>> \in Seq(0..now) OBVIOUS
  <2> QED BY <2>1, <2>2
<1>3. CASE kept # {}
  <2> DEFINE f == CHOOSE k \in kept : \A j \in kept : k <= j
  <2>1. kept \subseteq Nat BY <1>1
  <2>2. f \in kept BY <1>3, <2>1, LeastIn
  <2>3. Recent = SubSeq(timestamps, f, Len(timestamps)) BY <1>3 DEF Recent, TimestampsFrom
  <2>4. f \in 1..Len(timestamps) BY <1>1, <2>2
  <2> HIDE DEF f
  <2>5. SubSeq(timestamps, f, Len(timestamps)) \in Seq(0..now)
    <3>1. PICK S : S = 0..now OBVIOUS
    <3>2. timestamps \in Seq(S) BY <1>1, <3>1
    <3>3. \A i \in f..Len(timestamps) : timestamps[i] \in S BY <1>1, <2>4, <3>2, ElementOfSeq
    <3>4. SubSeq(timestamps, f, Len(timestamps)) \in Seq(S)
      BY <1>1, <2>4, <3>3, SubSeqProperties
    <3> QED BY <3>1, <3>4
  <2> QED BY <2>3, <2>5
<1> QED BY <1>2, <1>3

\* Every step of the wrappers and of the world keeps their types.
LEMMA MwTyped == ASSUME MiddlewareTypeOK, MwStep PROVE MiddlewareTypeOK'
<1>0. RateTypes /\ FileTypes /\ CallTypes BY TypesAre
<1>00. MaxTime \in Nat /\ Attempts \in Nat \ {0} BY MiddlewareAssumption
<1>a. UNCHANGED <<now, timestamps, admitted>> => RateTypes' BY <1>0 DEF RateTypes
<1>b. UNCHANGED <<disk, hash, seen, blind, applied>> => FileTypes' BY <1>0 DEF FileTypes
<1>c. UNCHANGED callVars => CallTypes' BY <1>0 DEF CallTypes, callVars
<1>d. {"check", "handle", "record", "hash"} \subseteq Steps BY DEF Steps
<1> SUFFICES RateTypes' /\ FileTypes' /\ CallTypes'
  <2>1. MiddlewareTypeOK' <=> RateTypes' /\ FileTypes' /\ CallTypes'
    BY DEF MiddlewareTypeOK, RateTypes, FileTypes, CallTypes
  <2> QED BY <2>1
<1>1. CASE UNCHANGED mwVars BY <1>1, <1>a, <1>b, <1>c DEF mwVars
<1>2. CASE Tick
  <2>1. now' = now + 1 /\ now < MaxTime /\ UNCHANGED <<timestamps, admitted>>
        /\ UNCHANGED callVars /\ UNCHANGED <<disk, hash, seen, blind, applied>>
    BY <1>2 DEF Tick
  <2>2. now' \in 0..MaxTime /\ 0..now \subseteq 0..now' BY <1>0, <1>00, <2>1 DEF RateTypes
  <2>3. RateTypes' BY <1>0, <2>1, <2>2 DEF RateTypes
  <2> QED BY <1>b, <1>c, <2>1, <2>3
<1>3. CASE Intrude
  <2>1. /\ disk' \in Contents \cup {Absent} /\ applied' = 0 /\ UNCHANGED <<hash, blind>>
        /\ seen' \subseteq seen \cup (Contents \cap {disk'})
        /\ UNCHANGED callVars /\ UNCHANGED <<now, timestamps, admitted>>
    BY <1>3 DEF Intrude
  <2>2. FileTypes' BY <1>0, <2>1 DEF FileTypes
  <2> QED BY <1>a, <1>c, <2>1, <2>2
<1>4. ASSUME NEW c \in Wrapped, Begin(c) PROVE RateTypes' /\ FileTypes' /\ CallTypes'
  <2>1. /\ call' = c /\ step' = "admit" /\ failed' = 0 /\ applied' = 0
        /\ IF c = "write" THEN text' \in Contents ELSE text' = None
        /\ UNCHANGED <<disk, hash, seen, blind, result>> /\ UNCHANGED <<now, timestamps, admitted>>
    BY <1>4 DEF Begin
  <2>2. FileTypes' BY <1>0, <2>1 DEF FileTypes
  <2>3. CallTypes'
    <3>1. 0 \in 0..(Attempts - 1) BY <1>00
    <3>2. text' \in Contents \cup {None} /\ (call' = "write" => text' # None)
      BY <2>1, MiddlewareAssumption
    <3> QED BY <1>0, <2>1, <3>1, <3>2 DEF CallTypes, Wrapped, Steps
  <2> QED BY <1>a, <2>1, <2>2, <2>3
<1>5. CASE Admit
  <2>1. UNCHANGED now /\ UNCHANGED <<disk, hash, seen, blind, applied>> BY <1>5 DEF Admit
  <2>2. Recent \in Seq(0..now) BY RecentTyped
  <2>3. CASE Len(Recent) >= PerMinute
    <3>1. timestamps' = Recent /\ Raise /\ UNCHANGED admitted BY <1>5, <2>3 DEF Admit
    <3>2. RateTypes' BY <1>0, <2>1, <2>2, <3>1 DEF RateTypes
    <3> QED BY <1>0, <1>b, <2>1, <3>1, <3>2, RaiseTyped
  <2>4. CASE ~(Len(Recent) >= PerMinute)
    <3>1. /\ timestamps' = Append(Recent, now) /\ admitted' = Append(admitted, now)
          /\ Go(IF call = "write" THEN "check" ELSE "handle")
      BY <1>5, <2>4 DEF Admit
    <3>2. now \in 0..now BY <1>0, <1>00 DEF RateTypes
    <3>3. RateTypes' BY <1>0, <2>1, <2>2, <3>1, <3>2 DEF RateTypes
    <3>4. CallTypes' BY <1>0, <1>d, <3>1, GoTyped
    <3> QED BY <1>b, <2>1, <3>3, <3>4
  <2> QED BY <2>3, <2>4
<1>6. CASE CheckFresh
  <2>1. UNCHANGED <<now, timestamps, admitted>> /\ UNCHANGED <<disk, hash, seen, blind, applied>>
    BY <1>6 DEF CheckFresh
  <2>2. Go("handle") \/ Raise BY <1>6 DEF CheckFresh
  <2>3. CallTypes' BY <1>0, <1>d, <2>2, GoTyped, RaiseTyped
  <2> QED BY <1>a, <1>b, <2>1, <2>3
<1>7. CASE Read
  <2>1. UNCHANGED <<now, timestamps, admitted>> /\ UNCHANGED <<disk, hash, blind, applied>>
    BY <1>7 DEF Read
  <2>2. /\ Go("record") \/ Raise
        /\ seen' = seen \/ (disk # Absent /\ seen' = seen \cup {disk})
    BY <1>7 DEF Read
  <2>3. CallTypes' BY <1>0, <1>d, <2>2, GoTyped, RaiseTyped
  <2>4. FileTypes' BY <1>0, <2>1, <2>2 DEF FileTypes
  <2> QED BY <1>a, <2>1, <2>3, <2>4
<1>8. CASE Write
  <2>1. UNCHANGED <<now, timestamps, admitted>> /\ UNCHANGED hash /\ call = "write" BY <1>8 DEF Write
  <2>2. text \in Contents BY <1>0, <2>1 DEF CallTypes
  <2>3. PICK content \in Contents : WriteFile(content) /\ (Go("record") \/ Raise)
    BY <1>8, <2>2 DEF Write
  <2>4. CallTypes' BY <1>0, <1>d, <2>3, GoTyped, RaiseTyped
  <2>5. FileTypes' BY <1>0, <2>1, <2>3 DEF FileTypes, WriteFile
  <2> QED BY <1>a, <2>1, <2>4, <2>5
<1>9. CASE FailToWrite BY <1>0, <1>9, <1>a, <1>b, RaiseTyped DEF FailToWrite
<1>10. CASE Record
  <2>1. UNCHANGED <<now, timestamps, admitted>> /\ UNCHANGED <<disk, hash, seen, blind, applied>>
    BY <1>10 DEF Record
  <2>2. End("ok") \/ Go("hash") BY <1>10 DEF Record
  <2>3. CallTypes' BY <1>0, <1>d, <2>2, GoTyped, EndTyped
  <2> QED BY <1>a, <1>b, <2>1, <2>3
<1>11. CASE Hash
  <2>1. UNCHANGED <<now, timestamps, admitted>> /\ UNCHANGED <<disk, blind, applied>> BY <1>11 DEF Hash
  <2>2. /\ Raise \/ End("ok")
        /\ UNCHANGED <<hash, seen>> \/ (disk # Absent /\ hash' = disk /\ seen' = {disk})
    BY <1>11 DEF Hash
  <2>3. CallTypes' BY <1>0, <2>2, RaiseTyped, EndTyped
  <2>4. FileTypes' BY <1>0, <2>1, <2>2 DEF FileTypes
  <2> QED BY <1>a, <2>1, <2>3, <2>4
<1> QED BY <1>1, <1>2, <1>3, <1>4, <1>5, <1>6, <1>7, <1>8, <1>9, <1>10, <1>11 DEF MwStep, Work, World

-----------------------------------------------------------------------------
(* The agents that are run                                                   *)

\* A strategy of an agent that was handed out listens where its class does,
\* with the on_error it was declared with.
LEMMA StrategyListens ==
  ASSUME LoadInv, stage = "ready", NEW k \in DOMAIN manifest.strategies, NEW p \in Points,
         p \in ListensAt[manifest.strategies[k].name]
  PROVE  /\ manifest.strategies[k].on_error \in OnErrors
         /\ \E j \in DOMAIN hooks[p] :
              hooks[p][j] = [name |-> manifest.strategies[k].name, on_error |-> manifest.strategies[k].on_error]
<1>1. manifest.strategies[k].on_error \in OnErrors
  BY DEF LoadInv, StagesInv, Accepted, ValidStrategies
<1>2. PICK a, b \in Nat : /\ a = Len(manifest.strategies) /\ b = Len(manifest.hooks)
                          /\ Len(Installing) = a + b
  BY InstallingIs DEF LoadInv
<1>3. k \in 1..a /\ k \in DOMAIN Installing /\ Installing[k] = manifest.strategies[k]
  <2>1. k \in 1..a BY <1>2, InstallingIs DEF LoadInv
  <2>2. k \in 1..(a + b) BY <2>1
  <2> QED BY <1>2, <2>1, <2>2, InstallingIs DEF LoadInv
<1>4. ListensTo(k, p)
  <2>1. k <= Len(manifest.strategies) BY <1>2, <1>3
  <2> QED BY <1>3, <2>1 DEF ListensTo
<1>5. PICK j \in DOMAIN hooks[p] : hooks[p][j] = Handler(Installing[k])
  BY <1>3, <1>4, FoundListening
<1> QED BY <1>1, <1>3, <1>5 DEF Handler

\* An agent that is run has its budget, its repetition guard and a boundary,
\* and unless the boundary fails the turn it was declared with isolate.
LEMMA Agents ==
  ASSUME LoadInv, Running
  PROVE  /\ Boundary \in Boundaries
         /\ Listening("pre_projection", "guard/cost_budget")
         /\ Listening("pre_tool_use", "guard/repetition")
         /\ Listening("post_tool_use", "guard/repetition")
         /\ ~FailsTurn => ~Declared(Boundary, "fail_turn")
<1> DEFINE names == {manifest.strategies[k].name : k \in DOMAIN manifest.strategies}
<1>1. stage = "ready" /\ source \in Driven /\ source \in DOMAIN Manifests
  BY DEF Running, LoadInv
<1>2. /\ {"guard/cost_budget", "guard/timeout", "guard/health", "guard/repetition"} \subseteq names
      /\ Cardinality(names \cap Boundaries) = 1
  BY <1>1, GuardsAssumption DEF DeclaresAll, manifest
<1>3. ASSUME NEW name \in names, NEW p \in Points, p \in ListensAt[name] PROVE Listening(p, name)
  <2>1. PICK k \in DOMAIN manifest.strategies : manifest.strategies[k].name = name OBVIOUS
  <2>2. p \in ListensAt[manifest.strategies[k].name] BY <1>3, <2>1
  <2>3. PICK j \in DOMAIN hooks[p] :
          hooks[p][j] = [name |-> manifest.strategies[k].name, on_error |-> manifest.strategies[k].on_error]
    BY <1>1, <2>2, StrategyListens
  <2> QED BY <2>1, <2>3 DEF Listening
<1>4. /\ "pre_projection" \in ListensAt["guard/cost_budget"]
      /\ "pre_tool_use" \in ListensAt["guard/repetition"]
      /\ "post_tool_use" \in ListensAt["guard/repetition"]
      /\ \A b \in Boundaries : "pre_tool_use" \in ListensAt[b]
  BY DEF ListensAt, STRATEGY_CLASSES, Boundaries
<1>5. {"pre_projection", "pre_tool_use", "post_tool_use"} \subseteq Points BY DEF Points
<1>6. PICK b \in Boundaries : b \in names
  <2>1. names \cap Boundaries # {}
    <3> HIDE DEF names
    <3>1. Cardinality({}) = 0 BY FS_EmptySet
    <3> QED BY <1>2, <3>1
  <2> QED BY <2>1
<1>7. Boundary \in Boundaries
  <2> HIDE DEF names
  <2>1. Listening("pre_tool_use", b) BY <1>3, <1>4, <1>5, <1>6
  <2> QED BY <1>6, <2>1 DEF Boundary
<1>8. ASSUME ~FailsTurn, NEW k \in DOMAIN manifest.strategies, manifest.strategies[k].name = Boundary
      PROVE  manifest.strategies[k].on_error # "fail_turn"
  <2>1. "pre_tool_use" \in ListensAt[manifest.strategies[k].name] BY <1>4, <1>7, <1>8
  <2>2. PICK j \in DOMAIN hooks["pre_tool_use"] :
          hooks["pre_tool_use"][j] = [name |-> Boundary, on_error |-> manifest.strategies[k].on_error]
    BY <1>1, <1>5, <1>8, <2>1, StrategyListens
  <2> QED BY <1>8, <2>2 DEF FailsTurn
<1> HIDE DEF names
<1> QED BY <1>2, <1>3, <1>4, <1>5, <1>7, <1>8 DEF Declared

\* While the manifest and what was installed stay, so does all that is read off them.
LEMMA Frozen ==
  ASSUME UNCHANGED manifestVars
  PROVE  /\ Running' = Running /\ Boundary' = Boundary /\ FailsTurn' = FailsTurn
         /\ LoadInv => LoadInv'
<1>1. manifest' = manifest /\ Installing' = Installing BY DEF manifestVars, manifest, Installing
<1>2. \A p, b : Listening(p, b)' = Listening(p, b) BY DEF manifestVars, Listening
<1>3. Running' = Running BY DEF manifestVars, Running
<1>4. Boundary' = Boundary BY <1>2 DEF Boundary
<1>5. FailsTurn' = FailsTurn BY <1>4 DEF manifestVars, FailsTurn
<1>6. ASSUME LoadInv PROVE LoadInv'
  <2>1. \A k, p : Upto(k, p)' = Upto(k, p) BY <1>1 DEF Upto, ListensTo
  <2>2. HooksInv' BY <1>1, <1>6, <2>1 DEF LoadInv, HooksInv, manifestVars
  <2>3. StagesInv' BY <1>1, <1>6 DEF LoadInv, StagesInv, Accepted, manifestVars
  <2> QED BY <1>1, <1>6, <2>2, <2>3 DEF LoadInv, manifestVars
<1> QED BY <1>3, <1>4, <1>5, <1>6

-----------------------------------------------------------------------------
(* The results of the log                                                    *)

\* Those between two indices are finitely many.
LEMMA BadFinite ==
  ASSUME NEW bad, NEW m \in Int, NEW k \in Int
  PROVE  IsFiniteSet(BadIn(bad, m, k)) /\ Cardinality(BadIn(bad, m, k)) \in Nat
<1>1. IsFiniteSet(m..k) BY FS_Interval
<1>2. BadIn(bad, m, k) \subseteq m..k BY DEF BadIn
<1> QED BY <1>1, <1>2, FS_Subset, FS_CardinalityType

\* One more result: a bad one makes its trail one longer.
LEMMA TrailAdded ==
  ASSUME NEW bad, bad \subseteq Dispatched, NEW how, results \in Seq(Outcomes), results' = Append(results, how),
         how \in Dispatched, NEW old \in Nat, NEW new \in Nat, Trails(bad, old),
         how \in bad => new = old + 1
  PROVE  Trails(bad, new)'
<1>1. PICK l \in Nat : l = Len(results) OBVIOUS
<1>2. Len(results') = l + 1 /\ results'[l + 1] = how /\ \A i \in 1..l : results'[i] = results[i]
  BY <1>1, AppendProperties
<1>3. ASSUME NEW m \in 1..(l + 1), Unbroken(bad, m, l + 1)'
      PROVE  Cardinality(BadIn(bad, m, l + 1)') <= new
  <2>1. new = old + 1
    <3>1. l + 1 \in m..(l + 1) BY <1>1
    <3>2. how # "incomplete" BY DEF Dispatched
    <3> QED BY <1>2, <1>3, <3>1, <3>2 DEF Unbroken
  <2>2. BadIn(bad, m, l + 1)' \subseteq BadIn(bad, m, l) \cup {l + 1}
    <3> SUFFICES ASSUME NEW j \in m..(l + 1), results'[j] \in bad, j # l + 1
                 PROVE  j \in m..l /\ results[j] \in bad
      BY DEF BadIn
    <3>1. j \in m..l /\ j \in 1..l OBVIOUS
    <3> QED BY <1>2, <3>1
  <2>3. IsFiniteSet(BadIn(bad, m, l)) /\ Cardinality(BadIn(bad, m, l)) \in Nat BY BadFinite
  <2>4. Cardinality(BadIn(bad, m, l)) <= old
    <3>1. CASE m = l + 1
      <4>1. BadIn(bad, m, l) = {} BY <3>1 DEF BadIn
      <4> QED BY <4>1, FS_EmptySet
    <3>2. CASE m # l + 1
      <4>1. m \in 1..l BY <3>2
      <4>2. Unbroken(bad, m, l)
        <5> SUFFICES ASSUME NEW j \in m..l PROVE results[j] \in bad \cup {"incomplete"} BY DEF Unbroken
        <5>1. j \in 1..l /\ j \in m..(l + 1) BY <4>1
        <5> QED BY <1>2, <1>3, <5>1 DEF Unbroken
      <4> QED BY <1>1, <4>1, <4>2 DEF Trails
    <3> QED BY <3>1, <3>2
  <2> DEFINE B == BadIn(bad, m, l)
             C == BadIn(bad, m, l + 1)'
  <2>5. IsFiniteSet(B \cup {l + 1}) /\ Cardinality(B \cup {l + 1}) <= Cardinality(B) + 1
        /\ Cardinality(B \cup {l + 1}) \in Nat
    <3> HIDE DEF B
    <3>1. IsFiniteSet(B) /\ Cardinality(B) \in Nat BY <2>3 DEF B
    <3>2. IsFiniteSet(B \cup {l + 1}) /\ Cardinality(B \cup {l + 1}) =
            IF l + 1 \in B THEN Cardinality(B) ELSE Cardinality(B) + 1
      BY <3>1, FS_AddElement
    <3> QED BY <3>1, <3>2
  <2>6. Cardinality(C) <= Cardinality(B \cup {l + 1}) /\ Cardinality(C) \in Nat
    <3>1. C \subseteq B \cup {l + 1} BY <2>2
    <3> HIDE DEF B, C
    <3> QED BY <2>5, <3>1, FS_Subset, FS_CardinalityType
  <2> QED BY <2>1, <2>3, <2>4, <2>5, <2>6
<1> QED BY <1>2, <1>3 DEF Trails

\* As long as the trail is shorter than the limit, no row reaches it.
LEMMA RowAdded ==
  ASSUME NEW bad, bad \subseteq Dispatched, NEW how, results \in Seq(Outcomes), results' = Append(results, how),
         how \in Dispatched, NEW limit \in Nat \ {0}, NEW new \in Nat, new < limit,
         Trails(bad, new)', ~InARow(bad, limit)
  PROVE  ~InARow(bad, limit)'
<1>1. PICK l \in Nat : l = Len(results) /\ DOMAIN results = 1..l OBVIOUS
<1>2. /\ Len(results') = l + 1 /\ DOMAIN results' = 1..(l + 1)
      /\ \A i \in 1..l : results'[i] = results[i]
  BY <1>1, AppendProperties
<1> SUFFICES ASSUME NEW m \in 1..(l + 1), NEW k \in 1..(l + 1),
                    Unbroken(bad, m, k)', Cardinality(BadIn(bad, m, k)') >= limit
             PROVE  FALSE
  BY <1>2 DEF InARow
<1>3. CASE k = l + 1
  <2>1. Cardinality(BadIn(bad, m, k)') <= new BY <1>2, <1>3 DEF Trails
  <2>2. Cardinality(BadIn(bad, m, k)') \in Nat
    <3>1. IsFiniteSet(m..k) BY FS_Interval
    <3>2. BadIn(bad, m, k)' \subseteq m..k BY DEF BadIn
    <3> QED BY <3>1, <3>2, FS_Subset, FS_CardinalityType
  <2> QED BY <2>1, <2>2
<1>4. CASE k # l + 1
  <2>1. k \in 1..l BY <1>4
  <2>2. Unbroken(bad, m, k) /\ Cardinality(BadIn(bad, m, k)) >= limit
    <3>1. \A j \in m..k : results'[j] = results[j]
      <4> SUFFICES ASSUME NEW j \in m..k PROVE results'[j] = results[j] OBVIOUS
      <4>1. j \in 1..l BY <1>1, <2>1
      <4> QED BY <1>2, <4>1
    <3>2. Unbroken(bad, m, k) BY <3>1 DEF Unbroken
    <3>3. BadIn(bad, m, k)' = BadIn(bad, m, k) BY <3>1 DEF BadIn
    <3> QED BY <3>2, <3>3
  <2>3. CASE m \in 1..l BY <1>1, <2>1, <2>2, <2>3 DEF InARow
  <2>4. CASE m = l + 1
    <3>1. BadIn(bad, m, k) = {} BY <2>1, <2>4 DEF BadIn
    <3>2. Cardinality(BadIn(bad, m, k)) = 0 BY <3>1, FS_EmptySet
    <3> QED BY <2>2, <3>2
  <2> QED BY <2>3, <2>4
<1> QED BY <1>3, <1>4

\* The results of an incomplete batch lengthen no trail and no row.
LEMMA ClosedIncomplete ==
  ASSUME NEW bad, bad \subseteq Dispatched, results \in Seq(Outcomes), NEW size \in Nat,
         CloseIncomplete(size), NEW count \in Nat, Trails(bad, count)
  PROVE  /\ Trails(bad, count)'
         /\ \A limit \in Nat \ {0} : ~InARow(bad, limit) => ~InARow(bad, limit)'
<1>1. PICK l \in Nat : l = Len(results) /\ DOMAIN results = 1..l OBVIOUS
<1>2. /\ Len(results') = l + size /\ DOMAIN results' = 1..(l + size)
      /\ \A i \in 1..l : results'[i] = results[i]
      /\ \A i \in (l + 1)..(l + size) : results'[i] = "incomplete"
  <2> DEFINE more == [k \in 1..size |-> "incomplete"]
  <2>1. more \in Seq(Outcomes) /\ Len(more) = size /\ \A i \in 1..size : more[i] = "incomplete"
    BY DEF Outcomes
  <2>2. results' = results \o more BY DEF CloseIncomplete
  <2> HIDE DEF more
  <2>3. /\ Len(results \o more) = l + size /\ results \o more \in Seq(Outcomes)
        /\ \A i \in 1..(l + size) : (results \o more)[i] = IF i <= l THEN results[i] ELSE more[i - l]
    BY <1>1, <2>1, ConcatProperties
  <2> QED BY <1>1, <2>1, <2>2, <2>3
<1>3. ASSUME NEW m \in 1..(l + size), NEW k \in 1..(l + size)
      PROVE  LET e == IF k <= l THEN k ELSE l IN
             /\ BadIn(bad, m, k)' = BadIn(bad, m, e)
             /\ Unbroken(bad, m, k)' => Unbroken(bad, m, e)
  <2> DEFINE e == IF k <= l THEN k ELSE l
  <2>1. e \in 0..l /\ e <= k OBVIOUS
  <2>2. Unbroken(bad, m, e)' = Unbroken(bad, m, e) /\ BadIn(bad, m, e)' = BadIn(bad, m, e)
    <3>1. \A j \in m..e : results'[j] = results[j]
      <4> SUFFICES ASSUME NEW j \in m..e PROVE results'[j] = results[j] OBVIOUS
      <4>1. j \in 1..l BY <1>1, <2>1
      <4> QED BY <1>2, <4>1
    <3> HIDE DEF e
    <3> QED BY <3>1 DEF Unbroken, BadIn
  <2>3. \A j \in m..k : j \in m..e \/ results'[j] = "incomplete"
    <3> SUFFICES ASSUME NEW j \in m..k, ~(j \in m..e) PROVE results'[j] = "incomplete" OBVIOUS
    <3>1. j \in (l + 1)..(l + size) OBVIOUS
    <3> QED BY <1>2, <3>1
  <2>4. m..e \subseteq m..k BY <2>1
  <2>5. "incomplete" \notin bad BY DEF Dispatched
  <2> HIDE DEF e
  <2>6. BadIn(bad, m, k)' = BadIn(bad, m, e)' BY <2>3, <2>4, <2>5 DEF BadIn
  <2>7. Unbroken(bad, m, k)' => Unbroken(bad, m, e)' BY <2>4 DEF Unbroken
  <2> QED BY <2>2, <2>6, <2>7 DEF e
<1>4. \A m \in Int : m > l => Cardinality(BadIn(bad, m, l)) = 0
  <2> SUFFICES ASSUME NEW m \in Int, m > l PROVE BadIn(bad, m, l) = {} BY FS_EmptySet
  <2> QED BY DEF BadIn
<1>5. Trails(bad, count)'
  <2> SUFFICES ASSUME NEW m \in 1..(l + size), Unbroken(bad, m, l + size)'
               PROVE  Cardinality(BadIn(bad, m, l + size)') <= count
    BY <1>2 DEF Trails
  <2>1. BadIn(bad, m, l + size)' = BadIn(bad, m, l) /\ Unbroken(bad, m, l)
    <3>1. l + size \in 1..(l + size) /\ (l + size <= l => l + size = l) OBVIOUS
    <3> QED BY <1>3, <3>1
  <2>2. CASE m \in 1..l BY <1>1, <2>1, <2>2 DEF Trails
  <2>3. CASE m > l BY <1>4, <2>1, <2>3
  <2> QED BY <2>2, <2>3
<1>6. ASSUME NEW limit \in Nat \ {0}, ~InARow(bad, limit) PROVE ~InARow(bad, limit)'
  <2> SUFFICES ASSUME NEW m \in 1..(l + size), NEW k \in 1..(l + size),
                      Unbroken(bad, m, k)', Cardinality(BadIn(bad, m, k)') >= limit
               PROVE  FALSE
    BY <1>2 DEF InARow
  <2> DEFINE e == IF k <= l THEN k ELSE l
  <2>1. Unbroken(bad, m, e) /\ Cardinality(BadIn(bad, m, e)) >= limit BY <1>3
  <2>2. e \in 0..l OBVIOUS
  <2> HIDE DEF e
  <2>3. m <= e
    <3> SUFFICES ASSUME m > e PROVE FALSE BY <2>2
    <3>1. BadIn(bad, m, e) = {} BY <2>2 DEF BadIn
    <3> QED BY <2>1, <3>1, FS_EmptySet
  <2>4. m \in 1..l /\ e \in 1..l BY <2>2, <2>3
  <2> QED BY <1>1, <1>6, <2>1, <2>4 DEF InARow
<1> QED BY <1>5, <1>6

\* A result that is recorded is counted, and at a limit the loop is stopped.
LEMMA PostStep ==
  ASSUME LoopTypes, ResultsInv, NEW how \in Dispatched, Post(how),
         Listening("post_tool_use", "guard/repetition")
  PROVE  /\ ResultsInv' /\ results' \in Seq(Outcomes) /\ failures' \in Nat /\ rejections' \in Nat
         /\ fatal' \in BOOLEAN /\ (fatal => fatal') /\ n' = n + 1
<1>1. /\ results \in Seq(Outcomes) /\ failures \in Nat /\ rejections \in Nat /\ fatal \in BOOLEAN
      /\ MaxFailures \in Nat \ {0} /\ MaxRejections \in Nat \ {0}
  BY GuardsAssumption DEF LoopTypes
<1>2. /\ results' = Append(results, how) /\ n' = n + 1
      /\ failures' = (IF how = "ok" THEN 0 ELSE failures + 1)
      /\ rejections' = (IF how = "rejected" THEN rejections + 1 ELSE 0)
      /\ fatal' = (\/ fatal
                   \/ /\ Listening("post_tool_use", "guard/repetition")
                      /\ failures' >= MaxFailures \/ rejections' >= MaxRejections)
  BY DEF Post
<1>3. fatal' \in BOOLEAN /\ (fatal => fatal') BY <1>2
<1>4. failures' \in Nat /\ rejections' \in Nat /\ results' \in Seq(Outcomes)
  BY <1>1, <1>2, AppendProperties DEF Outcomes
<1>5. ~fatal' => failures' < MaxFailures /\ rejections' < MaxRejections
  <2>1. ~fatal' => ~(failures' >= MaxFailures) /\ ~(rejections' >= MaxRejections) BY <1>2
  <2> QED BY <1>1, <1>4, <2>1
<1>6. PICK f, r \in Nat : f = failures' /\ r = rejections' BY <1>4
<1>7. Trails({"error", "rejected"}, f)'
  <2>1. how \in {"error", "rejected"} => f = failures + 1 BY <1>2, <1>6
  <2>2. Trails({"error", "rejected"}, failures) BY DEF ResultsInv
  <2> QED BY <1>1, <1>2, <2>1, <2>2, TrailAdded DEF Dispatched
<1>8. Trails({"rejected"}, r)'
  <2>1. how \in {"rejected"} => r = rejections + 1 BY <1>2, <1>6
  <2>2. Trails({"rejected"}, rejections) BY DEF ResultsInv
  <2> QED BY <1>1, <1>2, <2>1, <2>2, TrailAdded DEF Dispatched
<1>9. ASSUME ~fatal' PROVE ~InARow({"error", "rejected"}, MaxFailures)' /\ ~InARow({"rejected"}, MaxRejections)'
  <2>1. f < MaxFailures /\ r < MaxRejections BY <1>5, <1>6, <1>9
  <2>2. ~InARow({"error", "rejected"}, MaxFailures) /\ ~InARow({"rejected"}, MaxRejections)
    BY <1>3, <1>9 DEF ResultsInv
  <2>3. ~InARow({"error", "rejected"}, MaxFailures)' BY <1>1, <1>2, <1>7, <2>1, <2>2, RowAdded DEF Dispatched
  <2>4. ~InARow({"rejected"}, MaxRejections)' BY <1>1, <1>2, <1>8, <2>1, <2>2, RowAdded DEF Dispatched
  <2> QED BY <2>3, <2>4
<1>10. ResultsInv'
  <2>1. Trails({"error", "rejected"}, failures)' /\ Trails({"rejected"}, rejections)'
    BY <1>6, <1>7, <1>8 DEF Trails
  <2> QED BY <1>9, <2>1 DEF ResultsInv
<1> QED BY <1>2, <1>3, <1>4, <1>10

-----------------------------------------------------------------------------
(* The loop                                                                  *)

\* What a boundary says of a call; it allows none that it refuses.
LEMMA JudgedIs ==
  ASSUME Boundary \in Boundaries, NEW key \in KeysBehind[Boundary], violations \in Nat
  PROVE  /\ Judged(key).count \in Nat
         /\ Judged(key).says \in {"allow", "deny", "raise", "error"}
         /\ key \in Refusable => Judged(key).says # "allow"
<1>1. ASSUME NEW c \in Nat
      PROVE  /\ Strike(c).count \in Nat /\ Strike(c).says \in {"deny", "raise"}
             /\ Allow(c).count \in Nat /\ Allow(c).says = "allow"
  BY DEF Strike, Allow
<1>2. CASE Boundary = "sandbox/write"
  <2>1. key \in {"read", "write", "outside"} BY <1>2 DEF KeysBehind, Boundaries
  <2>2. Judged(key) = WriteSandbox(key, violations) BY <1>2 DEF Judged
  <2> QED BY <1>1, <2>1, <2>2 DEF WriteSandbox, Refusable
<1>3. CASE Boundary = "sandbox/network"
  <2>1. key \in {"inside", "outside"} BY <1>3 DEF KeysBehind, Boundaries
  <2>2. Judged(key) = NetworkSandbox(key, violations) BY <1>3 DEF Judged
  <2> QED BY <1>1, <2>1, <2>2 DEF NetworkSandbox, Refusable
<1>4. CASE Boundary = "credential/proxy"
  <2>1. key \in {"inside", "outside", "half", "unsupported"} BY <1>4 DEF KeysBehind, Boundaries
  <2>2. Judged(key) = Proxy(key, violations) BY <1>4 DEF Judged
  <2>3. Proxy("unsupported", violations) = [count |-> violations, says |-> "error"] BY DEF Proxy
  <2> QED BY <1>1, <2>1, <2>2, <2>3 DEF Proxy, Refusable
<1> QED BY <1>2, <1>3, <1>4 DEF Boundaries

\* The keys behind a boundary are keys, and its answers batches of them.
LEMMA BatchesAre ==
  ASSUME Boundary \in Boundaries, NEW answer \in Batches
  PROVE  answer \in Seq(Keys) /\ \A m \in DOMAIN answer : answer[m] \in KeysBehind[Boundary]
<1>1. KeysBehind[Boundary] \subseteq Keys BY DEF KeysBehind, Boundaries, Keys
<1>2. PICK m \in 1..MaxBatch : answer \in [1..m -> KeysBehind[Boundary]] BY DEF Batches
<1>3. m \in Nat BY GuardsAssumption
<1> QED BY <1>1, <1>2, <1>3

\* What the log holds of results is as before unless one is added.
LEMMA ResultsKept ==
  ASSUME ResultsInv, UNCHANGED <<results, failures, rejections>>, fatal => fatal'
  PROVE  ResultsInv'
<1>1. \A bad, m, k : Unbroken(bad, m, k)' = Unbroken(bad, m, k) /\ BadIn(bad, m, k)' = BadIn(bad, m, k)
  BY DEF Unbroken, BadIn
<1>2. \A bad, limit : InARow(bad, limit)' = InARow(bad, limit) BY <1>1 DEF InARow
<1>3. \A bad, count : Trails(bad, count)' = Trails(bad, count) BY <1>1 DEF Trails
<1> QED BY <1>2, <1>3 DEF ResultsInv

\* A batch that is closed as incomplete is counted by nobody.
LEMMA IncompleteKeeps ==
  ASSUME LoopTypes, ResultsInv, NEW size \in Nat, CloseIncomplete(size),
         UNCHANGED <<failures, rejections, fatal>>
  PROVE  ResultsInv' /\ results' \in Seq(Outcomes)
<1>1. /\ results \in Seq(Outcomes) /\ failures \in Nat /\ rejections \in Nat
      /\ MaxFailures \in Nat \ {0} /\ MaxRejections \in Nat \ {0}
  BY GuardsAssumption DEF LoopTypes
<1>2. PICK f, r \in Nat : f = failures /\ r = rejections BY <1>1
<1>3. {"error", "rejected"} \subseteq Dispatched /\ {"rejected"} \subseteq Dispatched BY DEF Dispatched
<1>4. Trails({"error", "rejected"}, f) /\ Trails({"rejected"}, r) BY <1>2 DEF ResultsInv
<1>5. /\ Trails({"error", "rejected"}, f)' /\ Trails({"rejected"}, r)'
      /\ ~InARow({"error", "rejected"}, MaxFailures) => ~InARow({"error", "rejected"}, MaxFailures)'
      /\ ~InARow({"rejected"}, MaxRejections) => ~InARow({"rejected"}, MaxRejections)'
  BY <1>1, <1>3, <1>4, ClosedIncomplete
<1>6. Trails({"error", "rejected"}, failures)' /\ Trails({"rejected"}, rejections)'
  BY <1>2, <1>5 DEF Trails
<1>7. results' \in Seq(Outcomes)
  <2>1. [k \in 1..size |-> "incomplete"] \in Seq(Outcomes) BY DEF Outcomes
  <2> QED BY <1>1, <2>1, ConcatProperties DEF CloseIncomplete
<1> QED BY <1>5, <1>6, <1>7 DEF ResultsInv

\* A result that is recorded, of the batch the loop is at.
LEMMA PostKeeps ==
  ASSUME LoadInv, LoopInv, NEW how \in Dispatched, Post(how), pc \in {"dispatch", "tool"},
         n <= Len(batch), pc' = "dispatch",
         UNCHANGED <<manifestVars, turn, runs, used, checks, batch, verdicts, calls, violations>>
  PROVE  LoopInv'
<1>1. LoopTypes /\ ResultsInv /\ BatchInv /\ Running BY DEF LoopInv
<1>2. Listening("post_tool_use", "guard/repetition") BY <1>1, Agents
<1>3. /\ ResultsInv' /\ results' \in Seq(Outcomes) /\ failures' \in Nat /\ rejections' \in Nat
      /\ fatal' \in BOOLEAN /\ (fatal => fatal') /\ n' = n + 1
  BY <1>1, <1>2, PostStep
<1>4. Running' /\ Boundary' = Boundary /\ FailsTurn' = FailsTurn BY <1>1, Frozen
<1>5. n \in Nat /\ Len(batch) \in Nat BY <1>1 DEF LoopTypes
<1>6. LoopTypes' BY <1>1, <1>3, <1>5 DEF LoopTypes
<1>7. BatchInv'
  <2>1. n' \in 1..(Len(batch') + 1) BY <1>1, <1>3, <1>5 DEF BatchInv
  <2>2. \A m \in DOMAIN batch' : batch'[m] \in KeysBehind[Boundary'] BY <1>1, <1>4 DEF BatchInv
  <2>3. Len(verdicts') = Len(batch') BY <1>1 DEF BatchInv
  <2>4. (\E m \in DOMAIN verdicts' : batch'[m] \in Refusable /\ verdicts'[m] = "allow") => fatal' /\ ~FailsTurn'
    BY <1>1, <1>3, <1>4 DEF BatchInv
  <2> QED BY <2>1, <2>2, <2>3, <2>4 DEF BatchInv
<1>8. ~fatal' => \A key \in Keys : calls'[key] < MaxIdentical BY <1>3 DEF LoopInv
<1> QED BY <1>3, <1>4, <1>6, <1>7, <1>8 DEF LoopInv

\* The decision over one tool_use.
LEMMA DecideKeeps == ASSUME LoadInv, LoopInv, Decide PROVE LoopInv'
<1> DEFINE key == batch[n]
           judged == Judged(key)
           aborts == judged.says = "raise" /\ FailsTurn
           counts == Listening("pre_tool_use", "guard/repetition") /\ (CountedBefore \/ ~aborts)
<1>1. /\ pc = "decide" /\ n <= Len(batch)
      /\ calls' = (IF counts THEN [calls EXCEPT ![key] = @ + 1] ELSE calls)
      /\ violations' = judged.count
      /\ fatal' = (fatal \/ judged.says \in {"raise", "error"} \/ (counts /\ Repeated(key)))
      /\ IF aborts
         THEN pc' = "idle" /\ UNCHANGED <<verdicts, n>>
         ELSE /\ verdicts' = Append(verdicts, IF judged.says \in {"deny", "error"} THEN "deny" ELSE "allow")
              /\ n' = n + 1 /\ UNCHANGED pc
      /\ UNCHANGED <<manifestVars, turn, runs, used, checks, batch, failures, rejections, results>>
  BY DEF Decide, toolVars
<1>2. LoopTypes /\ ResultsInv /\ BatchInv /\ Running BY <1>1 DEF LoopInv
<1>3. Boundary \in Boundaries BY <1>2, Agents
<1>4. Running' /\ Boundary' = Boundary /\ FailsTurn' = FailsTurn BY <1>1, <1>2, Frozen
<1>5. /\ n \in 1..Len(batch) /\ Len(batch) \in Nat /\ DOMAIN batch = 1..Len(batch) /\ n \in Nat
      /\ Len(verdicts) = n - 1
  BY <1>1, <1>2 DEF LoopTypes, BatchInv
<1>6. key \in KeysBehind[Boundary] /\ key \in Keys
  <2>1. batch[n] \in KeysBehind[Boundary] BY <1>2, <1>5 DEF BatchInv
  <2>2. batch \in Seq(Keys) BY <1>2 DEF LoopTypes
  <2>3. batch[n] \in Keys BY <1>5, <2>2, ElementOfSeq
  <2> QED BY <2>1, <2>3
<1>7. /\ judged.count \in Nat /\ judged.says \in {"allow", "deny", "raise", "error"}
      /\ key \in Refusable => judged.says # "allow"
  BY <1>2, <1>3, <1>6, JudgedIs DEF LoopTypes
<1> HIDE DEF key, judged, counts, aborts
<1>8. calls \in [Keys -> Nat] /\ MaxIdentical \in Nat BY <1>2, GuardsAssumption DEF LoopTypes
<1>9. calls' \in [Keys -> Nat] BY <1>1, <1>6, <1>8
<1>10. fatal' \in BOOLEAN /\ (fatal => fatal') BY <1>1
<1>11. ResultsInv' BY <1>1, <1>2, <1>10, ResultsKept
<1>12. ASSUME ~fatal', NEW k \in Keys PROVE calls'[k] < MaxIdentical
  <2>1. calls[k] < MaxIdentical BY <1>10, <1>12 DEF LoopInv
  <2>2. CASE counts /\ k = key
    <3>1. ~(calls[key] + 1 >= MaxIdentical) BY <1>1, <1>12, <2>2 DEF Repeated
    <3> QED BY <1>1, <1>8, <2>2, <3>1
  <2>3. CASE ~(counts /\ k = key) BY <1>1, <1>8, <2>1, <2>3
  <2> QED BY <2>2, <2>3
<1>13. CASE aborts
  <2>1. pc' = "idle" /\ UNCHANGED <<verdicts, n>> BY <1>1, <1>13
  <2>2. LoopTypes' BY <1>1, <1>2, <1>7, <1>9, <1>10, <2>1 DEF LoopTypes
  <2> QED BY <1>11, <1>12, <2>1, <2>2 DEF LoopInv
<1>14. CASE ~aborts
  <2> DEFINE verdict == IF judged.says \in {"deny", "error"} THEN "deny" ELSE "allow"
  <2>1. verdicts' = Append(verdicts, verdict) /\ n' = n + 1 /\ pc' = "decide" BY <1>1, <1>14
  <2>2. verdict \in {"allow", "deny"} OBVIOUS
  <2> HIDE DEF verdict
  <2>3. verdicts \in Seq({"allow", "deny"}) BY <1>2 DEF LoopTypes
  <2>4. /\ verdicts' \in Seq({"allow", "deny"}) /\ Len(verdicts') = n /\ verdicts'[n] = verdict
        /\ \A m \in 1..(n - 1) : verdicts'[m] = verdicts[m]
    BY <1>5, <2>1, <2>2, <2>3, AppendProperties
  <2>5. n' \in Nat BY <1>5, <2>1
  <2>6. LoopTypes' BY <1>1, <1>2, <1>7, <1>9, <1>10, <2>1, <2>4, <2>5 DEF LoopTypes
  <2>7. ASSUME NEW m \in DOMAIN verdicts', batch'[m] \in Refusable, verdicts'[m] = "allow"
        PROVE  fatal' /\ ~FailsTurn'
    <3>1. m \in 1..n BY <2>4
    <3>2. CASE m = n
      <4>1. key \in Refusable BY <1>1, <2>7, <3>2 DEF key
      <4>2. ~(judged.says \in {"deny", "error"}) BY <2>4, <2>7, <3>2 DEF verdict
      <4>3. judged.says = "raise" BY <1>7, <4>1, <4>2
      <4>4. fatal' BY <1>1, <4>3
      <4>5. ~FailsTurn BY <1>14, <4>3 DEF aborts
      <4> QED BY <1>4, <4>4, <4>5
    <3>3. CASE m # n
      <4>1. m \in 1..(n - 1) /\ m \in DOMAIN verdicts BY <1>5, <2>3, <3>1, <3>3
      <4>2. batch[m] \in Refusable /\ verdicts[m] = "allow" BY <1>1, <2>4, <2>7, <4>1
      <4> QED BY <1>2, <1>4, <1>10, <4>1, <4>2 DEF BatchInv
    <3> QED BY <3>2, <3>3
  <2>8. BatchInv'
    <3>1. n' \in 1..(Len(batch') + 1) BY <1>1, <1>5, <2>1
    <3>2. \A m \in DOMAIN batch' : batch'[m] \in KeysBehind[Boundary'] BY <1>1, <1>2, <1>4 DEF BatchInv
    <3>3. Len(verdicts') = n' - 1 BY <1>5, <2>1, <2>4
    <3> QED BY <2>1, <2>7, <3>1, <3>2, <3>3 DEF BatchInv
  <2> QED BY <1>4, <1>11, <1>12, <2>1, <2>6, <2>8 DEF LoopInv
<1> QED BY <1>13, <1>14

\* Every step keeps the invariant of the loop.
LEMMA LoopStep == ASSUME MiddlewareTypeOK, LoadInv, LoopInv, [Next]_vars PROVE LoopInv'
<1>1. LoopTypes /\ ResultsInv BY DEF LoopInv
<1>2. ASSUME UNCHANGED <<manifestVars, loopVars>> PROVE LoopInv'
  <2>1. Running' = Running /\ Boundary' = Boundary /\ FailsTurn' = FailsTurn BY <1>2, Frozen
  <2>2. LoopTypes' BY <1>1, <1>2 DEF LoopTypes, loopVars
  <2>3. ResultsInv' BY <1>1, <1>2, ResultsKept DEF loopVars
  <2>4. BatchInv => BatchInv' BY <1>2, <2>1 DEF BatchInv, loopVars
  <2> QED BY <1>2, <2>1, <2>2, <2>3, <2>4 DEF LoopInv, loopVars
<1>3. CASE UNCHANGED vars BY <1>2, <1>3 DEF vars, toolVars
<1>4. CASE Run
  <2>1. /\ Running /\ runs < MaxRuns /\ pc' = "project" /\ turn' = 1 /\ runs' = runs + 1
        /\ UNCHANGED <<manifestVars, used, fatal, checks, batch, verdicts, n, calls,
                       failures, rejections, violations, results>>
    BY <1>4 DEF Run, toolVars
  <2>2. Running' BY <2>1, Frozen
  <2>3. turn' \in 0..Turns /\ runs' \in 0..MaxRuns BY <1>1, <2>1, GuardsAssumption DEF LoopTypes
  <2>4. LoopTypes' BY <1>1, <2>1, <2>3 DEF LoopTypes
  <2>5. ResultsInv' BY <1>1, <2>1, ResultsKept
  <2> QED BY <2>1, <2>2, <2>4, <2>5 DEF LoopInv
<1>5. CASE PreProjection
  <2>1. /\ pc = "project" /\ checks' = checks + 1 /\ pc' = (IF fatal' THEN "idle" ELSE "call")
        /\ UNCHANGED <<manifestVars, turn, runs, used, batch, verdicts, n, calls,
                       failures, rejections, violations, results>>
    BY <1>5 DEF PreProjection, toolVars
  <2>2. PICK unhealthy \in BOOLEAN : fatal' = (fatal \/ TimedOut \/ OverBudget \/ unhealthy)
    BY <1>5 DEF PreProjection
  <2>3. Running /\ Running' BY <2>1, Frozen DEF LoopInv
  <2>4. fatal' \in BOOLEAN /\ (fatal => fatal') /\ (OverBudget => fatal') BY <2>2
  <2>5. ~fatal' => used' <= MaxTokens
    <3>1. Listening("pre_projection", "guard/cost_budget") BY <2>3, Agents
    <3>2. ~OverBudget => ~(used > MaxTokens) BY <3>1 DEF OverBudget
    <3> QED BY <1>1, <2>1, <2>4, <3>2, GuardsAssumption DEF LoopTypes
  <2>6. LoopTypes'
    <3>1. checks' \in Nat BY <1>1, <2>1 DEF LoopTypes
    <3>2. pc' \in {"idle", "call"} BY <2>1
    <3> QED BY <1>1, <2>1, <2>4, <3>1, <3>2 DEF LoopTypes
  <2>7. ResultsInv' BY <1>1, <2>1, <2>4, ResultsKept
  <2>8. pc' = "call" => ~fatal' BY <2>1
  <2>9. pc' \notin {"decide", "dispatch", "tool"} BY <2>1
  <2>10. ~fatal' => \A key \in Keys : calls'[key] < MaxIdentical BY <2>1, <2>4 DEF LoopInv
  <2> QED BY <2>3, <2>5, <2>6, <2>7, <2>8, <2>9, <2>10 DEF LoopInv
<1>6. CASE Answer
  <2>1. /\ pc = "call" /\ verdicts' = <<>> /\ n' = 1
        /\ UNCHANGED <<manifestVars, turn, runs, fatal, checks, calls, failures, rejections,
                       violations>>
        /\ \E cost \in Costs : used' = used + cost
        /\ \/ batch' \in Batches /\ pc' = "decide" /\ UNCHANGED results
           \/ batch' = <<>> /\ pc' = "idle" /\ \E m \in 0..MaxBatch : CloseIncomplete(m)
    BY <1>6 DEF Answer, toolVars
  <2>2. Running BY <2>1 DEF LoopInv
  <2>3. Running' /\ Boundary' = Boundary /\ Boundary \in Boundaries BY <2>1, <2>2, Frozen, Agents
  <2>4. used' \in Nat
    <3>1. PICK cost \in Nat : used' = used + cost BY <2>1, GuardsAssumption
    <3> QED BY <1>1, <3>1 DEF LoopTypes
  <2>5. batch' \in Seq(Keys)
    <3>1. CASE batch' \in Batches BY <2>3, <3>1, BatchesAre
    <3>2. CASE batch' = <<>> BY <3>2
    <3> QED BY <2>1, <3>1, <3>2
  <2>6. ResultsInv' /\ results' \in Seq(Outcomes)
    <3>1. CASE UNCHANGED results BY <1>1, <2>1, <3>1, ResultsKept DEF LoopTypes
    <3>2. CASE ~UNCHANGED results
      <4>1. PICK m \in 0..MaxBatch : CloseIncomplete(m) BY <2>1, <3>2
      <4>2. m \in Nat BY GuardsAssumption
      <4> QED BY <1>1, <2>1, <4>1, <4>2, IncompleteKeeps
    <3> QED BY <3>1, <3>2
  <2>7. LoopTypes'
    <3>1. verdicts' \in Seq({"allow", "deny"}) BY <2>1
    <3>2. pc' \in {"decide", "idle"} /\ n' \in Nat BY <2>1
    <3> QED BY <1>1, <2>1, <2>4, <2>5, <2>6, <3>1, <3>2 DEF LoopTypes
  <2>8. pc' = "decide" => BatchInv'
    <3> SUFFICES ASSUME pc' = "decide" PROVE BatchInv' OBVIOUS
    <3>1. batch' \in Batches BY <2>1
    <3>2. \A m \in DOMAIN batch' : batch'[m] \in KeysBehind[Boundary'] BY <2>3, <3>1, BatchesAre
    <3>3. n' \in 1..(Len(batch') + 1)
      <4>1. Len(batch') \in Nat BY <2>5
      <4> QED BY <2>1, <4>1
    <3>4. Len(verdicts') = n' - 1 /\ DOMAIN verdicts' = {} BY <2>1
    <3> QED BY <3>2, <3>3, <3>4 DEF BatchInv
  <2>9. pc' \in {"decide", "idle"} BY <2>1
  <2>10. ~fatal' => \A key \in Keys : calls'[key] < MaxIdentical BY <2>1 DEF LoopInv
  <2> QED BY <2>3, <2>6, <2>7, <2>8, <2>9, <2>10 DEF LoopInv
<1>7. CASE Decide BY <1>7, DecideKeeps
<1>8. CASE Decided
  <2>1. /\ pc = "decide" /\ n > Len(batch) /\ pc' = "dispatch" /\ n' = 1
        /\ UNCHANGED <<manifestVars, turn, runs, used, fatal, checks, batch, verdicts, calls,
                       failures, rejections, violations, results>>
    BY <1>8 DEF Decided, toolVars
  <2>2. BatchInv /\ Running BY <2>1 DEF LoopInv
  <2>3. Running' /\ Boundary' = Boundary /\ FailsTurn' = FailsTurn BY <2>1, <2>2, Frozen
  <2>4. LoopTypes' BY <1>1, <2>1 DEF LoopTypes
  <2>5. ResultsInv' BY <1>1, <2>1, ResultsKept
  <2>6. BatchInv'
    <3>1. Len(batch) \in Nat /\ n \in 1..(Len(batch) + 1) /\ Len(verdicts) = n - 1
      BY <1>1, <2>1, <2>2 DEF BatchInv, LoopTypes
    <3>2. Len(verdicts) = Len(batch) /\ 1 \in 1..(Len(batch) + 1) BY <2>1, <3>1
    <3> QED BY <2>1, <2>2, <2>3, <3>2 DEF BatchInv
  <2>7. ~fatal' => \A key \in Keys : calls'[key] < MaxIdentical BY <2>1 DEF LoopInv
  <2> QED BY <2>1, <2>3, <2>4, <2>5, <2>6, <2>7 DEF LoopInv
<1>9. CASE Reject
  <2>1. "rejected" \in Dispatched BY DEF Dispatched
  <2> QED BY <1>9, <2>1, PostKeeps DEF Reject, toolVars
<1>10. CASE RunOutside
  <2>1. PICK how \in {"ok", "error"} : Post(how) BY <1>10 DEF RunOutside
  <2>2. how \in Dispatched BY DEF Dispatched
  <2> QED BY <1>10, <2>1, <2>2, PostKeeps DEF RunOutside, toolVars
<1>11. CASE RunWrapped
  <2>1. /\ pc = "dispatch" /\ n <= Len(batch) /\ pc' = "tool"
        /\ UNCHANGED <<manifestVars, turn, runs, used, fatal, checks, batch, verdicts, n, calls,
                       failures, rejections, violations, results>>
    BY <1>11 DEF RunWrapped
  <2>2. BatchInv /\ Running BY <2>1 DEF LoopInv
  <2>3. Running' /\ Boundary' = Boundary /\ FailsTurn' = FailsTurn BY <2>1, <2>2, Frozen
  <2>4. LoopTypes' BY <1>1, <2>1 DEF LoopTypes
  <2>5. ResultsInv' BY <1>1, <2>1, ResultsKept
  <2>6. BatchInv' BY <2>1, <2>2, <2>3 DEF BatchInv
  <2>7. ~fatal' => \A key \in Keys : calls'[key] < MaxIdentical BY <2>1 DEF LoopInv
  <2> QED BY <2>1, <2>3, <2>4, <2>5, <2>6, <2>7 DEF LoopInv
<1>12. CASE ToolStep BY <1>2, <1>12 DEF ToolStep
<1>13. CASE ToolReturns
  <2>1. result \in Dispatched BY DEF MiddlewareTypeOK, Dispatched
  <2>2. n <= Len(batch) BY <1>13 DEF ToolReturns, LoopInv, BatchInv
  <2> QED BY <1>13, <2>1, <2>2, PostKeeps DEF ToolReturns, toolVars
<1>14. CASE EndBatch
  <2>1. /\ pc = "dispatch" /\ pc' \in {"idle", "project"}
        /\ turn' = turn \/ (turn # Turns /\ turn' = turn + 1)
        /\ UNCHANGED <<manifestVars, runs, used, fatal, checks, batch, verdicts, n, calls,
                       failures, rejections, violations, results>>
    BY <1>14 DEF EndBatch, toolVars
  <2>2. Running BY <2>1 DEF LoopInv
  <2>3. Running' BY <2>1, <2>2, Frozen
  <2>4. turn' \in 0..Turns BY <1>1, <2>1, GuardsAssumption DEF LoopTypes
  <2>5. LoopTypes' BY <1>1, <2>1, <2>4 DEF LoopTypes
  <2>6. ResultsInv' BY <1>1, <2>1, ResultsKept
  <2>7. ~fatal' => \A key \in Keys : calls'[key] < MaxIdentical BY <2>1 DEF LoopInv
  <2> QED BY <2>1, <2>3, <2>5, <2>6, <2>7 DEF LoopInv
<1>15. CASE Loading /\ UNCHANGED <<mwVars, loopVars>>
  <2>1. stage # "ready"
    BY <1>15 DEF Loading, Validate, BuildRegistry, BuildProvider, BuildStrategies, BuildHooks,
                 InstallStrategies, InstallStrategy, InstallHook, Return
  <2>2. pc = "idle" BY <2>1 DEF LoopInv, Running
  <2>3. LoopTypes' BY <1>1, <1>15 DEF LoopTypes, loopVars
  <2>4. ResultsInv' BY <1>1, <1>15, ResultsKept DEF loopVars
  <2> QED BY <1>15, <2>2, <2>3, <2>4 DEF LoopInv, loopVars
<1>16. CASE Running /\ World /\ UNCHANGED <<manifestVars, loopVars>> BY <1>2, <1>16
<1> QED BY <1>3, <1>4, <1>5, <1>6, <1>7, <1>8, <1>9, <1>10, <1>11, <1>12, <1>13, <1>14, <1>15, <1>16
       DEF Next

\* Only Loading changes what a stage has established.
LEMMA LoadKept == ASSUME LoadInv, [Next]_vars PROVE LoadInv'
<1>1. CASE Loading BY <1>1, LoadStep
<1>2. CASE ~Loading
  <2>1. UNCHANGED manifestVars
    <3> USE DEF toolVars
    <3>1. CASE UNCHANGED vars BY <3>1 DEF vars
    <3>2. CASE Run BY <3>2 DEF Run
    <3>3. CASE PreProjection BY <3>3 DEF PreProjection
    <3>4. CASE Answer BY <3>4 DEF Answer
    <3>5. CASE Decide BY <3>5 DEF Decide
    <3>6. CASE Decided BY <3>6 DEF Decided
    <3>7. CASE Reject BY <3>7 DEF Reject
    <3>8. CASE RunOutside BY <3>8 DEF RunOutside
    <3>9. CASE RunWrapped BY <3>9 DEF RunWrapped
    <3>10. CASE ToolStep BY <3>10 DEF ToolStep
    <3>11. CASE ToolReturns BY <3>11 DEF ToolReturns
    <3>12. CASE EndBatch BY <3>12 DEF EndBatch
    <3> QED BY <1>2, <3>1, <3>2, <3>3, <3>4, <3>5, <3>6, <3>7, <3>8, <3>9, <3>10, <3>11, <3>12
           DEF Next
  <2> QED BY <2>1, Frozen
<1> QED BY <1>1, <1>2

\* Together they are inductive.
GuardsInv == MiddlewareTypeOK /\ LoadInv /\ LoopInv

\* At first nothing is loaded, nothing was called and nothing was answered.
LEMMA GuardsInit == Init => GuardsInv
<1> SUFFICES ASSUME Init PROVE GuardsInv OBVIOUS
<1>1. MiddlewareTypeOK
  <2>1. /\ now = 0 /\ timestamps = <<>> /\ disk \in Contents \cup {Absent} /\ hash = None
        /\ call = "none" /\ text = None /\ step = "idle" /\ failed = 0 /\ result = "ok"
        /\ admitted = <<>> /\ seen = {} /\ blind = FALSE /\ applied = 0
    BY DEF Init, MiddlewareInit
  <2>2. <<>> \in Seq(0..now) OBVIOUS
  <2>3. now \in 0..MaxTime /\ failed \in 0..(Attempts - 1)
    BY <2>1, MiddlewareAssumption
  <2> QED BY <2>1, <2>2, <2>3 DEF MiddlewareTypeOK, Steps
<1>2. /\ source \in DOMAIN Manifests /\ facade \in {"agent", "runtime"}
      /\ stage = "validate" /\ refusal = "none" /\ registry = <<>> /\ streaming = FALSE
      /\ installed = 0 /\ hooks = [p \in Points |-> <<>>]
  BY DEF Init, ManifestInit
<1>3. LoadInv
  <2>1. HooksInv
    <3> SUFFICES ASSUME NEW p \in Points
                 PROVE  Len(hooks[p]) = Cardinality(Upto(installed, p)) /\ Upto(installed, p) = {}
      BY DEF HooksInv
    <3>1. Upto(installed, p) = {} BY <1>2 DEF Upto
    <3>2. Cardinality({}) = 0 BY FS_EmptySet
    <3> QED BY <1>2, <3>1, <3>2
  <2>2. StagesInv BY <1>2 DEF StagesInv
  <2>3. hooks \in [Points -> Seq(Handlers)] BY <1>2
  <2>4. installed \in 0..Len(Installing)
    <3>1. Len(Installing) \in Nat BY <1>2, InstallingIs
    <3> QED BY <1>2, <3>1
  <2>5. streaming \in BOOLEAN /\ (stage = "refused") = (refusal # "none") BY <1>2
  <2> QED BY <1>2, <2>1, <2>2, <2>3, <2>4, <2>5 DEF LoadInv
<1>4. LoopInv
  <2>1. /\ pc = "idle" /\ turn = 0 /\ runs = 0 /\ used = 0 /\ ~fatal /\ fatal \in BOOLEAN /\ checks = 0
        /\ batch = <<>> /\ verdicts = <<>> /\ n = 1
        /\ calls = [key \in Keys |-> 0] /\ failures = 0 /\ rejections = 0 /\ violations = 0
        /\ results = <<>>
    BY DEF Init
  <2>2. LoopTypes
    <3>1. batch \in Seq(Keys) /\ verdicts \in Seq({"allow", "deny"}) /\ results \in Seq(Outcomes) BY <2>1
    <3>2. turn \in 0..Turns /\ runs \in 0..MaxRuns BY <2>1, GuardsAssumption
    <3> QED BY <2>1, <3>1, <3>2 DEF LoopTypes
  <2>3. Trails({"error", "rejected"}, failures) /\ Trails({"rejected"}, rejections) BY <2>1 DEF Trails
  <2>4. ~InARow({"error", "rejected"}, MaxFailures) /\ ~InARow({"rejected"}, MaxRejections)
    BY <2>1, GuardsAssumption DEF InARow
  <2>5. \A key \in Keys : calls[key] < MaxIdentical BY <2>1, GuardsAssumption
  <2> QED BY <2>1, <2>2, <2>3, <2>4, <2>5 DEF LoopInv, ResultsInv
<1> QED BY <1>1, <1>3, <1>4 DEF GuardsInv

\* Every step keeps it all.
LEMMA GuardsStep == GuardsInv /\ [Next]_vars => GuardsInv'
<1> SUFFICES ASSUME GuardsInv, [Next]_vars PROVE GuardsInv' OBVIOUS
<1>1. MiddlewareTypeOK' BY StepsOf, MwTyped DEF GuardsInv
<1>2. LoadInv' BY LoadKept DEF GuardsInv
<1>3. LoopInv' BY LoopStep DEF GuardsInv
<1> QED BY <1>1, <1>2, <1>3 DEF GuardsInv

\* The wrappers, the loader and the loop keep their types, whatever manifests
\* there are and whichever of their agents are run.
THEOREM GuardTypes == Spec => []TypeOK
<1>1. GuardsInv => TypeOK
  <2> SUFFICES ASSUME GuardsInv PROVE TypeOK OBVIOUS
  <2>1. ManifestTypeOK
    <3>1. ASSUME NEW p \in Points, NEW k \in DOMAIN hooks[p] PROVE hooks[p][k].on_error \in OnErrors
      <4>1. hooks[p] \in Seq(Handlers) BY DEF GuardsInv, LoadInv
      <4>2. hooks[p][k] \in Handlers BY <4>1
      <4> QED BY <4>2 DEF Handlers
    <3>2. installed \in Nat
      <4>1. Len(Installing) \in Nat BY InstallingIs DEF GuardsInv, LoadInv
      <4> QED BY <4>1 DEF GuardsInv, LoadInv
    <3> QED BY <3>1, <3>2 DEF GuardsInv, LoadInv, ManifestTypeOK
  <2> QED BY <2>1 DEF GuardsInv, LoopInv, LoopTypes, Outcomes, Dispatched, TypeOK
<1> QED BY <1>1, GuardsInit, GuardsStep, PTL DEF Spec

\* An agent that was handed out is the whole of its manifest, its provider is
\* never called on a log past a limit of its guards, and what a boundary that
\* was declared with fail_turn refuses is never carried out.
THEOREM LimitsHold == Spec => []NeverCalledPastALimit
<1>1. GuardsInv => NeverCalledPastALimit
  <2> SUFFICES ASSUME GuardsInv PROVE NeverCalledPastALimit OBVIOUS
  <2>1. LoadInv /\ LoopInv BY DEF GuardsInv
  <2>2. AsDeclared
    <3> SUFFICES ASSUME stage = "ready" PROVE AsDeclared BY DEF AsDeclared
    <3>1. installed = Len(Installing) /\ StagesInv /\ HooksInv BY <2>1 DEF LoadInv, StagesInv
    <3> QED BY <3>1 DEF StagesInv, HooksInv, AsDeclared
  <2>3. ASSUME pc = "call"
        PROVE  /\ used <= MaxTokens /\ \A key \in Keys : calls[key] < MaxIdentical
               /\ ~InARow({"error", "rejected"}, MaxFailures) /\ ~InARow({"rejected"}, MaxRejections)
    BY <2>1, <2>3 DEF LoopInv, ResultsInv
  <2>4. ASSUME NEW m \in DOMAIN batch, CarriedOut(m), Refused(m)
        PROVE  ~Declared(Boundary, "fail_turn")
    <3>1. pc = "dispatch" /\ m \in DOMAIN verdicts /\ verdicts[m] = "allow" /\ batch[m] \in Refusable
      BY <2>4 DEF CarriedOut, Refused, Refusable
    <3>2. BatchInv /\ Running BY <2>1, <3>1 DEF LoopInv
    <3>3. ~FailsTurn BY <3>1, <3>2 DEF BatchInv
    <3> QED BY <2>1, <3>2, <3>3, Agents
  <2> QED BY <2>2, <2>3, <2>4 DEF NeverCalledPastALimit
<1> QED BY <1>1, GuardsInit, GuardsStep, PTL DEF Spec
=============================================================================
