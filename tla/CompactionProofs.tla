-------------------------- MODULE CompactionProofs --------------------------
(***************************************************************************)
(* Proofs about Compaction and the Projections over it: the types and that *)
(* a pass settles, for every value of the constants, and, when tool_use    *)
(* ids are fresh, that no tool pair is ever cut, that nothing is lost or   *)
(* told twice, that it implements the ContextWindow, and that each         *)
(* provider is sent every call once and each result after its call.        *)
(***************************************************************************)
EXTENDS Projections, FiniteSetTheorems, FunctionTheorems, SequenceTheorems,
        WellFoundedInduction, TLAPS

\* Least returns the least member.
LEMMA LeastInSet ==
  ASSUME NEW S, S \subseteq Nat, S # {}
  PROVE  Least(S) \in S /\ \A y \in S : Least(S) <= y
<1> DEFINE Below == {ss \in Nat \X Nat : ss[1] < ss[2]}
<1>1. IsWellFoundedOn(Below, Nat)
  BY NatLessThanWellFounded DEF OpToRel
<1>2. \E x \in S : \A y \in S : ~(<<y, x>> \in Below)
  <2> HIDE DEF Below
  <2> QED BY <1>1, WFMin
<1>3. \A x, y \in Nat : <<y, x>> \in Below <=> y < x
  OBVIOUS
<1>4. \E x \in S : \A y \in S : x <= y
  <2> HIDE DEF Below
  <2>1. PICK x \in S : \A y \in S : ~(<<y, x>> \in Below)
    BY <1>2
  <2>2. \A y \in S : ~(y < x)
    BY <2>1, <1>3
  <2> QED BY <2>2
<1> QED BY <1>4 DEF Least

\* Of a single number, Greatest returns that number.
LEMMA GreatestOfOne ==
  ASSUME NEW x \in Nat
  PROVE  Greatest({x}) = x
BY DEF Greatest

\* Appending an event keeps every earlier one in its place.
LEMMA AppendEvent ==
  ASSUME NEW l \in Seq(Events), NEW e \in Events
  PROVE  /\ Append(l, e) \in Seq(Events)
         /\ Len(l) \in Nat /\ Len(Append(l, e)) = Len(l) + 1
         /\ \A i \in 1..Len(l) : Append(l, e)[i] = l[i] /\ l[i] \in Events
         /\ Append(l, e)[Len(l) + 1] = e
OBVIOUS

\* It adds its own position to those of its type, and to no other.
LEMMA AppendPositions ==
  ASSUME NEW l \in Seq(Events), NEW e \in Events, NEW t
  PROVE  /\ e.type = t => Positions(Append(l, e), t) = Positions(l, t) \cup {Len(l) + 1}
         /\ e.type # t => Positions(Append(l, e), t) = Positions(l, t)
         /\ Positions(l, t) \subseteq 1..Len(l)
<1>1. Positions(Append(l, e), t) \subseteq Positions(l, t) \cup {Len(l) + 1}
  BY AppendEvent DEF Positions
<1>2. Positions(l, t) \subseteq Positions(Append(l, e), t)
  BY AppendEvent DEF Positions
<1>3. Len(l) + 1 \in Positions(Append(l, e), t) <=> e.type = t
  BY AppendEvent DEF Positions
<1>4. Len(l) + 1 \notin Positions(l, t) /\ Positions(l, t) \subseteq 1..Len(l)
  BY AppendEvent DEF Positions
<1> QED BY <1>1, <1>2, <1>3, <1>4

\* The events the actions write.
LEMMA WrittenEvents ==
  /\ \A type \in MessageTypes, id, size \in Nat :
       /\ Event(type, id, size, {}) \in Events
       /\ Event(type, id, size, {}).type = type
       /\ Event(type, id, size, {}).id = id
  /\ \A S \in SUBSET Nat :
       Compact(S) \in Events /\ Compact(S).type = "compact" /\ Compact(S).on = S
  /\ \A c \in Nat :
       LET e == Event("revert", NoId, 0, {c})
       IN  e \in Events /\ e.type = "revert" /\ e.on = {c}
BY DEF Event, Events, Compact, NoId, MessageTypes, MutationTypes

-----------------------------------------------------------------------------
(* The view of a well-formed log.                                            *)

\* A live compact is a compact, and what it replaces comes before it.
LEMMA LiveBounds ==
  ASSUME NEW l, WellFormed(l), NEW c \in Live(l)
  PROVE  /\ c \in 1..Len(l) /\ c \in Nat /\ Len(l) \in Nat /\ l[c].type = "compact"
         /\ l[c].on # {} /\ l[c].on \subseteq 1..Len(l) /\ l[c].on \subseteq Nat
         /\ \A p \in l[c].on : p < c /\ l[p].type \in MessageTypes
<1>1. c \in Positions(l, "compact") /\ l \in Seq(Events)
  BY DEF Live, WellFormed
<1>2. c \in 1..Len(l) /\ Len(l) \in Nat /\ l[c].type = "compact"
  BY <1>1 DEF Positions
<1>3. l[c].on # {} /\ \A p \in l[c].on : p \in 1..c - 1 /\ l[p].type \in MessageTypes
  BY <1>1 DEF WellFormed
<1> QED BY <1>2, <1>3

\* Every summary stands at the place of an event its compact replaces, so an
\* event is rendered exactly when it is a message no live compact replaces.
LEMMA ShownIs ==
  ASSUME NEW l, WellFormed(l)
  PROVE  /\ \A p : p \in Shown(l) <=>
              /\ p \in 1..Len(l) /\ l[p].type \in MessageTypes
              /\ \A c \in Live(l) : p \notin l[c].on
         /\ Messages(l) = Shown(l)
<1>1. \A c \in Live(l) : Least(l[c].on) \in l[c].on
  BY LiveBounds, LeastInSet
<1>2. Heads(l) \subseteq Shadowed(l)
  BY <1>1 DEF Heads, Shadowed
<1>3. \A p \in 1..Len(l) : l[p].type \notin MutationTypes <=> l[p].type \in MessageTypes
  <2>1. \A p \in 1..Len(l) : l[p] \in Events
    BY DEF WellFormed
  <2> QED BY <2>1 DEF Events, MutationTypes, MessageTypes
<1>4. \A p : p \in Shadowed(l) <=> \E c \in Live(l) : p \in l[c].on
  BY DEF Shadowed
<1>5. \A p : p \in Shown(l) <=>
        p \in 1..Len(l) /\ l[p].type \notin MutationTypes /\ p \notin Shadowed(l)
  BY <1>2 DEF Shown
<1>6. \A p : p \in Shown(l) <=>
              /\ p \in 1..Len(l) /\ l[p].type \in MessageTypes
              /\ \A c \in Live(l) : p \notin l[c].on
  BY <1>3, <1>4, <1>5
<1>7. Messages(l) = Shown(l)
  BY <1>6 DEF Messages
<1> QED BY <1>6, <1>7

\* When live compacts do not overlap, every one of them is rendered.
LEMMA ToldIsLive ==
  ASSUME NEW l, WellFormed(l), NoOverlap(l)
  PROVE  Told(l) = Live(l)
<1>1. \A c \in Live(l) : Least(l[c].on) \in l[c].on
  BY LiveBounds, LeastInSet
<1>2. \A c, d \in Live(l) : Least(l[c].on) = Least(l[d].on) => c = d
  BY <1>1 DEF NoOverlap
<1>3. \A c \in Live(l) : SummaryAt(l, Least(l[c].on)) = c
  <2> SUFFICES ASSUME NEW c \in Live(l) PROVE SummaryAt(l, Least(l[c].on)) = c
    OBVIOUS
  <2>1. {d \in Live(l) : Least(l[d].on) = Least(l[c].on)} = {c}
    BY <1>2
  <2>2. c \in Nat
    BY LiveBounds
  <2> QED BY <2>1, <2>2, GreatestOfOne DEF SummaryAt
<1>4. \A p \in Heads(l) : l[p].type \notin MutationTypes
  <2>1. \A c \in Live(l) : l[Least(l[c].on)].type \in MessageTypes
    BY <1>1, LiveBounds
  <2> QED BY <2>1 DEF Heads, MessageTypes, MutationTypes
<1>5. Told(l) = {SummaryAt(l, p) : p \in Heads(l)}
  BY <1>4 DEF Told
<1>6. {SummaryAt(l, p) : p \in Heads(l)} = Live(l)
  BY <1>3 DEF Heads
<1> QED BY <1>5, <1>6

-----------------------------------------------------------------------------
(* What each kind of append does to the view.                                *)

\* A message: the view gains it.
MessageAdded(l, m) ==
  /\ WellFormed(m) /\ Len(m) = Len(l) + 1
  /\ Live(m) = Live(l)
  /\ \A c \in Live(l) : m[c].on = l[c].on
  /\ Shown(m) = Shown(l) \cup {Len(l) + 1}

LEMMA MessageView ==
  ASSUME NEW l, WellFormed(l), NEW e \in Events, e.type \in MessageTypes
  PROVE  MessageAdded(l, Append(l, e))
<1> DEFINE m == Append(l, e)
<1>1. l \in Seq(Events) /\ m \in Seq(Events) /\ Len(m) = Len(l) + 1 /\ Len(l) \in Nat
  BY AppendEvent DEF WellFormed
<1>2. \A i \in 1..Len(l) : m[i] = l[i]
  BY <1>1, AppendEvent
<1>3. m[Len(l) + 1] = e
  BY <1>1, AppendEvent
<1>4. e.type # "compact" /\ e.type # "revert"
  BY DEF MessageTypes
<1>5. /\ Positions(m, "compact") = Positions(l, "compact")
      /\ Positions(m, "revert") = Positions(l, "revert")
      /\ Positions(l, "compact") \subseteq 1..Len(l)
      /\ Positions(l, "revert") \subseteq 1..Len(l)
  BY <1>1, <1>4, AppendPositions
<1> HIDE DEF m
<1>6. WellFormed(m)
  <2>1. ASSUME NEW c \in Positions(m, "compact")
        PROVE  m[c].on # {} /\ \A p \in m[c].on : p \in 1..c - 1 /\ m[p].type \in MessageTypes
    <3>1. c \in 1..Len(l) /\ m[c] = l[c]
      BY <1>2, <1>5
    <3>2. l[c].on # {} /\ \A p \in l[c].on : p \in 1..c - 1 /\ l[p].type \in MessageTypes
      BY <1>5 DEF WellFormed
    <3>3. \A p \in 1..c - 1 : m[p] = l[p]
      BY <3>1, <1>1, <1>2
    <3> QED BY <3>1, <3>2, <3>3
  <2>2. ASSUME NEW r \in Positions(m, "revert")
        PROVE  \A c \in m[r].on : c \in 1..r - 1 /\ m[c].type = "compact"
    <3>1. r \in 1..Len(l) /\ m[r] = l[r]
      BY <1>2, <1>5
    <3>2. \A c \in l[r].on : c \in 1..r - 1 /\ l[c].type = "compact"
      BY <1>5 DEF WellFormed
    <3>3. \A p \in 1..r - 1 : m[p] = l[p]
      BY <3>1, <1>1, <1>2
    <3> QED BY <3>1, <3>2, <3>3
  <2> QED BY <1>1, <2>1, <2>2 DEF WellFormed
<1>7. Live(m) = Live(l)
  BY <1>2, <1>5 DEF Live
<1>8. \A c \in Live(l) : m[c].on = l[c].on
  BY <1>2, <1>5 DEF Live
<1>9. Shown(m) = Shown(l) \cup {Len(l) + 1}
  <2>1. \A p \in 1..Len(l) : p \in Shown(m) <=> p \in Shown(l)
    BY <1>1, <1>2, <1>6, <1>7, <1>8, ShownIs
  <2>2. \A c \in Live(l) : Len(l) + 1 \notin l[c].on
    BY <1>1, LiveBounds
  <2>3. Len(l) + 1 \in Shown(m)
    BY <1>1, <1>3, <1>6, <1>7, <1>8, <2>2, ShownIs
  <2>4. Shown(m) \subseteq 1..Len(l) + 1 /\ Shown(l) \subseteq 1..Len(l)
    BY <1>1, <1>6, ShownIs
  <2> QED BY <1>1, <2>1, <2>3, <2>4
<1> QED BY <1>1, <1>6, <1>7, <1>8, <1>9 DEF m, MessageAdded

\* A compact of messages is live from the start.
CompactAdded(l, S, m) ==
  /\ WellFormed(m) /\ Len(m) = Len(l) + 1
  /\ Live(m) = Live(l) \cup {Len(l) + 1}
  /\ \A c \in Live(l) : m[c].on = l[c].on
  /\ m[Len(l) + 1] = Compact(S) /\ Compact(S).on = S /\ Compact(S).type = "compact"
  /\ Compact(S) \in Events
  /\ \A i \in 1..Len(l) : m[i] = l[i]

LEMMA CompactFormed ==
  ASSUME NEW l, WellFormed(l), NEW S, S # {}, S \subseteq 1..Len(l),
         \A p \in S : l[p].type \in MessageTypes
  PROVE  CompactAdded(l, S, Append(l, Compact(S)))
<1> DEFINE m == Append(l, Compact(S))
<1>0. l \in Seq(Events) /\ Len(l) \in Nat
  BY DEF WellFormed
<1>a. \A p \in S : p \in 1..Len(l) /\ l[p].type \in MessageTypes
  OBVIOUS
<1>b. Compact(S) \in Events /\ Compact(S).type = "compact" /\ Compact(S).on = S
  <2>1. S \in SUBSET Nat
    BY <1>0
  <2> QED BY <2>1, WrittenEvents
<1>1. m \in Seq(Events) /\ Len(m) = Len(l) + 1
  BY <1>0, <1>b, AppendEvent
<1>2. \A i \in 1..Len(l) : m[i] = l[i]
  BY <1>0, <1>b, AppendEvent
<1>3. m[Len(l) + 1] = Compact(S)
  BY <1>0, <1>b, AppendEvent
<1>5. /\ Positions(m, "compact") = Positions(l, "compact") \cup {Len(l) + 1}
      /\ Positions(m, "revert") = Positions(l, "revert")
      /\ Positions(l, "compact") \subseteq 1..Len(l)
      /\ Positions(l, "revert") \subseteq 1..Len(l)
  BY <1>0, <1>b, AppendPositions
<1> HIDE DEF m
<1>6. WellFormed(m)
  <2>1. ASSUME NEW c \in Positions(l, "compact")
        PROVE  m[c].on # {} /\ \A p \in m[c].on : p \in 1..c - 1 /\ m[p].type \in MessageTypes
    <3>1. c \in 1..Len(l) /\ m[c] = l[c]
      BY <1>2, <1>5
    <3>2. l[c].on # {} /\ \A p \in l[c].on : p \in 1..c - 1 /\ l[p].type \in MessageTypes
      BY DEF WellFormed
    <3>3. \A p \in 1..c - 1 : m[p] = l[p]
      BY <3>1, <1>0, <1>2
    <3> QED BY <3>1, <3>2, <3>3
  <2>2. ASSUME NEW r \in Positions(m, "revert")
        PROVE  \A c \in m[r].on : c \in 1..r - 1 /\ m[c].type = "compact"
    <3>1. r \in 1..Len(l) /\ m[r] = l[r]
      BY <1>2, <1>5
    <3>2. \A c \in l[r].on : c \in 1..r - 1 /\ l[c].type = "compact"
      BY <1>5 DEF WellFormed
    <3>3. \A p \in 1..r - 1 : m[p] = l[p]
      BY <3>1, <1>0, <1>2
    <3> QED BY <3>1, <3>2, <3>3
  <2>3. \A p \in S : p \in 1..(Len(l) + 1) - 1 /\ m[p].type \in MessageTypes
    BY <1>0, <1>a, <1>2
  <2> QED BY <1>1, <1>3, <1>5, <1>b, <2>1, <2>2, <2>3 DEF WellFormed
<1>7. Live(m) = Live(l) \cup {Len(l) + 1}
  <2>1. \A r \in Positions(l, "revert") : m[r] = l[r] /\ Len(l) + 1 \notin l[r].on
    BY <1>0, <1>2, <1>5 DEF WellFormed
  <2> QED BY <1>5, <2>1 DEF Live
<1>8. \A c \in Live(l) : m[c].on = l[c].on
  BY <1>2, <1>5 DEF Live
<1> QED BY <1>1, <1>2, <1>3, <1>b, <1>6, <1>7, <1>8 DEF m, CompactAdded

\* Messages S of a log l are compacted, which leaves the log m.
Hides(l, S, m) ==
  /\ WellFormed(l) /\ S # {} /\ S \subseteq 1..Len(l)
  /\ \A p \in S : l[p].type \in MessageTypes
  /\ m = Append(l, Compact(S))

\* The view loses those of them it had.
LEMMA HiddenView ==
  ASSUME NEW l, NEW S, NEW m, Hides(l, S, m)
  PROVE  /\ Shown(m) = Shown(l) \ S /\ Messages(m) = Messages(l) \ S
         /\ Messages(l) \subseteq 1..Len(l) /\ Len(l) \in Nat
         /\ \A p \in 1..Len(l) : m[p] = l[p]
<1>0. Len(l) \in Nat /\ WellFormed(l)
  BY DEF WellFormed, Hides
<1>1. CompactAdded(l, S, m)
  BY CompactFormed DEF Hides
<1>2. /\ WellFormed(m) /\ Len(m) = Len(l) + 1 /\ Live(m) = Live(l) \cup {Len(l) + 1}
      /\ \A c \in Live(l) : m[c].on = l[c].on
      /\ m[Len(l) + 1].on = S /\ m[Len(l) + 1].type = "compact"
      /\ \A i \in 1..Len(l) : m[i] = l[i]
  BY <1>1 DEF CompactAdded
<1>3. ASSUME NEW p \in 1..Len(l) PROVE p \in Shown(m) <=> p \in Shown(l) /\ p \notin S
  <2>1. p \in 1..Len(m) /\ m[p] = l[p]
    BY <1>0, <1>2
  <2>2. p \in Shown(m) <=> l[p].type \in MessageTypes /\ \A c \in Live(m) : p \notin m[c].on
    BY <1>2, <2>1, ShownIs
  <2>3. (\A c \in Live(m) : p \notin m[c].on) <=> (\A c \in Live(l) : p \notin l[c].on) /\ p \notin S
    BY <1>2
  <2> QED BY <1>0, <2>2, <2>3, ShownIs
<1>4. Len(l) + 1 \notin Shown(m)
  BY <1>2, ShownIs DEF MessageTypes
<1>5. Shown(m) \subseteq 1..Len(l) + 1 /\ Shown(l) \subseteq 1..Len(l)
  BY <1>0, <1>2, ShownIs
<1>6. Shown(m) = Shown(l) \ S
  BY <1>0, <1>3, <1>4, <1>5
<1>7. Messages(m) = Shown(m) /\ Messages(l) = Shown(l)
  BY <1>0, <1>2, ShownIs
<1> QED BY <1>0, <1>2, <1>5, <1>6, <1>7

\* A compact of rendered messages: the view loses exactly those.
LEMMA CompactView ==
  ASSUME NEW l, WellFormed(l), NEW S, S \subseteq Shown(l), S # {}
  PROVE  Shown(Append(l, Compact(S))) = Shown(l) \ S
<1>1. S \subseteq 1..Len(l) /\ \A p \in S : l[p].type \in MessageTypes
  BY ShownIs
<1>2. Hides(l, S, Append(l, Compact(S)))
  BY <1>1 DEF Hides
<1> QED BY <1>2, HiddenView

\* A revert: the compact it names is no longer live.
RevertAdded(l, b, m) ==
  /\ WellFormed(m) /\ Len(m) = Len(l) + 1
  /\ Live(m) = Live(l) \ {b}
  /\ \A c \in Live(l) : m[c].on = l[c].on
  /\ \A p : p \in Shown(m) <=>
       /\ p \in 1..Len(l) /\ l[p].type \in MessageTypes
       /\ \A c \in Live(l) \ {b} : p \notin l[c].on

LEMMA RevertView ==
  ASSUME NEW l, WellFormed(l), NEW b \in Positions(l, "compact")
  PROVE  RevertAdded(l, b, Append(l, Event("revert", NoId, 0, {b})))
<1> DEFINE e == Event("revert", NoId, 0, {b})
           m == Append(l, e)
<1>0. l \in Seq(Events) /\ Len(l) \in Nat /\ b \in 1..Len(l) /\ l[b].type = "compact"
  BY DEF WellFormed, Positions
<1>b. e \in Events /\ e.type = "revert" /\ e.on = {b}
  BY <1>0, WrittenEvents
<1> HIDE DEF e
<1>1. m \in Seq(Events) /\ Len(m) = Len(l) + 1
  BY <1>0, <1>b, AppendEvent
<1>2. \A i \in 1..Len(l) : m[i] = l[i]
  BY <1>0, <1>b, AppendEvent
<1>3. m[Len(l) + 1] = e
  BY <1>0, <1>b, AppendEvent
<1>5. /\ Positions(m, "compact") = Positions(l, "compact")
      /\ Positions(m, "revert") = Positions(l, "revert") \cup {Len(l) + 1}
      /\ Positions(l, "compact") \subseteq 1..Len(l)
      /\ Positions(l, "revert") \subseteq 1..Len(l)
  BY <1>0, <1>b, AppendPositions
<1> HIDE DEF m
<1>6. WellFormed(m)
  <2>1. ASSUME NEW c \in Positions(m, "compact")
        PROVE  m[c].on # {} /\ \A p \in m[c].on : p \in 1..c - 1 /\ m[p].type \in MessageTypes
    <3>1. c \in 1..Len(l) /\ m[c] = l[c]
      BY <1>2, <1>5
    <3>2. l[c].on # {} /\ \A p \in l[c].on : p \in 1..c - 1 /\ l[p].type \in MessageTypes
      BY <1>5 DEF WellFormed
    <3>3. \A p \in 1..c - 1 : m[p] = l[p]
      BY <3>1, <1>0, <1>2
    <3> QED BY <3>1, <3>2, <3>3
  <2>2. ASSUME NEW r \in Positions(l, "revert")
        PROVE  \A c \in m[r].on : c \in 1..r - 1 /\ m[c].type = "compact"
    <3>1. r \in 1..Len(l) /\ m[r] = l[r]
      BY <1>2, <1>5
    <3>2. \A c \in l[r].on : c \in 1..r - 1 /\ l[c].type = "compact"
      BY DEF WellFormed
    <3>3. \A p \in 1..r - 1 : m[p] = l[p]
      BY <3>1, <1>0, <1>2
    <3> QED BY <3>1, <3>2, <3>3
  <2>3. b \in 1..(Len(l) + 1) - 1 /\ m[b].type = "compact"
    BY <1>0, <1>2
  <2> QED BY <1>1, <1>3, <1>5, <1>b, <2>1, <2>2, <2>3 DEF WellFormed
<1>7. Live(m) = Live(l) \ {b}
  BY <1>2, <1>3, <1>5, <1>b DEF Live
<1>8. \A c \in Live(l) : m[c].on = l[c].on
  BY <1>2, <1>5 DEF Live
<1>9. ASSUME NEW p
      PROVE  p \in Shown(m) <=>
               /\ p \in 1..Len(l) /\ l[p].type \in MessageTypes
               /\ \A c \in Live(l) \ {b} : p \notin l[c].on
  <2>1. p \in Shown(m) <=>
               /\ p \in 1..Len(l) + 1 /\ m[p].type \in MessageTypes
               /\ \A c \in Live(l) \ {b} : p \notin l[c].on
    BY <1>1, <1>6, <1>7, <1>8, ShownIs
  <2>2. m[Len(l) + 1].type \notin MessageTypes
    BY <1>3, <1>b DEF MessageTypes
  <2> QED BY <1>0, <1>2, <2>1, <2>2
<1> QED BY <1>1, <1>6, <1>7, <1>8, <1>9 DEF m, e, RevertAdded

-----------------------------------------------------------------------------
(* Tool pairs.                                                               *)

\* Greatest returns the greatest member of a bounded set.
LEMMA GreatestInSet ==
  ASSUME NEW n \in Nat, NEW S, S \subseteq 1..n, S # {}
  PROVE  Greatest(S) \in S
<1> DEFINE T == {n - x : x \in S}
<1>0. \A x \in S : x \in 1..n
  OBVIOUS
<1>1. T \subseteq Nat /\ T # {}
  <2>1. \A x \in 1..n : n - x \in Nat
    OBVIOUS
  <2>2. T \subseteq Nat
    BY <1>0, <2>1, Zenon
  <2>3. T # {}
    BY Zenon
  <2> QED BY <2>2, <2>3
<1>2. PICK t \in T : \A y \in T : t <= y
  BY <1>1, LeastInSet
<1>3. PICK x \in S : t = n - x
  OBVIOUS
<1>4. \A y \in S : x >= y
  <2> SUFFICES ASSUME NEW y \in S PROVE x >= y
    OBVIOUS
  <2>1. n - x <= n - y
    BY <1>2, <1>3
  <2>2. x \in 1..n /\ y \in 1..n
    OBVIOUS
  <2> QED BY <2>1, <2>2
<1> QED BY <1>4 DEF Greatest

\* With fresh ids a tool_use and its result are the pair of their id, so what
\* tool_pair_safe_range keeps of any candidates is closed under pairs.
LEMMA SafeIsClosed ==
  ASSUME WellFormed(log), IdsInv, NEW C
  PROVE  PairClosed(log, Safe(log, C))
<1> SUFFICES ASSUME NEW u \in Positions(log, "tool_use")
             PROVE  /\ u \in Safe(log, C) => log[u].id \in Answered(log)
                    /\ \A r \in Positions(log, "tool_result") :
                         log[r].id = log[u].id => (u \in Safe(log, C) <=> r \in Safe(log, C))
  BY DEF PairClosed
<1> DEFINE id == log[u].id
<1>1. id \in Requested(log)
  BY DEF Requested
<1>2. u \in Pair(log, id)
  <2>1. \A q \in 1..Len(log) : q > u => ~(log[q].type = log[u].type /\ log[q].id = id)
    BY DEF IdsInv, Positions
  <2> QED BY <2>1 DEF Pair, Positions
<1>3. u \in Safe(log, C) => id \notin Split(log, C)
  BY <1>1, <1>2 DEF Safe
<1>4. u \in Safe(log, C) => id \in Answered(log)
  BY <1>1, <1>3 DEF Split
<1>5. ASSUME NEW r \in Positions(log, "tool_result"), log[r].id = id
      PROVE  u \in Safe(log, C) <=> r \in Safe(log, C)
  <2>1. r \in Pair(log, id)
    <3>1. \A q \in 1..Len(log) : q > r => ~(log[q].type = log[r].type /\ log[q].id = id)
      BY <1>5 DEF IdsInv, Positions
    <3> QED BY <1>5, <3>1 DEF Pair, Positions
  <2>2. \A j : u \in Pair(log, j) \/ r \in Pair(log, j) => j = id
    BY <1>5 DEF Pair
  <2>3. u \in Safe(log, C) <=> u \in C /\ id \notin Split(log, C)
    BY <1>2, <2>2 DEF Safe, Split
  <2>4. r \in Safe(log, C) <=> r \in C /\ id \notin Split(log, C)
    BY <2>1, <2>2 DEF Safe, Split
  <2>5. id \notin Split(log, C) => u \in C /\ r \in C
    BY <1>1, <1>2, <2>1 DEF Split
  <2> QED BY <2>3, <2>4, <2>5
<1> QED BY <1>4, <1>5

\* tool_pair_safe_range lets a strategy compact as much as whole pairs allow: any
\* choice from the candidates that is closed under pairs is within its own.
LargestClosed(S, C) ==
  /\ S \subseteq C /\ PairClosed(log, S)
  /\ \A T \in SUBSET C : PairClosed(log, T) => T \subseteq S
LEMMA SafeIsLargest ==
  ASSUME WellFormed(log), IdsInv, NEW C
  PROVE  LargestClosed(Safe(log, C), C)
<1>1. Safe(log, C) \subseteq C
  BY DEF Safe
<1>2. ASSUME NEW S \in SUBSET C, PairClosed(log, S), NEW p \in S, p \notin Safe(log, C)
      PROVE  FALSE
  <2>1. PICK id \in Split(log, C) : p \in Pair(log, id)
    BY <1>2 DEF Safe
  <2>2. PICK u \in Positions(log, "tool_use") : log[u].id = id
    BY <2>1 DEF Split, Requested
  <2>3. u \in S
    BY <1>2, <2>1, <2>2 DEF Pair, PairClosed, IdsInv
  <2>4. id \in Answered(log)
    BY <1>2, <2>2, <2>3 DEF PairClosed
  <2>5. ASSUME NEW q \in Pair(log, id) PROVE q \in S
    BY <1>2, <2>2, <2>3, <2>5 DEF Pair, PairClosed, IdsInv
  <2> QED BY <2>1, <2>4, <2>5 DEF Split
<1> QED BY <1>1, <1>2, SafeIsClosed DEF LargestClosed

\* A set that is closed stays closed when the log grows, as long as the
\* new event is no half of a pair that is already answered.
LEMMA ClosedGrows ==
  ASSUME NEW l \in Seq(Events), NEW e \in Events, NEW S, S \subseteq 1..Len(l),
         PairClosed(l, S),
         e.type \in {"tool_use", "tool_result"} => e.id \notin Answered(l)
  PROVE  PairClosed(Append(l, e), S)
<1> DEFINE m == Append(l, e)
<1>1. /\ Len(l) \in Nat /\ \A i \in 1..Len(l) : m[i] = l[i]
      /\ m[Len(l) + 1] = e
  BY AppendEvent
<1>2. /\ Positions(m, "tool_use") \subseteq Positions(l, "tool_use") \cup {Len(l) + 1}
      /\ Positions(m, "tool_result") \subseteq Positions(l, "tool_result") \cup {Len(l) + 1}
      /\ Positions(l, "tool_result") \subseteq Positions(m, "tool_result")
      /\ Positions(l, "tool_use") \subseteq 1..Len(l)
      /\ Positions(l, "tool_result") \subseteq 1..Len(l)
      /\ Len(l) + 1 \in Positions(m, "tool_use") => e.type = "tool_use"
      /\ Len(l) + 1 \in Positions(m, "tool_result") => e.type = "tool_result"
  BY <1>1, AppendPositions DEF Positions
<1> HIDE DEF m
<1>3. Len(l) + 1 \notin S /\ Len(l) + 1 \notin 1..Len(l)
  BY <1>1
<1>4. \A r \in Positions(l, "tool_result") : m[r].id = l[r].id /\ l[r].id \in Answered(l)
  BY <1>1, <1>2 DEF Answered
<1>5. Answered(l) \subseteq Answered(m)
  BY <1>2, <1>4 DEF Answered
<1>6. ASSUME NEW u \in Positions(l, "tool_use")
      PROVE  /\ u \in S => m[u].id \in Answered(m)
             /\ \A r \in Positions(m, "tool_result") :
                  m[r].id = m[u].id => (u \in S <=> r \in S)
  <2>1. m[u].id = l[u].id /\ (u \in S => l[u].id \in Answered(l))
    BY <1>1, <1>2 DEF PairClosed
  <2>2. ASSUME NEW r \in Positions(l, "tool_result"), m[r].id = m[u].id
        PROVE  u \in S <=> r \in S
    BY <1>4, <2>1, <2>2 DEF PairClosed
  <2>3. Len(l) + 1 \in Positions(m, "tool_result") /\ m[Len(l) + 1].id = m[u].id => u \notin S
    BY <1>1, <1>2, <2>1
  <2> QED BY <1>2, <1>3, <1>5, <2>1, <2>2, <2>3
<1>7. Len(l) + 1 \in Positions(m, "tool_use") =>
        \A r \in Positions(m, "tool_result") : m[r].id = m[Len(l) + 1].id => r \notin S
  BY <1>1, <1>2, <1>3, <1>4
<1> QED BY <1>2, <1>3, <1>6, <1>7 DEF PairClosed, m

-----------------------------------------------------------------------------
(* What a step does to the log.                                              *)

\* A message event e is appended; its id is 0, or new, or unanswered.
Records(e) ==
  /\ HasRoom /\ log' = Append(log, e)
  /\ e \in Events /\ e.type \in MessageTypes
  /\ e.type = "tool_use" => e.id = serial + 1 /\ serial' = serial + 1
  /\ e.type = "tool_result" => e.id \in Requested(log) \ Answered(log)
  /\ e.type # "tool_use" => serial' \in {serial, 0} /\ (FreshIds => serial' = serial)
  /\ pc \in {"loop", "ingest", "call"} /\ pc' \in {"loop", "ingest"}
  /\ UNCHANGED <<k, todo>>

\* The messages of S are compacted.
Compacts(S) ==
  /\ HasRoom /\ log' = Append(log, Compact(S)) /\ serial' = serial
  /\ S # {} /\ S \subseteq 1..Len(log) /\ \A p \in S : log[p].type \in MessageTypes

\* A tail strategy compacts what tool_pair_safe_range keeps.
TailCompacts ==
  \E keep \in Nat :
    /\ Compacts(Safe(log, Candidates(log, keep)))
    /\ pc = "pass" /\ pc' = pc /\ k < Len(Strategies) + 1 /\ k' = k + 1 /\ todo' = todo

\* ToolOutputCap compacts a result with its tool_use.
CapCompacts ==
  /\ pc = "cap" /\ todo # {}
  /\ Compacts({UseOf(log, Least(todo)), Least(todo)})
  /\ todo' = todo \ {Least(todo)}
  /\ UNCHANGED <<pc, k>>

\* The log stays, and so do the ids; ToolOutputCap may begin or end.
Stays ==
  /\ UNCHANGED <<log, serial>>
  /\ pc' \in {"loop", "pass", "call", "cap"}
  /\ k' \in 1..Len(Strategies) + 1
  /\ \/ pc' # "cap" /\ todo' \subseteq todo
     \/ /\ pc' = "cap" /\ k' <= Len(Strategies) /\ Strategies[k'].kind = "cap"
        /\ todo' = Oversize(log, Strategies[k'].limit)

Steps ==
  \/ \E e \in Events : Records(e)
  \/ TailCompacts \/ CapCompacts
  \/ \E c : Revert(c)
  \/ Stays
  \/ UNCHANGED vars

\* A member of todo is a tool_result in the log whose id was requested, and
\* UseOf finds a tool_use with that id.
LEMMA TodoUse ==
  ASSUME TypeOK, todo # {}
  PROVE  LET r == Least(todo)
             u == UseOf(log, r)
         IN  /\ r \in todo /\ r \in Positions(log, "tool_result")
             /\ u \in Positions(log, "tool_use") /\ log[u].id = log[r].id
<1> DEFINE r == Least(todo)
           U == {v \in Positions(log, "tool_use") : log[v].id = log[r].id}
<1>1. todo \subseteq {x \in Positions(log, "tool_result") : log[x].id \in Requested(log)}
  BY DEF TypeOK, PassType
<1>2. Len(log) \in Nat
  BY DEF TypeOK, WellFormed
<1>3. todo \subseteq Nat
  BY <1>1, <1>2 DEF Positions
<1>4. r \in todo
  BY <1>3, LeastInSet
<1>5. r \in Positions(log, "tool_result") /\ log[r].id \in Requested(log)
  BY <1>1, <1>4
<1>6. U # {} /\ U \subseteq 1..Len(log)
  BY <1>5 DEF Requested, Positions
<1>7. Greatest(U) \in U
  <2> HIDE DEF U
  <2> QED BY <1>2, <1>6, GreatestInSet
<1> QED BY <1>4, <1>5, <1>7 DEF UseOf

LEMMA StepsOf ==
  ASSUME TypeOK, [Next]_vars
  PROVE  Steps
<1> USE DEF TypeOK, PassType
<1>0. Strategies \in Seq(StrategyType) /\ Len(Strategies) \in Nat
  BY StrategiesAssumption
<1>a. \A size \in Sizes : size \in Nat
  BY DataAssumption
<1>b. serial \in Nat /\ Len(log) \in Nat
  BY DEF WellFormed
<1>1. ASSUME NEW size \in Sizes, UserMessage(size)
      PROVE  Steps
  <2> DEFINE e == Event("user_message", NoId, size, {})
  <2>1. e \in Events /\ e.type = "user_message"
    BY <1>a, WrittenEvents DEF MessageTypes, NoId
  <2>2. Records(e)
    BY <1>1, <2>1 DEF UserMessage, BetweenPasses, Records, Write, MessageTypes
  <2> QED BY <2>1, <2>2 DEF Steps
<1>2. ASSUME NEW size \in Sizes, AssistantMessage(size)
      PROVE  Steps
  <2> DEFINE e == Event("assistant_message", NoId, size, {})
  <2>1. e \in Events /\ e.type = "assistant_message"
    BY <1>a, WrittenEvents DEF MessageTypes, NoId
  <2>2. Records(e)
    BY <1>2, <2>1 DEF AssistantMessage, Records, Write, MessageTypes
  <2> QED BY <2>1, <2>2 DEF Steps
<1>3. ASSUME NEW size \in Sizes, ToolUse(size)
      PROVE  Steps
  <2> DEFINE e == Event("tool_use", serial + 1, size, {})
  <2>1. e \in Events /\ e.type = "tool_use" /\ e.id = serial + 1
    <3>1. serial + 1 \in Nat
      BY <1>b
    <3> QED BY <1>a, <3>1, WrittenEvents DEF MessageTypes
  <2>2. Records(e)
    <3> HIDE DEF e
    <3>1. log' = Append(log, e)
      BY <1>3 DEF ToolUse, Write, e
    <3> QED BY <1>3, <2>1, <3>1 DEF ToolUse, Records, MessageTypes
  <2> QED BY <2>1, <2>2 DEF Steps
<1>4. ASSUME NEW id \in 1..MaxEvents, NEW size \in Sizes, ToolResult(id, size)
      PROVE  Steps
  <2> DEFINE e == Event("tool_result", id, size, {})
  <2>1. e \in Events /\ e.type = "tool_result" /\ e.id = id
    <3>1. id \in Nat
      BY DataAssumption
    <3> QED BY <1>a, <3>1, WrittenEvents DEF MessageTypes
  <2>2. Records(e)
    <3> HIDE DEF e
    <3>1. log' = Append(log, e)
      BY <1>4 DEF ToolResult, Write, e
    <3> QED BY <1>4, <2>1, <3>1 DEF ToolResult, BetweenPasses, Records, MessageTypes
  <2> QED BY <2>1, <2>2 DEF Steps
<1>5. ASSUME NEW c \in 1..MaxEvents, Revert(c)
      PROVE  Steps
  BY <1>5 DEF Steps
<1>6. ASSUME pc = "pass", k <= Len(Strategies), k' = k + 1, UNCHANGED <<pc, todo, serial>>,
             CompactTail \/ UNCHANGED log
      PROVE  Steps
  <2>1. Handler.keep \in Nat
    <3>1. k \in 1..Len(Strategies)
      BY <1>0, <1>6
    <3>2. Strategies[k] \in StrategyType
      BY <1>0, <3>1
    <3> QED BY <3>2 DEF Handler, StrategyType
  <2>2. k + 1 \in 1..Len(Strategies) + 1 /\ k < Len(Strategies) + 1
    BY <1>0, <1>6
  <2>3. CASE UNCHANGED log
    BY <1>6, <2>2, <2>3 DEF Steps, Stays
  <2>4. CASE CompactTail /\ log' # log
    <3> DEFINE S == Safe(log, Candidates(log, Handler.keep))
    <3>1. S # {} /\ HasRoom /\ log' = Append(log, Compact(S))
      BY <2>4 DEF CompactTail, Write
    <3>2. S \subseteq Messages(log)
      BY DEF Safe, Candidates
    <3>3. S \subseteq 1..Len(log) /\ \A p \in S : log[p].type \in MessageTypes
      BY <3>2 DEF Messages, Shown
    <3>4. Compacts(S)
      BY <1>6, <3>1, <3>3 DEF Compacts
    <3>5. TailCompacts
      BY <1>6, <2>1, <2>2, <3>4 DEF TailCompacts
    <3> QED BY <3>5 DEF Steps
  <2> QED BY <1>6, <2>3, <2>4
<1>7. CASE MarkerTail
  BY <1>6, <1>7 DEF MarkerTail, AtHandler
<1>8. CASE TokenMarkerTail
  BY <1>6, <1>8 DEF TokenMarkerTail, AtHandler
<1>9. ASSUME NEW answers \in BOOLEAN, SummaryTail(answers)
      PROVE  Steps
  BY <1>6, <1>9 DEF SummaryTail, AtHandler
<1>10. CASE BeginPass
  BY <1>0, <1>10 DEF BeginPass, Steps, Stays
<1>11. CASE ToolOutputCap
  BY <1>11 DEF ToolOutputCap, AtHandler, Handler, Steps, Stays
<1>12. CASE CapNext
  <2>1. CASE todo = {}
    BY <1>0, <1>12, <2>1 DEF CapNext, Steps, Stays
  <2>2. CASE todo # {}
    <3> DEFINE r == Least(todo)
               u == UseOf(log, r)
    <3>1. r \in Positions(log, "tool_result") /\ u \in Positions(log, "tool_use")
      BY <2>2, TodoUse
    <3>2. {u, r} \subseteq 1..Len(log) /\ \A p \in {u, r} : log[p].type \in MessageTypes
      BY <3>1 DEF Positions, MessageTypes
    <3>3. Compacts({u, r})
      BY <1>12, <2>2, <3>2 DEF CapNext, Compacts, Write
    <3> QED BY <1>12, <2>2, <3>3 DEF CapNext, CapCompacts, Steps
  <2> QED BY <2>1, <2>2
<1>13. CASE Project
  BY <1>13 DEF Project, Steps, Stays
<1>14. CASE Abandon
  BY <1>14 DEF Abandon, Steps, Stays
<1>15. CASE UNCHANGED vars
  BY <1>15 DEF Steps
<1> QED BY <1>1, <1>2, <1>3, <1>4, <1>5, <1>7, <1>8, <1>9, <1>10, <1>11, <1>12, <1>13,
           <1>14, <1>15 DEF Next

-----------------------------------------------------------------------------
(* Types.                                                                    *)

TodoType(l, T) == T \subseteq {r \in Positions(l, "tool_result") : l[r].id \in Requested(l)}

\* What ToolOutputCap holds keeps its type when the log grows.
LEMMA TodoGrows ==
  ASSUME NEW l \in Seq(Events), NEW e \in Events, NEW T, TodoType(l, T)
  PROVE  TodoType(Append(l, e), T)
<1> DEFINE m == Append(l, e)
<1>1. \A i \in 1..Len(l) : m[i] = l[i]
  BY AppendEvent
<1>2. ASSUME NEW t
      PROVE  Positions(l, t) \subseteq Positions(m, t) /\ Positions(l, t) \subseteq 1..Len(l)
  <2>1. CASE e.type = t BY <2>1, AppendPositions
  <2>2. CASE e.type # t BY <2>2, AppendPositions
  <2> QED BY <2>1, <2>2
<1> HIDE DEF m
<1>3. Requested(l) \subseteq Requested(m)
  BY <1>1, <1>2 DEF Requested
<1>4. \A r \in T : r \in Positions(l, "tool_result") /\ l[r].id \in Requested(l)
  BY DEF TodoType
<1>5. \A r \in T : r \in Positions(m, "tool_result") /\ m[r].id \in Requested(m)
  BY <1>1, <1>2, <1>3, <1>4
<1> QED BY <1>5 DEF TodoType, m

LEMMA TypeStep ==
  ASSUME TypeOK, [Next]_vars
  PROVE  TypeOK'
<1>0. /\ log \in Seq(Events) /\ Len(log) \in Nat /\ Len(log) <= MaxEvents
      /\ WellFormed(log) /\ serial \in 0..Len(log) /\ MaxEvents \in Nat
      /\ Len(Strategies) \in Nat
  BY StrategiesAssumption, DataAssumption DEF TypeOK, PassType, WellFormed
<1>1. Steps
  BY StepsOf
<1>2. /\ pc \in {"loop", "pass", "cap", "call", "ingest"} /\ k \in 1..Len(Strategies) + 1
      /\ pc = "cap" => k <= Len(Strategies) /\ Strategies[k].kind = "cap"
      /\ TodoType(log, todo)
  BY DEF TypeOK, PassType, TodoType, Handler
<1>3. ASSUME NEW e \in Events, Records(e)
      PROVE  TypeOK'
  <2>1. MessageAdded(log, log')
    BY <1>0, <1>3, MessageView DEF Records
  <2>2. Len(log') <= MaxEvents /\ serial' \in 0..Len(log')
    BY <1>0, <1>3, <2>1 DEF Records, HasRoom, MessageAdded
  <2>3. TodoType(log', todo')
    BY <1>0, <1>2, <1>3, TodoGrows DEF Records
  <2>4. WellFormed(log')
    BY <2>1 DEF MessageAdded
  <2> QED BY <1>2, <1>3, <2>2, <2>3, <2>4 DEF Records, TypeOK, PassType, TodoType, Handler
<1>4. ASSUME NEW S, Compacts(S), TodoType(log, todo'),
             pc' = pc, pc \in {"pass", "cap"}, k' \in 1..Len(Strategies) + 1,
             pc = "cap" => k' = k
      PROVE  TypeOK'
  <2>1. CompactAdded(log, S, log')
    BY <1>0, <1>4, CompactFormed DEF Compacts
  <2>2. Len(log') <= MaxEvents /\ serial' \in 0..Len(log')
    BY <1>0, <1>4, <2>1 DEF Compacts, HasRoom, CompactAdded
  <2>3. TodoType(log', todo')
    BY <1>0, <1>4, <2>1, TodoGrows DEF Compacts, CompactAdded
  <2>4. WellFormed(log')
    BY <2>1 DEF CompactAdded
  <2> QED BY <1>2, <1>4, <2>2, <2>3, <2>4 DEF TypeOK, PassType, TodoType, Handler
<1>5. CASE TailCompacts
  <2>1. TodoType(log, todo') /\ pc' = pc /\ pc = "pass" /\ k' \in 1..Len(Strategies) + 1
    BY <1>0, <1>2, <1>5 DEF TailCompacts
  <2> QED BY <1>4, <1>5, <2>1 DEF TailCompacts
<1>6. CASE CapCompacts
  <2>1. TodoType(log, todo') /\ pc' = pc /\ pc = "cap" /\ k' = k
    BY <1>2, <1>6 DEF CapCompacts, TodoType
  <2> QED BY <1>2, <1>4, <1>6, <2>1 DEF CapCompacts
<1>7. ASSUME NEW c, Revert(c)
      PROVE  TypeOK'
  <2> DEFINE e == Event("revert", NoId, 0, {c})
  <2>1. c \in Positions(log, "compact") /\ log' = Append(log, e)
    BY <1>7 DEF Revert, Write
  <2>2. e \in Events
    <3>1. c \in Nat
      BY <1>0, <2>1 DEF Positions
    <3> QED BY <3>1, WrittenEvents
  <2>3. RevertAdded(log, c, log')
    BY <1>0, <2>1, RevertView
  <2> HIDE DEF e
  <2>4. Len(log') <= MaxEvents /\ serial' \in 0..Len(log')
    BY <1>0, <1>7, <2>3 DEF Revert, BetweenPasses, HasRoom, RevertAdded
  <2>5. TodoType(log', todo')
    BY <1>0, <1>2, <1>7, <2>1, <2>2, TodoGrows DEF Revert
  <2>6. WellFormed(log')
    BY <2>3 DEF RevertAdded
  <2> QED BY <1>2, <1>7, <2>4, <2>5, <2>6
          DEF Revert, BetweenPasses, TypeOK, PassType, TodoType, Handler
<1>8. CASE Stays
  <2>1. TodoType(log, todo')
    BY <1>2, <1>8 DEF Stays, TodoType, Oversize, Positions, Shown
  <2> QED BY <1>0, <1>8, <2>1 DEF Stays, TypeOK, PassType, TodoType, Handler
<1>9. CASE UNCHANGED vars
  BY <1>9 DEF vars, TypeOK, PassType, Handler
<1> QED BY <1>1, <1>3, <1>5, <1>6, <1>7, <1>8, <1>9 DEF Steps

\* The type invariant, for every value of the constants: what mutations.apply
\* and the helpers compute is always defined.
THEOREM Types == Spec => []TypeOK
<1>1. Init => TypeOK
  <2> SUFFICES ASSUME Init PROVE TypeOK
    OBVIOUS
  <2>1. log = <<>> /\ Len(log) = 0 /\ log \in Seq(Events)
    BY DEF Init
  <2>2. \A t : Positions(log, t) = {}
    BY <2>1 DEF Positions
  <2> QED BY <2>1, <2>2, StrategiesAssumption, DataAssumption
          DEF Init, TypeOK, PassType, WellFormed
<1>2. TypeOK /\ [Next]_vars => TypeOK'
  BY TypeStep
<1> QED BY <1>1, <1>2, PTL DEF Spec

-----------------------------------------------------------------------------
(* The view invariant, when ids are fresh.                                   *)

\* Ids stay unique: only a tool_use mints one, and only its first answer is
\* recorded.
LEMMA IdsStep ==
  ASSUME TypeOK, IdsInv, NEW e \in Events, log' = Append(log, e),
         e.type = "tool_use" => e.id = serial + 1 /\ serial' = serial + 1,
         e.type # "tool_use" => serial' = serial,
         e.type = "tool_result" => e.id \in Requested(log) \ Answered(log)
  PROVE  IdsInv'
<1> DEFINE n == Len(log) + 1
           m == log'
           s == serial'
<1>0. log \in Seq(Events) /\ Len(log) \in Nat /\ serial \in Nat
  BY DEF TypeOK, WellFormed, PassType
<1>1. (\A i \in 1..Len(log) : m[i] = log[i]) /\ m[n] = e
  BY <1>0, AppendEvent
<1>2. \A t : /\ e.type = t => Positions(m, t) = Positions(log, t) \cup {n}
             /\ e.type # t => Positions(m, t) = Positions(log, t)
             /\ Positions(log, t) \subseteq 1..Len(log)
  BY <1>0, AppendPositions
<1>3. /\ \A p \in Positions(log, "tool_use") : m[p] = log[p] /\ p < n /\ p \in Nat
      /\ \A p \in Positions(log, "tool_result") : m[p] = log[p] /\ p < n /\ p \in Nat
  BY <1>0, <1>1, <1>2
<1> HIDE DEF n, m
<1>4. serial \in Nat /\ \A u \in Positions(log, "tool_use") : log[u].id \in 1..serial
  BY <1>0 DEF IdsInv
<1>a. e.type = "tool_use" => e.id = serial + 1 /\ s = serial + 1
  OBVIOUS
<1>b. e.type # "tool_use" => s = serial
  OBVIOUS
<1> HIDE DEF s
<1>5. CASE e.type = "tool_use"
  <2>1. Positions(m, "tool_use") = Positions(log, "tool_use") \cup {n}
    BY <1>2, <1>5
  <2>2. Positions(m, "tool_result") = Positions(log, "tool_result")
    BY <1>2, <1>5
  <2>3. m[n].id = serial + 1 /\ s = serial + 1
    BY <1>1, <1>5, <1>a
  <2>4. \A u \in Positions(m, "tool_use") : m[u].id \in 1..s
    BY <1>3, <1>4, <2>1, <2>3
  <2>5. \A u \in Positions(log, "tool_use") : m[u].id # m[n].id
    BY <1>3, <1>4, <2>3
  <2>6. \A u, v \in Positions(m, "tool_use") : m[u].id = m[v].id => u = v
    BY <1>3, <2>1, <2>5 DEF IdsInv
  <2>7. \A r \in Positions(m, "tool_result") :
          \E u \in Positions(m, "tool_use") : u < r /\ m[u].id = m[r].id
    BY <1>3, <2>1, <2>2 DEF IdsInv
  <2>8. \A r, q \in Positions(m, "tool_result") : m[r].id = m[q].id => r = q
    BY <1>3, <2>2 DEF IdsInv
  <2> QED BY <2>4, <2>6, <2>7, <2>8 DEF IdsInv, m, s
<1>6. CASE e.type # "tool_use"
  <2>1. Positions(m, "tool_use") = Positions(log, "tool_use") /\ s = serial
    BY <1>2, <1>6, <1>b
  <2>2. \A u \in Positions(m, "tool_use") : m[u].id \in 1..s
    BY <1>3, <1>4, <2>1
  <2>3. \A u, v \in Positions(m, "tool_use") : m[u].id = m[v].id => u = v
    BY <1>3, <2>1 DEF IdsInv
  <2>4. \A r \in Positions(log, "tool_result") :
          \E u \in Positions(m, "tool_use") : u < r /\ m[u].id = m[r].id
    BY <1>3, <2>1 DEF IdsInv
  <2>5. \A r, q \in Positions(log, "tool_result") : m[r].id = m[q].id => r = q
    BY <1>3 DEF IdsInv
  <2>6. CASE e.type = "tool_result"
    <3>1. Positions(m, "tool_result") = Positions(log, "tool_result") \cup {n}
      BY <1>2, <2>6
    <3>2. \E u \in Positions(m, "tool_use") : u < n /\ m[u].id = m[n].id
      BY <1>1, <1>3, <2>1, <2>6 DEF Requested
    <3>3. \A r \in Positions(log, "tool_result") : m[r].id # m[n].id
      BY <1>1, <1>3, <2>6 DEF Answered
    <3>4. \A r \in Positions(m, "tool_result") :
            \E u \in Positions(m, "tool_use") : u < r /\ m[u].id = m[r].id
      <4>1. Positions(m, "tool_use") = Positions(log, "tool_use")
        BY <2>1
      <4> QED BY <2>4, <3>1, <3>2, <4>1
    <3>5. \A r, q \in Positions(m, "tool_result") : m[r].id = m[q].id => r = q
      BY <2>5, <3>1, <3>3
    <3> QED BY <2>2, <2>3, <3>4, <3>5 DEF IdsInv, m, s
  <2>7. CASE e.type # "tool_result"
    <3>1. Positions(m, "tool_result") = Positions(log, "tool_result")
      BY <1>2, <2>7
    <3> QED BY <2>2, <2>3, <2>4, <2>5, <3>1 DEF IdsInv, m, s
  <2> QED BY <2>6, <2>7
<1> QED BY <1>5, <1>6

\* Every compact of the log stays closed under pairs.
LEMMA ClosedStep ==
  ASSUME TypeOK, NEW e \in Events, log' = Append(log, e),
         \A c \in Positions(log, "compact") : PairClosed(log, log[c].on),
         e.type \in {"tool_use", "tool_result"} => e.id \notin Answered(log),
         e.type = "compact" => e.on \subseteq 1..Len(log) /\ PairClosed(log, e.on)
  PROVE  \A c \in Positions(log', "compact") : PairClosed(log', log'[c].on)
<1>0. log \in Seq(Events) /\ Len(log) \in Nat /\ WellFormed(log)
  BY DEF TypeOK, WellFormed
<1>1. (\A i \in 1..Len(log) : log'[i] = log[i]) /\ log'[Len(log) + 1] = e
  BY <1>0, AppendEvent
<1>2. /\ Positions(log', "compact") \subseteq Positions(log, "compact") \cup {Len(log) + 1}
      /\ Positions(log, "compact") \subseteq 1..Len(log)
      /\ e.type # "compact" => Positions(log', "compact") = Positions(log, "compact")
  BY <1>0, AppendPositions
<1>3. ASSUME NEW S, S \subseteq 1..Len(log), PairClosed(log, S)
      PROVE  PairClosed(log', S)
  BY <1>0, <1>3, ClosedGrows
<1>4. ASSUME NEW c \in Positions(log, "compact")
      PROVE  PairClosed(log', log'[c].on)
  <2>1. log'[c] = log[c] /\ c \in 1..Len(log)
    BY <1>1, <1>2
  <2>2. log[c].on \subseteq 1..Len(log)
    BY <1>0, <2>1 DEF WellFormed
  <2> QED BY <1>3, <2>1, <2>2
<1>5. e.type = "compact" => PairClosed(log', log'[Len(log) + 1].on)
  BY <1>1, <1>3
<1>6. Len(log) + 1 \notin Positions(log, "compact")
  BY <1>0, <1>2
<1> QED BY <1>2, <1>4, <1>5, <1>6

\* ToolOutputCap compacts a whole pair that is rendered, and what it holds on
\* to for the rest of its loop stays rendered.
LEMMA CapTakesAPair ==
  ASSUME TypeOK, ViewInv, CapCompacts
  PROVE  \E S : /\ Compacts(S) /\ S \subseteq Shown(log) /\ PairClosed(log, S)
                /\ todo' \subseteq Shown(log) \ S
<1> DEFINE r == Least(todo)
           u == UseOf(log, r)
<1>0. /\ WellFormed(log) /\ IdsInv /\ (pc = "cap" => todo \subseteq Shown(log))
      /\ \A c \in Positions(log, "compact") : PairClosed(log, log[c].on)
  BY DEF TypeOK, ViewInv
<1>1. /\ r \in todo /\ r \in Positions(log, "tool_result")
      /\ u \in Positions(log, "tool_use") /\ log[u].id = log[r].id
  BY TodoUse DEF CapCompacts
<1>2. Compacts({u, r}) /\ todo' = todo \ {r} /\ pc = "cap"
  BY DEF CapCompacts
<1> HIDE DEF r, u
<1>3. r \in Shown(log) /\ todo \subseteq Shown(log)
  BY <1>0, <1>1, <1>2
<1>4. \A c \in Live(log) : r \notin log[c].on
  BY <1>0, <1>3, ShownIs
<1>5. \A c \in Live(log) : u \notin log[c].on
  BY <1>0, <1>1, <1>4 DEF Live, PairClosed
<1>6. u \in Shown(log)
  BY <1>0, <1>1, <1>5, ShownIs DEF Positions, MessageTypes
<1>7. PairClosed(log, {u, r})
  BY <1>0, <1>1 DEF PairClosed, IdsInv, Answered, Positions
<1>8. u \notin todo
  BY <1>1, DataAssumption DEF TypeOK, PassType, Positions
<1> QED BY <1>2, <1>3, <1>6, <1>7, <1>8

LEMMA ViewStep ==
  ASSUME FreshIds, TypeOK, ViewInv, [Next]_vars
  PROVE  ViewInv'
<1>0. /\ log \in Seq(Events) /\ Len(log) \in Nat /\ WellFormed(log) /\ serial \in Nat
      /\ IdsInv /\ NoOverlap(log) /\ (pc = "cap" => todo \subseteq Shown(log))
      /\ \A c \in Positions(log, "compact") : PairClosed(log, log[c].on)
  BY DEF TypeOK, WellFormed, PassType, ViewInv
<1>1. Steps
  BY StepsOf
<1>2. ASSUME NEW e \in Events, Records(e)
      PROVE  ViewInv'
  <2>1. MessageAdded(log, log') /\ log' = Append(log, e)
    BY <1>0, <1>2, MessageView DEF Records
  <2>2. IdsInv'
    BY <1>0, <1>2, IdsStep DEF Records
  <2>3. e.type = "tool_use" => e.id \notin Answered(log)
    <3>1. \A id \in Answered(log) : id \in 1..serial
      BY <1>0 DEF Answered, IdsInv
    <3> QED BY <1>0, <1>2, <3>1 DEF Records
  <2>4. \A c \in Positions(log', "compact") : PairClosed(log', log'[c].on)
    <3>1. e.type \in {"tool_use", "tool_result"} => e.id \notin Answered(log)
      BY <1>2, <2>3 DEF Records
    <3>2. e.type # "compact"
      BY <1>2 DEF Records, MessageTypes
    <3> QED BY <1>0, <2>1, <3>1, <3>2, ClosedStep
  <2>5. NoOverlap(log')
    BY <1>0, <2>1 DEF MessageAdded, NoOverlap
  <2>6. pc' # "cap"
    BY <1>2 DEF Records
  <2> QED BY <2>2, <2>4, <2>5, <2>6 DEF ViewInv
<1>3. ASSUME NEW S, Compacts(S), S \subseteq Shown(log), PairClosed(log, S),
             pc' = "cap" => todo' \subseteq Shown(log) \ S
      PROVE  ViewInv'
  <2>1. CompactAdded(log, S, log') /\ log' = Append(log, Compact(S)) /\ serial' = serial
    BY <1>0, <1>3, CompactFormed DEF Compacts
  <2>2. Compact(S) \in Events /\ Compact(S).type = "compact" /\ Compact(S).on = S
    BY <2>1 DEF CompactAdded
  <2>3. IdsInv'
    BY <1>0, <2>1, <2>2, IdsStep
  <2>4. \A c \in Positions(log', "compact") : PairClosed(log', log'[c].on)
    BY <1>0, <1>3, <2>1, <2>2, ClosedStep DEF Compacts
  <2>5. NoOverlap(log')
    <3>1. \A c \in Live(log) : log[c].on \cap S = {}
      BY <1>0, <1>3, ShownIs
    <3> QED BY <1>0, <2>1, <2>2, <3>1 DEF CompactAdded, NoOverlap
  <2>6. Shown(log') = Shown(log) \ S
    BY <1>0, <1>3, <2>1, CompactView DEF Compacts
  <2> QED BY <1>3, <2>3, <2>4, <2>5, <2>6 DEF ViewInv
<1>4. CASE TailCompacts
  <2>1. PICK keep \in Nat : Compacts(Safe(log, Candidates(log, keep))) /\ pc' = "pass"
    BY <1>4 DEF TailCompacts
  <2>2. Safe(log, Candidates(log, keep)) \subseteq Shown(log)
    BY DEF Safe, Candidates, Messages
  <2>3. PairClosed(log, Safe(log, Candidates(log, keep)))
    BY <1>0, SafeIsClosed
  <2> QED BY <1>3, <2>1, <2>2, <2>3
<1>5. CASE CapCompacts
  <2>1. PICK S : Compacts(S) /\ S \subseteq Shown(log) /\ PairClosed(log, S)
                 /\ todo' \subseteq Shown(log) \ S
    BY <1>5, CapTakesAPair
  <2> QED BY <1>3, <2>1
<1>6. ASSUME NEW c, Revert(c)
      PROVE  ViewInv'
  <2> DEFINE e == Event("revert", NoId, 0, {c})
  <2>1. c \in Positions(log, "compact") /\ log' = Append(log, e) /\ serial' = serial
    BY <1>6 DEF Revert, Write
  <2>2. RevertAdded(log, c, log')
    BY <1>0, <2>1, RevertView
  <2>3. e \in Events /\ e.type = "revert"
    <3>1. c \in Nat
      BY <1>0, <2>1 DEF Positions
    <3> QED BY <3>1, WrittenEvents
  <2> HIDE DEF e
  <2>4. IdsInv'
    BY <1>0, <2>1, <2>3, IdsStep
  <2>5. \A d \in Positions(log', "compact") : PairClosed(log', log'[d].on)
    BY <1>0, <2>1, <2>3, ClosedStep
  <2>6. NoOverlap(log')
    BY <1>0, <2>2 DEF RevertAdded, NoOverlap
  <2>7. pc' # "cap"
    BY <1>6 DEF Revert, BetweenPasses
  <2> QED BY <2>4, <2>5, <2>6, <2>7 DEF ViewInv
<1>7. CASE Stays
  <2>1. IdsInv' /\ NoOverlap(log') /\ log' = log
    BY <1>0, <1>7 DEF Stays, IdsInv
  <2>2. pc' = "cap" => todo' \subseteq Shown(log)
    BY <1>7 DEF Stays, Oversize
  <2> QED BY <1>0, <2>1, <2>2 DEF ViewInv
<1>8. CASE UNCHANGED vars
  BY <1>8 DEF vars, ViewInv, IdsInv
<1> QED BY <1>1, <1>2, <1>4, <1>5, <1>6, <1>7, <1>8 DEF Steps

LEMMA ViewInvariant ==
  ASSUME FreshIds
  PROVE  Spec => [](TypeOK /\ ViewInv)
<1>1. Init => ViewInv
  <2> SUFFICES ASSUME Init PROVE ViewInv
    OBVIOUS
  <2>1. \A t : Positions(log, t) = {}
    BY DEF Init, Positions
  <2> QED BY <2>1 DEF Init, ViewInv, IdsInv, NoOverlap, Live
<1>2. TypeOK /\ ViewInv /\ [Next]_vars => ViewInv'
  BY ViewStep
<1> QED BY <1>1, <1>2, Types, PTL DEF Spec

\* No result is ever rendered without the tool_use it answers, nor that use
\* without its answer (mutations._analyze, helpers.tool_pair_safe_range).
THEOREM PairsNeverCut == FreshIds => (Spec => []PairsWhole)
<1>1. TypeOK /\ ViewInv => PairsWhole
  <2> SUFFICES ASSUME TypeOK, ViewInv, NEW r \in Positions(log, "tool_result"),
                      NEW u \in 1..r - 1, OwnUse(log, u, r)
               PROVE  u \in Shown(log) <=> r \in Shown(log)
    BY DEF PairsWhole, WholeIn
  <2>1. WellFormed(log) /\ \A c \in Live(log) : PairClosed(log, log[c].on)
    BY DEF TypeOK, ViewInv, Live
  <2>2. u \in Positions(log, "tool_use") /\ log[r].id = log[u].id
    BY DEF OwnUse
  <2>3. \A c \in Live(log) : u \in log[c].on <=> r \in log[c].on
    BY <2>1, <2>2 DEF PairClosed
  <2>4. /\ u \in 1..Len(log) /\ log[u].type \in MessageTypes
        /\ r \in 1..Len(log) /\ log[r].type \in MessageTypes
    BY <2>2 DEF Positions, MessageTypes
  <2> QED BY <2>1, <2>3, <2>4, ShownIs
<1>2. FreshIds => (Spec => [](TypeOK /\ ViewInv))
  BY ViewInvariant
<1> QED BY <1>1, <1>2, PTL

\* The prefixes of a log are those it had, and itself, after an event.
LEMMA PrefixAppend ==
  ASSUME NEW l \in Seq(Events), NEW e \in Events
  PROVE  LET m == Append(l, e) IN
         /\ Len(m) = Len(l) + 1 /\ Len(l) \in Nat
         /\ SubSeq(m, 1, Len(m)) = m
         /\ \A n \in 1..Len(l) : SubSeq(m, 1, n) = SubSeq(l, 1, n)
<1> DEFINE m == Append(l, e)
<1>1. m \in Seq(Events) /\ Len(m) = Len(l) + 1 /\ Len(l) \in Nat
      /\ \A i \in 1..Len(l) : m[i] = l[i]
  OBVIOUS
<1> HIDE DEF m
<1>2. SubSeq(m, 1, Len(m)) = m
  BY <1>1, SubSeqFull
<1>3. ASSUME NEW n \in 1..Len(l) PROVE SubSeq(m, 1, n) = SubSeq(l, 1, n)
  <2>1. /\ SubSeq(m, 1, n) \in Seq(Events) /\ Len(SubSeq(m, 1, n)) = n
        /\ \A i \in 1..n : SubSeq(m, 1, n)[i] = m[1 + i - 1]
    BY <1>1
  <2>2. /\ SubSeq(l, 1, n) \in Seq(Events) /\ Len(SubSeq(l, 1, n)) = n
        /\ \A i \in 1..n : SubSeq(l, 1, n)[i] = l[1 + i - 1]
    BY <1>1
  <2> QED BY <1>1, <2>1, <2>2, SeqEqual
<1> QED BY <1>1, <1>2, <1>3 DEF m

\* A step leaves the log or appends one event.
LEMMA LogSteps ==
  ASSUME TypeOK, [Next]_vars
  PROVE  log' = log \/ \E e \in Events : log' = Append(log, e)
<1>1. log \in Seq(Events) /\ Steps
  BY StepsOf DEF TypeOK, WellFormed
<1>2. ASSUME NEW S, Compacts(S) PROVE \E e \in Events : log' = Append(log, e)
  <2>1. S \in SUBSET Nat
    BY <1>1, <1>2 DEF Compacts
  <2> QED BY <1>2, <2>1, WrittenEvents DEF Compacts
<1>3. ASSUME NEW c, Revert(c) PROVE \E e \in Events : log' = Append(log, e)
  <2>1. c \in Nat
    BY <1>1, <1>3 DEF Revert, Positions
  <2> QED BY <1>3, <2>1, WrittenEvents DEF Revert, Write
<1>4. ASSUME NEW e \in Events, Records(e) PROVE log' = Append(log, e)
  BY <1>4 DEF Records
<1>5. CASE Stays \/ UNCHANGED vars
  BY <1>5 DEF Stays, vars
<1> QED BY <1>1, <1>2, <1>3, <1>4, <1>5 DEF Steps, TailCompacts, CapCompacts

\* A session forked at any of its events, in a pass or between a compact and
\* its revert, never cuts a pair in its requests (Session.fork).
ForksWhole == \A n \in 1..Len(log) : WholeIn(SubSeq(log, 1, n))
THEOREM ForksNeverCut == FreshIds => (Spec => []ForksWhole)
<1>1. Init => ForksWhole
  BY DEF Init, ForksWhole
<1>2. TypeOK /\ TypeOK' /\ PairsWhole' /\ ForksWhole /\ [Next]_vars => ForksWhole'
  <2> SUFFICES ASSUME TypeOK, TypeOK', PairsWhole', ForksWhole, [Next]_vars
               PROVE  ForksWhole'
    OBVIOUS
  <2>1. log \in Seq(Events)
    BY DEF TypeOK, WellFormed
  <2>2. ASSUME log' = log PROVE ForksWhole'
    BY <2>2 DEF ForksWhole
  <2>3. ASSUME NEW e \in Events, log' = Append(log, e) PROVE ForksWhole'
    <3> SUFFICES ASSUME NEW n \in 1..Len(log') PROVE WholeIn(SubSeq(log', 1, n))
      BY DEF ForksWhole
    <3>1. Len(log') = Len(log) + 1 /\ Len(log) \in Nat
      BY <2>1, <2>3, PrefixAppend
    <3>2. CASE n = Len(log')
      <4>1. SubSeq(log', 1, n) = log'
        BY <2>1, <2>3, <3>2, PrefixAppend
      <4> QED BY <4>1 DEF PairsWhole
    <3>3. CASE n \in 1..Len(log)
      <4>1. SubSeq(log', 1, n) = SubSeq(log, 1, n)
        BY <2>1, <2>3, <3>3, PrefixAppend
      <4> QED BY <3>3, <4>1 DEF ForksWhole
    <3> QED BY <3>1, <3>2, <3>3
  <2>4. log' = log \/ \E e \in Events : log' = Append(log, e)
    BY LogSteps
  <2> QED BY <2>2, <2>3, <2>4
<1> QED BY <1>1, <1>2, Types, PairsNeverCut, PTL DEF Spec

\* Whatever a strategy would compact, the calls in flight and the pairs its cut
\* would split stay in the view, and nothing else does
\* (helpers.tool_pair_safe_range).
SafeRanges == \A C \in SUBSET (1..Len(log)) : LargestClosed(Safe(log, C), C)
THEOREM SafeTakesAllItMay == FreshIds => (Spec => []SafeRanges)
<1>1. TypeOK /\ ViewInv => SafeRanges
  BY SafeIsLargest DEF TypeOK, ViewInv, SafeRanges
<1>2. FreshIds => (Spec => [](TypeOK /\ ViewInv))
  BY ViewInvariant
<1> QED BY <1>1, <1>2, PTL

\* A tool_use that waits for its result, because it was suspended, is pending
\* approval, or is being dispatched, is never behind a summary
\* (helpers.tool_pair_safe_range keeps pairs that are not complete).
THEOREM InFlightKept == FreshIds => (Spec => []InFlightShown)
<1>1. TypeOK /\ ViewInv => InFlightShown
  <2> SUFFICES ASSUME TypeOK, ViewInv, NEW u \in Positions(log, "tool_use"),
                      \A r \in Positions(log, "tool_result") : r > u => log[r].id # log[u].id
               PROVE  u \in Shown(log)
    BY DEF InFlightShown
  <2>1. WellFormed(log) /\ IdsInv /\ \A c \in Live(log) : PairClosed(log, log[c].on)
    BY DEF TypeOK, ViewInv, Live
  <2>2. log[u].id \notin Answered(log)
    <3> SUFFICES ASSUME NEW r \in Positions(log, "tool_result"), log[r].id = log[u].id
                 PROVE  FALSE
      BY DEF Answered
    <3>1. PICK v \in Positions(log, "tool_use") : v < r /\ log[v].id = log[r].id
      BY <2>1 DEF IdsInv
    <3>2. v = u
      BY <2>1, <3>1 DEF IdsInv
    <3>3. u \in Nat /\ r \in Nat
      BY <2>1 DEF WellFormed, Positions
    <3> QED BY <3>1, <3>2, <3>3
  <2>3. \A c \in Live(log) : u \notin log[c].on
    BY <2>1, <2>2 DEF PairClosed
  <2> QED BY <2>1, <2>3, ShownIs DEF Positions, MessageTypes
<1>2. FreshIds => (Spec => [](TypeOK /\ ViewInv))
  BY ViewInvariant
<1> QED BY <1>1, <1>2, PTL

\* A message that is not rendered is told by exactly one summary, and that
\* summary is rendered (mutations._analyze, _effective).
THEOREM Accounted == FreshIds => (Spec => []EveryEventAccounted)
<1>1. TypeOK /\ ViewInv => EveryEventAccounted
  <2> SUFFICES ASSUME TypeOK, ViewInv, NEW p \in 1..Len(log),
                      log[p].type \in MessageTypes, p \notin Shown(log)
               PROVE  \E c \in Told(log) :
                        p \in log[c].on /\ \A d \in Live(log) \ {c} : p \notin log[d].on
    BY DEF EveryEventAccounted
  <2>1. WellFormed(log) /\ NoOverlap(log)
    BY DEF TypeOK, ViewInv
  <2>2. PICK c \in Live(log) : p \in log[c].on
    BY <2>1, ShownIs
  <2>3. \A d \in Live(log) \ {c} : p \notin log[d].on
    BY <2>1, <2>2 DEF NoOverlap
  <2> QED BY <2>1, <2>2, <2>3, ToldIsLive
<1>2. FreshIds => (Spec => [](TypeOK /\ ViewInv))
  BY ViewInvariant
<1> QED BY <1>1, <1>2, PTL

-----------------------------------------------------------------------------
(* Compaction implements the ContextWindow.                                  *)

\* A compact of rendered messages collapses them.
LEMMA CompactCollapses ==
  ASSUME TypeOK, ViewInv, ViewInv', TypeOK',
         NEW S, Compacts(S), S \subseteq Shown(log)
  PROVE  Window!Collapse
<1>1. WellFormed(log) /\ NoOverlap(log) /\ WellFormed(log') /\ NoOverlap(log')
  BY DEF TypeOK, ViewInv
<1>2. CompactAdded(log, S, log') /\ S # {}
  BY <1>1, CompactFormed DEF Compacts
<1>3. Shown(log') = Shown(log) \ S
  BY <1>1, CompactView DEF Compacts
<1>4. Told(log) = Live(log) /\ Told(log') = Live(log')
  BY <1>1, ToldIsLive
<1>5. {log'[c].on : c \in Live(log')} = {log[c].on : c \in Live(log)} \cup {S}
  BY <1>2 DEF CompactAdded
<1>6. Shown(log) \ Shown(log') = S
  BY <1>3
<1> QED BY <1>2, <1>3, <1>4, <1>5, <1>6 DEF Window!Collapse

\* A revert of a live compact gives back what it replaced; any other revert
\* changes nothing that is rendered.
LEMMA RevertExpands ==
  ASSUME TypeOK, ViewInv, ViewInv', TypeOK', NEW b, Revert(b)
  PROVE  \/ \E B \in {log[c].on : c \in Told(log)} : Window!Expand(B)
         \/ UNCHANGED Window!vars
<1>1. WellFormed(log) /\ NoOverlap(log) /\ WellFormed(log') /\ NoOverlap(log')
  BY DEF TypeOK, ViewInv
<1>2. RevertAdded(log, b, log')
  BY <1>1, RevertView DEF Revert, Write
<1>3. Told(log) = Live(log) /\ Told(log') = Live(log')
  BY <1>1, ToldIsLive
<1>4. {log'[c].on : c \in Live(log')} = {log[c].on : c \in Live(log) \ {b}}
  BY <1>2 DEF RevertAdded
<1>5. CASE b \in Live(log)
  <2>1. \A c \in Live(log) : c # b => log[c].on # log[b].on
    BY <1>1, <1>5, LiveBounds DEF NoOverlap
  <2>2. {log'[c].on : c \in Live(log')} = {log[c].on : c \in Live(log)} \ {log[b].on}
    BY <1>4, <1>5, <2>1
  <2>3. \A p : p \in Shown(log') <=> p \in Shown(log) \/ p \in log[b].on
    <3>1. \A p \in log[b].on : p \in 1..Len(log) /\ log[p].type \in MessageTypes
      BY <1>1, <1>5, LiveBounds
    <3>2. \A p \in log[b].on : \A c \in Live(log) \ {b} : p \notin log[c].on
      BY <1>1, <1>5 DEF NoOverlap
    <3> QED BY <1>1, <1>2, <1>5, <3>1, <3>2, ShownIs DEF RevertAdded
  <2>4. Shown(log') = Shown(log) \cup log[b].on
    BY <2>3
  <2>5. Window!Expand(log[b].on)
    BY <1>3, <2>2, <2>4 DEF Window!Expand
  <2>6. log[b].on \in {log[c].on : c \in Told(log)}
    BY <1>3, <1>5
  <2> QED BY <2>5, <2>6 DEF Window!Expand
<1>6. CASE b \notin Live(log)
  <2>1. {log'[c].on : c \in Live(log')} = {log[c].on : c \in Live(log)}
    BY <1>4, <1>6
  <2>2. \A p : p \in Shown(log') <=> p \in Shown(log)
    BY <1>1, <1>2, <1>6, ShownIs DEF RevertAdded
  <2>3. Shown(log') = Shown(log)
    BY <2>2
  <2> QED BY <1>3, <2>1, <2>3 DEF Window!vars
<1> QED BY <1>5, <1>6

\* A message event is recorded once, and is neither rendered nor told before.
LEMMA MessageRecords ==
  ASSUME TypeOK, ViewInv, ViewInv', TypeOK', NEW e, Records(e)
  PROVE  \E i \in 1..MaxEvents : Window!Record(i)
<1> DEFINE n == Len(log) + 1
<1>1. WellFormed(log) /\ NoOverlap(log) /\ WellFormed(log') /\ NoOverlap(log')
  BY DEF TypeOK, ViewInv
<1>2. MessageAdded(log, log')
  BY <1>1, MessageView DEF Records
<1>3. n \in 1..MaxEvents /\ Len(log) \in Nat
  BY <1>1, DataAssumption DEF Records, HasRoom, WellFormed
<1>4. Told(log) = Live(log) /\ Told(log') = Live(log')
  BY <1>1, ToldIsLive
<1>5. n \notin Shown(log)
  BY <1>1, <1>3, ShownIs
<1>6. \A c \in Live(log) : n \notin log[c].on
  BY <1>1, <1>3, LiveBounds
<1>7. {log'[c].on : c \in Live(log')} = {log[c].on : c \in Live(log)}
  BY <1>2 DEF MessageAdded
<1>8. Shown(log') = Shown(log) \cup {n}
  BY <1>2 DEF MessageAdded
<1> HIDE DEF n
<1>9. Window!Record(n)
  BY <1>4, <1>5, <1>6, <1>7, <1>8 DEF Window!Record
<1> QED BY <1>3, <1>9 DEF Window!Record

LEMMA WindowStep ==
  ASSUME TypeOK, ViewInv, TypeOK', ViewInv', [Next]_vars
  PROVE  [Window!Next]_(Window!vars)
<1>1. Steps
  BY StepsOf
<1>2. ASSUME NEW e \in Events, Records(e)
      PROVE  Window!Next
  BY <1>2, MessageRecords DEF Window!Next
<1>3. CASE TailCompacts
  <2>1. PICK keep \in Nat : Compacts(Safe(log, Candidates(log, keep)))
    BY <1>3 DEF TailCompacts
  <2>2. Safe(log, Candidates(log, keep)) \subseteq Shown(log)
    BY DEF Safe, Candidates, Messages
  <2>3. Window!Collapse
    BY <2>1, <2>2, CompactCollapses
  <2> QED BY <2>3 DEF Window!Next
<1>4. CASE CapCompacts
  <2>1. Window!Collapse
    BY <1>4, CapTakesAPair, CompactCollapses
  <2> QED BY <2>1 DEF Window!Next
<1>5. ASSUME NEW c, Revert(c)
      PROVE  [Window!Next]_(Window!vars)
  BY <1>5, RevertExpands DEF Window!Next
<1>6. ASSUME UNCHANGED log
      PROVE  UNCHANGED Window!vars
  BY <1>6 DEF Window!vars
<1>7. CASE Stays \/ UNCHANGED vars
  BY <1>6, <1>7 DEF Stays, vars
<1> QED BY <1>1, <1>2, <1>3, <1>4, <1>5, <1>7 DEF Steps

\* Appending messages, compacting and reverting is, for a reader of the
\* projection, recording, collapsing and expanding the ContextWindow.
THEOREM WindowRefinement == FreshIds => (Spec => ImplementsWindow)
<1>1. SUFFICES ASSUME FreshIds
               PROVE  Spec => ImplementsWindow
  OBVIOUS
<1>2. Init => Window!Init
  <2> SUFFICES ASSUME Init PROVE Window!Init
    OBVIOUS
  <2>1. \A t : Positions(log, t) = {}
    BY DEF Init, Positions
  <2>2. Live(log) = {}
    BY <2>1 DEF Live
  <2>3. Told(log) = {} /\ Shown(log) = {}
    BY <2>2 DEF Init, Told, Heads, Shown
  <2> QED BY <2>3 DEF Window!Init
<1>3. (TypeOK /\ ViewInv) /\ (TypeOK /\ ViewInv)' /\ [Next]_vars
        => [Window!Next]_(Window!vars)
  BY WindowStep
<1>4. Spec => [](TypeOK /\ ViewInv)
  BY <1>1, ViewInvariant
<1> QED BY <1>2, <1>3, <1>4, PTL DEF Spec, ImplementsWindow, Window!Spec

\* The ContextWindow tells nothing twice.
LEMMA WindowTellsOnce == Window!Init /\ [][Window!Next]_(Window!vars) => []Window!ToldOnce
<1>1. Window!Init => Window!ToldOnce
  BY DEF Window!Init, Window!ToldOnce
<1>2. Window!ToldOnce /\ [Window!Next]_(Window!vars) => Window!ToldOnce'
  <2> DEFINE s == Shown(log)   t == Shown(log)'
             b == {log[c].on : c \in Told(log)}
             d == {log[c].on : c \in Told(log)}'
  <2> SUFFICES ASSUME \A B \in b : B \cap s = {}, \A B, C \in b : B # C => B \cap C = {},
                      [Window!Next]_(Window!vars)
               PROVE  /\ \A B \in d : B \cap t = {}
                      /\ \A B, C \in d : B # C => B \cap C = {}
    BY DEF Window!ToldOnce
  <2>1. \/ t = s /\ d = b
        \/ \E e : e \notin s /\ (\A B \in b : e \notin B) /\ t = s \cup {e} /\ d = b
        \/ t \subseteq s /\ d = b \cup {s \ t}
        \/ \E B \in b : d = b \ {B} /\ t = s \cup B
    BY DEF Window!Next, Window!vars, Window!Record, Window!Collapse, Window!Expand
  <2> HIDE DEF s, t, b, d
  <2>2. CASE t = s /\ d = b
    BY <2>2
  <2>3. CASE \E e : e \notin s /\ (\A B \in b : e \notin B) /\ t = s \cup {e} /\ d = b
    BY <2>3
  <2>4. CASE t \subseteq s /\ d = b \cup {s \ t}
    BY <2>4
  <2>5. CASE \E B \in b : d = b \ {B} /\ t = s \cup B
    <3>1. PICK B \in b : d = b \ {B} /\ t = s \cup B
      BY <2>5
    <3>2. ASSUME NEW C \in d PROVE C \cap t = {}
      <4>1. C \in b /\ C # B
        BY <3>1
      <4>2. C \cap s = {} /\ C \cap B = {}
        BY <4>1
      <4> QED BY <3>1, <4>2
    <3> QED BY <3>1, <3>2
  <2> QED BY <2>1, <2>2, <2>3, <2>4, <2>5
<1> QED BY <1>1, <1>2, PTL

\* A reader of the projection is told nothing twice: what a summary stands for is
\* neither rendered nor behind another summary, because the code implements the
\* ContextWindow (mutations.apply, helpers.compact, and a revert).
THEOREM NothingToldTwice == FreshIds => (Spec => []Window!ToldOnce)
BY WindowRefinement, WindowTellsOnce, PTL DEF ImplementsWindow, Window!Spec

-----------------------------------------------------------------------------
(* A pass settles.                                                           *)

\* What a strategy asks for when it looks again.
Settled(l, s) ==
  /\ s.kind = "marker" => Cardinality(Messages(l)) <= s.limit
                          \/ Safe(l, Candidates(l, s.keep)) = {}
  /\ s.kind = "token"  => Tokens(l) <= s.limit
                          \/ Safe(l, Candidates(l, s.keep)) = {}
  /\ s.kind = "cap"    => Oversize(l, s.limit) = {}

\* The strategies that have run in this pass would do nothing more, and
\* ToolOutputCap holds all it has left to do.
SettleInv ==
  /\ pc \in {"pass", "cap", "call"} => \A i \in 1..(k - 1) : Settled(log, Strategies[i])
  /\ pc = "cap" => Oversize(log, Handler.limit) \subseteq todo
  /\ pc = "call" => k > Len(Strategies)

\* The pairs are what they were.
LEMMA SamePairs ==
  ASSUME NEW l, NEW S, NEW m, Hides(l, S, m)
  PROVE  /\ Requested(m) = Requested(l) /\ Answered(m) = Answered(l)
         /\ \A id : Pair(m, id) = Pair(l, id)
<1>1. /\ CompactAdded(l, S, m) /\ l \in Seq(Events) /\ Len(l) \in Nat
      /\ m = Append(l, Compact(S))
  <2>1. CompactAdded(l, S, m) BY CompactFormed DEF Hides
  <2>2. l \in Seq(Events) BY DEF Hides, WellFormed
  <2> QED BY <2>1, <2>2 DEF Hides
<1>2. Len(m) = Len(l) + 1 /\ m[Len(l) + 1].type = "compact" /\ \A i \in 1..Len(l) : m[i] = l[i]
  BY <1>1 DEF CompactAdded
<1>3. ASSUME NEW t \in {"tool_use", "tool_result"}
      PROVE  Positions(m, t) = Positions(l, t) /\ Positions(l, t) \subseteq 1..Len(l)
  <2>1. Compact(S) \in Events /\ Compact(S).type # t
    BY <1>1 DEF CompactAdded
  <2> QED BY <1>1, <2>1, AppendPositions
<1>4. Requested(m) = Requested(l) /\ Answered(m) = Answered(l)
  <2>1. \A p \in Positions(l, "tool_use") : m[p].id = l[p].id BY <1>2, <1>3
  <2>2. \A p \in Positions(l, "tool_result") : m[p].id = l[p].id BY <1>2, <1>3
  <2> QED BY <1>3, <2>1, <2>2 DEF Requested, Answered
<1>5. ASSUME NEW id PROVE Pair(m, id) = Pair(l, id)
  <2> DEFINE halves == Positions(l, "tool_use") \cup Positions(l, "tool_result")
             lastIn(x, p) == \A q \in 1..Len(x) : q > p => ~(x[q].type = x[p].type /\ x[q].id = id)
  <2>1. ASSUME NEW p \in halves PROVE lastIn(m, p) <=> lastIn(l, p)
    <3>1. p \in 1..Len(l) /\ m[p] = l[p] /\ l[p].type \in {"tool_use", "tool_result"}
      BY <1>2, <1>3 DEF Positions
    <3>2. 1..Len(m) = (1..Len(l)) \cup {Len(l) + 1} BY <1>1, <1>2
    <3>3. m[Len(l) + 1].type # m[p].type BY <1>2, <3>1
    <3> QED BY <1>2, <3>1, <3>2, <3>3
  <2>2. \A p \in halves : m[p] = l[p] BY <1>2, <1>3
  <2>3. Pair(l, id) = {p \in halves : l[p].id = id /\ lastIn(l, p)} BY DEF Pair
  <2>4. Pair(m, id) = {p \in halves : m[p].id = id /\ lastIn(m, p)} BY <1>3 DEF Pair
  <2> HIDE DEF halves, lastIn
  <2> QED BY <2>1, <2>2, <2>3, <2>4
<1> QED BY <1>4, <1>5

\* What tool_pair_safe_range has left over it leaves again: nothing is safe
\* among candidates that were not.
LEMMA SafeOnce ==
  ASSUME NEW l, NEW S, NEW m, Hides(l, S, m), NEW C, NEW D, D \subseteq C \ Safe(l, C)
  PROVE  Safe(m, D) = {}
<1> SUFFICES ASSUME NEW p \in Safe(m, D) PROVE FALSE OBVIOUS
<1>1. p \in D /\ \A id \in Split(m, D) : p \notin Pair(m, id) BY DEF Safe
<1>2. PICK id \in Split(l, C) : p \in Pair(l, id) BY <1>1 DEF Safe
<1>3. id \in Requested(l) /\ ~(id \in Answered(l) /\ Pair(l, id) \subseteq C) BY <1>2 DEF Split
<1>4. /\ Requested(m) = Requested(l) /\ Answered(m) = Answered(l)
      /\ Pair(m, id) = Pair(l, id)
  BY SamePairs
<1>5. id \in Split(m, D) BY <1>3, <1>4 DEF Split
<1> QED BY <1>1, <1>2, <1>4, <1>5

\* The messages of a log are finitely many.
LEMMA MessagesFinite ==
  ASSUME NEW l, WellFormed(l)
  PROVE  IsFiniteSet(Messages(l)) /\ Cardinality(Messages(l)) \in Nat /\ Messages(l) \subseteq 1..Len(l)
<1>1. Messages(l) \subseteq 1..Len(l) /\ Len(l) \in Nat BY ShownIs DEF WellFormed
<1>2. PICK n \in Nat : n = Len(l) BY <1>1
<1>3. IsFiniteSet(1..n) BY FS_Interval
<1>4. IsFiniteSet(Messages(l)) BY <1>1, <1>2, <1>3, FS_Subset
<1> QED BY <1>1, <1>4, FS_CardinalityType

\* And so are their characters.
LEMMA CharsFinite ==
  ASSUME NEW l, WellFormed(l)
  PROVE  IsFiniteSet(Chars(l)) /\ Tokens(l) \in Nat
<1> DEFINE Of(p) == {p} \X (1..l[p].size)
           Parts == {Of(p) : p \in Messages(l)}
<1>1. IsFiniteSet(Messages(l)) /\ Messages(l) \subseteq 1..Len(l) BY MessagesFinite
<1>2. \A p \in 1..Len(l) : l[p].size \in Nat
  <2>1. l \in Seq(Events) BY DEF WellFormed
  <2>2. \A p \in 1..Len(l) : l[p] \in Events BY <2>1
  <2> QED BY <2>2 DEF Events
<1>3. ASSUME NEW p \in Messages(l) PROVE IsFiniteSet(Of(p))
  <2>1. PICK n \in Nat : n = l[p].size BY <1>1, <1>2
  <2>2. IsFiniteSet(1..n) BY FS_Interval
  <2>3. IsFiniteSet({p}) BY FS_Singleton
  <2>4. IsFiniteSet({p} \X (1..n)) BY <2>2, <2>3, FS_Product
  <2> QED BY <2>1, <2>4
<1>4. IsFiniteSet(Parts)
  <2> DEFINE f == [p \in Messages(l) |-> Of(p)]
  <2> HIDE DEF Of
  <2>1. f \in Surjection(Messages(l), Parts)
    <3>1. f \in [Messages(l) -> Parts] OBVIOUS
    <3>2. \A x \in Parts : \E p \in Messages(l) : f[p] = x OBVIOUS
    <3> HIDE DEF f, Parts
    <3> QED BY <3>1, <3>2, Fun_IsSurj
  <2> HIDE DEF f, Parts
  <2> QED BY <1>1, <2>1, FS_Surjection
<1>5. IsFiniteSet(Chars(l))
  <2>1. Chars(l) = UNION Parts BY DEF Chars
  <2>2. \A T \in Parts : IsFiniteSet(T)
    <3> HIDE DEF Of
    <3> QED BY <1>3
  <2> HIDE DEF Parts
  <2> QED BY <1>4, <2>1, <2>2, FS_UNION
<1>6. PICK a \in Nat : a = Cardinality(Chars(l)) BY <1>5, FS_CardinalityType
<1>7. (a + 3) \div 4 \in Nat OBVIOUS
<1> QED BY <1>5, <1>6, <1>7 DEF Tokens

\* A compact leaves fewer messages, and fewer candidates.
LEMMA FewerMessages ==
  ASSUME NEW l, NEW S, NEW m, Hides(l, S, m)
  PROVE  /\ Cardinality(Messages(m)) \in Nat /\ Cardinality(Messages(l)) \in Nat
         /\ Cardinality(Messages(m)) <= Cardinality(Messages(l))
         /\ \A keep \in Nat : Candidates(m, keep) \subseteq Candidates(l, keep) \ S
<1>1. Messages(m) = Messages(l) \ S /\ Messages(l) \subseteq 1..Len(l) /\ Len(l) \in Nat
  BY HiddenView
<1>2. IsFiniteSet(Messages(l)) BY MessagesFinite DEF Hides
<1>3. \A A, B : A \subseteq B /\ B \subseteq Messages(l) =>
        Cardinality(A) \in Nat /\ Cardinality(B) \in Nat /\ Cardinality(A) <= Cardinality(B)
  <2> SUFFICES ASSUME NEW A, NEW B, A \subseteq B, B \subseteq Messages(l)
               PROVE  Cardinality(A) \in Nat /\ Cardinality(B) \in Nat /\ Cardinality(A) <= Cardinality(B)
    OBVIOUS
  <2>1. IsFiniteSet(B) BY <1>2, FS_Subset
  <2>2. IsFiniteSet(A) /\ Cardinality(A) <= Cardinality(B) BY <2>1, FS_Subset
  <2> QED BY <2>1, <2>2, FS_CardinalityType
<1>4. Messages(m) \subseteq Messages(l) BY <1>1
<1>5. ASSUME NEW keep \in Nat, NEW p \in Candidates(m, keep)
      PROVE  p \in Candidates(l, keep) \ S
  <2> DEFINE behind(x) == {q \in Messages(x) : q > p}
  <2>1. p \in Messages(m) /\ Cardinality(behind(m)) >= keep BY <1>5 DEF Candidates
  <2>2. behind(m) \subseteq behind(l) /\ behind(l) \subseteq Messages(l) BY <1>4
  <2>3. PICK a, b : a = Cardinality(behind(m)) /\ b = Cardinality(behind(l)) OBVIOUS
  <2>4. p \in Candidates(l, keep) <=> p \in Messages(l) /\ Cardinality(behind(l)) >= keep
    BY DEF Candidates
  <2> HIDE DEF behind
  <2>5. a \in Nat /\ b \in Nat /\ a <= b BY <1>3, <2>2, <2>3
  <2>6. b >= keep BY <2>1, <2>3, <2>5
  <2> QED BY <1>1, <2>1, <2>3, <2>4, <2>6
<1> QED BY <1>3, <1>4, <1>5

\* The characters of fewer messages are fewer.
LEMMA FewerTokens ==
  ASSUME NEW l, NEW S, NEW m, Hides(l, S, m)
  PROVE  Tokens(m) \in Nat /\ Tokens(l) \in Nat /\ Tokens(m) <= Tokens(l)
<1>1. /\ Messages(m) \subseteq Messages(l) /\ Messages(l) \subseteq 1..Len(l)
      /\ \A p \in 1..Len(l) : m[p] = l[p]
  BY HiddenView
<1>2. Chars(m) \subseteq Chars(l)
  <2>1. \A p \in Messages(m) : p \in Messages(l) /\ m[p].size = l[p].size BY <1>1
  <2> QED BY <2>1 DEF Chars
<1>3. IsFiniteSet(Chars(l)) BY CharsFinite DEF Hides
<1>4. IsFiniteSet(Chars(m)) /\ Cardinality(Chars(m)) <= Cardinality(Chars(l))
  BY <1>2, <1>3, FS_Subset
<1>5. PICK a, b \in Nat : a = Cardinality(Chars(m)) /\ b = Cardinality(Chars(l))
  BY <1>3, <1>4, FS_CardinalityType
<1>6. a <= b BY <1>4, <1>5
<1>7. (a + 3) \div 4 \in Nat /\ (b + 3) \div 4 \in Nat /\ (a + 3) \div 4 <= (b + 3) \div 4
  BY <1>6
<1> QED BY <1>5, <1>7 DEF Tokens

\* Nothing becomes oversize, and what is compacted no longer is.
LEMMA HideOversize ==
  ASSUME NEW l, NEW S, NEW m, Hides(l, S, m), NEW limit
  PROVE  Oversize(m, limit) \subseteq Oversize(l, limit) \ S
<1>1. /\ Shown(m) = Shown(l) \ S /\ \A p \in 1..Len(l) : m[p] = l[p]
      /\ Shown(l) \subseteq 1..Len(l)
  <2>1. WellFormed(l) BY DEF Hides
  <2>2. Shown(l) \subseteq 1..Len(l) BY <2>1, ShownIs
  <2>3. Shown(m) = Shown(l) \ S /\ \A p \in 1..Len(l) : m[p] = l[p] BY HiddenView
  <2> QED BY <2>2, <2>3
<1>2. Requested(m) = Requested(l) BY SamePairs
<1> QED BY <1>1, <1>2 DEF Oversize

\* A strategy that would do nothing more stays so when another one compacts.
LEMMA SettledStays ==
  ASSUME NEW l, NEW S, NEW m, Hides(l, S, m), NEW s \in StrategyType, Settled(l, s)
  PROVE  Settled(m, s)
<1>1. s.keep \in Nat /\ s.limit \in Nat BY DEF StrategyType
<1>2. Safe(l, Candidates(l, s.keep)) = {} => Safe(m, Candidates(m, s.keep)) = {}
  <2>1. Candidates(m, s.keep) \subseteq Candidates(l, s.keep) BY <1>1, FewerMessages
  <2> QED BY <2>1, SafeOnce
<1>3. Cardinality(Messages(l)) <= s.limit => Cardinality(Messages(m)) <= s.limit
  BY <1>1, FewerMessages
<1>4. Tokens(l) <= s.limit => Tokens(m) <= s.limit
  BY <1>1, FewerTokens
<1>5. Oversize(m, s.limit) \subseteq Oversize(l, s.limit) BY HideOversize
<1> QED BY <1>2, <1>3, <1>4, <1>5 DEF Settled

\* A strategy that has compacted its tail would do nothing more.
LEMMA TailSettles ==
  ASSUME NEW l, NEW s \in StrategyType, s.kind # "cap", NEW m,
         Hides(l, Safe(l, Candidates(l, s.keep)), m)
  PROVE  Settled(m, s)
<1>1. s.keep \in Nat BY DEF StrategyType
<1>2. Candidates(m, s.keep) \subseteq Candidates(l, s.keep) \ Safe(l, Candidates(l, s.keep))
  BY <1>1, FewerMessages
<1>3. Safe(m, Candidates(m, s.keep)) = {} BY <1>2, SafeOnce
<1> QED BY <1>3 DEF Settled

\* Every step of a pass keeps what the strategies before it have settled.
LEMMA SettleStep == ASSUME TypeOK, SettleInv, [Next]_vars PROVE SettleInv'
<1>0. Strategies \in Seq(StrategyType) /\ Len(Strategies) \in Nat /\ k \in 1..Len(Strategies) + 1
      /\ k \in Nat
  BY StrategiesAssumption DEF TypeOK, PassType
<1>a. \A i \in 1..Len(Strategies) : Strategies[i] \in StrategyType BY <1>0
<1>b. WellFormed(log) BY DEF TypeOK
<1>1. CASE pc' \in {"loop", "ingest"} BY <1>1 DEF SettleInv
<1>2. CASE UNCHANGED vars
  <2>1. Handler' = Handler BY <1>2 DEF vars, Handler
  <2>2. log' = log /\ pc' = pc /\ k' = k /\ todo' = todo BY <1>2 DEF vars
  <2> QED BY <2>1, <2>2 DEF SettleInv
<1>3. CASE BeginPass
  <2>1. k' = 1 /\ pc' = "pass" BY <1>3 DEF BeginPass
  <2> QED BY <2>1 DEF SettleInv
<1>4. ASSUME pc = "pass", k <= Len(Strategies), k' = k + 1, pc' = pc, Handler.kind # "cap",
             \/ CompactTail
             \/ UNCHANGED log /\ Settled(log, Handler)
      PROVE  SettleInv'
  <2>1. k \in 1..Len(Strategies) /\ Handler \in StrategyType /\ Handler = Strategies[k]
    BY <1>0, <1>a, <1>4 DEF Handler
  <2>2. \A i \in 1..(k - 1) : Settled(log, Strategies[i]) /\ Strategies[i] \in StrategyType
    BY <1>0, <1>a, <1>4 DEF SettleInv
  <2>3. Settled(log', Handler) /\ \A i \in 1..(k - 1) : Settled(log', Strategies[i])
    <3> DEFINE S == Safe(log, Candidates(log, Handler.keep))
    <3>1. CASE UNCHANGED log /\ Settled(log, Handler) BY <2>2, <3>1
    <3>2. CASE CompactTail /\ S = {}
      <4>1. log' = log BY <3>2 DEF CompactTail
      <4>2. Settled(log, Handler) BY <1>4, <3>2 DEF Settled
      <4> QED BY <2>2, <4>1, <4>2
    <3>3. CASE CompactTail /\ S # {}
      <4>1. log' = Append(log, Compact(S)) BY <3>3 DEF CompactTail, Write
      <4>2. S \subseteq Messages(log) BY DEF Safe, Candidates
      <4>3. S \subseteq 1..Len(log) /\ \A p \in S : log[p].type \in MessageTypes
        BY <4>2 DEF Messages, Shown
      <4>4. Hides(log, S, log') BY <1>b, <3>3, <4>1, <4>3 DEF Hides
      <4>5. Settled(log', Handler) BY <1>4, <2>1, <4>4, TailSettles
      <4> HIDE DEF S
      <4>6. \A i \in 1..(k - 1) : Settled(log', Strategies[i]) BY <2>2, <4>4, SettledStays
      <4> QED BY <4>5, <4>6
    <3> QED BY <1>4, <3>1, <3>2, <3>3
  <2>4. \A i \in 1..(k' - 1) : i = k \/ i \in 1..(k - 1) BY <1>0, <1>4
  <2>5. \A i \in 1..(k' - 1) : Settled(log', Strategies[i]) BY <2>1, <2>3, <2>4
  <2> QED BY <1>4, <2>5 DEF SettleInv
<1>5. CASE MarkerTail
  <2>1. pc = "pass" /\ k <= Len(Strategies) /\ k' = k + 1 /\ pc' = pc /\ Handler.kind = "marker"
    BY <1>5 DEF MarkerTail, AtHandler
  <2>2. CASE Cardinality(Messages(log)) > Handler.limit
    <3>1. CompactTail BY <1>5, <2>2 DEF MarkerTail
    <3> QED BY <1>4, <2>1, <3>1
  <2>3. CASE ~(Cardinality(Messages(log)) > Handler.limit)
    <3>1. UNCHANGED log BY <1>5, <2>3 DEF MarkerTail
    <3>2. Cardinality(Messages(log)) <= Handler.limit
      <4>1. Cardinality(Messages(log)) \in Nat BY <1>b, MessagesFinite
      <4>2. Handler.limit \in Nat BY <1>0, <1>a, <2>1 DEF Handler, StrategyType
      <4> QED BY <2>3, <4>1, <4>2
    <3>3. Settled(log, Handler) BY <2>1, <3>2 DEF Settled
    <3> QED BY <1>4, <2>1, <3>1, <3>3
  <2> QED BY <2>2, <2>3
<1>6. CASE TokenMarkerTail
  <2>1. pc = "pass" /\ k <= Len(Strategies) /\ k' = k + 1 /\ pc' = pc /\ Handler.kind = "token"
    BY <1>6 DEF TokenMarkerTail, AtHandler
  <2>2. CASE Tokens(log) > Handler.limit
    <3>1. CompactTail BY <1>6, <2>2 DEF TokenMarkerTail
    <3> QED BY <1>4, <2>1, <3>1
  <2>3. CASE ~(Tokens(log) > Handler.limit)
    <3>1. UNCHANGED log BY <1>6, <2>3 DEF TokenMarkerTail
    <3>2. Tokens(log) <= Handler.limit
      <4>1. Tokens(log) \in Nat BY <1>b, CharsFinite
      <4>2. Handler.limit \in Nat BY <1>0, <1>a, <2>1 DEF Handler, StrategyType
      <4> QED BY <2>3, <4>1, <4>2
    <3>3. Settled(log, Handler) BY <2>1, <3>2 DEF Settled
    <3> QED BY <1>4, <2>1, <3>1, <3>3
  <2> QED BY <2>2, <2>3
<1>7. ASSUME NEW answers \in BOOLEAN, SummaryTail(answers) PROVE SettleInv'
  <2>1. pc = "pass" /\ k <= Len(Strategies) /\ k' = k + 1 /\ pc' = pc /\ Handler.kind = "summary"
    BY <1>7 DEF SummaryTail, AtHandler
  <2>2. CompactTail \/ UNCHANGED log BY <1>7 DEF SummaryTail
  <2>3. Settled(log, Handler) BY <2>1 DEF Settled
  <2> QED BY <1>4, <2>1, <2>2, <2>3
<1>8. CASE ToolOutputCap
  <2>1. /\ pc = "pass" /\ k <= Len(Strategies) /\ pc' = "cap" /\ UNCHANGED <<log, k>>
        /\ todo' = Oversize(log, Handler.limit)
    BY <1>8 DEF ToolOutputCap, AtHandler
  <2>2. Handler' = Handler BY <2>1 DEF Handler
  <2>3. Oversize(log', Handler'.limit) \subseteq todo' BY <2>1, <2>2
  <2> QED BY <2>1, <2>3 DEF SettleInv
<1>9. CASE CapNext /\ todo = {}
  <2>1. pc = "cap" /\ pc' = "pass" /\ k' = k + 1 /\ log' = log BY <1>9 DEF CapNext
  <2>2. k <= Len(Strategies) /\ Handler.kind = "cap" BY <2>1 DEF TypeOK, PassType
  <2>3. Oversize(log, Handler.limit) = {} BY <1>9, <2>1 DEF SettleInv
  <2>4. Settled(log, Strategies[k]) BY <2>2, <2>3 DEF Settled, Handler
  <2>5. \A i \in 1..(k - 1) : Settled(log, Strategies[i]) BY <2>1 DEF SettleInv
  <2>6. \A i \in 1..(k' - 1) : i = k \/ i \in 1..(k - 1) BY <1>0, <2>1
  <2>7. \A i \in 1..(k' - 1) : Settled(log', Strategies[i]) BY <2>1, <2>4, <2>5, <2>6
  <2> QED BY <2>1, <2>7 DEF SettleInv
<1>10. CASE CapNext /\ todo # {}
  <2> DEFINE S == {UseOf(log, Least(todo)), Least(todo)}
  <2>1. /\ pc = "cap" /\ pc' = "cap" /\ k' = k /\ log' = Append(log, Compact(S))
        /\ todo' = todo \ {Least(todo)}
    BY <1>10 DEF CapNext, Write
  <2>2. Hides(log, S, log')
    <3>1. Least(todo) \in Positions(log, "tool_result") /\ UseOf(log, Least(todo)) \in Positions(log, "tool_use")
      BY <1>10, TodoUse
    <3>2. S \subseteq 1..Len(log) /\ \A p \in S : log[p].type \in MessageTypes
      BY <3>1 DEF Positions, MessageTypes
    <3> QED BY <1>b, <2>1, <3>2 DEF Hides
  <2>3. k \in 1..Len(Strategies) /\ Handler' = Handler BY <1>0, <2>1 DEF TypeOK, PassType, Handler
  <2>4. Least(todo) \in S OBVIOUS
  <2> HIDE DEF S
  <2>5. Oversize(log', Handler.limit) \subseteq Oversize(log, Handler.limit) \ S BY <2>2, HideOversize
  <2>6. Oversize(log', Handler'.limit) \subseteq todo' BY <2>1, <2>3, <2>4, <2>5 DEF SettleInv
  <2>7. \A i \in 1..(k - 1) : Settled(log, Strategies[i]) /\ Strategies[i] \in StrategyType
    BY <1>0, <1>a, <2>1 DEF SettleInv
  <2>8. \A i \in 1..(k - 1) : Settled(log', Strategies[i]) BY <2>2, <2>7, SettledStays
  <2> QED BY <2>1, <2>6, <2>8 DEF SettleInv
<1>11. CASE Project
  <2>1. pc = "pass" /\ k > Len(Strategies) /\ pc' = "call" /\ UNCHANGED <<log, k>> BY <1>11 DEF Project
  <2> QED BY <2>1 DEF SettleInv
<1>12. CASE \E size \in Sizes : UserMessage(size) \/ AssistantMessage(size) \/ ToolUse(size)
  BY <1>1, <1>12 DEF UserMessage, AssistantMessage, ToolUse, BetweenPasses
<1>13. CASE \E id \in 1..MaxEvents, size \in Sizes : ToolResult(id, size)
  BY <1>1, <1>13 DEF ToolResult, BetweenPasses
<1>14. CASE \E c \in 1..MaxEvents : Revert(c)
  BY <1>1, <1>14 DEF Revert, BetweenPasses
<1>15. CASE Abandon BY <1>1, <1>15 DEF Abandon
<1> QED BY <1>2, <1>3, <1>5, <1>6, <1>7, <1>8, <1>9, <1>10, <1>11, <1>12, <1>13, <1>14, <1>15 DEF Next

\* A pass does all its work, for any list of strategies, any limits and ids:
\* no strategy would compact anything more when the request is made, whatever
\* the ones behind it have changed of the view it decided on.
THEOREM PassesSettle == Spec => []PassSettles
<1>1. Init => SettleInv
  <2> SUFFICES ASSUME Init PROVE SettleInv OBVIOUS
  <2>1. pc = "loop" BY DEF Init
  <2> QED BY <2>1 DEF SettleInv
<1>2. TypeOK /\ SettleInv /\ [Next]_vars => SettleInv' BY SettleStep
<1>3. TypeOK /\ SettleInv => PassSettles
  <2> SUFFICES ASSUME TypeOK, SettleInv, pc = "call", NEW i \in DOMAIN Strategies
               PROVE  Settled(log, Strategies[i])
    BY DEF PassSettles, Settled
  <2>1. Len(Strategies) \in Nat /\ DOMAIN Strategies = 1..Len(Strategies) /\ k \in 1..Len(Strategies) + 1
    BY StrategiesAssumption DEF TypeOK, PassType
  <2>2. k > Len(Strategies) BY DEF SettleInv
  <2>3. i \in 1..(k - 1) BY <2>1, <2>2
  <2> QED BY <2>3 DEF SettleInv
<1> QED BY <1>1, <1>2, <1>3, Types, PTL DEF Spec

-----------------------------------------------------------------------------
(* What becomes of a block.                                                  *)

LEMMA RenderIs ==
  ASSUME NEW c \in Configurations, NEW place \in Settings, NEW block \in Blocks
  PROVE  /\ Render(c, place, block) = "none" <=>
              /\ block.source = "empty"
              /\ \/ ProjectionFor(c.model[1]) = "gemini"
                 \/ ProjectionFor(c.model[1]) = "anthropic" /\ place.role = "assistant"
         /\ block.type = "text" =>
              /\ Render(c, place, block) \notin {"note", "url", "data", "mismatch", "raise"}
              /\ Render(c, place, block) = "wire" <=> block.source = ProjectionFor(c.model[1])
         /\ block.type # "text" =>
              /\ block.source # ProjectionFor(c.model[1])
              /\ Views(c, block.type) =>
                   /\ Render(c, place, block) \in {"url", "data", "raise"}
                   /\ Render(c, place, block) = "raise" =>
                        \/ ~Resolves(c, block)
                        \/ ProjectionFor(c.model[1]) = "openai" /\ block.type = "document"
                           /\ c.capabilities["document"] = "yes"
              /\ ~Views(c, block.type) =>
                   /\ Render(c, place, block) \in {"note", "mismatch", "raise"}
                   /\ c.mismatch = "error" => Render(c, place, block) = "mismatch"
                   /\ Render(c, place, block) = "mismatch" => c.mismatch = "error"
                   /\ Render(c, place, block) = "raise" => ~Resolves(c, block)
<1>1. /\ c.model \in Models /\ c.capabilities \in [MediaTypes -> {"unset", "yes", "no"}]
  BY DEF Configurations
<1>2. ProjectionFor(c.model[1]) \in {"anthropic", "openai", "gemini"}
  BY <1>1 DEF Models, ProjectionFor
<1>3. \/ block.type = "text"
      \/ block.type \in MediaTypes /\ block.source \in Sources
  BY DEF Blocks
<1>4. CASE block.type = "text"
  <2>1. /\ block.source # "empty" => block.source \in {"plain", "anthropic", "openai", "gemini"}
        /\ block.source # ProjectionFor(c.model[1]) \/ block.source # "empty"
    BY <1>2, <1>4 DEF Blocks, Carried, MediaTypes
  <2>2. Render(c, place, block) = Text(ProjectionFor(c.model[1]), place, block)
    BY <1>4 DEF Render
  <2> QED BY <1>2, <1>4, <2>1, <2>2 DEF Text
<1>5. CASE block.type # "text"
  <2>1. block.type \in MediaTypes /\ block.source \in {"base64", "ref", "url"}
    BY <1>3, <1>5 DEF Sources
  <2>2. c.capabilities[block.type] \in {"unset", "yes", "no"}
    BY <1>1, <2>1
  <2>3. Supported(c, block.type) <=> Views(c, block.type)
    BY <2>2 DEF Supported, Views
  <2>4. ASSUME Views(c, block.type), ProjectionFor(c.model[1]) = "openai", block.type = "document"
        PROVE  c.capabilities["document"] = "yes"
    <3>1. c.model[1] \in {"openai", "ollama"}
      BY <1>1, <2>4 DEF Models, ProjectionFor
    <3>2. "document" \notin Defaults(c.model[1], c.model[2])
      BY <3>1 DEF Defaults
    <3> QED BY <2>2, <2>4, <3>2 DEF Views
  <2>5. CASE Views(c, block.type)
    <3>1. Render(c, place, block) = Media(c, ProjectionFor(c.model[1]), block)
      BY <1>5, <2>3, <2>5 DEF Render
    <3> QED BY <1>2, <1>5, <2>1, <2>4, <2>5, <3>1 DEF Media
  <2>6. CASE ~Views(c, block.type)
    <3>1. Render(c, place, block) = Fallback(c, block)
      BY <1>5, <2>3, <2>6 DEF Render
    <3> QED BY <1>2, <1>5, <2>1, <2>6, <3>1 DEF Fallback
  <2> QED BY <2>5, <2>6
<1> QED BY <1>4, <1>5

\* A message of any length, under every configuration of a provider: nothing
\* attached is dropped or sent to a model that cannot view it (projections/*.py).
THEOREM AttachmentsAlwaysReach ==
  ASSUME NEW c \in Configurations, NEW place \in Settings, NEW blocks \in Seq(Blocks)
  PROVE  Reached(c, place, blocks)
<1> DEFINE content  == Content(c, place, blocks)
           Those(how) == {n \in DOMAIN content : content[n] \in how}
           unseen   == {n \in Attachments(blocks) : ~Views(c, blocks[n].type)}
           own      == {n \in DOMAIN blocks : blocks[n].source = ProjectionFor(c.model[1])}
           rendered == [n \in DOMAIN blocks |-> Render(c, place, blocks[n])]
           failed   == {n \in DOMAIN blocks : rendered[n] \in Failures}
           flat     == Flattened(ProjectionFor(c.model[1]), place, rendered)
<1>1. \A n \in DOMAIN blocks : n \in Nat /\ blocks[n] \in Blocks
  OBVIOUS
<1>2. \A n \in DOMAIN blocks : rendered[n] = Render(c, place, blocks[n])
  OBVIOUS
<1>3. DOMAIN rendered = DOMAIN blocks
  OBVIOUS
<1> HIDE DEF rendered
<1>4. flat <=> Single(c, place, blocks)
  <2>1. c.model[1] \in {"anthropic", "mock", "openai", "ollama", "gemini"}
    BY DEF Configurations, Models
  <2>2. {n \in DOMAIN rendered : rendered[n] # "none"}
          = DOMAIN blocks \ {n \in DOMAIN blocks : Render(c, place, blocks[n]) = "none"}
    BY <1>2, <1>3
  <2>3. place.role \in {"user", "assistant"}
    BY DEF Settings
  <2>4. ASSUME ProjectionFor(c.model[1]) = "anthropic"
        PROVE  {n \in DOMAIN blocks : Render(c, place, blocks[n]) = "none"}
                 = IF place.role = "user" THEN {} ELSE {n \in DOMAIN blocks : blocks[n].source = "empty"}
    BY <1>1, <2>3, <2>4, RenderIs
  <2> DEFINE Sent == {n \in DOMAIN rendered : rendered[n] # "none"}
             Kept == DOMAIN blocks \ IF place.role = "user" THEN {}
                                     ELSE {n \in DOMAIN blocks : blocks[n].source = "empty"}
  <2>5. ProjectionFor(c.model[1]) = "anthropic" => Sent = Kept
    BY <2>2, <2>4
  <2>6. flat <=> \/ ProjectionFor(c.model[1]) = "openai" /\ Cardinality(DOMAIN blocks) = 1
                 \/ ProjectionFor(c.model[1]) = "anthropic" /\ place.alone
                    /\ Cardinality(Sent) = 1
    BY <1>3 DEF Flattened
  <2> HIDE DEF flat, Sent
  <2>7. Single(c, place, blocks) <=>
          \/ c.model[1] \in {"openai", "ollama"} /\ Cardinality(DOMAIN blocks) = 1
          \/ c.model[1] \in {"anthropic", "mock"} /\ place.alone /\ Cardinality(Kept) = 1
    BY <2>1 DEF Single
  <2> HIDE DEF Kept
  <2> QED BY <2>1, <2>5, <2>6, <2>7 DEF ProjectionFor
<1> HIDE DEF flat
<1>5. CASE failed = {}
  <2>1. content = [n \in DOMAIN blocks |->
                     IF flat /\ rendered[n] = "wire" THEN "text" ELSE rendered[n]]
    BY <1>5 DEF Content, rendered, flat
  <2>0. DOMAIN content = DOMAIN blocks
        /\ \A n \in DOMAIN blocks :
             content[n] = IF flat /\ rendered[n] = "wire" THEN "text" ELSE rendered[n]
    BY <2>1
  <2> HIDE DEF content
  <2>2. \A n \in DOMAIN blocks : Render(c, place, blocks[n]) \notin {"mismatch", "raise"}
    BY <1>2, <1>5 DEF Failures
  <2>3. Those(Failures) = {}
    BY <1>5, <2>0 DEF Failures
  <2>4. Those({"note"}) = unseen
    BY <1>1, <1>2, <2>0, <2>2, RenderIs DEF Attachments
  <2>5. Those({"url", "data"}) = Attachments(blocks) \ unseen
    BY <1>1, <1>2, <2>0, <2>2, RenderIs DEF Attachments
  <2>6. Those({"wire"}) = IF flat THEN {} ELSE own
    BY <1>1, <1>2, <2>0, <2>2, RenderIs DEF Attachments
  <2>7. c.mismatch = "error" => unseen = {}
    BY <1>1, <2>2, RenderIs DEF Attachments
  <2>8. Cardinality(Those(Failures)) = 0
    BY <2>3, FS_EmptySet
  <2>9. Cardinality(Those({"wire"})) = IF Single(c, place, blocks) THEN 0 ELSE Cardinality(own)
    BY <1>4, <2>6, FS_EmptySet
  <2> HIDE DEF Those, unseen, own
  <2> QED BY <2>4, <2>5, <2>7, <2>8, <2>9 DEF Reached, content, Those, unseen, own
<1>6. CASE failed # {}
  <2> DEFINE f == Least(failed)
  <2>1. f \in failed
    <3>1. failed \subseteq Nat
      BY <1>1
    <3> HIDE DEF failed
    <3> QED BY <1>6, <3>1, LeastInSet
  <2>2. content = <<rendered[f]>>
    BY <1>6 DEF Content, Least, rendered
  <2> HIDE DEF f, content
  <2>3. f \in DOMAIN blocks /\ blocks[f] \in Blocks /\ rendered[f] = Render(c, place, blocks[f])
        /\ rendered[f] \in {"mismatch", "raise"}
    BY <1>1, <1>2, <2>1 DEF Failures
  <2>4. Those(Failures) = {1}
    BY <2>2, <2>3 DEF Failures
  <2>5. Cardinality(Those(Failures)) # 0
    <3>1. Cardinality({1}) = 1
      BY FS_Singleton
    <3> HIDE DEF Those
    <3> QED BY <2>4, <3>1
  <2>6. f \in Attachments(blocks)
    BY <2>3, RenderIs DEF Attachments
  <2>7. \/ content = <<"mismatch">> /\ c.mismatch = "error" /\ unseen # {}
        \/ /\ content = <<"raise">>
           /\ \E n \in Attachments(blocks) :
                \/ ~Resolves(c, blocks[n])
                \/ ProjectionFor(c.model[1]) = "openai" /\ blocks[n].type = "document"
                   /\ c.capabilities["document"] = "yes"
    <3>1. blocks[f].type # "text"
      BY <2>6 DEF Attachments
    <3>2. CASE rendered[f] = "mismatch"
      <4>1. ~Views(c, blocks[f].type) /\ c.mismatch = "error"
        BY <2>3, <3>1, <3>2, RenderIs
      <4> QED BY <2>2, <2>6, <3>2, <4>1
    <3>3. CASE rendered[f] = "raise"
      <4>1. \/ ~Resolves(c, blocks[f])
            \/ ProjectionFor(c.model[1]) = "openai" /\ blocks[f].type = "document"
               /\ c.capabilities["document"] = "yes"
        BY <2>3, <3>1, <3>3, RenderIs
      <4> QED BY <2>2, <2>6, <3>3, <4>1
    <3> QED BY <2>3, <3>2, <3>3
  <2> HIDE DEF Those, unseen, own
  <2> QED BY <2>5, <2>7 DEF Reached, content, Those, unseen, own
<1> QED BY <1>5, <1>6

\* The contents a run enumerates are among them.
LEMMA AttachmentsDoReach == AttachmentsReach
<1> SUFFICES ASSUME NEW c \in Configurations, NEW place \in Settings, NEW blocks \in Contents
             PROVE  Reached(c, place, blocks)
  BY DEF AttachmentsReach
<1>1. PICK n \in 0..2 : blocks \in [1..n -> Blocks]
  BY DEF Contents
<1>2. blocks \in Seq(Blocks)
  <2>1. n \in Nat
    OBVIOUS
  <2> HIDE DEF Blocks
  <2> QED BY <1>1, <2>1
<1> QED BY <1>2, AttachmentsAlwaysReach

-----------------------------------------------------------------------------
(* The projections' loop.                                                    *)

\* One turn of the projections' loop.
Turn(projector, stream, silent, l, carried, messages, p) ==
  IF p \in Rendered(projector, stream, silent)
  THEN Place(projector, messages, stream[p], l, carried)
  ELSE messages

\* The loop computes what its recursion says, for a log of any length: were
\* there a least position up to which no function did, one up to the position
\* before it would only have to be extended.
LEMMA LoopDefined ==
  ASSUME NEW projector, NEW stream, NEW silent, NEW l, NEW carried, Len(l) \in Nat
  PROVE  LET M == MessagesUpTo(projector, stream, silent, l, carried) IN
         /\ M[0] = <<>>
         /\ \A p \in 1..Len(l) :
              M[p] = Turn(projector, stream, silent, l, carried, M[p - 1], p)
<1> DEFINE T(m, p) == Turn(projector, stream, silent, l, carried, m, p)
           Solves(f, n) == f = [p \in 0..n |-> IF p = 0 THEN <<>> ELSE T(f[p - 1], p)]
           Missing == {n \in Nat : ~\E f : Solves(f, n)}
           M == MessagesUpTo(projector, stream, silent, l, carried)
<1>0. M = CHOOSE f : Solves(f, Len(l))
  BY DEF MessagesUpTo, Turn
<1> HIDE DEF T
<1>1. Missing = {}
  <2> SUFFICES ASSUME Missing # {} PROVE FALSE
    OBVIOUS
  <2> DEFINE n == Least(Missing)
  <2>1. n \in Missing /\ \A y \in Missing : n <= y
    BY LeastInSet
  <2> HIDE DEF n
  <2>2. n # 0
    <3> DEFINE f == [p \in 0..0 |-> <<>>]
    <3>1. Solves(f, 0)
      OBVIOUS
    <3> HIDE DEF f
    <3> QED BY <2>1, <3>1, Zenon
  <2>3. n \in Nat /\ n - 1 \in Nat /\ n - 1 \notin Missing
    <3>1. n \in Nat
      BY <2>1
    <3> HIDE DEF Missing
    <3> QED BY <2>1, <2>2, <3>1
  <2>4. PICK f : Solves(f, n - 1)
    <3> HIDE DEF Solves
    <3> QED BY <2>3
  <2> DEFINE g == [p \in 0..n |-> IF p = n THEN T(f[n - 1], n) ELSE f[p]]
  <2>5. Solves(g, n)
    <3>1. ASSUME NEW p \in 0..n PROVE g[p] = IF p = 0 THEN <<>> ELSE T(g[p - 1], p)
      <4>1. CASE p = n
        <5>1. g[n] = T(f[n - 1], n) /\ g[n - 1] = f[n - 1]
          BY <2>1, <2>2
        <5> QED BY <4>1, <5>1, <2>2
      <4>2. CASE p # n
        <5>1. p \in 0..(n - 1) /\ (p # 0 => p - 1 \in 0..(n - 1) /\ p - 1 # n)
          BY <2>1, <4>2
        <5>2. g[p] = f[p] /\ (p # 0 => g[p - 1] = f[p - 1])
          BY <2>1, <4>2, <5>1
        <5>3. f[p] = IF p = 0 THEN <<>> ELSE T(f[p - 1], p)
          BY <2>4, <5>1
        <5> QED BY <5>2, <5>3
      <4> QED BY <4>1, <4>2
    <3> QED BY <3>1
  <2> QED BY <2>1, <2>5
<1>2. Solves(M, Len(l))
  <2>1. \E f : Solves(f, Len(l))
    BY <1>1
  <2> HIDE DEF Solves
  <2> QED BY <1>0, <2>1
<1> HIDE DEF M
<1>3. M[0] = <<>>
  BY <1>2
<1>4. ASSUME NEW p \in 1..Len(l) PROVE M[p] = T(M[p - 1], p)
  BY <1>2
<1> QED BY <1>3, <1>4 DEF T, M

-----------------------------------------------------------------------------
(* The messages the loop builds.                                             *)

BlockType   == [kind : MessageTypes \cup {"summary"}, id : Nat, at : Nat]
MessageType == [role : {"user", "assistant", "tool"}, blocks : Seq(BlockType)]

\* Up to position p the messages hold the rendered events R of the stream, each
\* once, in order, in a message of its role; Anthropic's roles alternate.
InOrder(ms) ==
  \A m1, m2 \in DOMAIN ms :
    \A n1 \in DOMAIN ms[m1].blocks, n2 \in DOMAIN ms[m2].blocks :
      m1 < m2 \/ (m1 = m2 /\ n1 < n2) => ms[m1].blocks[n1].at < ms[m2].blocks[n2].at
Faithful(projector, stream, R, ms, p) ==
  \A m \in DOMAIN ms : \A n \in DOMAIN ms[m].blocks :
    LET b == ms[m].blocks[n] IN
    b.at \in R /\ b.at <= p /\ b = stream[b.at] /\ ms[m].role = Role(projector, b)
Whole(R, ms, p) ==
  \A x \in R : x <= p =>
    \E m \in DOMAIN ms : \E n \in DOMAIN ms[m].blocks : ms[m].blocks[n].at = x
Alternate(ms) == \A m \in 1..(Len(ms) - 1) : ms[m].role # ms[m + 1].role
Built(projector, stream, R, ms, p) ==
  /\ ms \in Seq(MessageType)
  /\ InOrder(ms) /\ Faithful(projector, stream, R, ms, p) /\ Whole(R, ms, p)
  /\ projector = "anthropic" => Alternate(ms)

\* mt is ms with one more block, its last: the n-th of the m-th message.
Grown(projector, block, ms, mt, m, n) ==
  /\ m \in DOMAIN mt /\ n \in DOMAIN mt[m].blocks /\ mt[m].blocks[n] = block
  /\ mt[m].role = Role(projector, block)
  /\ \A i \in DOMAIN mt : \A j \in DOMAIN mt[i].blocks :
       \/ i = m /\ j = n
       \/ /\ i \in DOMAIN ms /\ j \in DOMAIN ms[i].blocks
          /\ mt[i].blocks[j] = ms[i].blocks[j] /\ mt[i].role = ms[i].role
          /\ i < m \/ (i = m /\ j < n)
  /\ \A i \in DOMAIN ms : \A j \in DOMAIN ms[i].blocks :
       i \in DOMAIN mt /\ j \in DOMAIN mt[i].blocks /\ mt[i].blocks[j] = ms[i].blocks[j]

LEMMA SeqDomain ==
  ASSUME NEW S, NEW s \in Seq(S)
  PROVE  /\ DOMAIN s = 1..Len(s) /\ Len(s) \in Nat
         /\ \A n \in DOMAIN s : n \in Nat /\ s[n] \in S
OBVIOUS

\* A block of a later position keeps order, faithfulness and completeness.
LEMMA GrownIsBuilt ==
  ASSUME NEW projector, NEW stream, NEW R, R \subseteq Nat,
         NEW p \in R, stream[p] \in BlockType, stream[p].at = p,
         NEW ms \in Seq(MessageType), NEW mt \in Seq(MessageType),
         InOrder(ms), Faithful(projector, stream, R, ms, p - 1), Whole(R, ms, p - 1),
         NEW m, NEW n, Grown(projector, stream[p], ms, mt, m, n)
  PROVE  InOrder(mt) /\ Faithful(projector, stream, R, mt, p) /\ Whole(R, mt, p)
<1>1. /\ m \in DOMAIN mt /\ n \in DOMAIN mt[m].blocks /\ mt[m].blocks[n] = stream[p]
      /\ mt[m].role = Role(projector, stream[p])
  BY DEF Grown
<1>2. ASSUME NEW i \in DOMAIN mt, NEW j \in DOMAIN mt[i].blocks
      PROVE  \/ i = m /\ j = n
             \/ /\ i \in DOMAIN ms /\ j \in DOMAIN ms[i].blocks
                /\ mt[i].blocks[j] = ms[i].blocks[j] /\ mt[i].role = ms[i].role
                /\ i < m \/ (i = m /\ j < n)
  BY DEF Grown
<1>3. ASSUME NEW i \in DOMAIN ms, NEW j \in DOMAIN ms[i].blocks
      PROVE  i \in DOMAIN mt /\ j \in DOMAIN mt[i].blocks /\ mt[i].blocks[j] = ms[i].blocks[j]
  BY DEF Grown
<1>4. p \in Nat /\ \A x \in R : x \in Nat
  OBVIOUS
<1>5. ASSUME NEW i \in DOMAIN ms, NEW j \in DOMAIN ms[i].blocks
      PROVE  /\ ms[i].blocks[j].at \in R /\ ms[i].blocks[j].at <= p - 1
             /\ ms[i].blocks[j] = stream[ms[i].blocks[j].at]
             /\ ms[i].role = Role(projector, ms[i].blocks[j])
  BY DEF Faithful
<1>6. Faithful(projector, stream, R, mt, p)
  <2> SUFFICES ASSUME NEW i \in DOMAIN mt, NEW j \in DOMAIN mt[i].blocks
               PROVE  /\ mt[i].blocks[j].at \in R /\ mt[i].blocks[j].at <= p
                      /\ mt[i].blocks[j] = stream[mt[i].blocks[j].at]
                      /\ mt[i].role = Role(projector, mt[i].blocks[j])
    BY DEF Faithful
  <2>1. CASE i = m /\ j = n
    BY <1>1, <1>4, <2>1
  <2>2. CASE /\ i \in DOMAIN ms /\ j \in DOMAIN ms[i].blocks
             /\ mt[i].blocks[j] = ms[i].blocks[j] /\ mt[i].role = ms[i].role
    <3>1. /\ ms[i].blocks[j].at \in R /\ ms[i].blocks[j].at <= p - 1
          /\ ms[i].blocks[j] = stream[ms[i].blocks[j].at]
          /\ ms[i].role = Role(projector, ms[i].blocks[j])
      BY <1>5, <2>2
    <3>2. ms[i].blocks[j].at \in Nat
      BY <1>4, <3>1
    <3> QED BY <1>4, <2>2, <3>1, <3>2
  <2> QED BY <1>2, <2>1, <2>2
<1>7. InOrder(mt)
  <2> SUFFICES ASSUME NEW m1 \in DOMAIN mt, NEW m2 \in DOMAIN mt,
                      NEW n1 \in DOMAIN mt[m1].blocks, NEW n2 \in DOMAIN mt[m2].blocks,
                      m1 < m2 \/ (m1 = m2 /\ n1 < n2)
               PROVE  mt[m1].blocks[n1].at < mt[m2].blocks[n2].at
    BY DEF InOrder
  <2>0. m1 \in Nat /\ m2 \in Nat /\ n1 \in Nat /\ n2 \in Nat /\ m \in Nat /\ n \in Nat
    <3>1. mt[m1] \in MessageType /\ mt[m2] \in MessageType /\ mt[m] \in MessageType
      BY <1>1
    <3>2. mt[m1].blocks \in Seq(BlockType) /\ mt[m2].blocks \in Seq(BlockType)
          /\ mt[m].blocks \in Seq(BlockType)
      BY <3>1 DEF MessageType
    <3> QED BY <1>1, <3>2, SeqDomain
  <2>1. ~(m1 = m /\ n1 = n)
    BY <1>2, <2>0
  <2>2. /\ m1 \in DOMAIN ms /\ n1 \in DOMAIN ms[m1].blocks
        /\ mt[m1].blocks[n1] = ms[m1].blocks[n1]
    BY <1>2, <2>1
  <2>3. ms[m1].blocks[n1].at \in Nat /\ ms[m1].blocks[n1].at <= p - 1
    BY <1>4, <1>5, <2>2
  <2>4. CASE m2 = m /\ n2 = n
    BY <1>1, <1>4, <2>2, <2>3, <2>4
  <2>5. CASE ~(m2 = m /\ n2 = n)
    <3>1. /\ m2 \in DOMAIN ms /\ n2 \in DOMAIN ms[m2].blocks
          /\ mt[m2].blocks[n2] = ms[m2].blocks[n2]
      BY <1>2, <2>5
    <3> QED BY <2>2, <3>1 DEF InOrder
  <2> QED BY <2>4, <2>5
<1>8. Whole(R, mt, p)
  <2> SUFFICES ASSUME NEW x \in R, x <= p
               PROVE  \E i \in DOMAIN mt : \E j \in DOMAIN mt[i].blocks : mt[i].blocks[j].at = x
    BY DEF Whole
  <2>1. CASE x = p
    BY <1>1, <2>1
  <2>2. CASE x # p
    <3>1. x <= p - 1
      BY <1>4, <2>2
    <3>2. PICK i \in DOMAIN ms : \E j \in DOMAIN ms[i].blocks : ms[i].blocks[j].at = x
      BY <3>1 DEF Whole
    <3>3. PICK j \in DOMAIN ms[i].blocks : ms[i].blocks[j].at = x
      BY <3>2
    <3> QED BY <1>3, <3>3
  <2> QED BY <2>1, <2>2
<1> QED BY <1>6, <1>7, <1>8

\* Place adds its block after all others: to the last message or as a new one.
LEMMA PlaceGrows ==
  ASSUME NEW projector \in Projectors, NEW block \in BlockType,
         NEW ms \in Seq(MessageType), NEW l, NEW carried, projector # "openai" \/ carried = {}
  PROVE  LET mt == Place(projector, ms, block, l, carried) IN
         /\ mt \in Seq(MessageType)
         /\ \E m, n : Grown(projector, block, ms, mt, m, n)
         /\ projector = "anthropic" /\ Alternate(ms) => Alternate(mt)
<1> DEFINE mt == Place(projector, ms, block, l, carried)
           role == Role(projector, block)
<1>0. role \in {"user", "assistant", "tool"}
  BY DEF Role, BlockType, MessageTypes
<1>1. Fresh(projector, block, l, carried) = [role |-> role, blocks |-> <<block>>]
  BY DEF Fresh
<1>2. [role |-> role, blocks |-> <<block>>] \in MessageType
  BY <1>0 DEF MessageType
<1>3. DOMAIN ms = 1..Len(ms) /\ Len(ms) \in Nat
      /\ \A i \in 1..Len(ms) : ms[i] \in MessageType
  BY SeqDomain
<1>4. \A i \in 1..Len(ms) :
        ms[i].blocks \in Seq(BlockType) /\ ms[i].role \in {"user", "assistant", "tool"}
  BY <1>3 DEF MessageType
<1>5. CASE ms # <<>> /\ Joins(projector, block, Last(ms))
  <2> DEFINE q  == Len(ms)
             bs == Append(ms[q].blocks, block)
  <2>1. q \in 1..Len(ms) /\ Last(ms) = ms[q]
    BY <1>3, <1>5 DEF Last
  <2>2. ms[q].role = role
    BY <1>5, <2>1 DEF Joins
  <2>3. ms[q].blocks \in Seq(BlockType)
    BY <1>4, <2>1
  <2>4. /\ bs \in Seq(BlockType) /\ DOMAIN bs = 1..Len(ms[q].blocks) + 1
        /\ DOMAIN ms[q].blocks = 1..Len(ms[q].blocks) /\ Len(ms[q].blocks) \in Nat
        /\ \A j \in 1..Len(ms[q].blocks) : bs[j] = ms[q].blocks[j]
        /\ bs[Len(ms[q].blocks) + 1] = block
    BY <2>3
  <2> HIDE DEF bs
  <2>5. mt = [ms EXCEPT ![q].blocks = bs]
    BY <1>5 DEF Place, bs
  <2> HIDE DEF mt
  <2>6. mt = [ms EXCEPT ![q] = [ms[q] EXCEPT !.blocks = bs]]
    BY <2>5
  <2>7. [ms[q] EXCEPT !.blocks = bs] \in MessageType
    BY <1>3, <2>1, <2>4 DEF MessageType
  <2>8. mt \in Seq(MessageType) /\ DOMAIN mt = DOMAIN ms /\ Len(mt) = Len(ms)
    BY <1>3, <2>1, <2>6, <2>7
  <2>9. /\ \A i \in 1..Len(ms) : i # q => mt[i] = ms[i]
        /\ mt[q] = [ms[q] EXCEPT !.blocks = bs]
    BY <1>3, <2>1, <2>6
  <2>10. mt[q].blocks = bs /\ mt[q].role = role
    <3>1. ms[q] \in MessageType
      BY <1>3, <2>1
    <3> QED BY <2>2, <2>9, <3>1 DEF MessageType
  <2>11. \A i \in 1..Len(ms) : mt[i].role = ms[i].role
    BY <2>2, <2>9, <2>10
  <2>12. Alternate(ms) => Alternate(mt)
    BY <1>3, <2>8, <2>11 DEF Alternate
  <2>13. Grown(projector, block, ms, mt, q, Len(ms[q].blocks) + 1)
    <3>1. ASSUME NEW i \in DOMAIN mt, NEW j \in DOMAIN mt[i].blocks
          PROVE  \/ i = q /\ j = Len(ms[q].blocks) + 1
                 \/ /\ i \in DOMAIN ms /\ j \in DOMAIN ms[i].blocks
                    /\ mt[i].blocks[j] = ms[i].blocks[j] /\ mt[i].role = ms[i].role
                    /\ i < q \/ (i = q /\ j < Len(ms[q].blocks) + 1)
      <4>1. CASE i = q
        <5>1. j \in 1..Len(ms[q].blocks) + 1 /\ mt[i].blocks[j] = bs[j]
          BY <2>4, <2>10, <4>1
        <5>2. CASE j = Len(ms[q].blocks) + 1
          BY <4>1, <5>2
        <5>3. CASE j # Len(ms[q].blocks) + 1
          <6>1. j \in 1..Len(ms[q].blocks) /\ j < Len(ms[q].blocks) + 1
            BY <2>4, <5>1, <5>3
          <6> QED BY <1>3, <2>1, <2>4, <2>11, <4>1, <5>1, <6>1
        <5> QED BY <5>2, <5>3
      <4>2. CASE i # q
        BY <1>3, <2>1, <2>8, <2>9, <4>2
      <4> QED BY <4>1, <4>2
    <3>2. ASSUME NEW i \in DOMAIN ms, NEW j \in DOMAIN ms[i].blocks
          PROVE  i \in DOMAIN mt /\ j \in DOMAIN mt[i].blocks
                 /\ mt[i].blocks[j] = ms[i].blocks[j]
      <4>1. CASE i = q
        BY <2>4, <2>8, <2>10, <4>1
      <4>2. CASE i # q
        BY <1>3, <2>8, <2>9, <4>2
      <4> QED BY <4>1, <4>2
    <3> QED BY <1>3, <2>1, <2>4, <2>8, <2>10, <3>1, <3>2 DEF Grown
  <2> QED BY <2>8, <2>12, <2>13 DEF mt
<1>6. CASE ~(ms # <<>> /\ Joins(projector, block, Last(ms)))
  <2> DEFINE q == Len(ms) + 1
             f == [role |-> role, blocks |-> <<block>>]
  <2>0. f.role = role /\ f.blocks = <<block>> /\ f \in MessageType
    BY <1>2
  <2> HIDE DEF f, role
  <2>1. mt = Append(ms, f)
    BY <1>1, <1>6 DEF Place, f
  <2> HIDE DEF mt
  <2>2. /\ mt \in Seq(MessageType) /\ DOMAIN mt = 1..Len(ms) + 1 /\ Len(mt) = Len(ms) + 1
        /\ \A i \in 1..Len(ms) : mt[i] = ms[i]
        /\ mt[q] = f
    BY <1>3, <2>0, <2>1
  <2>3. DOMAIN f.blocks = {1} /\ f.blocks[1] = block
    BY <2>0
  <2>4. projector = "anthropic" /\ Alternate(ms) => Alternate(mt)
    <3> SUFFICES ASSUME projector = "anthropic", Alternate(ms), NEW i \in 1..Len(ms)
                 PROVE  mt[i].role # mt[i + 1].role
      BY <1>3, <2>2 DEF Alternate
    <3>1. CASE i = Len(ms)
      <4>1. ms # <<>> /\ Last(ms) = ms[i]
        BY <1>3, <3>1 DEF Last
      <4>2. ms[i].role # role
        BY <1>6, <4>1 DEF Joins, role
      <4>3. mt[i] = ms[i] /\ mt[i + 1] = f
        BY <2>2, <3>1
      <4> QED BY <2>0, <4>2, <4>3
    <3>2. CASE i # Len(ms)
      <4>1. i \in 1..Len(ms) - 1 /\ i + 1 \in 1..Len(ms)
        <5>1. Len(ms) \in Nat
          BY <1>3
        <5> QED BY <5>1, <3>2
      <4> QED BY <2>2, <4>1 DEF Alternate
    <3> QED BY <3>1, <3>2
  <2>5. Grown(projector, block, ms, mt, q, 1)
    <3>1. ASSUME NEW i \in DOMAIN mt, NEW j \in DOMAIN mt[i].blocks
          PROVE  \/ i = q /\ j = 1
                 \/ /\ i \in DOMAIN ms /\ j \in DOMAIN ms[i].blocks
                    /\ mt[i].blocks[j] = ms[i].blocks[j] /\ mt[i].role = ms[i].role
                    /\ i < q \/ (i = q /\ j < 1)
      <4>1. CASE i = q
        BY <2>2, <2>3, <4>1
      <4>2. CASE i # q
        BY <1>3, <2>2, <4>2
      <4> QED BY <4>1, <4>2
    <3>2. \A i \in DOMAIN ms : i \in DOMAIN mt /\ mt[i] = ms[i]
      BY <1>3, <2>2
    <3>3. q \in DOMAIN mt /\ 1 \in DOMAIN mt[q].blocks /\ mt[q].blocks[1] = block
          /\ mt[q].role = role
      BY <1>3, <2>0, <2>2, <2>3
    <3> QED BY <3>1, <3>2, <3>3 DEF Grown, role
  <2> QED BY <2>2, <2>4, <2>5 DEF mt
<1> QED BY <1>5, <1>6

\* The stream of a log whose live compacts do not overlap, by position.
LEMMA StreamIs ==
  ASSUME NEW l, WellFormed(l), NoOverlap(l)
  PROVE  /\ Len(l) \in Nat /\ DOMAIN Stream(l) \subseteq 1..Len(l)
         /\ \A p \in DOMAIN Stream(l) : Stream(l)[p] \in BlockType /\ Stream(l)[p].at = p
         /\ \A p, kind : kind \in {"tool_use", "tool_result"} =>
              (p \in DOMAIN Stream(l) /\ Stream(l)[p].kind = kind
                 <=> p \in Shown(l) /\ l[p].type = kind)
         /\ \A p \in Shown(l) : Stream(l)[p].id = l[p].id
<1> DEFINE places == Shown(l) \cup {Least(l[c].on) : c \in Told(l)}
           shown  == [p \in places |-> [kind |-> l[p].type, id |-> l[p].id, at |-> p]]
           told   == [p \in places |-> [kind |-> "summary", id |-> NoId, at |-> p]]
<1>1. Len(l) \in Nat /\ l \in Seq(Events)
  BY DEF WellFormed
<1>2. \A c \in Told(l) : Least(l[c].on) \in 1..Len(l)
  <2>1. \A c \in Live(l) : Least(l[c].on) \in l[c].on /\ l[c].on \subseteq 1..Len(l)
    BY LiveBounds, LeastInSet
  <2> QED BY <2>1, ToldIsLive
<1>3. \A p \in Shown(l) : p \in 1..Len(l) /\ l[p].type \in MessageTypes /\ l[p] \in Events
  BY <1>1, ShownIs
<1>4. places \subseteq 1..Len(l)
  BY <1>2, <1>3
<1>5. Stream(l) = [p \in places |-> IF p \in Shown(l)
          THEN [kind |-> l[p].type, id |-> l[p].id, at |-> p]
          ELSE [kind |-> "summary", id |-> NoId, at |-> p]]
  BY DEF Stream
<1>6. Shown(l) \subseteq places
  OBVIOUS
<1> HIDE DEF places
<1>7. ASSUME NEW p \in places
      PROVE  Stream(l)[p] \in BlockType /\ Stream(l)[p].at = p
  <2>1. p \in Nat
    BY <1>4
  <2>2. CASE p \in Shown(l)
    <3>1. l[p].type \in MessageTypes /\ l[p].id \in Nat
      BY <1>3, <2>2 DEF Events
    <3>2. Stream(l)[p] = [kind |-> l[p].type, id |-> l[p].id, at |-> p]
      BY <1>5, <2>2
    <3> QED BY <2>1, <3>1, <3>2 DEF BlockType
  <2>3. CASE p \notin Shown(l)
    <3>1. Stream(l)[p] = [kind |-> "summary", id |-> NoId, at |-> p]
      BY <1>5, <2>3
    <3> QED BY <2>1, <3>1 DEF BlockType, NoId
  <2> QED BY <2>2, <2>3
<1>8. \A p \in Shown(l) : Stream(l)[p].kind = l[p].type /\ Stream(l)[p].id = l[p].id
  BY <1>5, <1>6
<1>9. \A p \in places \ Shown(l) : Stream(l)[p].kind = "summary"
  BY <1>5
<1>10. DOMAIN Stream(l) = places
  BY <1>5
<1> QED BY <1>1, <1>4, <1>6, <1>7, <1>8, <1>9, <1>10

\* The loop builds, up to each position, what Built says: by induction on it.
LEMMA LoopBuilds ==
  ASSUME NEW projector \in Projectors, NEW l, WellFormed(l), NoOverlap(l), NEW silent,
         NEW carried, projector # "openai" \/ carried = {}
  PROVE  Built(projector, Stream(l), Rendered(projector, Stream(l), silent),
               Request(projector, Stream(l), silent, l, carried), Len(l))
<1> DEFINE stream == Stream(l)
           R      == Rendered(projector, stream, silent)
           M      == MessagesUpTo(projector, stream, silent, l, carried)
           Wrong  == {p \in 0..Len(l) : ~Built(projector, stream, R, M[p], p)}
<1>1. /\ Len(l) \in Nat /\ R \subseteq 1..Len(l)
      /\ \A p \in R : stream[p] \in BlockType /\ stream[p].at = p
  BY StreamIs DEF Rendered
<1>2. /\ M[0] = <<>>
      /\ \A p \in 1..Len(l) : M[p] = Turn(projector, stream, silent, l, carried, M[p - 1], p)
  BY <1>1, LoopDefined
<1>3. \A p \in 1..Len(l) :
        M[p] = IF p \in R THEN Place(projector, M[p - 1], stream[p], l, carried) ELSE M[p - 1]
  BY <1>2 DEF Turn
<1>4. M[Len(l)] = Request(projector, stream, silent, l, carried)
  BY DEF Request
<1> HIDE DEF stream, R, M
<1>5. Built(projector, stream, R, M[0], 0)
  <2>1. \A x \in R : ~(x <= 0)
    BY <1>1
  <2> QED BY <1>2, <2>1 DEF Built, InOrder, Faithful, Whole, Alternate
<1>6. ASSUME NEW p \in 1..Len(l), Built(projector, stream, R, M[p - 1], p - 1)
      PROVE  Built(projector, stream, R, M[p], p)
  <2> DEFINE ms == M[p - 1]
  <2>0. /\ ms \in Seq(MessageType) /\ InOrder(ms) /\ Faithful(projector, stream, R, ms, p - 1)
        /\ Whole(R, ms, p - 1) /\ (projector = "anthropic" => Alternate(ms))
    BY <1>6 DEF Built
  <2> HIDE DEF ms
  <2>1. CASE p \in R
    <3>1. stream[p] \in BlockType /\ stream[p].at = p /\ R \subseteq Nat
      BY <1>1, <2>1
    <3> DEFINE mt == Place(projector, ms, stream[p], l, carried)
    <3>2. /\ mt \in Seq(MessageType)
          /\ \E m, n : Grown(projector, stream[p], ms, mt, m, n)
          /\ projector = "anthropic" /\ Alternate(ms) => Alternate(mt)
      BY <2>0, <3>1, PlaceGrows
    <3>3. M[p] = mt
      BY <1>3, <2>1 DEF ms
    <3> HIDE DEF mt
    <3>4. PICK m, n : Grown(projector, stream[p], ms, mt, m, n)
      BY <3>2
    <3>5. InOrder(mt) /\ Faithful(projector, stream, R, mt, p) /\ Whole(R, mt, p)
      BY <2>0, <2>1, <3>1, <3>2, <3>4, GrownIsBuilt
    <3> QED BY <2>0, <3>2, <3>3, <3>5 DEF Built
  <2>2. CASE p \notin R
    <3>1. M[p] = ms
      BY <1>3, <2>2 DEF ms
    <3>2. \A x \in R : x \in Nat /\ (x <= p => x <= p - 1) /\ (x <= p - 1 => x <= p)
      BY <1>1, <2>2
    <3>3. Faithful(projector, stream, R, ms, p)
      BY <2>0, <3>2 DEF Faithful
    <3>4. Whole(R, ms, p)
      BY <2>0, <3>2 DEF Whole
    <3> QED BY <2>0, <3>1, <3>3, <3>4 DEF Built
  <2> QED BY <2>1, <2>2
<1>7. Wrong = {}
  <2> SUFFICES ASSUME Wrong # {} PROVE FALSE
    OBVIOUS
  <2>1. PICK p \in Wrong : \A y \in Wrong : p <= y
    <3>1. Wrong \subseteq Nat
      BY <1>1
    <3> HIDE DEF Wrong
    <3> QED BY <3>1, LeastInSet
  <2>2. p \in 0..Len(l) /\ ~Built(projector, stream, R, M[p], p)
    BY <2>1
  <2>3. p \in 1..Len(l) /\ p - 1 \in 0..Len(l)
    BY <1>1, <1>5, <2>2
  <2>4. p - 1 \notin Wrong
    <3> HIDE DEF Wrong
    <3> QED BY <1>1, <2>1, <2>3
  <2> QED BY <1>6, <2>2, <2>3, <2>4
<1>8. Built(projector, stream, R, M[Len(l)], Len(l))
  BY <1>1, <1>7
<1> QED BY <1>4, <1>8 DEF stream, R

\* Where each rendered event of the stream is.
Placed(projector, stream, R, ms) ==
  /\ DOMAIN ms \subseteq Nat /\ \A i \in DOMAIN ms : DOMAIN ms[i].blocks \subseteq Nat
  /\ \A x \in R : \E i \in DOMAIN ms : \E j \in DOMAIN ms[i].blocks :
       ms[i].blocks[j] = stream[x] /\ ms[i].role = Role(projector, stream[x])
  /\ \A i \in DOMAIN ms : \A j \in DOMAIN ms[i].blocks :
       /\ ms[i].blocks[j].at \in R /\ ms[i].blocks[j] = stream[ms[i].blocks[j].at]
       /\ ms[i].role = Role(projector, ms[i].blocks[j])
  /\ \A i1, i2 \in DOMAIN ms :
       \A j1 \in DOMAIN ms[i1].blocks, j2 \in DOMAIN ms[i2].blocks :
         /\ ms[i1].blocks[j1].at = ms[i2].blocks[j2].at => i1 = i2 /\ j1 = j2
         /\ ms[i1].blocks[j1].at < ms[i2].blocks[j2].at => i1 <= i2
  
LEMMA Places ==
  ASSUME NEW projector, NEW stream, NEW R, R \subseteq Nat, NEW ms, NEW n,
         \A x \in R : x <= n /\ stream[x].at = x, Built(projector, stream, R, ms, n)
  PROVE  Placed(projector, stream, R, ms)
<1>1. ms \in Seq(MessageType) /\ InOrder(ms) /\ Faithful(projector, stream, R, ms, n)
      /\ Whole(R, ms, n)
  BY DEF Built
<1>2. DOMAIN ms \subseteq Nat
  BY <1>1, SeqDomain
<1>3. \A i \in DOMAIN ms : DOMAIN ms[i].blocks \subseteq Nat
  <2> SUFFICES ASSUME NEW i \in DOMAIN ms PROVE DOMAIN ms[i].blocks \subseteq Nat
    OBVIOUS
  <2>1. ms[i] \in MessageType
    BY <1>1, SeqDomain
  <2>2. ms[i].blocks \in Seq(BlockType)
    BY <2>1 DEF MessageType
  <2> QED BY <2>2, SeqDomain
<1>4. \A i \in DOMAIN ms : \A j \in DOMAIN ms[i].blocks :
        /\ ms[i].blocks[j].at \in R /\ ms[i].blocks[j] = stream[ms[i].blocks[j].at]
        /\ ms[i].role = Role(projector, ms[i].blocks[j])
  BY <1>1 DEF Faithful
<1>5. ASSUME NEW x \in R
      PROVE  \E i \in DOMAIN ms : \E j \in DOMAIN ms[i].blocks :
               ms[i].blocks[j] = stream[x] /\ ms[i].role = Role(projector, stream[x])
  <2>1. PICK i \in DOMAIN ms : \E j \in DOMAIN ms[i].blocks : ms[i].blocks[j].at = x
    BY <1>1 DEF Whole
  <2>2. PICK j \in DOMAIN ms[i].blocks : ms[i].blocks[j].at = x
    BY <2>1
  <2> QED BY <1>4, <2>2
<1>6. ASSUME NEW i1 \in DOMAIN ms, NEW i2 \in DOMAIN ms,
             NEW j1 \in DOMAIN ms[i1].blocks, NEW j2 \in DOMAIN ms[i2].blocks
      PROVE  /\ ms[i1].blocks[j1].at = ms[i2].blocks[j2].at => i1 = i2 /\ j1 = j2
             /\ ms[i1].blocks[j1].at < ms[i2].blocks[j2].at => i1 <= i2
  <2>1. i1 \in Nat /\ i2 \in Nat /\ j1 \in Nat /\ j2 \in Nat
    BY <1>2, <1>3
  <2>2. ms[i1].blocks[j1].at \in Nat /\ ms[i2].blocks[j2].at \in Nat
    BY <1>4
  <2>3. /\ i1 < i2 \/ (i1 = i2 /\ j1 < j2) => ms[i1].blocks[j1].at < ms[i2].blocks[j2].at
        /\ i2 < i1 \/ (i2 = i1 /\ j2 < j1) => ms[i2].blocks[j2].at < ms[i1].blocks[j1].at
    BY <1>1 DEF InOrder
  <2> QED BY <2>1, <2>2, <2>3
<1> QED BY <1>2, <1>3, <1>4, <1>5, <1>6 DEF Placed

\* The calls of a request are those of the stream, each once, when every call is
\* rendered.
LEMMA BuiltFolds ==
  ASSUME NEW projector, NEW stream, NEW R, NEW n \in Nat, R \subseteq 1..n, NEW ms,
         \A x \in R : stream[x].at = x, Built(projector, stream, R, ms, n),
         R \subseteq DOMAIN stream,
         \A x \in DOMAIN stream : stream[x].kind = "tool_use" => x \in R
  PROVE  Folded(ms, stream)
<1> DEFINE blocks == UNION {{<<i, j>> : j \in DOMAIN ms[i].blocks} : i \in DOMAIN ms}
           calls  == {b \in blocks : ms[b[1]].blocks[b[2]].kind = "tool_use"}
           uses   == {x \in DOMAIN stream : stream[x].kind = "tool_use"}
           At     == [c \in calls |-> ms[c[1]].blocks[c[2]].at]
<1>1. /\ \A x \in R : \E i \in DOMAIN ms : \E j \in DOMAIN ms[i].blocks : ms[i].blocks[j] = stream[x]
      /\ \A i \in DOMAIN ms : \A j \in DOMAIN ms[i].blocks :
           ms[i].blocks[j].at \in R /\ ms[i].blocks[j] = stream[ms[i].blocks[j].at]
      /\ \A i1, i2 \in DOMAIN ms :
           \A j1 \in DOMAIN ms[i1].blocks, j2 \in DOMAIN ms[i2].blocks :
             ms[i1].blocks[j1].at = ms[i2].blocks[j2].at => i1 = i2 /\ j1 = j2
  <2>0. 1..n \subseteq Nat /\ \A x \in 1..n : x <= n
    OBVIOUS
  <2>1. R \subseteq Nat /\ \A x \in R : x <= n /\ stream[x].at = x
    <3>1. R \subseteq Nat
      BY <2>0, Zenon
    <3>2. ASSUME NEW x \in R PROVE x <= n /\ stream[x].at = x
      BY <2>0, Zenon
    <3> QED BY <3>1, <3>2, Zenon
  <2>2. Placed(projector, stream, R, ms)
    BY <2>1, Places
  <2> QED BY <2>2 DEF Placed
<1>2. \A c \in calls : \E i \in DOMAIN ms : \E j \in DOMAIN ms[i].blocks :
        c = <<i, j>> /\ ms[i].blocks[j].kind = "tool_use"
  OBVIOUS
<1>3. \A i \in DOMAIN ms : \A j \in DOMAIN ms[i].blocks :
        ms[i].blocks[j].kind = "tool_use" => <<i, j>> \in calls
  OBVIOUS
<1>4. \A i, j : <<i, j>> \in calls => At[<<i, j>>] = ms[i].blocks[j].at
  OBVIOUS
<1>5. {ms[c[1]].blocks[c[2]].at : c \in calls} = {At[c] : c \in calls}
  OBVIOUS
<1>0. DOMAIN At = calls
  OBVIOUS
<1> HIDE DEF calls, At
<1>6. \A c \in calls : At[c] \in uses
  <2> SUFFICES ASSUME NEW c \in calls PROVE At[c] \in uses
    OBVIOUS
  <2>1. PICK i \in DOMAIN ms : \E j \in DOMAIN ms[i].blocks :
          c = <<i, j>> /\ ms[i].blocks[j].kind = "tool_use"
    BY <1>2
  <2>2. PICK j \in DOMAIN ms[i].blocks : c = <<i, j>> /\ ms[i].blocks[j].kind = "tool_use"
    BY <2>1
  <2>3. ms[i].blocks[j].at \in R /\ ms[i].blocks[j] = stream[ms[i].blocks[j].at]
    BY <1>1
  <2>4. At[c] = ms[i].blocks[j].at
    BY <1>4, <2>2
  <2> QED BY <2>2, <2>3, <2>4
<1>7. \A x \in uses : \E c \in calls : At[c] = x
  <2> SUFFICES ASSUME NEW x \in uses PROVE \E c \in calls : At[c] = x
    OBVIOUS
  <2>1. x \in R /\ stream[x].kind = "tool_use" /\ stream[x].at = x
    OBVIOUS
  <2>2. PICK i \in DOMAIN ms : \E j \in DOMAIN ms[i].blocks : ms[i].blocks[j] = stream[x]
    BY <1>1, <2>1
  <2>3. PICK j \in DOMAIN ms[i].blocks : ms[i].blocks[j] = stream[x]
    BY <2>2
  <2>4. <<i, j>> \in calls
    BY <1>3, <2>1, <2>3
  <2> QED BY <1>4, <2>1, <2>3, <2>4
<1>8. \A c, d \in calls : At[c] = At[d] => c = d
  <2> SUFFICES ASSUME NEW c \in calls, NEW d \in calls, At[c] = At[d] PROVE c = d
    OBVIOUS
  <2>1. PICK i1 \in DOMAIN ms : \E j \in DOMAIN ms[i1].blocks : c = <<i1, j>>
    BY <1>2
  <2>2. PICK j1 \in DOMAIN ms[i1].blocks : c = <<i1, j1>>
    BY <2>1
  <2>3. PICK i2 \in DOMAIN ms : \E j \in DOMAIN ms[i2].blocks : d = <<i2, j>>
    BY <1>2
  <2>4. PICK j2 \in DOMAIN ms[i2].blocks : d = <<i2, j2>>
    BY <2>3
  <2>5. ms[i1].blocks[j1].at = ms[i2].blocks[j2].at
    BY <1>4, <2>2, <2>4
  <2> QED BY <1>1, <2>2, <2>4, <2>5
<1>9. IsFiniteSet(uses)
  <2>1. uses \subseteq 1..n
    OBVIOUS
  <2>2. IsFiniteSet(1..n)
    BY FS_Interval
  <2> QED BY <2>1, <2>2, FS_Subset
<1>10. Cardinality(calls) = Cardinality(uses)
  <2> DEFINE Spot == [x \in uses |-> CHOOSE c \in calls : At[c] = x]
  <2> HIDE DEF uses
  <2>1. \A x \in uses : Spot[x] \in calls /\ At[Spot[x]] = x
    BY <1>7
  <2>2. DOMAIN Spot = uses
    OBVIOUS
  <2> HIDE DEF Spot
  <2>3. Spot \in [uses -> calls]
    BY <2>1, <2>2 DEF Spot
  <2>4. \A c \in calls : Spot[At[c]] = c
    BY <1>6, <1>8, <2>1
  <2>5. Spot \in Surjection(uses, calls)
    BY <1>6, <2>3, <2>4 DEF Surjection
  <2>6. Spot \in Injection(uses, calls)
    <3>1. \A x, y \in uses : Spot[x] = Spot[y] => x = y
      BY <2>1
    <3> QED BY <2>3, <3>1 DEF Injection, IsInjective
  <2> QED BY <1>9, <2>5, <2>6, FS_Surjection
<1>11. {At[c] : c \in calls} = uses
  BY <1>6, <1>7
<1>12. {ms[c[1]].blocks[c[2]].at : c \in calls} = uses
  BY <1>5, <1>11
<1> QED BY <1>10, <1>12 DEF Folded, calls

\* A result is once in the request, after the message with its call, when the
\* results of the stream have ids of their own and a call before them.
LEMMA BuiltPairs ==
  ASSUME NEW projector \in Projectors, NEW stream, NEW R, NEW n \in Nat, R \subseteq 1..n, NEW ms,
         \A x \in R : stream[x].at = x, Built(projector, stream, R, ms, n),
         R \subseteq DOMAIN stream,
         \A x \in DOMAIN stream : stream[x].kind \in {"tool_use", "tool_result"} => x \in R,
         \A r, s \in DOMAIN stream :
           stream[r].kind = "tool_result" /\ stream[s].kind = "tool_result"
             /\ stream[r].id = stream[s].id => r = s,
         \A r \in DOMAIN stream : stream[r].kind = "tool_result" =>
           \E u \in DOMAIN stream :
             u < r /\ stream[u].kind = "tool_use" /\ stream[u].id = stream[r].id
  PROVE  Paired(ms, stream)
<1>0. /\ DOMAIN ms \subseteq Nat /\ \A i \in DOMAIN ms : DOMAIN ms[i].blocks \subseteq Nat
      /\ \A x \in R : \E i \in DOMAIN ms : \E j \in DOMAIN ms[i].blocks :
           ms[i].blocks[j] = stream[x] /\ ms[i].role = Role(projector, stream[x])
      /\ \A i \in DOMAIN ms : \A j \in DOMAIN ms[i].blocks :
           /\ ms[i].blocks[j].at \in R /\ ms[i].blocks[j] = stream[ms[i].blocks[j].at]
           /\ ms[i].role = Role(projector, ms[i].blocks[j])
      /\ \A i1, i2 \in DOMAIN ms :
           \A j1 \in DOMAIN ms[i1].blocks, j2 \in DOMAIN ms[i2].blocks :
             /\ ms[i1].blocks[j1].at = ms[i2].blocks[j2].at => i1 = i2 /\ j1 = j2
             /\ ms[i1].blocks[j1].at < ms[i2].blocks[j2].at => i1 <= i2
  <2>0. 1..n \subseteq Nat /\ \A x \in 1..n : x <= n
    OBVIOUS
  <2>1. R \subseteq Nat /\ \A x \in R : x <= n /\ stream[x].at = x
    <3>1. R \subseteq Nat
      BY <2>0, Zenon
    <3>2. ASSUME NEW x \in R PROVE x <= n /\ stream[x].at = x
      BY <2>0, Zenon
    <3> QED BY <3>1, <3>2, Zenon
  <2>2. Placed(projector, stream, R, ms)
    BY <2>1, Places
  <2> QED BY <2>2 DEF Placed
<1> SUFFICES ASSUME NEW r \in DOMAIN stream, stream[r].kind = "tool_result"
             PROVE  LET id == stream[r].id
                        at == {m \in DOMAIN ms : Holds(ms[m], "tool_result", id)}
                    IN  /\ Cardinality(at) = 1
                        /\ \A m \in at : \E c \in 1..(m - 1) :
                             ms[c].role = "assistant" /\ Holds(ms[c], "tool_use", id)
  BY DEF Paired
<1> DEFINE id == stream[r].id
           at == {m \in DOMAIN ms : Holds(ms[m], "tool_result", id)}
<1>1. r \in R /\ stream[r].at = r
  OBVIOUS
<1>2. PICK i \in DOMAIN ms : \E j \in DOMAIN ms[i].blocks :
        ms[i].blocks[j] = stream[r] /\ ms[i].role = Role(projector, stream[r])
  BY <1>0, <1>1
<1>3. PICK j \in DOMAIN ms[i].blocks :
        ms[i].blocks[j] = stream[r] /\ ms[i].role = Role(projector, stream[r])
  BY <1>2
<1>4. i \in at
  BY <1>3 DEF Holds
<1>5. ASSUME NEW m \in at PROVE m = i
  <2>1. PICK b \in DOMAIN ms[m].blocks :
          ms[m].blocks[b].kind = "tool_result" /\ ms[m].blocks[b].id = id
    BY DEF Holds
  <2>2. ms[m].blocks[b].at \in R /\ ms[m].blocks[b] = stream[ms[m].blocks[b].at]
    BY <1>0, <2>1
  <2>3. ms[m].blocks[b].at \in DOMAIN stream
    BY <2>2
  <2>4. ms[m].blocks[b].at = r
    BY <2>1, <2>2, <2>3
  <2>5. ms[m].blocks[b].at = ms[i].blocks[j].at
    BY <1>1, <1>3, <2>4
  <2>6. m \in DOMAIN ms
    OBVIOUS
  <2> QED BY <1>0, <2>5, <2>6
<1>6. at = {i}
  BY <1>4, <1>5
<1>7. PICK u \in DOMAIN stream : u < r /\ stream[u].kind = "tool_use" /\ stream[u].id = id
  OBVIOUS
<1>8. u \in R /\ stream[u].at = u
  BY <1>7
<1>9. PICK c \in DOMAIN ms : \E d \in DOMAIN ms[c].blocks :
        ms[c].blocks[d] = stream[u] /\ ms[c].role = Role(projector, stream[u])
  BY <1>0, <1>8
<1>10. PICK d \in DOMAIN ms[c].blocks :
         ms[c].blocks[d] = stream[u] /\ ms[c].role = Role(projector, stream[u])
  BY <1>9
<1>11. c <= i
  BY <1>0, <1>1, <1>3, <1>7, <1>8, <1>10
<1>12. ms[c].role = "assistant" /\ ms[i].role # "assistant"
  BY <1>3, <1>7, <1>10 DEF Role
<1>13. c \in 1..(i - 1)
  <2>1. ms \in Seq(MessageType)
    BY DEF Built
  <2>2. c \in Nat /\ i \in Nat /\ c >= 1
    BY <2>1, SeqDomain
  <2> QED BY <1>11, <1>12, <2>2
<1>14. Holds(ms[c], "tool_use", id)
  BY <1>7, <1>10 DEF Holds
<1>15. Cardinality(at) = 1
  BY <1>6, FS_Singleton
<1> QED BY <1>6, <1>12, <1>13, <1>14, <1>15

\* With fresh ids every request pairs, folds and alternates, whatever the log,
\* the silent answers and the projection, if only OpenAI's carries no message.
LEMMA RequestsHold ==
  ASSUME TypeOK, ViewInv, PairsWhole
  PROVE  /\ \A r \in {n \in DOMAIN Stream(log) : Stream(log)[n].kind = "tool_result"} :
              OwnUse(log, NamedBy(Stream(log), Stream(log)[r].id), r)
         /\ \A projector \in Projectors, silent \in SUBSET Answers(Stream(log)) : \A carried :
              projector # "openai" \/ carried = {} =>
                Sound(projector, Request(projector, Stream(log), silent, log, carried), Stream(log))
<1> DEFINE stream == Stream(log)
<1>1. WellFormed(log) /\ NoOverlap(log) /\ IdsInv
  BY DEF TypeOK, ViewInv
<1>2. /\ Len(log) \in Nat /\ DOMAIN stream \subseteq 1..Len(log)
      /\ \A p \in DOMAIN stream : stream[p] \in BlockType /\ stream[p].at = p
      /\ \A p, kind : kind \in {"tool_use", "tool_result"} =>
              (p \in DOMAIN stream /\ stream[p].kind = kind
                 <=> p \in Shown(log) /\ log[p].type = kind)
      /\ \A p \in Shown(log) : stream[p].id = log[p].id
  BY <1>1, StreamIs
<1>3. \A p \in Shown(log) : p \in 1..Len(log)
  BY <1>1, ShownIs
<1> HIDE DEF stream
<1>4. ASSUME NEW p \in DOMAIN stream, NEW kind \in {"tool_use", "tool_result"},
             stream[p].kind = kind
      PROVE  p \in Shown(log) /\ p \in Positions(log, kind) /\ stream[p].id = log[p].id
  <2>1. p \in Shown(log) /\ log[p].type = kind
    BY <1>2, <1>4
  <2> QED BY <1>2, <1>3, <2>1 DEF Positions
<1>5. ASSUME NEW r \in DOMAIN stream, NEW s \in DOMAIN stream,
             stream[r].kind = "tool_result", stream[s].kind = "tool_result",
             stream[r].id = stream[s].id
      PROVE  r = s
  BY <1>1, <1>4, <1>5 DEF IdsInv
<1>6. ASSUME NEW r \in DOMAIN stream, stream[r].kind = "tool_result"
      PROVE  \E u \in DOMAIN stream :
               /\ u < r /\ stream[u].kind = "tool_use" /\ stream[u].id = stream[r].id
               /\ OwnUse(log, u, r)
               /\ {v \in DOMAIN stream : stream[v].kind = "tool_use" /\ stream[v].id = stream[r].id}
                    = {u}
  <2>1. r \in Shown(log) /\ r \in Positions(log, "tool_result") /\ stream[r].id = log[r].id
    BY <1>4, <1>6
  <2>2. PICK u \in Positions(log, "tool_use") : u < r /\ log[u].id = log[r].id
    BY <1>1, <2>1 DEF IdsInv
  <2>3. OwnUse(log, u, r)
    <3>1. \A v \in Positions(log, "tool_use") : log[v].id = log[r].id => v = u
      BY <1>1, <2>2 DEF IdsInv
    <3>2. u \in Nat
      BY <1>2 DEF Positions
    <3> QED BY <2>2, <3>1, <3>2 DEF OwnUse
  <2>4. u \in 1..r - 1
    BY <1>2, <2>1, <2>2 DEF Positions
  <2>5. u \in Shown(log) /\ log[u].type = "tool_use"
    BY <2>1, <2>3, <2>4 DEF PairsWhole, WholeIn, Positions
  <2>6. u \in DOMAIN stream /\ stream[u].kind = "tool_use" /\ stream[u].id = stream[r].id
    BY <1>2, <2>1, <2>2, <2>5
  <2>7. ASSUME NEW v \in DOMAIN stream, stream[v].kind = "tool_use", stream[v].id = stream[r].id
        PROVE  v = u
    <3>1. v \in Positions(log, "tool_use") /\ stream[v].id = log[v].id
      BY <1>4, <2>7
    <3> QED BY <1>1, <2>1, <2>2, <2>7, <3>1 DEF IdsInv
  <2> QED BY <2>2, <2>3, <2>6, <2>7
<1>7. ASSUME NEW r \in DOMAIN stream, stream[r].kind = "tool_result"
      PROVE  OwnUse(log, NamedBy(stream, stream[r].id), r)
  <2>1. PICK u \in DOMAIN stream :
          /\ OwnUse(log, u, r)
          /\ {v \in DOMAIN stream : stream[v].kind = "tool_use" /\ stream[v].id = stream[r].id}
               = {u}
    BY <1>6, <1>7
  <2>2. NamedBy(stream, stream[r].id) = Greatest({u})
    BY <2>1 DEF NamedBy
  <2>3. u \in Nat
    BY <1>2
  <2> QED BY <2>1, <2>2, <2>3, GreatestOfOne
<1>8. ASSUME NEW projector \in Projectors, NEW silent \in SUBSET Answers(stream),
             NEW carried, projector # "openai" \/ carried = {}
      PROVE  Sound(projector, Request(projector, stream, silent, log, carried), stream)
  <2> DEFINE R  == Rendered(projector, stream, silent)
             ms == Request(projector, stream, silent, log, carried)
  <2>2. Built(projector, stream, R, ms, Len(log))
    BY <1>1, <1>8, LoopBuilds DEF stream
  <2>3. /\ R \subseteq DOMAIN stream /\ R \subseteq 1..Len(log) /\ Len(log) \in Nat
        /\ \A x \in R : stream[x].at = x
    BY <1>2 DEF Rendered
  <2>4. \A x \in DOMAIN stream : stream[x].kind \in {"tool_use", "tool_result"} => x \in R
    BY DEF Rendered, Answers
  <2>5. \A r \in DOMAIN stream : stream[r].kind = "tool_result" =>
          \E u \in DOMAIN stream :
            u < r /\ stream[u].kind = "tool_use" /\ stream[u].id = stream[r].id
    BY <1>6
  <2> HIDE DEF R, ms
  <2>6. Paired(ms, stream)
    BY <1>5, <2>2, <2>3, <2>4, <2>5, BuiltPairs
  <2>7. Folded(ms, stream)
    BY <2>2, <2>3, <2>4, BuiltFolds
  <2>8. projector = "anthropic" => \A m \in 1..(Len(ms) - 1) : ms[m].role # ms[m + 1].role
    BY <2>2 DEF Built, Alternate
  <2> QED BY <2>6, <2>7, <2>8 DEF ms, Sound
<1>9. \A r \in {n \in DOMAIN stream : stream[n].kind = "tool_result"} :
        OwnUse(log, NamedBy(stream, stream[r].id), r)
  BY <1>7
<1> QED BY <1>8, <1>9 DEF stream

\* Whatever was compacted, reverted, answered late or left without text, each
\* provider is sent every call once and each result after its call
\* (projections/*.py over mutations.apply), unless OpenAI's answers are carried.
THEOREM RequestsAlwaysPaired == FreshIds /\ ~Carriers => (Spec => []RequestsPaired)
<1> SUFFICES ASSUME FreshIds, ~Carriers PROVE Spec => []RequestsPaired
  OBVIOUS
<1>1. TypeOK /\ ViewInv /\ PairsWhole => RequestsPaired
  <2>1. \A stream : Carryings(stream) = {{}}
    BY DEF Carryings
  <2> QED BY <2>1, RequestsHold, AttachmentsDoReach DEF RequestsPaired
<1>2. Spec => [](TypeOK /\ ViewInv)
  BY ViewInvariant
<1>3. Spec => []PairsWhole
  BY PairsNeverCut
<1> QED BY <1>1, <1>2, <1>3, PTL

\* Carried answers or not, the requests to Anthropic and Gemini are sound: only
\* OpenAI's projection sends a carried message as it came (projections/openai.py).
THEOREM OthersIgnoreCarriers ==
  FreshIds => (Spec => [](\A projector \in {"anthropic", "gemini"} :
    \A silent \in SUBSET Answers(Stream(log)), carried \in Carryings(Stream(log)) :
      Sound(projector, Request(projector, Stream(log), silent, log, carried), Stream(log))))
<1> DEFINE OthersSound == \A projector \in {"anthropic", "gemini"} :
      \A silent \in SUBSET Answers(Stream(log)), carried \in Carryings(Stream(log)) :
        Sound(projector, Request(projector, Stream(log), silent, log, carried), Stream(log))
<1> SUFFICES ASSUME FreshIds PROVE Spec => []OthersSound
  OBVIOUS
<1>1. TypeOK /\ ViewInv /\ PairsWhole => OthersSound
  BY RequestsHold DEF Projectors
<1>2. Spec => [](TypeOK /\ ViewInv)
  BY ViewInvariant
<1>3. Spec => []PairsWhole
  BY PairsNeverCut
<1> QED BY <1>1, <1>2, <1>3, PTL
=============================================================================
