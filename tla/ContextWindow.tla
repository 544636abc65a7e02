--------------------------- MODULE ContextWindow ---------------------------
(***************************************************************************)
(* What compaction promises a reader of the projected conversation: every  *)
(* event recorded so far is either shown as it is or belongs to exactly    *)
(* one block that is told by one summary; reverting a block gives back     *)
(* what it took and nothing else.                                          *)
(***************************************************************************)
CONSTANT Events   \* what can be recorded

VARIABLES
  shown,    \* the events the projection renders
  blocks    \* the sets of events rendered as one summary each

vars == <<shown, blocks>>

Init == shown = {} /\ blocks = {}

Record(e) ==
  /\ e \notin shown /\ \A B \in blocks : e \notin B
  /\ shown' = shown \cup {e}
  /\ blocks' = blocks

\* Some of what is shown becomes a block of its own.
Collapse ==
  LET B == shown \ shown' IN
  /\ B # {} /\ shown' \subseteq shown
  /\ blocks' = blocks \cup {B}

Expand(B) ==
  /\ blocks' = blocks \ {B}
  /\ shown' = shown \cup B

Next ==
  \/ \E e \in Events : Record(e)
  \/ Collapse
  \/ \E B \in blocks : Expand(B)

Spec == Init /\ [][Next]_vars

\* No event is told twice.
ToldOnce ==
  /\ \A B \in blocks : B \cap shown = {}
  /\ \A B, C \in blocks : B # C => B \cap C = {}
=============================================================================
