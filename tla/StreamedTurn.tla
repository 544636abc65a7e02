---------------------------- MODULE StreamedTurn ----------------------------
(***************************************************************************)
(* What a streamed turn promises those who watch it and those who read the *)
(* log: an attempt is announced, shows its parts while it lasts, and ends  *)
(* once, as completed or as failed; only a completed one is recorded, the  *)
(* message first and then its tool calls; a turn is retried only while     *)
(* nothing of it is recorded.                                              *)
(***************************************************************************)
EXTENDS Integers, Sequences

CONSTANTS
  Parts,     \* the events an attempt may show between its first and last
  Started, Completed, Failed,
  Message,   \* an assistant_message
  Calls      \* the tool_uses

VARIABLES
  shown,     \* what the watchers were shown of the current attempt
  recorded   \* what the log holds of the turn

vars == <<shown, recorded>>

Last(s) == s[Len(s)]
Over == shown = <<>> \/ Last(shown) = Failed
Open == shown # <<>> /\ Last(shown) \notin {Failed, Completed}
Done == shown # <<>> /\ Last(shown) = Completed

Init == shown = <<>> /\ recorded = <<>>

Start == Over /\ recorded = <<>> /\ shown' = <<Started>> /\ UNCHANGED recorded

\* One frame may show several parts; nothing follows the end of an attempt.
Show ==
  LET new == SubSeq(shown', Len(shown) + 1, Len(shown')) IN
  /\ Open
  /\ new # <<>> /\ shown' = shown \o new
  /\ \A n \in 1..(Len(new) - 1) : new[n] \in Parts
  /\ Last(new) \in Parts \cup {Completed, Failed}
  /\ UNCHANGED recorded

Record ==
  LET e == Last(recorded') IN
  /\ Done
  /\ Len(recorded') = Len(recorded) + 1 /\ recorded' = Append(recorded, e)
  /\ e \in IF recorded = <<>> THEN Message ELSE Calls
  /\ UNCHANGED shown

Next == Start \/ Show \/ Record

Spec == Init /\ [][Next]_vars

\* The record is of a completed attempt, the last thing the watchers were shown;
\* from then on nothing more is shown and nothing recorded is taken back.
RecordedWhenDone == recorded # <<>> => Done
RecordedForGood ==
  [][recorded # <<>> =>
       /\ shown' = shown
       /\ recorded' = recorded \/ recorded' = Append(recorded, Last(recorded'))]_vars
=============================================================================
