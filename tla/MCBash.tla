------------------------------- MODULE MCBash -------------------------------
(***************************************************************************)
(* A session held by two threads: one runs commands, the other asks        *)
(* for the status and kills.  What the commands print is kept to what each *)
(* run is about.                                                           *)
(***************************************************************************)
EXTENDS BashSession
CONSTANTS a, b

Early       == {<<1, "out", "tail">>, <<1, "out", "job">>, <<1, "out", "marked">>,
                <<1, "err", "bad">>}
Output      == Early \cup {<<2, "out", "line">>}
LineAndTail == {<<r, "out", "line">> : r \in Runs} \cup {<<r, "err", "tail">> : r \in Runs}
CallsOfTwo  == {<<a, "run">>, <<b, "status">>, <<b, "kill">>}
=============================================================================
