---------------------------- MODULE MCCompaction ----------------------------
(* Instances of Compaction for TLC: which strategies are installed.          *)
EXTENDS Projections

Strategy(kind, limit, keep) == [kind |-> kind, limit |-> limit, keep |-> keep]

TailAndCap == <<Strategy("marker", 3, 2), Strategy("cap", 2, 0)>>
AllFour == <<Strategy("cap", 2, 0), Strategy("token", 1, 2), Strategy("summary", 2, 1),
             Strategy("marker", 3, 2)>>
=============================================================================
