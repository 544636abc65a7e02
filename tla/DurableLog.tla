------------------------------ MODULE DurableLog ------------------------------
(***************************************************************************)
(* What a stored session promises: rows are only ever added, each at its   *)
(* own position.  A write that is cut short may take rows off the end, or  *)
(* make the store refuse every use, until one who still has the rows       *)
(* writes them again; a row that splits makes it refuse for good.          *)
(***************************************************************************)
EXTENDS Integers, Sequences, SequencesExt

VARIABLES
  log,       \* the rows, and whether the store can be read
  cuts       \* how many writes were cut short, by a crash or an exception

Dense(rows) == \A i \in DOMAIN rows : rows[i].seq = i - 1
Splits(rows) == \E i \in DOMAIN rows : rows[i].split

Extend ==
  /\ log.ok /\ IsStrictPrefix(log.rows, log'.rows) /\ Dense(log'.rows)
  /\ log'.ok <=> ~Splits(log'.rows)
  /\ cuts' = cuts

Mend ==
  /\ ~log.ok /\ log'.ok
  /\ ~Splits(log.rows) /\ cuts > 0
  /\ IsPrefix(log.rows, log'.rows) /\ Dense(log'.rows)
  /\ cuts' = cuts

Cut ==
  /\ cuts' = cuts + 1
  /\ log'.ok => ~Splits(log.rows) /\ (IsPrefix(log'.rows, log.rows) \/ IsPrefix(log.rows, log'.rows))

Next == Extend \/ Mend \/ Cut \/ UNCHANGED <<log, cuts>>
=============================================================================
