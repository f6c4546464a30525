------------------------------ MODULE MCGridView ------------------------------
(***************************************************************************)
(* A small document to look at: a sort turns its rows round, which leaves   *)
(* the middle one where it is, and of two matches one is past the rows that *)
(* are known at first.                                                      *)
(***************************************************************************)
EXTENDS GridView

MCSortedRow == [rank \in GridRows |-> RowCount - 1 - rank]

MCHitRows == <<1, RowCount - 1>>

=============================================================================
