------------------------------ MODULE MCGridZoom ------------------------------
(***************************************************************************)
(* The zoom of the rows on its own, for what the documents' run leaves out: *)
(* bursts of the wheel down and up.                                         *)
(***************************************************************************)
EXTENDS GridZoom

MCLayouts == {[kind |-> "Preview", count |-> 1], [kind |-> "Fields", count |-> 2]}

MCDeltas == {-2, 1, 2}

=============================================================================
