---------------------------- MODULE RecordStream -----------------------------
(***************************************************************************)
(* What a resumable scan promises: the records of one snapshot of the file, *)
(* in order, each once; it is complete only with all of them, and once it is *)
(* broken it says nothing more.  The scan session of leanrows-core           *)
(* implements it (DocumentReader, property StreamOfSnapshot).                *)
(***************************************************************************)
EXTENDS Naturals, Sequences

VARIABLES truth, seen, complete, broken
vars == <<truth, seen, complete, broken>>

Init == seen = <<>> /\ complete = FALSE /\ broken = FALSE

(* Some further records become known, none of them changed or skipped.       *)
Discover ==
    /\ ~complete /\ ~broken
    /\ \E n \in Len(seen)..Len(truth) :
          /\ seen' = SubSeq(truth, 1, n)
          /\ complete' \in {FALSE, n = Len(truth)}
    /\ UNCHANGED <<truth, broken>>

Break == ~broken /\ broken' = TRUE /\ UNCHANGED <<truth, seen, complete>>

Next == Discover \/ Break

Spec == Init /\ [][Next]_vars
=============================================================================
