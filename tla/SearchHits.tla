------------------------------ MODULE SearchHits ------------------------------
(***************************************************************************)
(* What a search promises: the stored hits are the hits of one snapshot of    *)
(* the file in order, each once; it is complete only with all of them, and it *)
(* stops at its quota only when the next one does not fit.  QuerySession      *)
(* implements it (property SearchPromise).                                   *)
(***************************************************************************)
EXTENDS Naturals, Sequences

CONSTANT Room \* hits that fit into the hit file

VARIABLES truth, hits, outcome
vars == <<truth, hits, outcome>>

Init == hits = <<>> /\ outcome = "open"

Search ==
    /\ outcome = "open"
    /\ \E n \in Len(hits)..Len(truth) :
          /\ n <= Room
          /\ hits' = SubSeq(truth, 1, n)
          /\ \/ outcome' = "open"
             \/ outcome' = "complete" /\ n = Len(truth)
             \/ outcome' = "quota" /\ n = Room /\ n < Len(truth)
    /\ UNCHANGED truth

Fail == outcome # "failed" /\ outcome' = "failed" /\ UNCHANGED <<truth, hits>>

Next == Search \/ Fail

Spec == Init /\ [][Next]_vars
=============================================================================
