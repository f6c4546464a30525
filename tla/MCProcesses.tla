----------------------------- MODULE MCProcesses -----------------------------
(***************************************************************************)
(* What several LeanRows processes share on one machine: the window that    *)
(* takes the files of later launches, the directory of query hits and that  *)
(* of sorts; and the rows on screen in one of them. Each has state of its   *)
(* own, so a behaviour exercises one, and the others keep their first state. *)
(***************************************************************************)
EXTENDS SingleInstance, QueryScratch, SortScratch, MCGridView

VARIABLE protocol   \* what a behaviour exercises

allVars == <<protocol, instanceVars, queryVars, sortVars, viewVars>>

\* The second launch brings more than one message can hold, the third nothing.
MCBrought == << <<"a">>, <<"b", "a">>, <<>> >>

MCInit ==
    /\ protocol \in {"instance", "queries", "sorts", "rows"}
    /\ InstanceInit /\ QueryInit /\ SortInit /\ GridInit

MCInstance ==
    /\ protocol = "instance" /\ InstanceNext
    /\ UNCHANGED <<protocol, queryVars, sortVars, viewVars>>

MCQueries ==
    /\ protocol = "queries" /\ QueryNext
    /\ UNCHANGED <<protocol, instanceVars, sortVars, viewVars>>

MCSorts ==
    /\ protocol = "sorts" /\ SortNext
    /\ UNCHANGED <<protocol, instanceVars, queryVars, viewVars>>

MCRows ==
    /\ protocol = "rows" /\ GridNext
    /\ UNCHANGED <<protocol, instanceVars, queryVars, sortVars>>

MCNext == MCInstance \/ MCQueries \/ MCSorts \/ MCRows

\* The steps of a launch are those of its one thread, with time limits on every
\* call. Nothing is assumed of the user, of crashes or of the window's loop.
MCFairness ==
    \A l \in Launches :
        WF_allVars(protocol = "instance" /\ ClaimStep(l)
                   /\ UNCHANGED <<protocol, queryVars, sortVars, viewVars>>)

MCSpec == MCInit /\ [][MCNext]_allVars /\ MCFairness

=============================================================================
