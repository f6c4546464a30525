-------------------------- MODULE MCDocumentWorker --------------------------
(***************************************************************************)
(* Bounds for checking DocumentWorker: in each run, the mixes of calls,    *)
(* and of faults, whose interleavings are explored.                        *)
(***************************************************************************)
EXTENDS DocumentWorker, TLC

Only(b) == b @@ [c \in Calls |-> 0]

\* Mixes of the calls that can disturb one another, and of failures.
SafetyBudgets ==
    {Only("open" :> 2 @@ "viewport" :> 1),
     Only("open" :> 2 @@ "query" :> 1),
     Only("open" :> 2 @@ "sort" :> 1),
     Only("open" :> 2 @@ "drop" :> 1 @@ "fault" :> 1),
     Only("open" :> 1 @@ "viewport" :> 1 @@ "query" :> 1),
     Only("open" :> 1 @@ "viewport" :> 1 @@ "fault" :> 1),
     Only("open" :> 1 @@ "query" :> 1 @@ "navigate" :> 1),
     Only("open" :> 1 @@ "query" :> 1 @@ "fault" :> 1),
     Only("open" :> 1 @@ "sort" :> 1 @@ "cancel_sort" :> 1 @@ "other_tab" :> 1),
     Only("open" :> 1 @@ "sort" :> 1 @@ "query" :> 1),
     Only("open" :> 1 @@ "sort" :> 2 @@ "other_tab" :> 1),
     Only("open" :> 1 @@ "sort" :> 1 @@ "drop" :> 1),
     Only("open" :> 1 @@ "sort" :> 1 @@ "viewport" :> 1 @@ "source_row" :> 1),
     Only("open" :> 1 @@ "sort" :> 1 @@ "source_row" :> 1 @@ "fault" :> 1)}

\* Smaller mixes for the temporal properties.
LiveBudgets ==
    {Only("open" :> 2 @@ "fault" :> 1),
     Only("open" :> 1 @@ "query" :> 1),
     Only("open" :> 1 @@ "sort" :> 1 @@ "viewport" :> 1),
     Only("open" :> 1 @@ "sort" :> 1 @@ "other_tab" :> 1),
     Only("open" :> 1 @@ "sort" :> 1 @@ "drop" :> 1)}

\* One call more than the code copes with.
NextBudgets == {Only("open" :> 1 @@ "query" :> 1 @@ "navigate" :> 1)}
CloseBudgets == {Only("open" :> 1 @@ "query" :> 1 @@ "drop" :> 1)}
ScrollBudgets == {Only("open" :> 1 @@ "sort" :> 1 @@ "viewport" :> 1)}
LossBudgets == {Only("open" :> 1 @@ "query" :> 1 @@ "fault" :> 1)}
=============================================================================
