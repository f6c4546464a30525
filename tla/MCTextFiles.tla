------------------------------ MODULE MCTextFiles ------------------------------
(***************************************************************************)
(* What is done with an open text file: it is read and scanned, searched, or *)
(* sorted. Each works on a handle, a snapshot and scratch files of its own,  *)
(* so a behaviour exercises one of them and the others keep their first      *)
(* state; DocumentWorker has the turns that the worker gives to each.        *)
(***************************************************************************)
EXTENDS MCDocumentReader, MCQuerySession, MCSortSession

VARIABLE activity  \* what a behaviour exercises

textVars == <<activity, readerVars, searchVars, sortVars>>

MCInit ==
    /\ activity \in {"reading", "searching", "sorting"}
    /\ ReaderInit /\ SearchInit /\ SortInit
    /\ activity # "reading" => windows /\ delimited /\ disk.bytes = <<>>
    /\ activity # "searching" => search.windows /\ search.needle = <<"lf">>
    /\ activity # "sorting" => request.bytes = <<>> /\ tuning.step = 1

MCReading(step) ==
    activity = "reading" /\ step /\ UNCHANGED <<activity, searchVars, sortVars>>
MCSearching(step) ==
    activity = "searching" /\ step /\ UNCHANGED <<activity, readerVars, sortVars>>
MCSorting(step) ==
    activity = "sorting" /\ step /\ UNCHANGED <<activity, readerVars, searchVars>>

MCNext == MCReading(ReaderNext) \/ MCSearching(SearchNext) \/ MCSorting(SortNext)

(* The fairness of the three modules. A behaviour has one activity, so fairness   *)
(* of a step of one or a step of another is that of the one it has.             *)
MCFairness ==
    /\ WF_textVars(\/ MCReading(OpenFile \/ NewSession \/ ScanSteps \/ ViewSteps)
                   \/ MCSearching(Quantum)
                   \/ MCSorting(AdvanceSort))
    /\ SF_textVars(MCReading(BeginScan) \/ MCSearching(Loop))
    /\ SF_textVars(\/ MCReading(ScanFeed /\ (pc' # "scan_verify" \/ job'.taken = Len(job.buf)))
                   \/ MCSearching(Scan /\ session'.status # "cancelled"))
    /\ SF_textVars(MCReading(ScanRead) \/ MCSearching(MatchByte))

MCSpec == MCInit /\ [][MCNext]_textVars /\ MCFairness

-----------------------------------------------------------------------------
(* The hit file keeps to its quota, the descriptors of a sort to their records,  *)
(* and every part to its type (query.rs:643, sort/session.rs).                  *)
TextTypeOK == ReaderTypeOK /\ SearchTypeOK /\ SortTypeOK

UnderWay ==
    \/ activity = "reading" /\ Scanning
    \/ activity = "searching" /\ Demanding
    \/ activity = "sorting" /\ Unordered

(* Whatever is begun ends: the scan of a document, a demanded hit and a sort, in *)
(* spite of cancelled quanta, failed reads and the files other programs change   *)
(* (document_engine.rs scan_step, worker.rs:1110, sort/session.rs advance).     *)
WorkSettles == UnderWay ~> ~UnderWay
=============================================================================
