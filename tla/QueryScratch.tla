----------------------------- MODULE QueryScratch -----------------------------
(***************************************************************************)
(* Start-up recovery of the query cache: prepare_query_scratch and its      *)
(* helpers in crates/leanrows-win32/src/worker.rs, with                     *)
(* recover_stale_query_files and ScratchHitStore of                         *)
(* crates/leanrows-core/src/query.rs.                                       *)
(*                                                                         *)
(* All workers of all processes share one directory. A worker holds a       *)
(* marker file open without sharing for as long as it lives; the next one   *)
(* to start tells by the markers whether it is alone, and only then deletes *)
(* the hit files it finds. Windows lets an open hit file be deleted, so     *)
(* nothing but this protocol keeps a live search's file.                    *)
(***************************************************************************)
EXTENDS Integers, FiniteSets

CONSTANTS
    MaxLives,       \* workers that are ever started, a bound
    LockAttempts    \* QUERY_STARTUP_LOCK_ATTEMPTS

ASSUME QueryScratchAssumption == MaxLives \in Nat /\ LockAttempts \in Nat \ {0}

Lives == 1 .. MaxLives

VARIABLES
    phase,      \* phase[l]: how far the life of worker l has come
    startLock,  \* the worker that has the start-up lock file open, or 0
    tries,      \* tries[l]: attempts left to open it
    todo,       \* todo[l]: owners of the directory entries still to visit
    alone,      \* alone[l]: ~ another_worker_is_live
    marker,     \* marker[l]: its marker file, "held" open or "loose"
    hits,       \* hits[l]: its hit file, "partial" when it ends inside an entry
    searching,  \* searching[l]: a session of l has its hit file open
    outsider,   \* <<kind, l>>: a file another program holds open, or <<>>
    reason      \* reason[l]: why its start failed

queryVars == <<phase, startLock, tries, todo, alone, marker, hits, searching,
               outsider, reason>>

Starting == {"locking", "retiring", "removing", "recovering"}
Ending == {"closing", "unmarking"}
Phases == Starting \cup Ending \cup
          {"unborn", "running", "giving_up", "gone"}

QueryTypeOK ==
    /\ phase \in [Lives -> Phases]
    /\ startLock \in 0 .. MaxLives
    /\ tries \in [Lives -> 1 .. LockAttempts]
    /\ todo \in [Lives -> SUBSET Lives]
    /\ alone \in [Lives -> BOOLEAN]
    /\ marker \in [Lives -> {"none", "held", "loose"}]
    /\ hits \in [Lives -> {"none", "partial", "whole"}]
    /\ searching \in [Lives -> BOOLEAN]
    /\ outsider \in {<<>>} \cup ({"marker", "hits"} \X Lives)
    /\ reason \in [Lives -> {"none", "timed_out", "blocked", "vanished"}]

QueryInit ==
    /\ phase = [l \in Lives |-> "unborn"]
    /\ startLock = 0
    /\ tries = [l \in Lives |-> LockAttempts]
    /\ todo = [l \in Lives |-> {}]
    /\ alone = [l \in Lives |-> TRUE]
    /\ marker = [l \in Lives |-> "none"]
    /\ hits = [l \in Lives |-> "none"]
    /\ searching = [l \in Lives |-> FALSE]
    /\ outsider = <<>>
    /\ reason = [l \in Lives |-> "none"]

Blocked(kind, l) == outsider = <<kind, l>>

Goes(l, p) == phase' = [phase EXCEPT ![l] = p]
Done(l, k) == todo' = [todo EXCEPT ![l] = @ \ {k}]

\* The entry a directory listing visits next; their order does not matter.
Oldest(l) == CHOOSE k \in todo[l] : \A j \in todo[l] : k <= j

\* Faulty variants, each a slip that one of the properties below rejects.
StaleIfThere(k) == marker[k] # "none"
MissingFails(l, k) ==
    IF marker[k] = "none" THEN "vanished"
    ELSE IF Blocked("marker", k) THEN "blocked" ELSE "none"

\* open_active_marker_exclusive succeeds: nobody has the marker open.
Stale(k) == marker[k] = "loose" /\ ~ Blocked("marker", k)

\* The local variables of prepare_query_scratch go with its return.
Returns(l) ==
    /\ tries' = [tries EXCEPT ![l] = LockAttempts]
    /\ todo' = [todo EXCEPT ![l] = {}]
    /\ alone' = [alone EXCEPT ![l] = TRUE]

\* The start of l ends with an error before it has made a marker.
FailsEarly(l, why) ==
    /\ Goes(l, "gone") /\ Returns(l)
    /\ reason' = [reason EXCEPT ![l] = why]
    /\ startLock' = IF startLock = l THEN 0 ELSE startLock

-----------------------------------------------------------------------------
(* prepare_query_scratch.                                                    *)

Start(l) ==
    /\ phase[l] = "unborn" /\ \A k \in Lives : k < l => phase[k] # "unborn"
    /\ Goes(l, "locking")
    /\ UNCHANGED <<startLock, tries, todo, alone, marker, hits, searching,
                   outsider, reason>>

\* acquire_query_startup_lock. The markers are listed under the lock.
AcquireLock(l) ==
    /\ phase[l] = "locking" /\ startLock = 0
    /\ startLock' = l
    /\ todo' = [todo EXCEPT ![l] = {k \in Lives : marker[k] # "none"}]
    /\ Goes(l, "retiring")
    /\ UNCHANGED <<tries, alone, marker, hits, searching, outsider, reason>>

LockBusy(l) ==
    /\ phase[l] = "locking" /\ startLock # 0
    /\ IF tries[l] = 1
       THEN FailsEarly(l, "timed_out")
       ELSE /\ tries' = [tries EXCEPT ![l] = @ - 1]
            /\ UNCHANGED <<phase, reason, startLock, todo, alone>>
    /\ UNCHANGED <<marker, hits, searching, outsider>>

\* retire_stale_active_markers: a marker that cannot be opened belongs to a
\* live worker; one that can is stale and is removed, by its name.
Probe(l) ==
    LET k == Oldest(l) IN
    /\ phase[l] = "retiring" /\ todo[l] # {}
    /\ IF Stale(k)
       THEN Goes(l, "removing") /\ UNCHANGED <<todo, alone>>
       ELSE /\ Done(l, k)
            /\ alone' = [alone EXCEPT ![l] = @ /\ marker[k] = "none"]
            /\ UNCHANGED phase
    /\ UNCHANGED <<startLock, tries, marker, hits, searching, outsider, reason>>

\* remove_owned_active_marker: the error of removing the marker of k. A worker
\* that shuts down removes its own without the lock and may come first.
RemovalError(l, k) ==
    IF Blocked("marker", k) /\ marker[k] # "none" THEN "blocked" ELSE "none"

RemoveMarker(l) ==
    LET k == Oldest(l)  error == RemovalError(l, k) IN
    /\ phase[l] = "removing"
    /\ IF error = "none"
       THEN /\ marker' = [marker EXCEPT ![k] = "none"]
            /\ Done(l, k) /\ Goes(l, "retiring")
            /\ UNCHANGED <<reason, startLock, tries, alone>>
       ELSE FailsEarly(l, error) /\ UNCHANGED marker
    /\ UNCHANGED <<hits, searching, outsider>>

\* The hit files recover_stale_query_files lists.
Listed(l) == {k \in Lives : hits[k] # "none"}

\* QueryActiveMarker::create, then recovery when no other worker is live.
MakeMarker(l) ==
    /\ phase[l] = "retiring" /\ todo[l] = {}
    /\ marker' = [marker EXCEPT ![l] = "held"]
    /\ todo' = [todo EXCEPT ![l] = IF alone[l] THEN Listed(l) ELSE {}]
    /\ Goes(l, "recovering")
    /\ UNCHANGED <<startLock, tries, alone, hits, searching, outsider, reason>>

\* recover_stale_query_files: a file that ends inside an entry is retained; a
\* file that cannot be opened, or has gone, ends recovery and the start.
Recover(l) ==
    LET k == Oldest(l)
        error == CASE hits[k] = "none" -> "vanished"
                   [] hits[k] # "none" /\ Blocked("hits", k) -> "blocked"
                   [] OTHER -> "none"
    IN
    /\ phase[l] = "recovering" /\ todo[l] # {}
    /\ IF error = "none"
       THEN /\ Done(l, k)
            /\ hits' = [hits EXCEPT ![k] = IF @ = "whole" THEN "none" ELSE @]
            /\ UNCHANGED <<phase, reason>>
       ELSE /\ Goes(l, "giving_up")
            /\ reason' = [reason EXCEPT ![l] = error]
            /\ UNCHANGED <<hits, todo>>
    /\ UNCHANGED <<startLock, tries, alone, marker, searching, outsider>>

\* The lock is dropped when prepare_query_scratch returns.
Ready(l) ==
    /\ phase[l] = "recovering" /\ todo[l] = {}
    /\ startLock' = 0
    /\ Goes(l, "running") /\ Returns(l)
    /\ UNCHANGED <<marker, hits, searching, outsider,
                   reason>>

-----------------------------------------------------------------------------
(* The life of a worker.                                                     *)

\* ScratchHitStore::create. Bound: one hit file in a life.
NewSearch(l) ==
    /\ phase[l] = "running" /\ ~ searching[l] /\ hits[l] = "none"
    /\ hits' = [hits EXCEPT ![l] = "partial"]
    /\ searching' = [searching EXCEPT ![l] = TRUE]
    /\ UNCHANGED <<phase, startLock, tries, todo, alone, marker, outsider,
                   reason>>

\* write_header, append: the file grows up to the end of an entry or not.
Write(l) ==
    /\ searching[l]
    /\ hits' = [hits EXCEPT ![l] = IF @ = "partial" THEN "whole" ELSE "partial"]
    /\ UNCHANGED <<phase, startLock, tries, todo, alone, marker, searching,
                   outsider, reason>>

\* Drop for ScratchHitStore: a removal that is blocked is ignored.
AfterDrop(l) ==
    IF searching[l] /\ ~ Blocked("hits", l) THEN "none" ELSE hits[l]

EndSearch(l) ==
    /\ phase[l] = "running" /\ searching[l]
    /\ searching' = [searching EXCEPT ![l] = FALSE]
    /\ hits' = [hits EXCEPT ![l] = AfterDrop(l)]
    /\ UNCHANGED <<phase, startLock, tries, todo, alone, marker, outsider,
                   reason>>

\* Drop for Worker: the thread is joined, and its search dropped, first.
Stop(l) ==
    /\ phase[l] = "running"
    /\ Goes(l, "closing")
    /\ searching' = [searching EXCEPT ![l] = FALSE]
    /\ hits' = [hits EXCEPT ![l] = AfterDrop(l)]
    /\ UNCHANGED <<startLock, tries, todo, alone, marker, outsider, reason>>

\* Drop for QueryActiveMarker: the handle is closed, then the file removed.
CloseMarker(l) ==
    /\ phase[l] \in {"closing", "giving_up"}
    /\ marker' = [marker EXCEPT ![l] = "loose"]
    /\ Goes(l, "unmarking")
    /\ UNCHANGED <<startLock, tries, todo, alone, hits, searching, outsider,
                   reason>>

Unmark(l) ==
    /\ phase[l] = "unmarking"
    /\ marker' = [marker EXCEPT ![l] = IF Blocked("marker", l) THEN @ ELSE "none"]
    /\ startLock' = IF startLock = l THEN 0 ELSE startLock
    /\ Goes(l, "gone") /\ Returns(l)
    /\ UNCHANGED <<hits, searching, outsider, reason>>

\* The process ends at any point; Windows closes its handles.
CrashWorker(l) ==
    /\ phase[l] \notin {"unborn", "gone"}
    /\ Goes(l, "gone") /\ Returns(l)
    /\ marker' = [marker EXCEPT ![l] = IF @ = "held" THEN "loose" ELSE @]
    /\ startLock' = IF startLock = l THEN 0 ELSE startLock
    /\ searching' = [searching EXCEPT ![l] = FALSE]
    /\ UNCHANGED <<hits, outsider, reason>>

\* A scanner or a backup tool opens a file without sharing, for a while.
OutsiderOpens ==
    /\ outsider = <<>>
    /\ \E l \in Lives :
          \/ marker[l] = "loose" /\ outsider' = <<"marker", l>>
          \/ hits[l] # "none" /\ outsider' = <<"hits", l>>
    /\ UNCHANGED <<phase, startLock, tries, todo, alone, marker, hits,
                   searching, reason>>

OutsiderCloses ==
    /\ outsider # <<>>
    /\ outsider' = <<>>
    /\ UNCHANGED <<phase, startLock, tries, todo, alone, marker, hits,
                   searching, reason>>

QuerySteps(l) ==
    \/ Start(l) \/ AcquireLock(l) \/ LockBusy(l) \/ Probe(l) \/ RemoveMarker(l)
    \/ MakeMarker(l) \/ Recover(l) \/ Ready(l) \/ NewSearch(l) \/ Write(l)
    \/ EndSearch(l) \/ Stop(l) \/ CloseMarker(l) \/ Unmark(l) \/ CrashWorker(l)

QueryNext == (\E l \in Lives : QuerySteps(l)) \/ OutsiderOpens \/ OutsiderCloses

QuerySpec == QueryInit /\ [][QueryNext]_queryVars

-----------------------------------------------------------------------------
\* The file of a search that is running is never deleted by the recovery of a
\* worker that starts beside it, in this process or in another.
SearchKeepsItsFile == \A l \in Lives : searching[l] => hits[l] # "none"

\* Workers that start, crash and shut down beside each other never make a
\* start fail: only a file another program holds, or the lock's five seconds.
StartsBesideOthers == \A l \in Lives : reason[l] # "vanished"

=============================================================================
