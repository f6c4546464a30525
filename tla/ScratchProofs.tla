----------------------------- MODULE ScratchProofs -----------------------------
(***************************************************************************)
(* Proofs about the scratch files that processes leave to each other.       *)
(*                                                                         *)
(* QueryScratch, for any number of workers: whatever the order in which     *)
(* they start, crash, search and shut down beside each other, recovery      *)
(* deletes no file of a live search and finds every file it listed.         *)
(* SortScratch, for any number of processes, directories and blocks:        *)
(* recovery by one process, the retries of another and the drops of owners  *)
(* delete nothing of an owner that lives; and the ledger of each process    *)
(* covers what it has on the disk and holds every charge once. The sums of  *)
(* the ledger are the fold of the community modules, by induction over the  *)
(* parts of a finite set.                                                   *)
(***************************************************************************)
EXTENDS QueryScratch, SortScratch, FiniteSetTheorems, WellFoundedInduction, TLAPS

-----------------------------------------------------------------------------
(* The hit files of searches.                                                *)

\* Phases in which a worker that starts has the start-up lock open.
UnderLock == {"retiring", "removing", "recovering", "giving_up"}

\* Phases in which a worker has its marker open without sharing.
WithMarker == {"recovering", "running", "closing", "giving_up"}

\* One start at a time is past the lock (acquire_query_startup_lock).
LockPart == \A l \in Lives : phase[l] \in UnderLock => startLock = l

\* A marker is open exactly while its worker is live.
MarkerPart == \A l \in Lives : marker[l] = "held" <=> phase[l] \in WithMarker

\* The entry of l's listing that comes next.
Least(k, l) == k \in todo[l] /\ \A j \in todo[l] : k <= j

\* The marker about to be removed cannot have become a live worker's: to make
\* one takes the lock.
RetirePart ==
    \A l \in Lives : phase[l] = "removing" =>
        /\ todo[l] # {}
        /\ \A k \in Lives : Least(k, l) => marker[k] # "held"

\* As long as a start believes itself alone, every live worker's marker is
\* still ahead of it in its listing.
AlonePart ==
    \A l \in Lives : phase[l] \in {"retiring", "removing"} /\ alone[l] =>
        \A k \in Lives : marker[k] = "held" => k \in todo[l]

\* While there is a hit file to recover no other worker is live, and the
\* files listed are there.
RecoverPart ==
    \A l \in Lives : phase[l] = "recovering" /\ todo[l] # {} =>
        /\ \A k \in Lives \ {l} : phase[k] \notin WithMarker
        /\ \A k \in todo[l] : hits[k] # "none"

\* Only a worker that runs searches, and its file is there.
SearchPart ==
    \A l \in Lives : searching[l] => phase[l] = "running" /\ hits[l] # "none"

\* The inductive invariant: the promises, and what they rest on.
QueryIInv ==
    /\ QueryTypeOK
    /\ LockPart
    /\ MarkerPart
    /\ RetirePart
    /\ AlonePart
    /\ RecoverPart
    /\ SearchPart
    /\ StartsBesideOthers

\* Lives are positive numbers, so 0 is nobody's.
LEMMA LivesShape ==
    \A l \in Lives : l \in Nat /\ l # 0 /\ l \in 0 .. MaxLives
BY QueryScratchAssumption DEF Lives

\* The entry a start visits next is one of its listing.
LEMMA OldestIsListed ==
    ASSUME QueryTypeOK, NEW l \in Lives, todo[l] # {}
    PROVE  Oldest(l) \in Lives /\ Least(Oldest(l), l)
<1>1. todo[l] \subseteq Lives /\ todo[l] \subseteq Nat
  BY LivesShape DEF QueryTypeOK
<1>2. PICK k \in todo[l] : \A j \in todo[l] : ~ (<<j, k>> \in OpToRel(<, Nat))
  BY <1>1, WFMin, NatLessThanWellFounded, Zenon
<1>3. \A j \in todo[l] : ~ (j < k)
  BY <1>1, <1>2 DEF OpToRel
<1>4. \A j \in todo[l] : k <= j
  BY <1>1, <1>3
<1>5. Oldest(l) \in todo[l] /\ \A j \in todo[l] : Oldest(l) <= j
  BY <1>4, Zenon DEF Oldest
<1> QED
  BY <1>1, <1>5 DEF Least

\* Before any worker starts.
LEMMA QueryInitIInv == QueryInit => QueryIInv
BY QueryScratchAssumption, LivesShape
DEF QueryInit, QueryIInv, QueryTypeOK, Phases, Starting, Ending, LockPart,
    MarkerPart, RetirePart, AlonePart, RecoverPart, SearchPart,
    StartsBesideOthers, UnderLock, WithMarker

\* Nothing but MakeMarker begins a recovery; every other step keeps what a
\* recovery rests on when it makes no worker live, and takes a listed file away
\* only from a worker that runs.
LEMMA RecoverKept ==
    ASSUME QueryIInv,
           \A j \in Lives : phase'[j] = "recovering" =>
              phase[j] = "recovering" /\ todo'[j] \subseteq todo[j],
           \A k \in Lives :
              phase'[k] \in WithMarker => phase[k] \in WithMarker,
           \A j, k \in Lives :
              phase'[j] = "recovering" /\ k \in todo'[j] /\ hits'[k] = "none"
              => hits[k] = "none" \/ phase[k] = "running"
    PROVE  RecoverPart'
<1> SUFFICES ASSUME NEW j \in Lives, phase'[j] = "recovering", todo'[j] # {}
             PROVE  /\ \A k \in Lives \ {j} : phase'[k] \notin WithMarker
                    /\ \A k \in todo'[j] : hits'[k] # "none"
  BY DEF RecoverPart
<1>1. phase[j] = "recovering" /\ todo[j] # {} /\ todo'[j] \subseteq todo[j]
  OBVIOUS
<1>2. /\ \A k \in Lives \ {j} : phase[k] \notin WithMarker
      /\ \A k \in todo[j] : hits[k] # "none"
  BY <1>1 DEF QueryIInv, RecoverPart
<1>3. todo[j] \subseteq Lives
  BY DEF QueryIInv, QueryTypeOK
<1>4. ASSUME NEW k \in todo'[j], hits'[k] = "none" PROVE FALSE
  <2>1. k \in Lives /\ hits[k] # "none"
    BY <1>1, <1>2, <1>3
  <2>2. phase[k] = "running"
    BY <1>4, <2>1
  <2> QED
    BY <1>1, <1>2, <2>1, <2>2 DEF WithMarker
<1> QED
  BY <1>2, <1>4

\* prepare_query_scratch begins.
LEMMA StartStep ==
    ASSUME QueryIInv, NEW l \in Lives, Start(l)
    PROVE  QueryIInv'
<1> USE DEF QueryIInv, QueryTypeOK, Start, Goes
<1>1. QueryTypeOK'
  BY DEF Phases, Starting, Ending
<1>2. LockPart'
  BY DEF LockPart, UnderLock
<1>3. MarkerPart'
  BY DEF MarkerPart, WithMarker
<1>4. RetirePart'
  BY DEF RetirePart, Least
<1>5. AlonePart'
  BY DEF AlonePart
<1>6. RecoverPart'
  BY RecoverKept DEF WithMarker
<1>7. SearchPart'
  BY DEF SearchPart
<1>8. StartsBesideOthers'
  BY DEF StartsBesideOthers
<1> QED
  BY <1>1, <1>2, <1>3, <1>4, <1>5, <1>6, <1>7, <1>8

\* The lock is free, so nobody else is past it.
LEMMA AcquireLockStep ==
    ASSUME QueryIInv, NEW l \in Lives, AcquireLock(l)
    PROVE  QueryIInv'
<1> USE DEF QueryIInv, QueryTypeOK, AcquireLock, Goes
<1>1. QueryTypeOK'
  BY LivesShape DEF Phases, Starting, Ending
<1>2. LockPart'
  BY LivesShape DEF LockPart, UnderLock
<1>3. MarkerPart'
  BY DEF MarkerPart, WithMarker
<1>4. RetirePart'
  BY DEF RetirePart, Least
<1>5. AlonePart'
  BY DEF AlonePart
<1>6. RecoverPart'
  BY RecoverKept DEF WithMarker
<1>7. SearchPart'
  BY DEF SearchPart
<1>8. StartsBesideOthers'
  BY DEF StartsBesideOthers
<1> QED
  BY <1>1, <1>2, <1>3, <1>4, <1>5, <1>6, <1>7, <1>8

\* A start that gives up before it has a marker (the early returns of
\* prepare_query_scratch).
LEMMA FailsEarlyStep ==
    ASSUME QueryIInv, NEW l \in Lives, phase[l] \in {"locking", "removing"},
           NEW why \in {"timed_out", "blocked"}, FailsEarly(l, why),
           UNCHANGED <<marker, hits, searching, outsider>>
    PROVE  QueryIInv'
<1> USE DEF QueryTypeOK, QueryIInv, FailsEarly, Returns, Goes
<1>1. QueryTypeOK'
  BY QueryScratchAssumption DEF Phases, Starting, Ending
<1>2. LockPart'
  BY DEF LockPart, UnderLock
<1>3. MarkerPart'
  BY DEF MarkerPart, WithMarker
<1>4. RetirePart'
  BY DEF RetirePart, Least
<1>5. AlonePart'
  BY DEF AlonePart
<1>6. RecoverPart'
  BY RecoverKept DEF WithMarker
<1>7. SearchPart' /\ StartsBesideOthers'
  BY DEF SearchPart, StartsBesideOthers
<1> QED
  BY <1>1, <1>2, <1>3, <1>4, <1>5, <1>6, <1>7

\* Another attempt at the lock, or the last one.
LEMMA LockBusyStep ==
    ASSUME QueryIInv, NEW l \in Lives, LockBusy(l)
    PROVE  QueryIInv'
<1>1. CASE tries[l] = 1
  <2>1. FailsEarly(l, "timed_out") /\ phase[l] = "locking"
    BY <1>1 DEF LockBusy
  <2> QED
    BY <2>1, FailsEarlyStep DEF LockBusy
<1>2. CASE tries[l] # 1
  <2>1. /\ tries' = [tries EXCEPT ![l] = @ - 1]
        /\ UNCHANGED <<phase, reason, startLock, todo, alone, marker, hits,
                       searching, outsider>>
    BY <1>2 DEF LockBusy
  <2>2. tries' \in [Lives -> 1 .. LockAttempts]
    BY <1>2, <2>1, QueryScratchAssumption DEF QueryIInv, QueryTypeOK
  <2>3. QueryTypeOK'
    BY <2>1, <2>2 DEF QueryIInv, QueryTypeOK
  <2> QED
    BY <2>1, <2>3
    DEF QueryIInv, LockPart, MarkerPart, RetirePart, Least, AlonePart,
        RecoverPart, SearchPart, StartsBesideOthers
<1> QED
  BY <1>1, <1>2

\* A marker is looked at. One that is not stale was never made, has gone since
\* the listing, or ends the belief to be alone.
LEMMA ProbeStep ==
    ASSUME QueryIInv, NEW l \in Lives, Probe(l)
    PROVE  QueryIInv'
<1> DEFINE k == Oldest(l)
<1> USE DEF QueryIInv, QueryTypeOK
<1>1. /\ k \in Lives /\ Least(k, l) /\ k \in todo[l]
      /\ phase[l] = "retiring"
      /\ UNCHANGED <<startLock, tries, marker, hits, searching, outsider,
                     reason>>
  BY OldestIsListed DEF Probe, Least
<1> HIDE DEF k
<1>2. CASE Stale(k)
  <2>1. Goes(l, "removing") /\ UNCHANGED <<todo, alone>>
    BY <1>2 DEF Probe, k
  <2>2. QueryTypeOK' /\ LockPart' /\ MarkerPart'
    BY <1>1, <2>1
    DEF Goes, Phases, Starting, Ending, LockPart, UnderLock, MarkerPart,
        WithMarker
  <2>3. \A j \in Lives : Least(j, l)' => j = k
    BY <1>1, <2>1, LivesShape DEF Least
  <2>4. RetirePart'
    BY <1>1, <1>2, <2>1, <2>3 DEF Goes, RetirePart, Least, Stale
  <2>5. AlonePart' /\ SearchPart' /\ StartsBesideOthers'
    BY <1>1, <2>1 DEF Goes, AlonePart, SearchPart, StartsBesideOthers
  <2>6. RecoverPart'
    BY <1>1, <2>1, RecoverKept DEF Goes, WithMarker
  <2> QED
    BY <2>2, <2>4, <2>5, <2>6
<1>3. CASE ~ Stale(k)
  <2>1. /\ Done(l, k) /\ UNCHANGED phase
        /\ alone' = [alone EXCEPT ![l] = @ /\ marker[k] = "none"]
    BY <1>3 DEF Probe, k
  <2>2. alone' \in [Lives -> BOOLEAN]
    BY <2>1
  <2>3. QueryTypeOK' /\ LockPart' /\ MarkerPart'
    BY <1>1, <2>1, <2>2 DEF Done, LockPart, MarkerPart
  <2>4. RetirePart'
    BY <1>1, <2>1 DEF Done, RetirePart, Least
  <2>5. AlonePart'
    <3> SUFFICES ASSUME NEW j \in Lives, phase[j] \in {"retiring", "removing"},
                        alone'[j], NEW m \in Lives, marker[m] = "held"
                 PROVE  m \in todo'[j]
      BY <1>1, <2>1 DEF AlonePart
    <3>1. alone[j] /\ (j = l => marker[k] = "none")
      BY <2>1
    <3>2. m \in todo[j]
      BY <3>1 DEF AlonePart
    <3> QED
      BY <2>1, <3>1, <3>2 DEF Done
  <2>6. RecoverPart'
    BY <1>1, <2>1, RecoverKept DEF Done
  <2>7. SearchPart' /\ StartsBesideOthers'
    BY <1>1, <2>1 DEF SearchPart, StartsBesideOthers
  <2> QED
    BY <2>3, <2>4, <2>5, <2>6, <2>7
<1> QED
  BY <1>2, <1>3

\* A stale marker is removed by its name; that it is nobody's needs the lock.
LEMMA RemoveMarkerStep ==
    ASSUME QueryIInv, NEW l \in Lives, RemoveMarker(l)
    PROVE  QueryIInv'
<1> DEFINE k == Oldest(l)
<1> USE DEF QueryIInv, QueryTypeOK
<1>1. phase[l] = "removing" /\ UNCHANGED <<hits, searching, outsider>>
  BY DEF RemoveMarker
<1>2. k \in Lives /\ Least(k, l) /\ marker[k] # "held"
  BY <1>1, OldestIsListed DEF RetirePart
<1>3. \/ /\ marker' = [marker EXCEPT ![k] = "none"]
         /\ Done(l, k) /\ Goes(l, "retiring")
         /\ UNCHANGED <<reason, startLock, tries, alone>>
      \/ FailsEarly(l, "blocked") /\ UNCHANGED marker
  BY DEF RemoveMarker, RemovalError
<1> HIDE DEF k
<1>4. CASE FailsEarly(l, "blocked") /\ UNCHANGED marker
  BY <1>1, <1>4, FailsEarlyStep
<1>5. CASE /\ marker' = [marker EXCEPT ![k] = "none"]
           /\ Done(l, k) /\ Goes(l, "retiring")
           /\ UNCHANGED <<reason, startLock, tries, alone>>
  <2> USE <1>1, <1>2, <1>5 DEF Goes, Done
  <2>1. QueryTypeOK'
    BY DEF Phases, Starting, Ending
  <2>2. LockPart' /\ MarkerPart'
    BY DEF LockPart, UnderLock, MarkerPart, WithMarker
  <2>3. RetirePart'
    BY DEF RetirePart, Least
  <2>4. AlonePart'
    BY DEF AlonePart
  <2>5. RecoverPart'
    BY RecoverKept DEF WithMarker
  <2>6. SearchPart' /\ StartsBesideOthers'
    BY DEF SearchPart, StartsBesideOthers
  <2> QED
    BY <2>1, <2>2, <2>3, <2>4, <2>5, <2>6
<1> QED
  BY <1>3, <1>4, <1>5

\* A start that still believes itself alone is: no marker is open.
LEMMA MakeMarkerStep ==
    ASSUME QueryIInv, NEW l \in Lives, MakeMarker(l)
    PROVE  QueryIInv'
<1> USE DEF QueryIInv, QueryTypeOK, MakeMarker, Goes
<1>1. QueryTypeOK'
  BY DEF Phases, Starting, Ending, Listed
<1>2. LockPart'
  BY DEF LockPart, UnderLock
<1>3. MarkerPart'
  BY DEF MarkerPart, WithMarker
<1>4. RetirePart'
  BY DEF RetirePart, Least, LockPart, UnderLock
<1>5. AlonePart'
  BY DEF AlonePart, LockPart, UnderLock
<1>6. RecoverPart'
  BY LivesShape
  DEF RecoverPart, AlonePart, MarkerPart, LockPart, UnderLock, WithMarker,
      Listed
<1>7. SearchPart'
  BY DEF SearchPart
<1>8. StartsBesideOthers'
  BY DEF StartsBesideOthers
<1> QED
  BY <1>1, <1>2, <1>3, <1>4, <1>5, <1>6, <1>7, <1>8

\* The file visited belongs to no live worker, and nobody else removes it.
LEMMA RecoverStep ==
    ASSUME QueryIInv, NEW l \in Lives, Recover(l)
    PROVE  QueryIInv'
<1> DEFINE k == Oldest(l)
<1> USE DEF QueryIInv, QueryTypeOK
<1>1. /\ phase[l] = "recovering" /\ todo[l] # {}
      /\ UNCHANGED <<startLock, tries, alone, marker, searching, outsider>>
  BY DEF Recover
<1>2. k \in Lives /\ k \in todo[l]
  BY <1>1, OldestIsListed DEF Least
<1>3. hits[k] # "none" /\ ~ searching[k]
  BY <1>1, <1>2 DEF RecoverPart, SearchPart, WithMarker
<1>4. \/ /\ Done(l, k) /\ UNCHANGED <<phase, reason>>
         /\ hits' = [hits EXCEPT ![k] = IF @ = "whole" THEN "none" ELSE @]
      \/ /\ Goes(l, "giving_up") /\ UNCHANGED <<hits, todo>>
         /\ reason' = [reason EXCEPT ![l] = "blocked"]
  BY <1>3 DEF Recover
<1> HIDE DEF k
<1> USE <1>1, <1>2, <1>3
<1>5. CASE /\ Done(l, k) /\ UNCHANGED <<phase, reason>>
           /\ hits' = [hits EXCEPT ![k] = IF @ = "whole" THEN "none" ELSE @]
  <2>1. QueryTypeOK'
    BY <1>5 DEF Done
  <2>2. LockPart' /\ MarkerPart' /\ StartsBesideOthers'
    BY <1>5 DEF LockPart, MarkerPart, StartsBesideOthers
  <2>3. \A j \in Lives : phase[j] \in UnderLock => j = l
    BY DEF LockPart, UnderLock
  <2>4. RetirePart' /\ AlonePart'
    BY <1>5, <2>3 DEF Done, RetirePart, Least, AlonePart, UnderLock
  <2>5. RecoverPart'
    BY <1>5, <2>3, RecoverKept DEF Done, UnderLock
  <2>6. SearchPart'
    BY <1>5 DEF SearchPart
  <2> QED
    BY <2>1, <2>2, <2>4, <2>5, <2>6
<1>6. CASE /\ Goes(l, "giving_up") /\ UNCHANGED <<hits, todo>>
           /\ reason' = [reason EXCEPT ![l] = "blocked"]
  <2>1. QueryTypeOK'
    BY <1>6 DEF Goes, Phases, Starting, Ending
  <2>2. LockPart' /\ MarkerPart' /\ StartsBesideOthers'
    BY <1>6
    DEF Goes, LockPart, UnderLock, MarkerPart, WithMarker, StartsBesideOthers
  <2>3. RetirePart' /\ AlonePart' /\ SearchPart'
    BY <1>6 DEF Goes, RetirePart, Least, AlonePart, SearchPart
  <2>4. RecoverPart'
    BY <1>6, RecoverKept DEF Goes, WithMarker
  <2> QED
    BY <2>1, <2>2, <2>3, <2>4
<1> QED
  BY <1>4, <1>5, <1>6

\* The start is over and the lock dropped.
LEMMA ReadyStep ==
    ASSUME QueryIInv, NEW l \in Lives, Ready(l)
    PROVE  QueryIInv'
<1> USE DEF QueryIInv, QueryTypeOK, Ready, Goes, Returns
<1>1. QueryTypeOK'
  BY QueryScratchAssumption DEF Phases, Starting, Ending
<1>2. LockPart'
  BY DEF LockPart, UnderLock
<1>3. MarkerPart'
  BY DEF MarkerPart, WithMarker
<1>4. RetirePart'
  BY DEF RetirePart, Least
<1>5. AlonePart'
  BY DEF AlonePart
<1>6. RecoverPart'
  BY RecoverKept DEF WithMarker
<1>7. SearchPart'
  BY DEF SearchPart
<1>8. StartsBesideOthers'
  BY DEF StartsBesideOthers
<1> QED
  BY <1>1, <1>2, <1>3, <1>4, <1>5, <1>6, <1>7, <1>8

\* ScratchHitStore::create.
LEMMA NewSearchStep ==
    ASSUME QueryIInv, NEW l \in Lives, NewSearch(l)
    PROVE  QueryIInv'
<1> USE DEF QueryIInv, QueryTypeOK, NewSearch
<1>1. QueryTypeOK'
  BY DEF Phases, Starting, Ending
<1>2. LockPart' /\ MarkerPart' /\ RetirePart' /\ AlonePart'
  BY DEF LockPart, MarkerPart, RetirePart, Least, AlonePart
<1>3. RecoverPart'
  BY RecoverKept
<1>4. SearchPart'
  BY DEF SearchPart
<1>5. StartsBesideOthers'
  BY DEF StartsBesideOthers
<1> QED
  BY <1>1, <1>2, <1>3, <1>4, <1>5

\* write_header and append.
LEMMA WriteStep ==
    ASSUME QueryIInv, NEW l \in Lives, Write(l)
    PROVE  QueryIInv'
<1> USE DEF QueryIInv, QueryTypeOK, Write
<1>1. QueryTypeOK'
  BY DEF Phases, Starting, Ending
<1>2. LockPart' /\ MarkerPart' /\ RetirePart' /\ AlonePart'
  BY DEF LockPart, MarkerPart, RetirePart, Least, AlonePart
<1>3. RecoverPart'
  BY RecoverKept
<1>4. SearchPart'
  BY DEF SearchPart
<1>5. StartsBesideOthers'
  BY DEF StartsBesideOthers
<1> QED
  BY <1>1, <1>2, <1>3, <1>4, <1>5

\* The file goes with the search that had it open.
LEMMA EndSearchStep ==
    ASSUME QueryIInv, NEW l \in Lives, EndSearch(l)
    PROVE  QueryIInv'
<1> USE DEF QueryIInv, QueryTypeOK, EndSearch, AfterDrop
<1>1. QueryTypeOK'
  BY DEF Phases, Starting, Ending
<1>2. LockPart' /\ MarkerPart' /\ RetirePart' /\ AlonePart'
  BY DEF LockPart, MarkerPart, RetirePart, Least, AlonePart
<1>3. RecoverPart'
  BY RecoverKept DEF SearchPart
<1>4. SearchPart'
  BY DEF SearchPart
<1>5. StartsBesideOthers'
  BY DEF StartsBesideOthers
<1> QED
  BY <1>1, <1>2, <1>3, <1>4, <1>5

\* Drop for Worker.
LEMMA StopStep ==
    ASSUME QueryIInv, NEW l \in Lives, Stop(l)
    PROVE  QueryIInv'
<1> USE DEF QueryIInv, QueryTypeOK, Stop, Goes, AfterDrop
<1>1. QueryTypeOK'
  BY DEF Phases, Starting, Ending
<1>2. LockPart'
  BY DEF LockPart, UnderLock
<1>3. MarkerPart'
  BY DEF MarkerPart, WithMarker
<1>4. RetirePart'
  BY DEF RetirePart, Least
<1>5. AlonePart'
  BY DEF AlonePart
<1>6. RecoverPart'
  BY RecoverKept DEF WithMarker
<1>7. SearchPart'
  BY DEF SearchPart
<1>8. StartsBesideOthers'
  BY DEF StartsBesideOthers
<1> QED
  BY <1>1, <1>2, <1>3, <1>4, <1>5, <1>6, <1>7, <1>8

\* Drop for QueryActiveMarker closes its handle.
LEMMA CloseMarkerStep ==
    ASSUME QueryIInv, NEW l \in Lives, CloseMarker(l)
    PROVE  QueryIInv'
<1> USE DEF QueryIInv, QueryTypeOK, CloseMarker, Goes
<1>1. QueryTypeOK'
  BY DEF Phases, Starting, Ending
<1>2. LockPart'
  BY DEF LockPart, UnderLock
<1>3. MarkerPart'
  BY DEF MarkerPart, WithMarker
<1>4. RetirePart'
  BY DEF RetirePart, Least
<1>5. AlonePart'
  BY DEF AlonePart
<1>6. RecoverPart'
  BY RecoverKept DEF WithMarker
<1>7. SearchPart'
  BY DEF SearchPart
<1>8. StartsBesideOthers'
  BY DEF StartsBesideOthers
<1> QED
  BY <1>1, <1>2, <1>3, <1>4, <1>5, <1>6, <1>7, <1>8

\* Drop for QueryActiveMarker removes its file, without the lock.
LEMMA UnmarkStep ==
    ASSUME QueryIInv, NEW l \in Lives, Unmark(l)
    PROVE  QueryIInv'
<1> USE DEF QueryIInv, QueryTypeOK, Unmark, Goes, Returns
<1>1. QueryTypeOK'
  BY QueryScratchAssumption DEF Phases, Starting, Ending
<1>2. LockPart'
  BY DEF LockPart, UnderLock
<1>3. MarkerPart'
  BY DEF MarkerPart, WithMarker
<1>4. RetirePart'
  BY DEF RetirePart, Least
<1>5. AlonePart'
  BY DEF AlonePart
<1>6. RecoverPart'
  BY RecoverKept DEF WithMarker
<1>7. SearchPart'
  BY DEF SearchPart
<1>8. StartsBesideOthers'
  BY DEF StartsBesideOthers
<1> QED
  BY <1>1, <1>2, <1>3, <1>4, <1>5, <1>6, <1>7, <1>8

\* The process ends.
LEMMA CrashWorkerStep ==
    ASSUME QueryIInv, NEW l \in Lives, CrashWorker(l)
    PROVE  QueryIInv'
<1> USE DEF QueryIInv, QueryTypeOK, CrashWorker, Goes, Returns
<1>1. QueryTypeOK'
  BY QueryScratchAssumption DEF Phases, Starting, Ending
<1>2. LockPart'
  BY DEF LockPart, UnderLock
<1>3. MarkerPart'
  BY DEF MarkerPart, WithMarker
<1>4. RetirePart'
  BY DEF RetirePart, Least
<1>5. AlonePart'
  BY DEF AlonePart
<1>6. RecoverPart'
  BY RecoverKept DEF WithMarker
<1>7. SearchPart'
  BY DEF SearchPart
<1>8. StartsBesideOthers'
  BY DEF StartsBesideOthers
<1> QED
  BY <1>1, <1>2, <1>3, <1>4, <1>5, <1>6, <1>7, <1>8

\* Every step of every worker, and of the programs that open files.
LEMMA QueryStepIInv == QueryIInv /\ [QueryNext]_queryVars => QueryIInv'
<1> SUFFICES ASSUME QueryIInv, [QueryNext]_queryVars PROVE QueryIInv'
  OBVIOUS
<1>1. ASSUME NEW l \in Lives, QuerySteps(l) PROVE QueryIInv'
  BY <1>1, StartStep, AcquireLockStep, LockBusyStep, ProbeStep,
     RemoveMarkerStep, MakeMarkerStep, RecoverStep, ReadyStep, NewSearchStep,
     WriteStep, EndSearchStep, StopStep, CloseMarkerStep, UnmarkStep,
     CrashWorkerStep
  DEF QuerySteps
<1>2. ASSUME /\ UNCHANGED <<phase, startLock, tries, todo, alone, marker, hits,
                            searching, reason>>
             /\ outsider' \in {<<>>} \cup ({"marker", "hits"} \X Lives)
      PROVE QueryIInv'
  BY <1>2
  DEF QueryIInv, QueryTypeOK, LockPart, MarkerPart, RetirePart, Least,
      AlonePart, RecoverPart, SearchPart, StartsBesideOthers
<1>3. OutsiderOpens \/ OutsiderCloses \/ UNCHANGED queryVars => QueryIInv'
  BY <1>2
  DEF OutsiderOpens, OutsiderCloses, queryVars, QueryIInv, QueryTypeOK
<1> QED
  BY <1>1, <1>3 DEF QueryNext

\* Recovery never deletes the file of a search that is running
\* (prepare_query_scratch), for any number of workers, any number of attempts
\* at the lock, and a crash at every step.
THEOREM RecoverySparesTheLive == QuerySpec => [](QueryTypeOK /\ SearchKeepsItsFile)
<1>1. QueryIInv => QueryTypeOK /\ SearchKeepsItsFile
  BY DEF QueryIInv, SearchPart, SearchKeepsItsFile
<1> QED
  BY <1>1, QueryInitIInv, QueryStepIInv, PTL DEF QuerySpec

\* A start of one worker fails only for the lock or for a file that another
\* program holds open, whatever the other workers start, stop or crash in
\* between: two starts never fail each other (prepare_query_scratch).
THEOREM StartsSucceedBesideOthers == QuerySpec => []StartsBesideOthers
<1>1. QueryIInv => StartsBesideOthers
  BY DEF QueryIInv
<1> QED
  BY <1>1, QueryInitIInv, QueryStepIInv, PTL DEF QuerySpec

-----------------------------------------------------------------------------
(* The directories of sorts.                                                 *)

Stages == {"unborn", "bare", "live", "unlocked", "gone"}

\* The part of the types the argument needs.
ScratchShape ==
    /\ judged \in [Processes -> SUBSET Owners]
    /\ stage \in [Owners -> Stages]
    /\ exists \in [Owners -> BOOLEAN]
    /\ DOMAIN pending = Processes
    /\ DOMAIN size = Owners /\ DOMAIN charge = Owners

\* A directory whose lock file could be opened has no owner any more, and
\* names are never used twice (recover_stale_sort_files).
JudgedPart ==
    \A p \in Processes : \A o \in judged[p] : stage[o] \in {"unlocked", "gone"}

\* The queue of deferred deletions holds directories of dropped owners.
PendingPart ==
    \A p \in Processes : \A o \in Owners :
        o \in DOMAIN pending[p] => stage[o] = "gone"

\* Before its lock file is made a directory has no entry called owner.lock that
\* recovery could open, and none of its own open; and it stays.
BarePart ==
    \A o \in Owners :
        /\ stage[o] \in {"unborn", "bare"} =>
              "lock" \notin DOMAIN size[o] /\ Open(o) = {}
        /\ stage[o] = "bare" => exists[o]

ScratchIInv ==
    /\ ScratchShape
    /\ JudgedPart
    /\ PendingPart
    /\ BarePart
    /\ LiveFilesStay


\* Names are never used twice, so directories are told apart by number, and
\* no scratch file is called owner.lock.
LEMMA NamesShape ==
    /\ \A o \in Owners : o \in Nat
    /\ "lock" \notin Files
BY SortScratchAssumption DEF Owners

LEMMA WithoutShape ==
    ASSUME NEW f, NEW S PROVE DOMAIN Without(f, S) = DOMAIN f \ S
BY DEF Without, Restrict

LEMMA AddedShape ==
    ASSUME NEW f, NEW k, NEW n PROVE DOMAIN Added(f, k, n) = DOMAIN f \cup {k}
BY DEF Added

\* Before any process sorts.
LEMMA ScratchInitIInv == SortInit => ScratchIInv
<1>1. DOMAIN Nothing = {}
  BY DEF Nothing
<1> QED
  BY <1>1
  DEF SortInit, ScratchIInv, ScratchShape, Stages, JudgedPart, PendingPart,
      BarePart, LiveFilesStay, Open

\* Steps that decide nothing about a directory: the start and the end of
\* recovery, a charge, a write, another program's grip.
LEMMA IdleStep ==
    ASSUME ScratchIInv, UNCHANGED <<judged, pending, stage, exists>>,
           DOMAIN size' = Owners, DOMAIN charge' = Owners,
           \A o \in Owners : /\ DOMAIN size'[o] = DOMAIN size[o]
                             /\ DOMAIN charge'[o] = DOMAIN charge[o]
    PROVE  ScratchIInv'
BY DEF ScratchIInv, ScratchShape, JudgedPart, PendingPart, BarePart,
       LiveFilesStay, Open

LEMMA BlockStep ==
    ASSUME ScratchIInv, NEW o \in Owners, NEW f \in Files,
           Grow(o, f) \/ WriteOut(o, f)
    PROVE  ScratchIInv'
<1>1. /\ UNCHANGED <<judged, pending, stage, exists>>
      /\ DOMAIN size' = Owners /\ DOMAIN charge' = Owners
      /\ \A n \in Owners : /\ DOMAIN size'[n] = DOMAIN size[n]
                           /\ DOMAIN charge'[n] = DOMAIN charge[n]
  BY DEF Grow, WriteOut, ScratchIInv, ScratchShape
<1> QED
  BY <1>1, IdleStep

\* A lock file that opens belongs to nobody: it was made, and its owner has
\* dropped it or died.
LEMMA JudgeStep ==
    ASSUME ScratchIInv, NEW p \in Processes, NEW o \in Owners, Judge(p, o)
    PROVE  ScratchIInv'
<1> USE DEF ScratchIInv, ScratchShape, Judge
<1>1. LockOpens(o) => stage[o] \in {"unlocked", "gone"}
  BY DEF LockOpens, LockIsOpen, BarePart, Stages
<1>2. JudgedPart'
  BY <1>1 DEF JudgedPart
<1>3. PendingPart' /\ BarePart' /\ LiveFilesStay'
  BY DEF PendingPart, BarePart, LiveFilesStay, Open
<1> QED
  BY <1>2, <1>3

\* remove_stale_owner takes files only from a directory that was judged.
LEMMA SweepStep ==
    ASSUME ScratchIInv, NEW p \in Processes, NEW o \in Owners, Sweep(p, o)
    PROVE  ScratchIInv'
<1> USE DEF ScratchIInv, ScratchShape
<1>1. /\ stage[o] \in {"unlocked", "gone"}
      /\ \A n \in Owners \ {o} : size'[n] = size[n] /\ exists'[n] = exists[n]
      /\ DOMAIN size' = Owners /\ exists' \in [Owners -> BOOLEAN]
      /\ judged' = [judged EXCEPT ![p] = {}]
      /\ UNCHANGED <<stage, pending, charge>>
  BY DEF Sweep, JudgedPart
<1>2. ScratchShape' /\ JudgedPart' /\ PendingPart'
  BY <1>1 DEF JudgedPart, PendingPart
<1>3. BarePart' /\ LiveFilesStay'
  BY <1>1 DEF BarePart, LiveFilesStay, Open
<1> QED
  BY <1>2, <1>3

\* remove_dir_all of directories whose owners are gone, or going, leaves the
\* others as they are.
LEMMA RemainingShape ==
    ASSUME ScratchIInv, NEW S
    PROVE  /\ DOMAIN Remaining(S) = Owners
           /\ Standing(S) \in [Owners -> BOOLEAN]
           /\ \A n \in Owners : DOMAIN Remaining(S)[n] \subseteq DOMAIN size[n]
           /\ \A n \in Owners \ S : /\ Remaining(S)[n] = size[n]
                                    /\ Standing(S)[n] = exists[n]
<1>1. DOMAIN Remaining(S) = Owners /\ Standing(S) \in [Owners -> BOOLEAN]
  BY DEF ScratchIInv, ScratchShape, Remaining, Standing
<1>2. ASSUME NEW n \in Owners, n \in S
      PROVE  DOMAIN Remaining(S)[n] \subseteq DOMAIN size[n]
  <2>1. Remaining(S)[n] = Without(size[n], Deleted(n))
    BY <1>2 DEF Remaining
  <2>2. DOMAIN Remaining(S)[n] = DOMAIN size[n] \ Deleted(n)
    BY <2>1, WithoutShape
  <2> QED
    BY <2>2
<1>3. ASSUME NEW n \in Owners, n \notin S
      PROVE  Remaining(S)[n] = size[n] /\ Standing(S)[n] = exists[n]
  BY <1>3 DEF ScratchIInv, ScratchShape, Remaining, Standing
<1> QED
  BY <1>1, <1>2, <1>3

\* retry_cleanup before Owner::create: only dropped owners are in the queue.
LEMMA MakeDirectoryStep ==
    ASSUME ScratchIInv, NEW p \in Processes, NEW o \in Owners,
           MakeDirectory(p, o)
    PROVE  ScratchIInv'
<1> USE DEF ScratchIInv, ScratchShape
<1> DEFINE S == DOMAIN pending[p]
<1>1. /\ size' = Remaining(S) /\ exists' = [Standing(S) EXCEPT ![o] = TRUE]
      /\ stage[o] = "unborn" /\ stage' = [stage EXCEPT ![o] = "bare"]
      /\ UNCHANGED <<judged, charge>>
      /\ pending' = [pending EXCEPT ![p] = Without(@, Cleaned(p))]
  BY DEF MakeDirectory
<1>2. \A n \in Owners : n \in S => stage[n] = "gone"
  BY DEF PendingPart
<1> HIDE DEF S
<1>3. /\ \A n \in Owners : DOMAIN size'[n] \subseteq DOMAIN size[n]
      /\ \A n \in Owners \ S : size'[n] = size[n]
      /\ \A n \in Owners \ S : exists'[n] = (exists[n] \/ n = o)
      /\ DOMAIN size' = Owners /\ exists' \in [Owners -> BOOLEAN]
  <2>1. Standing(S) \in [Owners -> BOOLEAN] /\ DOMAIN size' = Owners
    BY <1>1, RemainingShape
  <2>2. /\ \A n \in Owners : DOMAIN size'[n] \subseteq DOMAIN size[n]
        /\ \A n \in Owners \ S : /\ size'[n] = size[n]
                                 /\ Standing(S)[n] = exists[n]
    BY <1>1, RemainingShape
  <2> QED
    BY <1>1, <2>1, <2>2
<1>4. \A q \in Processes : DOMAIN pending'[q] \subseteq DOMAIN pending[q]
  <2>1. pending'[p] = Without(pending[p], Cleaned(p))
    BY <1>1
  <2>2. DOMAIN pending'[p] = DOMAIN pending[p] \ Cleaned(p)
    BY <2>1, WithoutShape
  <2> QED
    BY <1>1, <2>2
<1>5. ScratchShape'
  BY <1>1, <1>3 DEF Stages
<1>6. JudgedPart'
  BY <1>1 DEF JudgedPart
<1>7. PendingPart'
  BY <1>1, <1>4 DEF PendingPart
<1>8. BarePart'
  BY <1>1, <1>2, <1>3 DEF BarePart, Open
<1>9. LiveFilesStay'
  BY <1>1, <1>2, <1>3 DEF LiveFilesStay, Open
<1> QED
  BY <1>5, <1>6, <1>7, <1>8, <1>9

\* The lock file makes a directory's owner live; no file is open in it yet.
LEMMA MakeLockStep ==
    ASSUME ScratchIInv, NEW o \in Owners, MakeLock(o)
    PROVE  ScratchIInv'
<1> USE DEF ScratchIInv, ScratchShape, MakeLock
<1>1. ScratchShape'
  BY DEF Stages
<1>2. JudgedPart' /\ PendingPart'
  BY DEF JudgedPart, PendingPart
<1>3. BarePart'
  BY DEF BarePart, Open
<1>4. LiveFilesStay'
  BY DEF LiveFilesStay, BarePart, Open
<1> QED
  BY <1>1, <1>2, <1>3, <1>4

\* DiskFile::create
LEMMA MakeFileStep ==
    ASSUME ScratchIInv, NEW o \in Owners, NEW f \in Files, MakeFile(o, f)
    PROVE  ScratchIInv'
<1> USE DEF ScratchIInv, ScratchShape
<1>1. /\ size' = [size EXCEPT ![o] = Added(@, f, 0)]
      /\ charge' = [charge EXCEPT ![o] = Added(@, f, 0)]
      /\ stage[o] = "live" /\ UNCHANGED <<judged, pending, stage, exists>>
  BY DEF MakeFile
<1>2. /\ \A n \in Owners \ {o} : size'[n] = size[n] /\ charge'[n] = charge[n]
      /\ DOMAIN size'[o] = DOMAIN size[o] \cup {f}
      /\ DOMAIN charge'[o] = DOMAIN charge[o] \cup {f}
  BY <1>1, AddedShape
<1>3. ScratchShape' /\ JudgedPart' /\ PendingPart'
  BY <1>1 DEF JudgedPart, PendingPart
<1>4. BarePart' /\ LiveFilesStay'
  BY <1>1, <1>2 DEF BarePart, LiveFilesStay, Open
<1> QED
  BY <1>3, <1>4

\* Drop for DiskFile: what leaves the directory is open no more.
LEMMA DropFileStep ==
    ASSUME ScratchIInv, NEW o \in Owners, NEW f \in Files, DropFile(o, f)
    PROVE  ScratchIInv'
<1> USE DEF ScratchIInv, ScratchShape
<1>1. /\ charge' = [charge EXCEPT ![o] = Without(@, {f})]
      /\ UNCHANGED <<judged, pending, stage, exists>>
  BY DEF DropFile
<1>2. /\ \A n \in Owners \ {o} : charge'[n] = charge[n]
      /\ DOMAIN charge'[o] = DOMAIN charge[o] \ {f}
  BY <1>1, WithoutShape
<1>3. \/ size' = [size EXCEPT ![o] = Without(@, {f})]
      \/ size' = [size EXCEPT ![o] = [e \in DOMAIN @ |->
                     IF e = f THEN charge[o][f] ELSE @[e]]]
  BY DEF DropFile
<1>4. /\ DOMAIN size' = Owners
      /\ \A n \in Owners \ {o} : size'[n] = size[n]
      /\ DOMAIN size'[o] \subseteq DOMAIN size[o]
      /\ DOMAIN size[o] \ {f} \subseteq DOMAIN size'[o]
  <2>1. CASE size' = [size EXCEPT ![o] = Without(@, {f})]
    <3>1. size'[o] = Without(size[o], {f})
      BY <2>1
    <3>2. DOMAIN size'[o] = DOMAIN size[o] \ {f}
      BY <3>1, WithoutShape
    <3> QED
      BY <2>1, <3>2
  <2>2. CASE size' = [size EXCEPT ![o] = [e \in DOMAIN @ |->
                         IF e = f THEN charge[o][f] ELSE @[e]]]
    BY <2>2
  <2> QED
    BY <1>3, <2>1, <2>2
<1>5. ScratchShape' /\ JudgedPart' /\ PendingPart'
  BY <1>1, <1>4 DEF JudgedPart, PendingPart
<1>6. BarePart'
  BY <1>1, <1>2, <1>4 DEF BarePart, Open
<1>7. LiveFilesStay'
  BY <1>1, <1>2, <1>4, NamesShape DEF LiveFilesStay, Open
<1> QED
  BY <1>5, <1>6, <1>7

\* Drop for Owner releases the lock first.
LEMMA UnlockStep ==
    ASSUME ScratchIInv, NEW o \in Owners, Unlock(o)
    PROVE  ScratchIInv'
BY DEF ScratchIInv, ScratchShape, Stages, JudgedPart, PendingPart, BarePart,
       LiveFilesStay, Open, Unlock

\* ... and then removes its own directory, or leaves it to the queue.
LEMMA DropOwnerStep ==
    ASSUME ScratchIInv, NEW o \in Owners, DropOwner(o)
    PROVE  ScratchIInv'
<1> USE DEF ScratchIInv, ScratchShape
<1>1. /\ size' = Remaining({o}) /\ exists' = Standing({o})
      /\ stage[o] = "unlocked" /\ stage' = [stage EXCEPT ![o] = "gone"]
      /\ UNCHANGED <<judged, charge>>
  BY DEF DropOwner
<1>2. /\ \A n \in Owners : DOMAIN size'[n] \subseteq DOMAIN size[n]
      /\ \A n \in Owners \ {o} : size'[n] = size[n] /\ exists'[n] = exists[n]
      /\ DOMAIN size' = Owners /\ exists' \in [Owners -> BOOLEAN]
  BY <1>1, RemainingShape
<1>3. \/ UNCHANGED pending
      \/ pending' = [pending EXCEPT ![proc[o]] = Added(@, o, retained[o])]
  BY DEF DropOwner, Defer
<1>4. /\ DOMAIN pending' = Processes
      /\ \A q \in Processes :
            DOMAIN pending'[q] \subseteq DOMAIN pending[q] \cup {o}
  <2>1. CASE pending' = [pending EXCEPT ![proc[o]] = Added(@, o, retained[o])]
    <3>1. ASSUME NEW q \in Processes
          PROVE  DOMAIN pending'[q] \subseteq DOMAIN pending[q] \cup {o}
      <4>1. CASE q = proc[o]
        <5>1. pending'[q] = Added(pending[q], o, retained[o])
          BY <2>1, <4>1
        <5>2. DOMAIN pending'[q] = DOMAIN pending[q] \cup {o}
          BY <5>1 DEF Added
        <5> QED
          BY <5>2
      <4>2. CASE q # proc[o]
        BY <2>1, <4>2
      <4> QED
        BY <4>1, <4>2
    <3> QED
      BY <2>1, <3>1
  <2> QED
    BY <1>3, <2>1
<1>5. ScratchShape' /\ JudgedPart'
  BY <1>1, <1>2, <1>4 DEF Stages, JudgedPart
<1>6. PendingPart'
  BY <1>1, <1>4 DEF PendingPart
<1>7. BarePart' /\ LiveFilesStay'
  BY <1>1, <1>2 DEF BarePart, LiveFilesStay, Open
<1> QED
  BY <1>5, <1>6, <1>7

\* The process exits or crashes with all its owners; what they had stays.
LEMMA EndProcessStep ==
    ASSUME ScratchIInv, NEW p \in Processes, EndProcess(p)
    PROVE  ScratchIInv'
<1> USE DEF ScratchIInv, ScratchShape, EndProcess
<1>1. DOMAIN Nothing = {}
  BY DEF Nothing
<1>2. ScratchShape'
  BY DEF Stages
<1>3. JudgedPart'
  BY DEF JudgedPart
<1>4. PendingPart'
  BY <1>1 DEF PendingPart
<1>5. BarePart' /\ LiveFilesStay'
  BY <1>1 DEF BarePart, LiveFilesStay, Open
<1> QED
  BY <1>2, <1>3, <1>4, <1>5

LEMMA ScratchStepIInv == ScratchIInv /\ [SortNext]_sortVars => ScratchIInv'
<1> SUFFICES ASSUME ScratchIInv, [SortNext]_sortVars PROVE ScratchIInv'
  OBVIOUS
<1>1. ASSUME NEW p \in Processes, SortSteps(p) PROVE ScratchIInv'
  <2>1. FirstSort(p) \/ Recovered(p) => ScratchIInv'
    BY IdleStep DEF FirstSort, Recovered, ScratchIInv, ScratchShape
  <2> QED
    BY <1>1, <2>1, EndProcessStep, JudgeStep, SweepStep, MakeDirectoryStep
    DEF SortSteps
<1>2. ASSUME NEW o \in Owners, OwnerSteps(o) PROVE ScratchIInv'
  BY <1>2, MakeLockStep, UnlockStep, DropOwnerStep, MakeFileStep, BlockStep,
     DropFileStep
  DEF OwnerSteps
<1>3. Grip \/ LetGo \/ UNCHANGED sortVars => ScratchIInv'
  BY IdleStep DEF Grip, LetGo, sortVars, ScratchIInv, ScratchShape
<1> QED
  BY <1>1, <1>2, <1>3 DEF SortNext

\* No step of recovery, of a retried deletion or of another owner's drop takes
\* a file from an owner that lives, whatever other programs hold and whichever
\* processes end: for any number of processes and directories.
THEOREM LiveOwnersKeepTheirFiles == ScratchSpec => []LiveFilesStay
<1>1. ScratchIInv => LiveFilesStay
  BY DEF ScratchIInv
<1> QED
  BY <1>1, ScratchInitIInv, ScratchStepIInv, PTL DEF ScratchSpec

-----------------------------------------------------------------------------
(* Sums of functions, as the fold of the community modules computes them.     *)

\* Induction over the numbers, for a set S: there is no least number outside it.
LEMMA NumbersByInduction ==
    ASSUME NEW S, 0 \in S, \A n \in Nat : n \in S => n + 1 \in S
    PROVE  Nat \subseteq S
<1> DEFINE left == {n \in Nat : n \notin S}
<1>1. SUFFICES left = {}
  OBVIOUS
<1>2. SUFFICES ASSUME left # {} PROVE FALSE
  OBVIOUS
<1>3. PICK k \in left : \A j \in left : ~ (<<j, k>> \in OpToRel(<, Nat))
  BY <1>2, WFMin, NatLessThanWellFounded, Zenon
<1>4. \A j \in left : ~ (j < k)
  BY <1>3 DEF OpToRel
<1>5. k # 0 /\ k - 1 \in Nat
  OBVIOUS
<1>6. k - 1 \in S
  BY <1>4, <1>5
<1> QED
  BY <1>5, <1>6

\* Induction over the parts of a finite set: a family that has {} and a set
\* whenever it has the set without any one of its elements has every part.
LEMMA PartsByInduction ==
    ASSUME NEW D, IsFiniteSet(D), NEW F, {} \in F,
           \A s \in SUBSET D : s # {} /\ (\A x \in s : s \ {x} \in F) => s \in F
    PROVE  SUBSET D \subseteq F
<1> DEFINE N == {n \in Nat : \A s \in SUBSET D : Cardinality(s) = n => s \in F}
<1>1. \A s \in SUBSET D : IsFiniteSet(s) /\ Cardinality(s) \in Nat
  BY FS_Subset, FS_CardinalityType
<1>2. 0 \in N
  BY <1>1, FS_EmptySet
<1>3. ASSUME NEW n \in Nat, n \in N PROVE n + 1 \in N
  <2>1. SUFFICES ASSUME NEW s \in SUBSET D, Cardinality(s) = n + 1 PROVE s \in F
    OBVIOUS
  <2>2. s # {}
    <3>1. Cardinality({}) = 0
      BY FS_EmptySet
    <3> QED
      BY <2>1, <3>1
  <2>3. ASSUME NEW x \in s PROVE s \ {x} \in F
    <3>1. Cardinality(s \ {x}) = n
      BY <1>1, <2>1, FS_RemoveElement
    <3> QED
      BY <1>3, <3>1
  <2> QED
    BY <2>2, <2>3
<1> HIDE DEF N
<1>4. Nat \subseteq N
  BY <1>2, <1>3, NumbersByInduction
<1> QED
  BY <1>1, <1>4 DEF N

\* The element the fold takes next.
Pick(s) == CHOOSE x \in s : TRUE

\* The running sums of f over the parts of D.
IsSum(g, f, D) ==
    g = [s \in SUBSET D |-> IF s = {} THEN 0 ELSE f[Pick(s)] + g[s \ {Pick(s)}]]

LEMMA TotalIsFold ==
    ASSUME NEW f
    PROVE  Total(f) = (CHOOSE g : IsSum(g, f, DOMAIN f))[DOMAIN f]
BY DEF Total, FoldFunction, FoldFunctionOnSet, MapThenFoldSet, IsSum, Pick

LEMMA PickShape == ASSUME NEW s, s # {} PROVE Pick(s) \in s
BY DEF Pick

\* Running sums of a finite function exist.
LEMMA SumExists ==
    ASSUME NEW D, IsFiniteSet(D), NEW f PROVE \E g : IsSum(g, f, D)
<1> DEFINE Small(n) == {s \in SUBSET D : Cardinality(s) <= n}
<1> DEFINE Next(g, s) == IF s = {} THEN 0 ELSE f[Pick(s)] + g[s \ {Pick(s)}]
<1> DEFINE UpTo(g, n) == g = [s \in Small(n) |-> Next(g, s)]
<1> DEFINE N == {n \in Nat : \E g : UpTo(g, n)}
<1>1. \A s \in SUBSET D : /\ IsFiniteSet(s) /\ Cardinality(s) \in Nat
                          /\ Cardinality(s) = 0 <=> s = {}
  BY FS_Subset, FS_CardinalityType, FS_EmptySet
<1>2. \A s \in SUBSET D : s # {} =>
          s \ {Pick(s)} \in SUBSET D /\ Cardinality(s \ {Pick(s)}) = Cardinality(s) - 1
  BY <1>1, PickShape, FS_RemoveElement
<1>3. 0 \in N
  <2>1. \A s \in Small(0) : s = {}
    BY <1>1
  <2> DEFINE g == [s \in Small(0) |-> 0]
  <2>2. UpTo(g, 0)
    BY <2>1
  <2> QED
    BY <2>2
<1>4. ASSUME NEW n \in Nat, n \in N PROVE n + 1 \in N
  <2>1. PICK g : UpTo(g, n)
    BY <1>4
  <2> DEFINE h == [s \in Small(n + 1) |->
                      IF Cardinality(s) <= n THEN g[s] ELSE Next(g, s)]
  <2>2. ASSUME NEW s \in Small(n + 1) PROVE h[s] = Next(h, s)
    <3>1. CASE s = {}
      BY <3>1, <2>1, <1>1
    <3>2. CASE s # {}
      <4>1. s \ {Pick(s)} \in Small(n) /\ s \ {Pick(s)} \in Small(n + 1)
        BY <3>2, <1>1, <1>2
      <4>2. h[s \ {Pick(s)}] = g[s \ {Pick(s)}]
        BY <4>1
      <4>3. h[s] = Next(g, s)
        <5>1. CASE Cardinality(s) <= n
          BY <5>1, <2>1
        <5> QED
          BY <5>1
      <4> QED
        BY <4>2, <4>3, <3>2
    <3> QED
      BY <3>1, <3>2
  <2>3. UpTo(h, n + 1)
    BY <2>2
  <2> HIDE DEF h, UpTo
  <2>4. \E k : UpTo(k, n + 1)
    BY <2>3
  <2> QED
    BY <2>4
<1>5. Cardinality(D) \in N
  <2> HIDE DEF N
  <2>1. Nat \subseteq N
    BY <1>3, <1>4, NumbersByInduction
  <2> QED
    BY <2>1, FS_CardinalityType
<1>6. Small(Cardinality(D)) = SUBSET D
  BY <1>1, FS_Subset
<1> QED
  BY <1>5, <1>6 DEF IsSum

\* What running sums are at each part, and that they are numbers.
LEMMA SumAt ==
    ASSUME NEW D, NEW f, NEW g, IsSum(g, f, D)
    PROVE  /\ g[{}] = 0
           /\ \A s \in SUBSET D : s # {} => g[s] = f[Pick(s)] + g[s \ {Pick(s)}]
<1> DEFINE body(s) == IF s = {} THEN 0 ELSE f[Pick(s)] + g[s \ {Pick(s)}]
<1>1. \A s \in SUBSET D : g[s] = body(s)
  BY DEF IsSum
<1> QED
  BY <1>1

LEMMA SumIsNumber ==
    ASSUME NEW D, IsFiniteSet(D), NEW f \in [D -> Int], NEW g, IsSum(g, f, D)
    PROVE  \A s \in SUBSET D : g[s] \in Int
<1> DEFINE F == {s \in SUBSET D : g[s] \in Int}
<1>1. {} \in F
  BY SumAt
<1>2. ASSUME NEW s \in SUBSET D, s # {}, \A x \in s : s \ {x} \in F PROVE s \in F
  <2>1. Pick(s) \in s
    BY <1>2, PickShape
  <2>2. g[s] = f[Pick(s)] + g[s \ {Pick(s)}]
    BY <1>2, SumAt
  <2>3. f[Pick(s)] \in Int /\ g[s \ {Pick(s)}] \in Int
    BY <2>1, <1>2
  <2> QED
    BY <2>2, <2>3
<1> HIDE DEF F
<1>3. SUBSET D \subseteq F
  BY <1>1, <1>2, PartsByInduction
<1> QED
  BY <1>3 DEF F

\* Any element of a part can be the one taken first.
Takes(g, f, D) ==
    \A s \in SUBSET D : \A x \in s : g[s] = f[x] + g[s \ {x}]

\* The order in which a sum is taken does not matter.
LEMMA SumTakes ==
    ASSUME NEW D, IsFiniteSet(D), NEW f \in [D -> Int], NEW g, IsSum(g, f, D)
    PROVE  Takes(g, f, D)
<1> DEFINE F == {s \in SUBSET D : \A x \in s : g[s] = f[x] + g[s \ {x}]}
<1>1. {} \in F
  OBVIOUS
<1>2. ASSUME NEW s \in SUBSET D, s # {}, \A x \in s : s \ {x} \in F PROVE s \in F
  <2> SUFFICES ASSUME NEW x \in s PROVE g[s] = f[x] + g[s \ {x}]
    OBVIOUS
  <2> DEFINE y == Pick(s)
  <2>1. y \in s
    BY <1>2, PickShape
  <2>2. g[s] = f[y] + g[s \ {y}]
    BY <1>2, SumAt
  <2> HIDE DEF y
  <2>3. CASE x = y
    BY <2>2, <2>3
  <2>4. CASE x # y
    <3>1. (s \ {y}) \ {x} = (s \ {x}) \ {y}
      OBVIOUS
    <3>2. g[s \ {y}] = f[x] + g[(s \ {y}) \ {x}]
      BY <1>2, <2>1, <2>4
    <3>3. g[s \ {x}] = f[y] + g[(s \ {x}) \ {y}]
      BY <1>2, <2>1, <2>4
    <3> DEFINE rest == (s \ {x}) \ {y}
    <3>4. g[s \ {y}] = f[x] + g[rest] /\ g[s \ {x}] = f[y] + g[rest]
      BY <3>1, <3>2, <3>3
    <3>5. rest \in SUBSET D
      OBVIOUS
    <3>6. f[x] \in Int /\ f[y] \in Int /\ g[rest] \in Int
      BY <2>1, <3>5, SumIsNumber
    <3> HIDE DEF rest
    <3> QED
      BY <2>2, <3>4, <3>6
  <2> QED
    BY <2>3, <2>4
<1> HIDE DEF F
<1>3. SUBSET D \subseteq F
  BY <1>1, <1>2, PartsByInduction
<1> QED
  BY <1>3 DEF F, Takes

\* Functions that agree on a set have the same sum over it.
LEMMA SumsAgree ==
    ASSUME NEW D, NEW E, NEW S, IsFiniteSet(S), S \subseteq D, S \subseteq E,
           NEW f, NEW h, \A x \in S : f[x] = h[x],
           NEW g, IsSum(g, f, D), NEW k, IsSum(k, h, E)
    PROVE  g[S] = k[S]
<1> DEFINE F == {s \in SUBSET S : g[s] = k[s]}
<1>1. {} \in F
  BY SumAt
<1>2. ASSUME NEW s \in SUBSET S, s # {}, \A x \in s : s \ {x} \in F PROVE s \in F
  <2>1. Pick(s) \in s
    BY <1>2, PickShape
  <2>2. s \in SUBSET D /\ s \in SUBSET E
    OBVIOUS
  <2>3. g[s] = f[Pick(s)] + g[s \ {Pick(s)}]
    BY <1>2, <2>2, SumAt
  <2>4. k[s] = h[Pick(s)] + k[s \ {Pick(s)}]
    BY <1>2, <2>2, SumAt
  <2>5. f[Pick(s)] = h[Pick(s)] /\ g[s \ {Pick(s)}] = k[s \ {Pick(s)}]
    BY <2>1, <1>2
  <2> QED
    BY <2>3, <2>4, <2>5
<1> HIDE DEF F
<1>3. SUBSET S \subseteq F
  BY <1>1, <1>2, PartsByInduction
<1> QED
  BY <1>3 DEF F

\* A total is a running sum at the whole domain.
LEMMA TotalIsSum ==
    ASSUME NEW D, IsFiniteSet(D), NEW f \in [D -> Int]
    PROVE  \E g : /\ IsSum(g, f, D)
                  /\ Total(f) = g[D]
                  /\ Takes(g, f, D)
<1>1. DOMAIN f = D
  OBVIOUS
<1>2. \E g : IsSum(g, f, D)
  BY SumExists
<1> DEFINE g == CHOOSE k : IsSum(k, f, D)
<1>3. IsSum(g, f, D)
  BY <1>2
<1>4. Total(f) = g[D]
  BY <1>1, TotalIsFold
<1> HIDE DEF g
<1>5. Takes(g, f, D)
  BY <1>3, SumTakes
<1> QED
  BY <1>3, <1>4, <1>5

\* The sum of nothing.
LEMMA TotalEmpty ==
    ASSUME NEW f, DOMAIN f = {} PROVE Total(f) = 0
<1>1. PICK g : IsSum(g, f, {})
  BY SumExists, FS_EmptySet
<1> DEFINE h == CHOOSE k : IsSum(k, f, {})
<1>2. IsSum(h, f, {})
  BY <1>1
<1>3. h[{}] = 0
  <2> HIDE DEF h
  <2> QED
    BY <1>2, SumAt
<1> QED
  BY <1>3, TotalIsFold

LEMMA TotalIsInt ==
    ASSUME NEW D, IsFiniteSet(D), NEW f \in [D -> Int]
    PROVE  Total(f) \in Int
<1>1. PICK g : IsSum(g, f, D) /\ Total(f) = g[D] /\ Takes(g, f, D)
  BY TotalIsSum
<1> QED
  BY <1>1, SumIsNumber

\* A total is any one of its values and the total of the others.
LEMMA TotalTakes ==
    ASSUME NEW D, IsFiniteSet(D), NEW f \in [D -> Int], NEW x \in D,
           NEW E, E = D \ {x}, NEW h \in [E -> Int], \A y \in E : h[y] = f[y]
    PROVE  Total(f) = f[x] + Total(h)
<1>1. IsFiniteSet(E) /\ E \subseteq D /\ E \subseteq E
  BY FS_Subset
<1>2. PICK g : IsSum(g, f, D) /\ Total(f) = g[D] /\ Takes(g, f, D)
  BY TotalIsSum
<1>3. PICK k : IsSum(k, h, E) /\ Total(h) = k[E] /\ Takes(k, h, E)
  BY <1>1, TotalIsSum
<1>4. g[D] = f[x] + g[E]
  BY <1>2 DEF Takes
<1>5. \A y \in E : f[y] = h[y]
  OBVIOUS
<1>6. g[E] = k[E]
  BY <1>1, <1>2, <1>3, <1>5, SumsAgree
<1> QED
  BY <1>2, <1>3, <1>4, <1>6

\* Larger values have a larger total.
LEMMA TotalMonotone ==
    ASSUME NEW D, IsFiniteSet(D), NEW f \in [D -> Int], NEW h \in [D -> Int],
           \A x \in D : f[x] <= h[x]
    PROVE  Total(f) <= Total(h)
<1>1. PICK g : IsSum(g, f, D) /\ Total(f) = g[D] /\ Takes(g, f, D)
  BY TotalIsSum
<1>2. PICK k : IsSum(k, h, D) /\ Total(h) = k[D] /\ Takes(k, h, D)
  BY TotalIsSum
<1> DEFINE F == {s \in SUBSET D : g[s] <= k[s]}
<1>3. {} \in F
  BY <1>1, <1>2, SumAt
<1>4. ASSUME NEW s \in SUBSET D, s # {}, \A x \in s : s \ {x} \in F PROVE s \in F
  <2>1. PICK x : x \in s
    BY <1>4
  <2>2. g[s] = f[x] + g[s \ {x}] /\ k[s] = h[x] + k[s \ {x}]
    BY <1>1, <1>2, <2>1 DEF Takes
  <2>3. s \ {x} \in SUBSET D
    OBVIOUS
  <2>4. g[s \ {x}] \in Int /\ k[s \ {x}] \in Int
    BY <1>1, <1>2, <2>3, SumIsNumber
  <2>5. g[s \ {x}] <= k[s \ {x}] /\ f[x] <= h[x] /\ f[x] \in Int /\ h[x] \in Int
    BY <1>4, <2>1
  <2> QED
    BY <2>2, <2>4, <2>5
<1> HIDE DEF F
<1>5. SUBSET D \subseteq F
  BY <1>3, <1>4, PartsByInduction
<1> QED
  BY <1>1, <1>2, <1>5 DEF F

LEMMA TotalOfZeros ==
    ASSUME NEW D, IsFiniteSet(D), NEW f \in [D -> Int], \A x \in D : f[x] = 0
    PROVE  Total(f) = 0
<1>1. PICK g : IsSum(g, f, D) /\ Total(f) = g[D] /\ Takes(g, f, D)
  BY TotalIsSum
<1> DEFINE F == {s \in SUBSET D : g[s] = 0}
<1>2. {} \in F
  BY <1>1, SumAt
<1>3. ASSUME NEW s \in SUBSET D, s # {}, \A x \in s : s \ {x} \in F PROVE s \in F
  <2>1. PICK x : x \in s
    BY <1>3
  <2>2. g[s] = f[x] + g[s \ {x}]
    BY <1>1, <2>1 DEF Takes
  <2> QED
    BY <1>3, <2>1, <2>2
<1> HIDE DEF F
<1>4. SUBSET D \subseteq F
  BY <1>2, <1>3, PartsByInduction
<1> QED
  BY <1>1, <1>4 DEF F

LEMMA TotalIsNat ==
    ASSUME NEW D, IsFiniteSet(D), NEW f \in [D -> Nat]
    PROVE  Total(f) \in Nat
<1> DEFINE z == [x \in D |-> 0]
<1>1. z \in [D -> Int] /\ f \in [D -> Int] /\ \A x \in D : z[x] <= f[x] /\ z[x] = 0
  OBVIOUS
<1> HIDE DEF z
<1>2. Total(z) <= Total(f) /\ Total(z) = 0 /\ Total(f) \in Int
  BY <1>1, TotalMonotone, TotalOfZeros, TotalIsInt
<1> QED
  BY <1>2

\* The total of sums is the sum of the totals.
LEMMA TotalAdds ==
    ASSUME NEW D, IsFiniteSet(D), NEW e \in [D -> Int], NEW f \in [D -> Int],
           NEW h \in [D -> Int], \A x \in D : e[x] = f[x] + h[x]
    PROVE  Total(e) = Total(f) + Total(h)
<1>1. PICK j : IsSum(j, e, D) /\ Total(e) = j[D] /\ Takes(j, e, D)
  BY TotalIsSum
<1>2. PICK g : IsSum(g, f, D) /\ Total(f) = g[D] /\ Takes(g, f, D)
  BY TotalIsSum
<1>3. PICK k : IsSum(k, h, D) /\ Total(h) = k[D] /\ Takes(k, h, D)
  BY TotalIsSum
<1> DEFINE F == {s \in SUBSET D : j[s] = g[s] + k[s]}
<1>4. {} \in F
  BY <1>1, <1>2, <1>3, SumAt
<1>5. ASSUME NEW s \in SUBSET D, s # {}, \A x \in s : s \ {x} \in F PROVE s \in F
  <2>1. PICK x : x \in s
    BY <1>5
  <2> DEFINE r == s \ {x}
  <2>2. j[s] = e[x] + j[r] /\ g[s] = f[x] + g[r] /\ k[s] = h[x] + k[r]
    BY <1>1, <1>2, <1>3, <2>1 DEF Takes
  <2>3. j[r] = g[r] + k[r] /\ r \in SUBSET D
    BY <1>5, <2>1
  <2>4. g[r] \in Int /\ k[r] \in Int
    BY <1>2, <1>3, <2>3, SumIsNumber
  <2>5. e[x] = f[x] + h[x] /\ f[x] \in Int /\ h[x] \in Int
    BY <2>1
  <2> HIDE DEF r
  <2> QED
    BY <2>2, <2>3, <2>4, <2>5
<1> HIDE DEF F
<1>6. SUBSET D \subseteq F
  BY <1>4, <1>5, PartsByInduction
<1> QED
  BY <1>1, <1>2, <1>3, <1>6 DEF F

\* A total is that of a part of the domain and that of the rest.
LEMMA TotalSplits ==
    ASSUME NEW D, IsFiniteSet(D), NEW S, S \subseteq D, NEW f \in [D -> Int],
           NEW f1 \in [S -> Int], \A x \in S : f1[x] = f[x],
           NEW f2 \in [D \ S -> Int], \A x \in D \ S : f2[x] = f[x]
    PROVE  Total(f) = Total(f1) + Total(f2)
<1> DEFINE R == D \ S
<1>1. IsFiniteSet(S) /\ IsFiniteSet(R) /\ R \subseteq D
  BY FS_Subset
<1>2. PICK g : IsSum(g, f, D) /\ Total(f) = g[D] /\ Takes(g, f, D)
  BY TotalIsSum
<1>3. PICK k1 : IsSum(k1, f1, S) /\ Total(f1) = k1[S] /\ Takes(k1, f1, S)
  BY <1>1, TotalIsSum
<1>4. PICK k2 : IsSum(k2, f2, R) /\ Total(f2) = k2[R] /\ Takes(k2, f2, R)
  BY <1>1, TotalIsSum
<1>5. g[S] = k1[S]
  <2>1. \A x \in S : f[x] = f1[x]
    OBVIOUS
  <2>2. S \subseteq S
    OBVIOUS
  <2> QED
    BY <1>1, <1>2, <1>3, <2>1, <2>2, SumsAgree
<1>6. g[R] = k2[R]
  <2>1. \A x \in R : f[x] = f2[x]
    OBVIOUS
  <2> HIDE DEF R
  <2>2. R \subseteq R
    OBVIOUS
  <2> QED
    BY <1>1, <1>2, <1>4, <2>1, <2>2, SumsAgree
<1> DEFINE F == {s \in SUBSET D : g[s] = g[s \cap S] + g[s \ S]}
<1>7. {} \in F
  <2>1. {} \cap S = {} /\ {} \ S = {} /\ g[{}] = 0
    BY <1>2, SumAt
  <2> QED
    BY <2>1
<1>8. ASSUME NEW s \in SUBSET D, s # {}, \A x \in s : s \ {x} \in F PROVE s \in F
  <2>1. PICK x : x \in s
    BY <1>8
  <2> DEFINE r == s \ {x}
  <2>2. r \in SUBSET D /\ s \cap S \in SUBSET D /\ s \ S \in SUBSET D
        /\ r \cap S \in SUBSET D /\ r \ S \in SUBSET D
    OBVIOUS
  <2>3. g[s] = f[x] + g[r] /\ g[r] = g[r \cap S] + g[r \ S]
    <3>1. g[s] = f[x] + g[r]
      BY <1>2, <2>1 DEF Takes
    <3>2. r \in F
      BY <1>8, <2>1
    <3> QED
      BY <3>1, <3>2
  <2>4. f[x] \in Int /\ g[r \cap S] \in Int /\ g[r \ S] \in Int
    BY <1>2, <2>1, <2>2, SumIsNumber
  <2>5. CASE x \in S
    <3>1. s \ S = r \ S /\ (s \cap S) \ {x} = r \cap S /\ x \in s \cap S
      BY <2>1, <2>5
    <3>2. g[s \cap S] = f[x] + g[(s \cap S) \ {x}]
      BY <1>2, <2>2, <3>1 DEF Takes
    <3> DEFINE a == g[r \cap S]
    <3> DEFINE b == g[r \ S]
    <3>3. g[s] = f[x] + (a + b) /\ g[s \cap S] = f[x] + a /\ g[s \ S] = b
      BY <2>3, <3>1, <3>2
    <3>4. a \in Int /\ b \in Int
      BY <2>4
    <3> HIDE DEF a, b
    <3> QED
      BY <2>4, <3>3, <3>4
  <2>6. CASE x \notin S
    <3>1. s \cap S = r \cap S /\ (s \ S) \ {x} = r \ S /\ x \in s \ S
      BY <2>1, <2>6
    <3>2. g[s \ S] = f[x] + g[(s \ S) \ {x}]
      BY <1>2, <2>2, <3>1 DEF Takes
    <3> DEFINE a == g[r \cap S]
    <3> DEFINE b == g[r \ S]
    <3>3. g[s] = f[x] + (a + b) /\ g[s \cap S] = a /\ g[s \ S] = f[x] + b
      BY <2>3, <3>1, <3>2
    <3>4. a \in Int /\ b \in Int
      BY <2>4
    <3> HIDE DEF a, b
    <3> QED
      BY <2>4, <3>3, <3>4
  <2> QED
    BY <2>5, <2>6
<1> HIDE DEF F
<1>9. SUBSET D \subseteq F
  BY <1>7, <1>8, PartsByInduction
<1>10. D \cap S = S
  OBVIOUS
<1>11. g[D] = g[S] + g[R]
  BY <1>9, <1>10 DEF F
<1> HIDE DEF R
<1> QED
  BY <1>2, <1>3, <1>4, <1>5, <1>6, <1>11

\* Changing one value changes the total by as much.
LEMMA TotalChanges ==
    ASSUME NEW D, IsFiniteSet(D), NEW f \in [D -> Int], NEW h \in [D -> Int],
           NEW x \in D, \A y \in D \ {x} : h[y] = f[y]
    PROVE  Total(h) = (Total(f) - f[x]) + h[x]
<1> DEFINE E == D \ {x}
<1> DEFINE r == [y \in E |-> f[y]]
<1>1. r \in [E -> Int] /\ \A y \in E : r[y] = f[y] /\ r[y] = h[y]
  OBVIOUS
<1>2. IsFiniteSet(E)
  BY FS_Subset
<1>0. E = D \ {x}
  OBVIOUS
<1> HIDE DEF r, E
<1>3. Total(f) = f[x] + Total(r) /\ Total(h) = h[x] + Total(r)
  BY <1>0, <1>1, TotalTakes
<1>4. Total(r) \in Int
  BY <1>1, <1>2, TotalIsInt
<1>5. f[x] \in Int /\ h[x] \in Int
  OBVIOUS
<1> QED
  BY <1>3, <1>4, <1>5

LEMMA TotalOfAdded ==
    ASSUME NEW D, IsFiniteSet(D), NEW f \in [D -> Int], NEW k, k \notin D,
           NEW n \in Int
    PROVE  Total(Added(f, k, n)) = Total(f) + n
<1> DEFINE E == D \cup {k}
<1> DEFINE h == [e \in E |-> IF e = k THEN n ELSE f[e]]
<1>1. Added(f, k, n) = h
  BY DEF Added
<1>2. h \in [E -> Int] /\ h[k] = n /\ k \in E /\ E \ {k} = D
      /\ \A y \in E \ {k} : f[y] = h[y]
  OBVIOUS
<1>3. IsFiniteSet(E)
  BY FS_AddElement
<1> HIDE DEF h, E
<1>4. D = E \ {k} /\ \A y \in D : f[y] = h[y]
  BY <1>2
<1>5. Total(h) = h[k] + Total(f)
  BY <1>2, <1>3, <1>4, TotalTakes
<1>6. Total(f) \in Int
  BY TotalIsInt
<1> QED
  BY <1>1, <1>2, <1>5, <1>6

LEMMA TotalOfWithout ==
    ASSUME NEW D, IsFiniteSet(D), NEW f \in [D -> Int], NEW x \in D
    PROVE  Total(Without(f, {x})) = Total(f) - f[x]
<1> DEFINE h == Without(f, {x})
<1> DEFINE E == D \ {x}
<1>1. h \in [E -> Int] /\ \A y \in E : h[y] = f[y]
  BY DEF Without, Restrict
<1>2. IsFiniteSet(E) /\ E = D \ {x}
  BY FS_Subset
<1> HIDE DEF h, E
<1>3. Total(f) = f[x] + Total(h)
  BY <1>1, <1>2, TotalTakes
<1>4. Total(h) \in Int /\ f[x] \in Int
  BY <1>1, <1>2, TotalIsInt
<1> QED
  BY <1>3, <1>4 DEF h

\* A part of blocks is no more than the whole.
LEMMA TotalOfPart ==
    ASSUME NEW D, IsFiniteSet(D), NEW f \in [D -> Nat], NEW T, T \subseteq D,
           NEW h \in [T -> Int], \A x \in T : h[x] <= f[x]
    PROVE  Total(h) <= Total(f)
<1> DEFINE a == [x \in T |-> f[x]]
<1> DEFINE b == [x \in D \ T |-> f[x]]
<1>1. a \in [T -> Nat] /\ b \in [D \ T -> Nat] /\ f \in [D -> Int]
      /\ a \in [T -> Int] /\ b \in [D \ T -> Int]
      /\ (\A x \in T : a[x] = f[x]) /\ (\A x \in D \ T : b[x] = f[x])
      /\ \A x \in T : h[x] <= a[x]
  OBVIOUS
<1>2. IsFiniteSet(T) /\ IsFiniteSet(D \ T)
  BY FS_Subset
<1> HIDE DEF a, b
<1>3. Total(f) = Total(a) + Total(b)
  BY <1>1, TotalSplits
<1>4. Total(h) <= Total(a)
  BY <1>1, <1>2, TotalMonotone
<1>5. Total(b) \in Nat
  BY <1>1, <1>2, TotalIsNat
<1>6. Total(a) \in Int /\ Total(h) \in Int
  BY <1>1, <1>2, TotalIsInt
<1> QED
  BY <1>3, <1>4, <1>5, <1>6

LEMMA TotalOfOthers ==
    ASSUME NEW D, IsFiniteSet(D), NEW f \in [D -> Int], NEW T, T \subseteq D
    PROVE  Total(Without(f, T)) = Total(f) - Total(Restrict(f, T))
<1> DEFINE a == Restrict(f, T)
<1> DEFINE b == Without(f, T)
<1>1. a \in [T -> Int] /\ b \in [D \ T -> Int]
      /\ (\A x \in T : a[x] = f[x]) /\ (\A x \in D \ T : b[x] = f[x])
  BY DEF Without, Restrict
<1>2. IsFiniteSet(T) /\ IsFiniteSet(D \ T)
  BY FS_Subset
<1> HIDE DEF a, b
<1>3. ASSUME NEW r \in [T -> Int], \A x \in T : r[x] = f[x],
             NEW s \in [D \ T -> Int], \A x \in D \ T : s[x] = f[x]
      PROVE  Total(f) = Total(r) + Total(s)
  BY <1>3, TotalSplits
<1>4. Total(f) = Total(a) + Total(b)
  BY <1>1, <1>3
<1>5. Total(a) \in Int /\ Total(b) \in Int
  BY <1>1, <1>2, TotalIsInt
<1> QED
  BY <1>4, <1>5 DEF a, b

\* Zeros beside the blocks of a part add nothing.
LEMMA TotalOfSupport ==
    ASSUME NEW D, IsFiniteSet(D), NEW T, T \subseteq D, NEW f \in [T -> Int],
           NEW h \in [D -> Int], \A x \in T : h[x] = f[x], \A x \in D \ T : h[x] = 0
    PROVE  Total(h) = Total(f)
<1> DEFINE R == D \ T
<1> DEFINE z == [x \in R |-> 0]
<1>1. z \in [R -> Int] /\ \A x \in R : z[x] = 0
  OBVIOUS
<1>2. IsFiniteSet(R) /\ IsFiniteSet(T)
  BY FS_Subset
<1>3. z \in [D \ T -> Int] /\ (\A x \in D \ T : z[x] = h[x]) /\ \A x \in T : f[x] = h[x]
  OBVIOUS
<1> HIDE DEF z
<1>4. Total(h) = Total(f) + Total(z)
  BY <1>3, TotalSplits
<1> HIDE DEF R
<1>5. Total(z) = 0 /\ Total(f) \in Int
  BY <1>1, <1>2, TotalOfZeros, TotalIsInt
<1> QED
  BY <1>4, <1>5

-----------------------------------------------------------------------------
(* The ledger of sorts.                                                      *)

\* Counts of blocks by name.
Blocks(f, S) ==
    DOMAIN f \subseteq S /\ f \in [DOMAIN f -> Nat]

\* What is in a directory and belongs to no open file: the entries whose charge,
\* if they ever had one, is retained by the owner.
Loose(s, c) == Total(Restrict(s, DOMAIN s \ DOMAIN c))

\* The owner's charges cover its directory: what is loose is retained, and an
\* open file is no longer than its reservation.
Covered(s, c, r) ==
    /\ Loose(s, c) <= r
    /\ \A f \in DOMAIN s \cap DOMAIN c : s[f] <= c[f]

\* Blocks have a total, ...
LEMMA BlocksTotal ==
    ASSUME NEW S, IsFiniteSet(S), NEW f, Blocks(f, S)
    PROVE  /\ IsFiniteSet(DOMAIN f)
           /\ Total(f) \in Nat
<1>1. IsFiniteSet(DOMAIN f)
  BY FS_Subset DEF Blocks
<1> QED
  BY <1>1, TotalIsNat DEF Blocks

\* ... also when one is added, ...
LEMMA BlocksAdded ==
    ASSUME NEW S, IsFiniteSet(S), NEW f, Blocks(f, S), NEW k \in S, NEW n \in Nat
    PROVE  /\ Blocks(Added(f, k, n), S)
           /\ k \notin DOMAIN f => Total(Added(f, k, n)) = Total(f) + n
<1>1. Blocks(Added(f, k, n), S)
  BY DEF Blocks, Added
<1>2. f \in [DOMAIN f -> Int]
  BY DEF Blocks
<1>3. k \notin DOMAIN f => Total(Added(f, k, n)) = Total(f) + n
  BY <1>2, BlocksTotal, TotalOfAdded
<1> QED
  BY <1>1, <1>3

\* ... some are taken away, ...
LEMMA BlocksWithout ==
    ASSUME NEW S, IsFiniteSet(S), NEW f, Blocks(f, S), NEW T
    PROVE  /\ Blocks(Without(f, T), S)
           /\ Total(Without(f, T)) <= Total(f)
           /\ DOMAIN Without(f, T) = DOMAIN f \ T
           /\ \A x \in DOMAIN f \ T : Without(f, T)[x] = f[x]
<1> DEFINE h == Without(f, T)
<1> DEFINE D == DOMAIN f
<1> DEFINE E == D \ T
<1>1. DOMAIN h = E /\ h \in [E -> Int] /\ h \in [E -> Nat]
      /\ \A x \in E : h[x] = f[x]
  BY DEF Without, Restrict, Blocks
<1>2. f \in [D -> Nat] /\ E \subseteq D /\ IsFiniteSet(D) /\ D \subseteq S
  BY BlocksTotal DEF Blocks
<1>3. \A x \in E : h[x] <= f[x]
  BY <1>1, <1>2
<1> HIDE DEF h, D, E
<1>4. Total(h) <= Total(f)
  BY <1>1, <1>2, <1>3, TotalOfPart
<1> QED
  BY <1>1, <1>2, <1>4 DEF h, D, E, Blocks

LEMMA BlocksWithoutOne ==
    ASSUME NEW S, IsFiniteSet(S), NEW f, Blocks(f, S), NEW k \in DOMAIN f
    PROVE  /\ Blocks(Without(f, {k}), S)
           /\ Total(Without(f, {k})) = Total(f) - f[k]
<1>1. f \in [DOMAIN f -> Int]
  BY DEF Blocks
<1>2. Total(Without(f, {k})) = Total(f) - f[k]
  BY <1>1, BlocksTotal, TotalOfWithout
<1> DEFINE T == {k}
<1> HIDE DEF T
<1>3. Blocks(Without(f, T), S)
  BY BlocksWithout
<1> QED
  BY <1>2, <1>3 DEF T

\* ... or one gets another size.
LEMMA BlocksExcept ==
    ASSUME NEW S, IsFiniteSet(S), NEW f, Blocks(f, S), NEW k \in DOMAIN f,
           NEW h, h \in [DOMAIN f -> Nat],
           \A x \in DOMAIN f \ {k} : h[x] = f[x]
    PROVE  /\ Blocks(h, S)
           /\ Total(h) = (Total(f) - f[k]) + h[k]
<1>1. f \in [DOMAIN f -> Int] /\ h \in [DOMAIN f -> Int]
  BY DEF Blocks
<1>2. Total(h) = (Total(f) - f[k]) + h[k]
  BY <1>1, BlocksTotal, TotalChanges
<1> QED
  BY <1>2 DEF Blocks

\* What is loose when a file stops being open, or entries go.
LEMMA LooseShape ==
    ASSUME NEW S, IsFiniteSet(S), NEW s, Blocks(s, S), NEW c
    PROVE  /\ Restrict(s, DOMAIN s \ DOMAIN c) \in [DOMAIN s \ DOMAIN c -> Nat]
           /\ \A x \in DOMAIN s \ DOMAIN c : Restrict(s, DOMAIN s \ DOMAIN c)[x] = s[x]
           /\ IsFiniteSet(DOMAIN s \ DOMAIN c)
           /\ Loose(s, c) \in Nat
<1> DEFINE D == DOMAIN s \ DOMAIN c
<1> DEFINE h == Restrict(s, D)
<1>1. h \in [D -> Nat] /\ \A x \in D : h[x] = s[x]
  BY DEF Restrict, Blocks
<1>2. IsFiniteSet(D)
  BY BlocksTotal, FS_Subset
<1>3. Loose(s, c) = Total(h)
  BY DEF Loose
<1> HIDE DEF h, D
<1>4. Total(h) \in Nat
  BY <1>1, <1>2, TotalIsNat
<1> QED
  BY <1>1, <1>2, <1>3, <1>4 DEF h, D

\* Fewer loose entries, none of them longer, are loose in fewer blocks.
LEMMA LooseLess ==
    ASSUME NEW S, IsFiniteSet(S), NEW s, Blocks(s, S), NEW c, NEW t, Blocks(t, S), NEW d,
           DOMAIN t \ DOMAIN d \subseteq DOMAIN s \ DOMAIN c,
           \A x \in DOMAIN t \ DOMAIN d : t[x] <= s[x]
    PROVE  Loose(t, d) <= Loose(s, c)
<1> DEFINE D == DOMAIN s \ DOMAIN c
<1> DEFINE E == DOMAIN t \ DOMAIN d
<1> DEFINE g == Restrict(s, D)
<1> DEFINE h == Restrict(t, E)
<1>1. g \in [D -> Nat] /\ IsFiniteSet(D) /\ (\A x \in D : g[x] = s[x])
  BY LooseShape
<1>2. h \in [E -> Nat] /\ (\A x \in E : h[x] = t[x])
  BY LooseShape
<1>3. Loose(s, c) = Total(g) /\ Loose(t, d) = Total(h)
  BY DEF Loose
<1>4. E \subseteq D /\ \A x \in E : t[x] <= s[x]
  OBVIOUS
<1> HIDE DEF g, h, D, E
<1>5. h \in [E -> Int] /\ \A x \in E : h[x] <= g[x]
  BY <1>1, <1>2, <1>4
<1>6. Total(h) <= Total(g)
  BY <1>1, <1>4, <1>5, TotalOfPart
<1> QED
  BY <1>3, <1>6

\* The total of a part is any one of its values and the total of the rest.
LEMMA PartTakes ==
    ASSUME NEW E, IsFiniteSet(E), NEW t, \A x \in E : t[x] \in Int,
           NEW f \in E, NEW D, D = E \ {f}, NEW s, \A x \in D : s[x] = t[x]
    PROVE  Total(Restrict(t, E)) = t[f] + Total(Restrict(s, D))
<1> DEFINE g == Restrict(s, D)
<1> DEFINE h == Restrict(t, E)
<1>1. h \in [E -> Int] /\ h[f] = t[f]
  BY DEF Restrict
<1>2. g \in [D -> Int] /\ \A x \in D : g[x] = h[x]
  BY DEF Restrict
<1>3. h = Added(g, f, t[f])
  BY DEF Added, Restrict
<1>4. IsFiniteSet(D) /\ f \notin D /\ t[f] \in Int
  BY FS_Subset
<1> HIDE DEF g, h
<1>5. Total(h) = Total(g) + t[f]
  BY <1>2, <1>3, <1>4, TotalOfAdded
<1>6. Total(g) \in Int
  BY <1>2, <1>4, TotalIsInt
<1> QED
  BY <1>4, <1>5, <1>6 DEF g, h

\* An entry more: the file that was open, at its new size.
LEMMA LooseMore ==
    ASSUME NEW S, IsFiniteSet(S), NEW s, Blocks(s, S), NEW c, NEW t, Blocks(t, S), NEW d,
           NEW f \in DOMAIN s \cap DOMAIN c,
           DOMAIN t \ DOMAIN d = (DOMAIN s \ DOMAIN c) \cup {f},
           \A x \in DOMAIN s \ DOMAIN c : t[x] = s[x]
    PROVE  Loose(t, d) = t[f] + Loose(s, c)
<1> DEFINE D == DOMAIN s \ DOMAIN c
<1> DEFINE E == DOMAIN t \ DOMAIN d
<1>1. IsFiniteSet(E) /\ \A x \in E : t[x] \in Int
  <2>1. IsFiniteSet(E)
    BY LooseShape
  <2> QED
    BY <2>1 DEF Blocks
<1>2. f \in E /\ D = E \ {f} /\ \A x \in D : s[x] = t[x]
  OBVIOUS
<1> HIDE DEF D, E
<1>3. Total(Restrict(t, E)) = t[f] + Total(Restrict(s, D))
  BY <1>1, <1>2, PartTakes
<1> QED
  BY <1>3 DEF Loose, D, E

\* What covers a directory pays for all of it.
LEMMA CoveredTotal ==
    ASSUME NEW S, IsFiniteSet(S), NEW s, Blocks(s, S), NEW c, Blocks(c, S), NEW r \in Nat,
           Covered(s, c, r)
    PROVE  Total(s) <= Total(c) + r
<1> DEFINE D == DOMAIN s
<1> DEFINE T == D \ DOMAIN c
<1> DEFINE g == Restrict(s, T)
<1> DEFINE h == Without(s, T)
<1>1. D \ T = D \cap DOMAIN c /\ T \subseteq D
  OBVIOUS
<1>2. DOMAIN h = D \ T /\ Blocks(h, S) /\ \A x \in D \ T : h[x] = s[x]
  <2> DEFINE U == T
  <2> HIDE DEF U
  <2>1. /\ Blocks(Without(s, U), S) /\ DOMAIN Without(s, U) = DOMAIN s \ U
        /\ \A x \in DOMAIN s \ U : Without(s, U)[x] = s[x]
    BY BlocksWithout
  <2> QED
    BY <2>1 DEF U
<1>3. \A x \in D \ T : h[x] <= c[x]
  BY <1>1, <1>2 DEF Covered
<1>4. IsFiniteSet(D) /\ s \in [D -> Int] /\ IsFiniteSet(DOMAIN c) /\ Total(c) \in Nat
  BY BlocksTotal DEF Blocks
<1>5. Total(g) = Loose(s, c) /\ Loose(s, c) \in Nat
  BY LooseShape DEF Loose
<1>6. Total(h) = Total(s) - Total(g)
  BY <1>1, <1>4, TotalOfOthers
<1>7. c \in [DOMAIN c -> Nat]
  BY DEF Blocks
<1> HIDE DEF g, h
<1>8. Total(h) <= Total(c)
  <2> DEFINE E == D \ T
  <2>1. E \subseteq DOMAIN c /\ h \in [E -> Int] /\ \A x \in E : h[x] <= c[x]
    BY <1>1, <1>2, <1>3 DEF Blocks
  <2> HIDE DEF E
  <2> QED
    BY <1>4, <1>7, <2>1, TotalOfPart
<1>9. Total(s) \in Nat /\ Total(h) \in Nat
  BY <1>2, BlocksTotal
<1>10. Loose(s, c) <= r
  BY DEF Covered
<1> QED
  BY <1>4, <1>5, <1>6, <1>8, <1>9, <1>10

\* Entries may go.
LEMMA CoveredLess ==
    ASSUME NEW S, IsFiniteSet(S), NEW s, Blocks(s, S), NEW c, NEW r \in Nat,
           Covered(s, c, r), NEW T
    PROVE  Covered(Without(s, T), c, r)
<1> DEFINE t == Without(s, T)
<1>1. Blocks(t, S) /\ DOMAIN t = DOMAIN s \ T /\ \A x \in DOMAIN s \ T : t[x] = s[x]
  BY BlocksWithout
<1> HIDE DEF t
<1>2. DOMAIN t \ DOMAIN c \subseteq DOMAIN s \ DOMAIN c
  BY <1>1
<1>3. \A x \in DOMAIN t \ DOMAIN c : t[x] <= s[x]
  BY <1>1 DEF Blocks
<1>4. Loose(t, c) <= Loose(s, c)
  BY <1>1, <1>2, <1>3, LooseLess
<1>5. Loose(t, c) \in Nat /\ Loose(s, c) \in Nat
  BY <1>1, LooseShape
<1>6. \A x \in DOMAIN t \cap DOMAIN c : t[x] <= c[x]
  BY <1>1 DEF Covered
<1> QED
  BY <1>4, <1>5, <1>6 DEF Covered, t

\* Nothing is covered by anything.
LEMMA CoveredEmpty ==
    ASSUME NEW s, DOMAIN s = {}, NEW c, NEW r \in Nat
    PROVE  Covered(s, c, r)
<1>1. DOMAIN Restrict(s, DOMAIN s \ DOMAIN c) = {}
  BY DEF Restrict
<1>2. Loose(s, c) = 0
  BY <1>1, TotalEmpty DEF Loose
<1> QED
  BY <1>2 DEF Covered

\* Another directory and other charges, which leave no more entries loose.
LEMMA CoveredAgain ==
    ASSUME NEW S, IsFiniteSet(S), NEW s, Blocks(s, S), NEW c, NEW r \in Nat,
           Covered(s, c, r), NEW t, Blocks(t, S), NEW d,
           DOMAIN t \ DOMAIN d = DOMAIN s \ DOMAIN c,
           \A x \in DOMAIN s \ DOMAIN c : t[x] = s[x],
           \A x \in DOMAIN t \cap DOMAIN d : t[x] <= d[x]
    PROVE  Covered(t, d, r)
<1>1. DOMAIN t \ DOMAIN d \subseteq DOMAIN s \ DOMAIN c
  OBVIOUS
<1>2. \A x \in DOMAIN t \ DOMAIN d : t[x] <= s[x]
  BY DEF Blocks
<1>3. Loose(t, d) <= Loose(s, c)
  BY <1>1, <1>2, LooseLess
<1>4. Loose(t, d) \in Nat /\ Loose(s, c) \in Nat
  BY LooseShape
<1> QED
  BY <1>3, <1>4 DEF Covered

\* Blocks of p that neither an owner nor the queue answers for.
Astray(p, o) ==
    IF stage[o] = "gone" /\ o \notin DOMAIN pending[p] THEN OnDisk(o) ELSE 0

\* The charges that the owners of p hold, and its blocks gone astray.
Bills(p) == [o \in Owned(p) |-> Bill(o)]
Strays(p) == [o \in Owned(p) |-> Astray(p, o)]

LedgerShape ==
    /\ DOMAIN power = Processes /\ DOMAIN pending = Processes
    /\ disk \in [Processes -> Int] /\ lost \in [Processes -> Nat]
    /\ proc \in [Owners -> 0 .. MaxProcesses]
    /\ stage \in [Owners -> Stages]
    /\ DOMAIN size = Owners /\ DOMAIN charge = Owners
    /\ retained \in [Owners -> Nat]
    /\ \A o \in Owners : Blocks(size[o], Entries) /\ Blocks(charge[o], Files)
    /\ \A p \in Processes : Blocks(pending[p], Owners)

\* An owner has a process from the first moment, nothing before its lock file is
\* made, no open file but while it lives, and no charge after its end.
Life(o) ==
    /\ proc[o] = 0 <=> stage[o] = "unborn"
    /\ stage[o] \in {"unborn", "bare"} => DOMAIN size[o] = {}
    /\ stage[o] # "live" => Open(o) = {}
    /\ stage[o] \in {"unborn", "bare", "gone"} => retained[o] = 0

LifePart == \A o \in Owners : Life(o)

\* Until its end an owner's own charges cover its directory, ...
CoverPart ==
    \A o \in Owners : stage[o] # "gone" => Covered(size[o], charge[o], retained[o])

\* ... then the charge that its entry in the queue has, ...
QueuePart ==
    \A p \in Processes : \A o \in DOMAIN pending[p] :
        proc[o] = p /\ stage[o] = "gone" /\ OnDisk(o) <= pending[p][o]

\* ... and what has left the queue, or never got in, is in the lost part.
StrayPart ==
    \A p \in Processes : power[p] # "ended" =>
        Total(Strays(p)) <= lost[p]

LimitPart == \A p \in Processes : disk[p] <= DiskLimit

BillPart == \A p \in Processes : LedgerIsExact(p)

LedgerIInv ==
    /\ LedgerShape
    /\ LifePart
    /\ CoverPart
    /\ QueuePart
    /\ StrayPart
    /\ LimitPart
    /\ BillPart

\* The domains are finite.
LEMMA LedgerFinite ==
    IsFiniteSet(Owners) /\ IsFiniteSet(Files) /\ IsFiniteSet(Entries)
<1>1. IsFiniteSet(Owners)
  BY SortScratchAssumption, FS_Interval DEF Owners
<1> DEFINE M == {} \cup {"map"}
<1> DEFINE R == M \cup {"run"}
<1> DEFINE L == R \cup {"lock"}
<1>2. IsFiniteSet(L)
  <2>1. IsFiniteSet(M)
    BY FS_EmptySet, FS_AddElement, Zenon
  <2> HIDE DEF M
  <2>2. IsFiniteSet(R)
    BY <2>1, FS_AddElement, Zenon
  <2> HIDE DEF R
  <2> QED
    BY <2>2, FS_AddElement, Zenon
<1>3. Files \subseteq L /\ Entries \subseteq L
  BY SortScratchAssumption DEF Entries
<1> HIDE DEF L
<1>4. IsFiniteSet(Files) /\ IsFiniteSet(Entries)
  BY <1>2, <1>3, FS_Subset
<1> QED
  BY <1>1, <1>4

\* Every count of the ledger is a number.
LedgerCounts ==
    /\ \A o \in Owners : OnDisk(o) \in Nat /\ Total(charge[o]) \in Nat /\ Bill(o) \in Nat
    /\ \A p \in Processes :
          /\ IsFiniteSet(Owned(p)) /\ Total(pending[p]) \in Nat
          /\ Bills(p) \in [Owned(p) -> Nat] /\ Total(Bills(p)) \in Nat
          /\ Strays(p) \in [Owned(p) -> Nat] /\ Total(Strays(p)) \in Nat

LEMMA LedgerCountsAre == LedgerShape => LedgerCounts
<1> SUFFICES ASSUME LedgerShape PROVE LedgerCounts
  OBVIOUS
<1>1. ASSUME NEW o \in Owners
      PROVE  OnDisk(o) \in Nat /\ Total(charge[o]) \in Nat /\ Bill(o) \in Nat
  <2>1. Blocks(size[o], Entries) /\ Blocks(charge[o], Files) /\ retained[o] \in Nat
    BY DEF LedgerShape
  <2>2. Total(size[o]) \in Nat /\ Total(charge[o]) \in Nat
    BY <2>1, LedgerFinite, BlocksTotal
  <2> QED
    BY <2>1, <2>2 DEF OnDisk, Bill
<1>2. ASSUME NEW p \in Processes
      PROVE  /\ IsFiniteSet(Owned(p)) /\ Total(pending[p]) \in Nat
             /\ Bills(p) \in [Owned(p) -> Nat] /\ Total(Bills(p)) \in Nat
             /\ Strays(p) \in [Owned(p) -> Nat] /\ Total(Strays(p)) \in Nat
  <2>1. IsFiniteSet(Owned(p))
    BY LedgerFinite, FS_Subset DEF Owned
  <2>2. Total(pending[p]) \in Nat
    <3>1. Blocks(pending[p], Owners)
      BY DEF LedgerShape
    <3> QED
      BY <3>1, LedgerFinite, BlocksTotal
  <2>3. Owned(p) \subseteq Owners
    BY DEF Owned
  <2>4. Bills(p) \in [Owned(p) -> Nat] /\ Strays(p) \in [Owned(p) -> Nat]
    BY <1>1, <2>3 DEF Bills, Strays, Astray
  <2>5. Total(Bills(p)) \in Nat /\ Total(Strays(p)) \in Nat
    BY <2>1, <2>4, TotalIsNat
  <2> QED
    BY <2>1, <2>2, <2>4, <2>5
<1> QED
  BY <1>1, <1>2 DEF LedgerCounts

\* A step that changes the charges of one owner changes the bills of its process
\* by as much, and no other process's.
BillsFollow(o, p) ==
    Total(Bills(p))' = IF p = proc[o] THEN (Total(Bills(p)) - Bill(o)) + Bill(o)'
                                      ELSE Total(Bills(p))

LEMMA BillsMove ==
    ASSUME LedgerShape, LedgerShape', proc' = proc, NEW o \in Owners,
           \A n \in Owners \ {o} : charge'[n] = charge[n] /\ retained'[n] = retained[n],
           NEW p \in Processes
    PROVE  BillsFollow(o, p)
<1>1. LedgerCounts /\ LedgerCounts'
  BY LedgerCountsAre, PTL
<1> DEFINE D == Owned(p)
<1> DEFINE f == Bills(p)
<1> DEFINE h == Bills(p)'
<1>2. D' = D /\ IsFiniteSet(D)
  BY <1>1 DEF Owned, LedgerCounts
<1>3. f \in [D -> Nat] /\ h \in [D -> Nat]
  BY <1>1, <1>2 DEF LedgerCounts
<1>4. \A n \in D : f[n] = Bill(n) /\ h[n] = Bill(n)'
  BY <1>2 DEF Bills
<1>5. \A n \in D \ {o} : Bill(n)' = Bill(n)
  BY DEF Bill, Owned
<1>6. o \in D <=> p = proc[o]
  BY DEF Owned
<1>7. f \in [D -> Int] /\ h \in [D -> Int] /\ \A y \in D \ {o} : h[y] = f[y]
  BY <1>3, <1>4, <1>5
<1>8. CASE o \in D
  <2>1. f[o] = Bill(o) /\ h[o] = Bill(o)'
    BY <1>4, <1>8
  <2> HIDE DEF D, f, h
  <2>2. Total(h) = (Total(f) - f[o]) + h[o]
    BY <1>2, <1>7, <1>8, TotalChanges
  <2> QED
    BY <1>6, <1>8, <2>1, <2>2 DEF BillsFollow, f, h
<1>9. CASE o \notin D
  <2>1. h = f
    <3> HIDE DEF f, h
    <3> QED
      BY <1>3, <1>7, <1>9
  <2> QED
    BY <1>6, <1>9, <2>1 DEF BillsFollow
<1> QED
  BY <1>8, <1>9

\* Blocks that nobody answers for only become fewer when no owner leaves any.
LEMMA StraysShrink ==
    ASSUME LedgerShape, LedgerShape', proc' = proc, NEW p \in Processes,
           \A n \in Owned(p) : Astray(p, n)' <= Astray(p, n)
    PROVE  Total(Strays(p))' <= Total(Strays(p))
<1>1. LedgerCounts /\ LedgerCounts'
  BY LedgerCountsAre, PTL
<1> DEFINE D == Owned(p)
<1> DEFINE f == Strays(p)
<1> DEFINE h == Strays(p)'
<1>2. D' = D /\ IsFiniteSet(D)
  BY <1>1 DEF Owned, LedgerCounts
<1>3. f \in [D -> Nat] /\ h \in [D -> Nat]
  BY <1>1, <1>2 DEF LedgerCounts
<1>4. \A n \in D : h[n] <= f[n]
  BY <1>2 DEF Strays
<1> HIDE DEF D, f, h
<1>5. f \in [D -> Int] /\ h \in [D -> Int]
  BY <1>3
<1>6. Total(h) <= Total(f)
  BY <1>2, <1>4, <1>5, TotalMonotone
<1> QED
  BY <1>6 DEF f, h

\* A step of one owner: nothing changes that belongs to another, ...
OnlyOwner(o) ==
    /\ UNCHANGED <<power, lost, pending, proc>>
    /\ DOMAIN size' = Owners /\ DOMAIN charge' = Owners
    /\ stage' \in [Owners -> Stages] /\ retained' \in [Owners -> Nat]
    /\ disk' \in [Processes -> Int]
    /\ Blocks(size'[o], Entries) /\ Blocks(charge'[o], Files)
    /\ \A n \in Owners \ {o} : /\ size'[n] = size[n] /\ charge'[n] = charge[n]
                               /\ retained'[n] = retained[n] /\ stage'[n] = stage[n]

\* ... and the ledger follows its bill.
PaysFor(o) ==
    \A p \in Processes :
        /\ disk'[p] = IF p = proc[o] THEN (disk[p] - Bill(o)) + Bill(o)' ELSE disk[p]
        /\ disk'[p] <= DiskLimit

\* When it is gone it leaves nothing, or what it had left before.
LeavesNoMore(o) ==
    /\ stage[o] = "gone" => stage'[o] = "gone" /\ Total(size'[o]) <= Total(size[o])
    /\ stage[o] # "gone" /\ stage'[o] = "gone" => Total(size'[o]) = 0

LEMMA OwnerStep ==
    ASSUME LedgerIInv, NEW o \in Owners, OnlyOwner(o), PaysFor(o), LeavesNoMore(o),
           Life(o)',
           stage'[o] # "gone" => Covered(size'[o], charge'[o], retained'[o])
    PROVE  LedgerIInv'
<1>1. LedgerShape /\ LedgerShape'
  BY DEF LedgerIInv, LedgerShape, OnlyOwner
<1>2. LedgerCounts /\ LedgerCounts'
  BY <1>1, LedgerCountsAre, PTL
<1>3. LifePart'
  BY DEF LedgerIInv, LifePart, Life, OnlyOwner, Open
<1>4. CoverPart'
  BY DEF LedgerIInv, CoverPart, OnlyOwner
<1>5. QueuePart'
  <2> SUFFICES ASSUME NEW p \in Processes, NEW n \in DOMAIN pending[p]
               PROVE  proc[n] = p /\ stage'[n] = "gone" /\ OnDisk(n)' <= pending[p][n]
    BY DEF QueuePart, OnlyOwner
  <2>1. proc[n] = p /\ stage[n] = "gone" /\ OnDisk(n) <= pending[p][n] /\ n \in Owners
        /\ pending[p][n] \in Nat
    BY <1>1 DEF LedgerIInv, QueuePart, LedgerShape, Blocks
  <2>2. OnDisk(n)' <= OnDisk(n) /\ stage'[n] = "gone"
    <3>1. CASE n = o
      BY <2>1, <3>1 DEF LeavesNoMore, OnDisk
    <3>2. CASE n # o
      BY <1>2, <2>1, <3>2 DEF OnlyOwner, OnDisk, LedgerCounts
    <3> QED
      BY <3>1, <3>2
  <2>3. OnDisk(n) \in Nat /\ OnDisk(n)' \in Nat
    BY <1>2, <2>1 DEF LedgerCounts
  <2> QED
    BY <2>1, <2>2, <2>3
<1>6. StrayPart'
  <2> SUFFICES ASSUME NEW p \in Processes, power[p] # "ended"
               PROVE  Total(Strays(p))' <= lost[p]
    BY DEF StrayPart, OnlyOwner
  <2>1. ASSUME NEW n \in Owned(p) PROVE Astray(p, n)' <= Astray(p, n)
    <3>1. n \in Owners /\ OnDisk(n) \in Nat /\ OnDisk(n)' \in Nat
      BY <1>2 DEF Owned, LedgerCounts
    <3>2. CASE n # o
      BY <3>1, <3>2 DEF Astray, OnDisk, OnlyOwner
    <3>3. CASE n = o
      BY <3>1, <3>3 DEF Astray, OnDisk, OnlyOwner, LeavesNoMore
    <3> QED
      BY <3>2, <3>3
  <2>2. Total(Strays(p))' <= Total(Strays(p))
    BY <1>1, <2>1, StraysShrink DEF OnlyOwner
  <2>3. Total(Strays(p)) <= lost[p] /\ lost[p] \in Nat
    BY <1>1 DEF LedgerIInv, StrayPart, LedgerShape
  <2> QED
    BY <1>2, <2>2, <2>3 DEF LedgerCounts
<1>7. LimitPart'
  BY DEF LimitPart, PaysFor
<1>8. BillPart'
  <2> SUFFICES ASSUME NEW p \in Processes PROVE LedgerIsExact(p)'
    BY DEF BillPart
  <2>1. disk[p] = Total(Bills(p)) + Total(pending[p]) + lost[p]
    BY DEF LedgerIInv, BillPart, LedgerIsExact, Bills
  <2>2. BillsFollow(o, p)
    BY <1>1, BillsMove DEF OnlyOwner
  <2>3. disk'[p] = IF p = proc[o] THEN (disk[p] - Bill(o)) + Bill(o)' ELSE disk[p]
    BY DEF PaysFor
  <2> DEFINE a == Total(Bills(p))
  <2> DEFINE b == Total(Bills(p))'
  <2> DEFINE x == Bill(o)
  <2> DEFINE y == Bill(o)'
  <2> DEFINE q == Total(pending[p])
  <2>4. /\ a \in Nat /\ b \in Nat /\ x \in Nat /\ y \in Nat /\ q \in Nat
        /\ lost[p] \in Nat
    BY <1>1, <1>2 DEF LedgerCounts, LedgerShape
  <2>5. b = IF p = proc[o] THEN (a - x) + y ELSE a
    BY <2>2 DEF BillsFollow
  <2>6. disk[p] = a + q + lost[p]
        /\ disk'[p] = IF p = proc[o] THEN (disk[p] - x) + y ELSE disk[p]
    BY <2>1, <2>3
  <2>7. disk'[p] = b + q + lost[p]
    <3> HIDE DEF a, b, x, y, q
    <3> QED
      BY <2>4, <2>5, <2>6
  <2>8. Total(pending[p])' = q /\ lost'[p] = lost[p]
    BY DEF OnlyOwner
  <2> QED
    BY <2>7, <2>8 DEF LedgerIsExact, Bills
<1> QED
  BY <1>1, <1>3, <1>4, <1>5, <1>6, <1>7, <1>8 DEF LedgerIInv

\* Empty files need no charge.
LEMMA CoveredZeros ==
    ASSUME NEW S, IsFiniteSet(S), NEW s, Blocks(s, S), \A x \in DOMAIN s : s[x] = 0,
           NEW T, NEW c, Blocks(c, T), NEW r \in Nat
    PROVE  Covered(s, c, r)
<1> DEFINE D == DOMAIN s \ DOMAIN c
<1> DEFINE h == Restrict(s, D)
<1>1. h \in [D -> Nat] /\ IsFiniteSet(D) /\ (\A x \in D : h[x] = s[x])
  BY LooseShape
<1>2. h \in [D -> Int] /\ \A x \in D : h[x] = 0
  BY <1>1
<1>3. Loose(s, c) = Total(h)
  BY DEF Loose
<1>4. \A f \in DOMAIN s \cap DOMAIN c : s[f] <= c[f]
  BY DEF Blocks
<1> HIDE DEF h, D
<1>5. Total(h) = 0
  BY <1>1, <1>2, TotalOfZeros
<1> QED
  BY <1>3, <1>4, <1>5 DEF Covered

\* A step that changes no charge.
LEMMA PaysTheSame ==
    ASSUME LedgerIInv, NEW o \in Owners, disk' = disk,
           charge'[o] = charge[o], retained'[o] = retained[o]
    PROVE  PaysFor(o)
<1>1. Bill(o)' = Bill(o) /\ Bill(o) \in Nat
  BY LedgerCountsAre DEF Bill, LedgerCounts, LedgerIInv
<1>2. \A p \in Processes : disk[p] \in Int /\ disk[p] <= DiskLimit
  BY DEF LedgerIInv, LedgerShape, LimitPart
<1> QED
  BY <1>1, <1>2 DEF PaysFor

\* Steps that touch nothing the ledger counts.
LEMMA LedgerIdleStep ==
    ASSUME LedgerIInv,
           UNCHANGED <<disk, lost, pending, proc, stage, size, charge, retained>>,
           DOMAIN power' = Processes,
           \A p \in Processes : power[p] = "ended" => power'[p] = "ended"
    PROVE  LedgerIInv'
BY DEF LedgerIInv, LedgerShape, LifePart, Life, Open, CoverPart, QueuePart, OnDisk,
       StrayPart, Strays, Astray, Owned, LimitPart, BillPart, LedgerIsExact, Bill

\* remove_stale_owner: entries go, from whatever directory.
LEMMA SweepPays ==
    ASSUME LedgerIInv, NEW p \in Processes, NEW o \in Owners, Sweep(p, o)
    PROVE  LedgerIInv'
<1> DEFINE T == StaleDeleted(o)
<1>1. size' = [size EXCEPT ![o] = Without(@, T)]
      /\ UNCHANGED <<power, disk, lost, pending, proc, stage, charge, retained>>
  BY DEF Sweep
<1> HIDE DEF T
<1>2. LedgerShape /\ Blocks(size[o], Entries) /\ Blocks(charge[o], Files)
      /\ retained[o] \in Nat
  BY DEF LedgerIInv, LedgerShape
<1>3. size'[o] = Without(size[o], T)
  BY <1>1, <1>2 DEF LedgerShape
<1>4. Blocks(size'[o], Entries) /\ Total(size'[o]) <= Total(size[o])
      /\ DOMAIN size'[o] = DOMAIN size[o] \ T
  <2> DEFINE s == size[o]
  <2>1. Blocks(s, Entries)
    BY <1>2
  <2> HIDE DEF s
  <2>2. Blocks(Without(s, T), Entries) /\ Total(Without(s, T)) <= Total(s)
        /\ DOMAIN Without(s, T) = DOMAIN s \ T
    BY <2>1, LedgerFinite, BlocksWithout
  <2> QED
    BY <1>3, <2>2 DEF s
<1>5. OnlyOwner(o)
  BY <1>1, <1>2, <1>4 DEF OnlyOwner, LedgerShape
<1>6. PaysFor(o)
  BY <1>1, PaysTheSame
<1>7. LeavesNoMore(o)
  BY <1>1, <1>4 DEF LeavesNoMore
<1>8. Life(o)'
  BY <1>1, <1>4 DEF LedgerIInv, LifePart, Life, Open
<1>9. stage'[o] # "gone" => Covered(size'[o], charge'[o], retained'[o])
  BY <1>1, <1>2, <1>3, LedgerFinite, CoveredLess DEF LedgerIInv, CoverPart
<1> QED
  BY <1>5, <1>6, <1>7, <1>8, <1>9, OwnerStep

\* The lock file is made, or not.
LEMMA MakeLockPays ==
    ASSUME LedgerIInv, NEW o \in Owners, MakeLock(o)
    PROVE  LedgerIInv'
<1>1. stage[o] = "bare" /\ UNCHANGED <<power, disk, lost, pending, proc, charge, retained>>
  BY DEF MakeLock
<1>2. LedgerShape /\ Blocks(size[o], Entries) /\ Blocks(charge[o], Files)
      /\ retained[o] = 0 /\ DOMAIN size[o] = {} /\ Open(o) = {} /\ proc[o] # 0
  BY <1>1 DEF LedgerIInv, LedgerShape, LifePart, Life
<1>3. PaysFor(o)
  BY <1>1, PaysTheSame
<1>4. CASE /\ stage' = [stage EXCEPT ![o] = "live"]
           /\ size' = [size EXCEPT ![o] = [e \in {"lock"} |-> 0]]
  <2> DEFINE s == [e \in {"lock"} |-> 0]
  <2>1. Blocks(s, Entries) /\ \A x \in DOMAIN s : s[x] = 0
    BY DEF Blocks, Entries
  <2> HIDE DEF s
  <2>2. size' = [size EXCEPT ![o] = s]
    BY <1>4 DEF s
  <2>3. size'[o] = s /\ stage'[o] = "live"
    BY <1>2, <1>4, <2>2 DEF LedgerShape
  <2>4. OnlyOwner(o)
    BY <1>1, <1>2, <1>4, <2>1, <2>2 DEF OnlyOwner, LedgerShape, Stages
  <2>5. LeavesNoMore(o)
    BY <1>1, <2>3 DEF LeavesNoMore
  <2>6. Life(o)'
    BY <1>1, <1>2, <2>3 DEF Life
  <2>7. Covered(s, charge[o], 0)
    BY <1>2, <2>1, LedgerFinite, CoveredZeros
  <2>8. Covered(size'[o], charge'[o], retained'[o])
    BY <1>1, <1>2, <2>3, <2>7
  <2> QED
    BY <1>3, <2>4, <2>5, <2>6, <2>8, OwnerStep
<1>5. CASE stage' = [stage EXCEPT ![o] = "gone"] /\ UNCHANGED size
  <2>1. stage'[o] = "gone" /\ Total(size'[o]) = 0
    BY <1>2, <1>5, TotalEmpty DEF LedgerShape
  <2>2. OnlyOwner(o)
    BY <1>1, <1>2, <1>5 DEF OnlyOwner, LedgerShape, Stages
  <2>3. LeavesNoMore(o)
    BY <1>1, <2>1 DEF LeavesNoMore
  <2>4. Life(o)'
    BY <1>1, <1>2, <1>5, <2>1 DEF Life, Open
  <2> QED
    BY <1>3, <2>1, <2>2, <2>3, <2>4, OwnerStep
<1> QED
  BY <1>4, <1>5 DEF MakeLock

\* Drop for Owner releases the lock.
LEMMA UnlockPays ==
    ASSUME LedgerIInv, NEW o \in Owners, Unlock(o)
    PROVE  LedgerIInv'
<1>1. stage[o] = "live" /\ Open(o) = {} /\ stage' = [stage EXCEPT ![o] = "unlocked"]
      /\ UNCHANGED <<power, disk, lost, pending, proc, size, charge, retained>>
  BY DEF Unlock
<1>2. PaysFor(o)
  BY <1>1, PaysTheSame
<1>3. OnlyOwner(o) /\ stage'[o] = "unlocked"
  BY <1>1 DEF OnlyOwner, LedgerIInv, LedgerShape, Stages
<1>4. LeavesNoMore(o) /\ Life(o)'
  BY <1>1, <1>3 DEF LeavesNoMore, LedgerIInv, LifePart, Life, Open
<1>5. Covered(size'[o], charge'[o], retained'[o])
  BY <1>1 DEF LedgerIInv, CoverPart
<1> QED
  BY <1>2, <1>3, <1>4, <1>5, OwnerStep

\* What an owner that lives has: counts of blocks, and a process.
LEMMA OwnerHas ==
    ASSUME LedgerIInv, NEW o \in Owners
    PROVE  /\ Blocks(size[o], Entries) /\ Blocks(charge[o], Files)
           /\ Blocks(charge[o], Entries)
           /\ retained[o] \in Nat /\ Total(charge[o]) \in Nat
           /\ stage[o] # "unborn" => proc[o] \in Processes
<1>1. LedgerShape /\ LedgerCounts
  BY LedgerCountsAre DEF LedgerIInv
<1>2. Files \subseteq Entries
  BY DEF Entries
<1>3. stage[o] # "unborn" => proc[o] \in Processes
  BY SortScratchAssumption DEF LedgerIInv, LedgerShape, LifePart, Life, Processes
<1> QED
  BY <1>1, <1>2, <1>3 DEF LedgerShape, LedgerCounts, Blocks

\* A file is open in a directory that is paid for.
LEMMA OpenIsLive ==
    ASSUME LedgerIInv, NEW o \in Owners, NEW f \in Open(o)
    PROVE  /\ stage[o] = "live" /\ f \in DOMAIN charge[o] /\ f \in Files
           /\ Covered(size[o], charge[o], retained[o])
           /\ proc[o] # 0
BY DEF LedgerIInv, LifePart, Life, Open, CoverPart, LedgerShape, Blocks

\* DiskFile::create: a new file, with a reservation of nothing.
LEMMA MakeFilePays ==
    ASSUME LedgerIInv, NEW o \in Owners, NEW f \in Files, MakeFile(o, f)
    PROVE  LedgerIInv'
<1> DEFINE s == size[o]
<1> DEFINE c == charge[o]
<1> DEFINE t == Added(s, f, 0)
<1> DEFINE d == Added(c, f, 0)
<1>1. stage[o] = "live" /\ f \notin DOMAIN s /\ f \notin DOMAIN c /\ f \in Entries
      /\ UNCHANGED <<power, disk, lost, pending, proc, stage, retained>>
  BY DEF MakeFile, Open, Entries
<1>2. Blocks(s, Entries) /\ Blocks(c, Files) /\ retained[o] \in Nat
      /\ Blocks(c, Entries)
  BY OwnerHas
<1>3. LedgerShape /\ proc[o] # 0
  BY <1>1 DEF LedgerIInv, LifePart, Life
<1>4. size' = [size EXCEPT ![o] = t] /\ charge' = [charge EXCEPT ![o] = d]
  BY DEF MakeFile
<1>5. DOMAIN t = DOMAIN s \cup {f} /\ DOMAIN d = DOMAIN c \cup {f}
      /\ t[f] = 0 /\ d[f] = 0
      /\ (\A x \in DOMAIN s : x # f => t[x] = s[x])
      /\ (\A x \in DOMAIN c : x # f => d[x] = c[x])
  BY DEF Added
<1>6. Covered(s, c, retained[o])
  BY <1>1 DEF LedgerIInv, CoverPart
<1> HIDE DEF s, c
<1>7. Blocks(t, Entries) /\ Blocks(d, Files) /\ Total(d) = Total(c) + 0
  BY <1>1, <1>2, LedgerFinite, BlocksAdded
<1> HIDE DEF t, d
<1>8. size'[o] = t /\ charge'[o] = d
  BY <1>3, <1>4 DEF LedgerShape
<1>9. OnlyOwner(o)
  BY <1>1, <1>3, <1>4, <1>7 DEF OnlyOwner, LedgerShape
<1>10. PaysFor(o)
  <2>1. Total(d) = Total(c) /\ Total(c) \in Nat
    BY <1>2, <1>7, LedgerFinite, BlocksTotal
  <2>2. Bill(o)' = Bill(o)
    BY <1>1, <1>8, <2>1 DEF Bill, c
  <2>3. Bill(o) \in Nat
    BY <1>3, LedgerCountsAre DEF LedgerCounts
  <2>4. \A p \in Processes : disk[p] \in Int /\ disk[p] <= DiskLimit
    BY DEF LedgerIInv, LedgerShape, LimitPart
  <2> QED
    BY <1>1, <2>2, <2>3, <2>4 DEF PaysFor
<1>11. LeavesNoMore(o) /\ Life(o)'
  BY <1>1, <1>3 DEF LeavesNoMore, Life
<1>12. Covered(t, d, retained[o])
  <2>1. DOMAIN t \ DOMAIN d = DOMAIN s \ DOMAIN c
    BY <1>1, <1>5
  <2>2. \A x \in DOMAIN s \ DOMAIN c : t[x] = s[x]
    BY <1>1, <1>5
  <2>3. \A x \in DOMAIN t \cap DOMAIN d : t[x] <= d[x]
    BY <1>5, <1>6 DEF Covered
  <2> QED
    BY <1>2, <1>6, <1>7, <2>1, <2>2, <2>3, LedgerFinite, CoveredAgain
<1> QED
  BY <1>1, <1>8, <1>9, <1>10, <1>11, <1>12, OwnerStep

\* DiskFile::append, allocate: a block is charged to the file and to the ledger.
LEMMA GrowPays ==
    ASSUME LedgerIInv, NEW o \in Owners, NEW f \in Files, Grow(o, f)
    PROVE  LedgerIInv'
<1> DEFINE s == size[o]
<1> DEFINE c == charge[o]
<1> DEFINE d == [c EXCEPT ![f] = @ + 1]
<1> DEFINE p == proc[o]
<1>1. stage[o] = "live" /\ f \in DOMAIN c /\ disk[p] + 1 <= DiskLimit
      /\ disk' = [disk EXCEPT ![p] = @ + 1]
      /\ UNCHANGED <<power, lost, pending, proc, stage, size, retained>>
  BY DEF Grow, Open, FitsLedger
<1>2. Blocks(s, Entries) /\ Blocks(c, Files) /\ retained[o] \in Nat /\ p \in Processes
  BY <1>1, OwnerHas
<1>3. LedgerShape /\ Covered(s, c, retained[o])
  BY <1>1 DEF LedgerIInv, CoverPart
<1>4. charge' = [charge EXCEPT ![o] = d]
  BY <1>1, <1>3 DEF Grow, LedgerShape
<1>5. c[f] \in Nat /\ d \in [DOMAIN c -> Nat] /\ d[f] = c[f] + 1
      /\ DOMAIN d = DOMAIN c /\ \A x \in DOMAIN c \ {f} : d[x] = c[x]
  BY <1>1, <1>2 DEF Blocks
<1> HIDE DEF s, c, d
<1>6. Blocks(d, Files) /\ Total(d) = (Total(c) - c[f]) + d[f]
  BY <1>1, <1>2, <1>5, LedgerFinite, BlocksExcept
<1>7. Total(c) \in Nat
  BY <1>2, LedgerFinite, BlocksTotal
<1>8. charge'[o] = d
  BY <1>3, <1>4 DEF LedgerShape
<1>9. disk[p] \in Int /\ disk'[p] = disk[p] + 1 /\ disk' \in [Processes -> Int]
      /\ \A q \in Processes : q # p => disk'[q] = disk[q]
  BY <1>1, <1>2, <1>3 DEF LedgerShape
<1>10. OnlyOwner(o)
  BY <1>1, <1>2, <1>3, <1>4, <1>6, <1>9 DEF OnlyOwner, LedgerShape
<1>11. PaysFor(o)
  <2>1. Total(d) = Total(c) + 1
    BY <1>5, <1>6, <1>7
  <2>2. Bill(o) = Total(c) + retained[o] /\ Bill(o)' = Total(d) + retained[o]
    BY <1>1, <1>8 DEF Bill, c
  <2>3. (disk[p] - Bill(o)) + Bill(o)' = disk[p] + 1
    BY <1>2, <1>7, <1>9, <2>1, <2>2
  <2>4. \A q \in Processes : disk[q] \in Int /\ disk[q] <= DiskLimit
    BY DEF LedgerIInv, LedgerShape, LimitPart
  <2> QED
    BY <1>1, <1>9, <2>3, <2>4 DEF PaysFor
<1>12. LeavesNoMore(o) /\ Life(o)'
  BY <1>1 DEF LeavesNoMore, Life, LedgerIInv, LifePart
<1>13. Covered(s, d, retained[o])
  <2>1. \A x \in DOMAIN s \cap DOMAIN d : s[x] <= d[x]
    <3> SUFFICES ASSUME NEW x \in DOMAIN s \cap DOMAIN d PROVE s[x] <= d[x]
      OBVIOUS
    <3>1. s[x] <= c[x] /\ s[x] \in Nat
      BY <1>2, <1>3, <1>5 DEF Covered, Blocks
    <3> QED
      BY <1>5, <3>1
  <2>2. Loose(s, d) = Loose(s, c)
    BY <1>5 DEF Loose
  <2> QED
    BY <1>3, <2>1, <2>2 DEF Covered
<1> QED
  BY <1>1, <1>8, <1>10, <1>11, <1>12, <1>13, OwnerStep DEF s

\* The buffer is written out: the file comes up to its reservation.
LEMMA WriteOutPays ==
    ASSUME LedgerIInv, NEW o \in Owners, NEW f \in Files, WriteOut(o, f)
    PROVE  LedgerIInv'
<1> DEFINE s == size[o]
<1> DEFINE c == charge[o]
<1> DEFINE t == [s EXCEPT ![f] = c[f]]
<1>1. f \in Open(o)
      /\ UNCHANGED <<power, disk, lost, pending, proc, stage, charge, retained>>
  BY DEF WriteOut
<1>2. stage[o] = "live" /\ f \in DOMAIN c /\ Covered(s, c, retained[o])
  BY <1>1, OpenIsLive
<1>3. LedgerShape /\ Blocks(s, Entries) /\ Blocks(c, Files) /\ retained[o] \in Nat
  BY OwnerHas DEF LedgerIInv
<1>4. size' = [size EXCEPT ![o] = t]
  BY <1>3 DEF WriteOut, LedgerShape
<1>5. DOMAIN t = DOMAIN s /\ t \in [DOMAIN s -> Nat]
      /\ (\A x \in DOMAIN s : x # f => t[x] = s[x])
      /\ (f \in DOMAIN s => t[f] = c[f])
  BY <1>2, <1>3 DEF Blocks
<1> HIDE DEF s, c, t
<1>6. Blocks(t, Entries) /\ size'[o] = t
  BY <1>3, <1>4, <1>5 DEF Blocks, LedgerShape
<1>7. OnlyOwner(o)
  BY <1>1, <1>3, <1>4, <1>6 DEF OnlyOwner, LedgerShape, c
<1>8. PaysFor(o)
  BY <1>1, PaysTheSame
<1>9. LeavesNoMore(o) /\ Life(o)'
  BY <1>1, <1>2 DEF LeavesNoMore, Life, LedgerIInv, LifePart
<1>10. Covered(t, c, retained[o])
  <2>1. DOMAIN t \ DOMAIN c = DOMAIN s \ DOMAIN c
    BY <1>5
  <2>2. \A x \in DOMAIN s \ DOMAIN c : t[x] = s[x]
    BY <1>2, <1>5
  <2>3. \A x \in DOMAIN t \cap DOMAIN c : t[x] <= c[x]
    BY <1>2, <1>3, <1>5 DEF Covered, Blocks
  <2> QED
    BY <1>2, <1>3, <1>6, <2>1, <2>2, <2>3, LedgerFinite, CoveredAgain
<1> QED
  BY <1>1, <1>6, <1>7, <1>8, <1>9, <1>10, OwnerStep DEF c

\* Drop for DiskFile: the charge goes with the file, or stays with the owner as
\* long as the file does.
LEMMA DropFilePays ==
    ASSUME LedgerIInv, NEW o \in Owners, NEW f \in Files, DropFile(o, f)
    PROVE  LedgerIInv'
<1> DEFINE s == size[o]
<1> DEFINE c == charge[o]
<1> DEFINE d == Without(c, {f})
<1> DEFINE p == proc[o]
<1> DEFINE r == retained[o]
<1>1. f \in Open(o) /\ UNCHANGED <<power, lost, pending, proc, stage>>
  BY DEF DropFile
<1>2. stage[o] = "live" /\ f \in DOMAIN c /\ Covered(s, c, r)
  BY <1>1, OpenIsLive
<1>3. LedgerShape /\ Blocks(s, Entries) /\ Blocks(c, Files) /\ r \in Nat
      /\ Blocks(c, Entries) /\ p \in Processes
  BY <1>2, OwnerHas DEF LedgerIInv
<1>4. charge' = [charge EXCEPT ![o] = d]
  BY <1>3 DEF DropFile, LedgerShape
<1> HIDE DEF s, c
<1>5. Blocks(d, Files) /\ Total(d) = Total(c) - c[f] /\ DOMAIN d = DOMAIN c \ {f}
      /\ \A x \in DOMAIN c : x # f => d[x] = c[x]
  <2>1. Blocks(d, Files) /\ Total(d) = Total(c) - c[f]
    BY <1>2, <1>3, LedgerFinite, BlocksWithoutOne
  <2>2. DOMAIN d = DOMAIN c \ {f} /\ \A x \in DOMAIN c : x # f => d[x] = c[x]
    BY DEF Without, Restrict
  <2> QED
    BY <2>1, <2>2
<1>6. Total(c) \in Nat /\ c[f] \in Nat /\ disk[p] \in Int
  BY <1>2, <1>3, LedgerFinite, BlocksTotal DEF Blocks, LedgerShape
<1> HIDE DEF d
<1>7. charge'[o] = d
  BY <1>3, <1>4 DEF LedgerShape
<1>8. LeavesNoMore(o) /\ Life(o)'
  BY <1>1, <1>2 DEF LeavesNoMore, Life, LedgerIInv, LifePart
<1>9. \A q \in Processes : disk[q] \in Int /\ disk[q] <= DiskLimit
  BY DEF LedgerIInv, LedgerShape, LimitPart
<1>10. Bill(o) = Total(c) + r /\ Bill(o)' = (Total(c) - c[f]) + retained'[o]
  BY <1>5, <1>7 DEF Bill, c
<1>11. DiskLimit \in Nat
  BY SortScratchAssumption
<1>12. CASE f \in DOMAIN s /\ ~ Held(o, f)
  <2> DEFINE t == Without(s, {f})
  <2>1. size' = [size EXCEPT ![o] = t] /\ disk' = [disk EXCEPT ![p] = @ - c[f]]
        /\ UNCHANGED retained
    BY <1>3, <1>12 DEF DropFile, s, c, LedgerShape
  <2>2. Blocks(t, Entries) /\ DOMAIN t = DOMAIN s \ {f}
        /\ \A x \in DOMAIN s \ {f} : t[x] = s[x]
    BY <1>3, LedgerFinite, BlocksWithout
  <2> HIDE DEF t
  <2>3. size'[o] = t /\ retained'[o] = r
    BY <1>3, <2>1 DEF LedgerShape
  <2>4. disk'[p] = disk[p] - c[f] /\ disk' \in [Processes -> Int]
        /\ \A q \in Processes : q # p => disk'[q] = disk[q]
    BY <1>3, <1>6, <2>1 DEF LedgerShape
  <2>5. OnlyOwner(o)
    BY <1>1, <1>3, <1>4, <1>5, <1>7, <2>1, <2>2, <2>4 DEF OnlyOwner, LedgerShape
  <2>6. (disk[p] - Bill(o)) + Bill(o)' = disk[p] - c[f]
    BY <1>3, <1>6, <1>10, <2>3
  <2>7. disk[p] - c[f] <= DiskLimit
    BY <1>3, <1>6, <1>9, <1>11
  <2>8. PaysFor(o)
    BY <1>9, <2>4, <2>6, <2>7 DEF PaysFor
  <2>9. Covered(t, d, r)
    <3>1. DOMAIN t \ DOMAIN d = DOMAIN s \ DOMAIN c
      BY <1>2, <1>5, <2>2
    <3>2. \A x \in DOMAIN s \ DOMAIN c : t[x] = s[x]
      BY <1>2, <2>2
    <3>3. \A x \in DOMAIN t \cap DOMAIN d : t[x] <= d[x]
      BY <1>2, <1>5, <2>2 DEF Covered
    <3> QED
      BY <1>2, <1>3, <2>2, <3>1, <3>2, <3>3, LedgerFinite, CoveredAgain
  <2> QED
    BY <1>7, <1>8, <2>3, <2>5, <2>8, <2>9, OwnerStep
<1>13. CASE ~ (f \in DOMAIN s /\ ~ Held(o, f))
  <2> DEFINE t == [e \in DOMAIN s |-> IF e = f THEN c[f] ELSE s[e]]
  <2>1. size' = [size EXCEPT ![o] = t] /\ UNCHANGED disk
        /\ retained' = [retained EXCEPT ![o] = r + c[f]]
    BY <1>3, <1>13 DEF DropFile, KeptCharge, s, c, LedgerShape
  <2>2. Blocks(t, Entries) /\ DOMAIN t = DOMAIN s
        /\ (\A x \in DOMAIN s : x # f => t[x] = s[x])
        /\ (f \in DOMAIN s => t[f] = c[f])
    BY <1>3, <1>6 DEF Blocks
  <2> HIDE DEF t
  <2>3. size'[o] = t /\ retained'[o] = r + c[f]
    BY <1>3, <2>1 DEF LedgerShape
  <2>4. OnlyOwner(o)
    <3>1. retained' \in [Owners -> Nat]
      BY <1>3, <1>6, <2>1 DEF LedgerShape
    <3> QED
      BY <1>1, <1>3, <1>4, <1>5, <1>7, <2>1, <2>2, <3>1 DEF OnlyOwner, LedgerShape
  <2>5. (disk[p] - Bill(o)) + Bill(o)' = disk[p]
    BY <1>3, <1>6, <1>10, <2>3
  <2>6. PaysFor(o)
    BY <1>9, <2>1, <2>5 DEF PaysFor
  <2>7. Loose(t, d) <= r + c[f]
    <3>1. Loose(s, c) <= r /\ Loose(s, c) \in Nat
      BY <1>2, <1>3, LedgerFinite, LooseShape DEF Covered
    <3>2. CASE f \in DOMAIN s
      <4>1. DOMAIN t \ DOMAIN d = (DOMAIN s \ DOMAIN c) \cup {f}
        BY <1>2, <1>5, <2>2, <3>2
      <4>2. \A x \in DOMAIN s \ DOMAIN c : t[x] = s[x]
        BY <1>2, <2>2
      <4>3. f \in DOMAIN s \cap DOMAIN c
        BY <1>2, <3>2
      <4>4. Loose(t, d) = t[f] + Loose(s, c)
        BY <1>3, <2>2, <4>1, <4>2, <4>3, LedgerFinite, LooseMore
      <4> QED
        BY <1>3, <1>6, <2>2, <3>1, <3>2, <4>4
    <3>3. CASE f \notin DOMAIN s
      <4>1. DOMAIN t \ DOMAIN d \subseteq DOMAIN s \ DOMAIN c
        BY <1>5, <2>2, <3>3
      <4>2. \A x \in DOMAIN t \ DOMAIN d : t[x] <= s[x]
        BY <1>3, <2>2, <3>3 DEF Blocks
      <4>3. Loose(t, d) <= Loose(s, c) /\ Loose(t, d) \in Nat
        BY <1>3, <2>2, <4>1, <4>2, LedgerFinite, LooseLess, LooseShape
      <4> QED
        BY <1>3, <1>6, <3>1, <4>3
    <3> QED
      BY <3>2, <3>3
  <2>8. Covered(t, d, r + c[f])
    <3>1. \A x \in DOMAIN t \cap DOMAIN d : t[x] <= d[x]
      BY <1>2, <1>5, <2>2 DEF Covered
    <3> QED
      BY <2>7, <3>1 DEF Covered
  <2> QED
    BY <1>7, <1>8, <2>3, <2>4, <2>6, <2>8, OwnerStep
<1> QED
  BY <1>12, <1>13

\* The process is over, and its ledger with it; the directories it leaves are
\* nobody's.
LEMMA EndProcessPays ==
    ASSUME LedgerIInv, NEW p \in Processes, EndProcess(p)
    PROVE  LedgerIInv'
<1> DEFINE own == Owned(p)
<1>1. /\ power' = [power EXCEPT ![p] = "ended"]
      /\ disk' = [disk EXCEPT ![p] = 0] /\ lost' = [lost EXCEPT ![p] = 0]
      /\ pending' = [pending EXCEPT ![p] = Nothing]
      /\ stage' = [o \in Owners |-> IF o \in own THEN "gone" ELSE stage[o]]
      /\ charge' = [o \in Owners |-> IF o \in own THEN Nothing ELSE charge[o]]
      /\ retained' = [o \in Owners |-> IF o \in own THEN 0 ELSE retained[o]]
      /\ UNCHANGED <<proc, size>>
  BY DEF EndProcess, Owned
<1>2. LedgerShape
  BY DEF LedgerIInv
<1>3. Blocks(Nothing, Owners) /\ Blocks(Nothing, Files) /\ DOMAIN Nothing = {}
  BY DEF Blocks, Nothing
<1>4. LedgerShape'
  <2>1. \A o \in Owners : Blocks(charge'[o], Files)
    BY <1>1, <1>2, <1>3 DEF LedgerShape
  <2>2. \A q \in Processes : Blocks(pending'[q], Owners)
    BY <1>1, <1>2, <1>3 DEF LedgerShape
  <2> QED
    BY <1>1, <1>2, <2>1, <2>2 DEF LedgerShape, Stages
<1>5. p # 0 /\ DiskLimit \in Nat
  BY SortScratchAssumption DEF Processes
<1>6. LifePart'
  <2> SUFFICES ASSUME NEW o \in Owners PROVE Life(o)'
    BY DEF LifePart
  <2>1. Life(o)
    BY DEF LedgerIInv, LifePart
  <2>2. CASE o \in own
    BY <1>1, <1>3, <1>5, <2>1, <2>2 DEF Life, Open, Owned
  <2>3. CASE o \notin own
    BY <1>1, <2>1, <2>3 DEF Life, Open
  <2> QED
    BY <2>2, <2>3
<1>7. CoverPart'
  BY <1>1 DEF LedgerIInv, CoverPart
<1>8. \A q \in Processes : q # p =>
          pending'[q] = pending[q] /\ lost'[q] = lost[q] /\ disk'[q] = disk[q]
          /\ power'[q] = power[q]
  BY <1>1, <1>2 DEF LedgerShape
<1>9. pending'[p] = Nothing /\ lost'[p] = 0 /\ disk'[p] = 0 /\ power'[p] = "ended"
  BY <1>1, <1>2 DEF LedgerShape
<1>10. QueuePart'
  <2> SUFFICES ASSUME NEW q \in Processes, NEW n \in DOMAIN pending'[q]
               PROVE  proc'[n] = q /\ stage'[n] = "gone" /\ OnDisk(n)' <= pending'[q][n]
    BY DEF QueuePart
  <2>1. q # p
    BY <1>3, <1>9
  <2>2. n \in Owners
    BY <1>4 DEF LedgerShape, Blocks
  <2> QED
    BY <1>1, <1>8, <2>1, <2>2 DEF LedgerIInv, QueuePart, OnDisk
<1>11. ASSUME NEW q \in Processes, q # p
       PROVE  /\ Owned(q)' = Owned(q)
              /\ \A n \in Owned(q) : n \in Owners /\ n \notin own
  BY <1>1, <1>11 DEF Owned
<1>12. StrayPart'
  <2> SUFFICES ASSUME NEW q \in Processes, power'[q] # "ended"
               PROVE  Total(Strays(q))' <= lost'[q]
    BY DEF StrayPart
  <2>1. q # p
    BY <1>9
  <2>2. Strays(q)' = Strays(q)
    BY <1>1, <1>8, <1>11, <2>1 DEF Strays, Astray, OnDisk
  <2> QED
    BY <1>8, <2>1, <2>2 DEF LedgerIInv, StrayPart
<1>13. LimitPart'
  BY <1>5, <1>8, <1>9 DEF LimitPart, LedgerIInv
<1>14. BillPart'
  <2> SUFFICES ASSUME NEW q \in Processes PROVE LedgerIsExact(q)'
    BY DEF BillPart
  <2>1. LedgerIsExact(q)
    BY DEF LedgerIInv, BillPart
  <2>2. CASE q # p
    <3>1. Bills(q)' = Bills(q)
      BY <1>1, <1>11, <2>2 DEF Bills, Bill
    <3> QED
      BY <1>8, <2>1, <2>2, <3>1 DEF LedgerIsExact, Bills
  <2>3. CASE q = p
    <3>1. LedgerCounts'
      BY <1>4, LedgerCountsAre, PTL
    <3>2. Owned(p)' = own
      BY <1>1 DEF Owned
    <3> DEFINE h == Bills(p)'
    <3>3. h \in [own -> Nat] /\ IsFiniteSet(own)
      BY <3>1, <3>2 DEF LedgerCounts
    <3>4. Total(Nothing) = 0
      BY <1>3, TotalEmpty
    <3>5. \A n \in own : h[n] = 0
      BY <1>1, <3>2, <3>4 DEF Bills, Bill, Owned
    <3>6. Total(h) = 0
      <4>1. h \in [own -> Int]
        BY <3>3
      <4> HIDE DEF h, own
      <4> QED
        BY <3>3, <3>5, <4>1, TotalOfZeros
    <3> QED
      BY <1>9, <2>3, <3>4, <3>6 DEF LedgerIsExact, Bills
  <2> QED
    BY <2>2, <2>3
<1> QED
  BY <1>4, <1>6, <1>7, <1>10, <1>12, <1>13, <1>14 DEF LedgerIInv

\* What is left of a directory is some of it, and nothing if all could go.
LEMMA RemainingPays ==
    ASSUME LedgerIInv, NEW S, NEW n \in Owners
    PROVE  /\ Blocks(Remaining(S)[n], Entries)
           /\ Total(Remaining(S)[n]) <= OnDisk(n)
           /\ Total(Remaining(S)[n]) \in Nat
           /\ DOMAIN Remaining(S)[n] \subseteq DOMAIN size[n]
           /\ n \notin S => Remaining(S)[n] = size[n]
           /\ n \in S /\ Stuck(n) = {} => Total(Remaining(S)[n]) = 0
<1> DEFINE s == size[n]
<1> DEFINE T == Deleted(n)
<1>1. Blocks(s, Entries) /\ Total(s) \in Nat /\ OnDisk(n) = Total(s)
  BY OwnerHas, LedgerFinite, BlocksTotal DEF OnDisk
<1>2. Remaining(S)[n] = IF n \in S THEN Without(s, T) ELSE s
  BY DEF Remaining
<1>3. Stuck(n) = {} => T = DOMAIN s
  BY DEF Deleted
<1> HIDE DEF s, T
<1>4. Blocks(Without(s, T), Entries) /\ Total(Without(s, T)) <= Total(s)
      /\ DOMAIN Without(s, T) = DOMAIN s \ T
  BY <1>1, LedgerFinite, BlocksWithout
<1>5. Total(Without(s, T)) \in Nat
  BY <1>4, LedgerFinite, BlocksTotal
<1>6. Stuck(n) = {} => Total(Without(s, T)) = 0
  BY <1>3, <1>4, TotalEmpty
<1> QED
  BY <1>1, <1>2, <1>4, <1>5, <1>6 DEF s

\* SortSession::new: what leaves the queue is deleted, and a directory is made
\* that costs nothing yet.
LEMMA MakeDirectoryPays ==
    ASSUME LedgerIInv, NEW p \in Processes, NEW o \in Owners, MakeDirectory(p, o)
    PROVE  LedgerIInv'
<1> DEFINE Q == DOMAIN pending[p]
<1> DEFINE C == Cleaned(p)
<1> DEFINE b == pending[p]
<1>1. /\ power[p] = "on" /\ stage[o] = "unborn"
      /\ proc' = [proc EXCEPT ![o] = p]
      /\ size' = Remaining(Q)
      /\ disk' = [disk EXCEPT ![p] = @ - Total(Restrict(b, C))]
      /\ pending' = [pending EXCEPT ![p] = Without(b, C)]
      /\ stage' = [stage EXCEPT ![o] = "bare"]
      /\ UNCHANGED <<power, lost, charge, retained>>
  BY DEF MakeDirectory, LedgerIInv, LedgerShape
<1>2. LedgerShape /\ LedgerCounts
  BY LedgerCountsAre DEF LedgerIInv
<1>3. proc[o] = 0 /\ DOMAIN size[o] = {} /\ Open(o) = {} /\ retained[o] = 0 /\ p # 0
  BY <1>1, SortScratchAssumption DEF LedgerIInv, LifePart, Life, Processes
<1>4. Blocks(b, Owners) /\ C \subseteq Q /\ Total(b) \in Nat
  BY <1>2 DEF LedgerShape, LedgerCounts, Cleaned
<1>5. \A n \in Q : n \in Owners /\ proc[n] = p /\ stage[n] = "gone" /\ n # o
  BY <1>1, <1>4 DEF LedgerIInv, QueuePart, Blocks
<1>6. \A n \in Owners : /\ Blocks(size'[n], Entries)
                        /\ Total(size'[n]) <= OnDisk(n)
                        /\ Total(size'[n]) \in Nat
                        /\ DOMAIN size'[n] \subseteq DOMAIN size[n]
                        /\ n \notin Q => size'[n] = size[n]
                        /\ n \in C => Total(size'[n]) = 0
  BY <1>1, RemainingPays DEF Cleaned
<1>7. DOMAIN size' = Owners
  BY <1>1 DEF Remaining
<1> HIDE DEF Q, C, b
<1> DEFINE e == Without(b, C)
<1> DEFINE a == Restrict(b, C)
<1>8. /\ Blocks(e, Owners) /\ DOMAIN e = Q \ C
      /\ \A x \in Q \ C : e[x] = b[x]
  <2>1. Blocks(e, Owners) /\ DOMAIN e = DOMAIN b \ C
        /\ \A x \in DOMAIN b \ C : e[x] = b[x]
    BY <1>4, LedgerFinite, BlocksWithout
  <2> QED
    BY <2>1 DEF Q, b
<1>9. Total(e) = Total(b) - Total(a) /\ Total(a) \in Nat
  <2>1. IsFiniteSet(Q) /\ b \in [Q -> Int] /\ b \in [Q -> Nat]
    BY <1>4, LedgerFinite, BlocksTotal DEF Blocks, Q, b
  <2>2. Total(e) = Total(b) - Total(a)
    BY <1>4, <2>1, TotalOfOthers
  <2>3. IsFiniteSet(C) /\ a \in [C -> Nat]
    BY <1>4, <2>1, FS_Subset DEF Restrict
  <2> HIDE DEF a
  <2> QED
    BY <2>2, <2>3, TotalIsNat
<1> HIDE DEF e, a
<1>10. /\ pending'[p] = e /\ disk'[p] = disk[p] - Total(a)
       /\ \A q \in Processes : q # p => pending'[q] = pending[q] /\ disk'[q] = disk[q]
       /\ disk[p] \in Int /\ disk' \in [Processes -> Int] /\ DOMAIN pending' = Processes
  BY <1>1, <1>2, <1>9 DEF LedgerShape, a, e
<1>11. /\ proc'[o] = p /\ stage'[o] = "bare"
       /\ \A n \in Owners \ {o} : proc'[n] = proc[n] /\ stage'[n] = stage[n]
       /\ proc' \in [Owners -> 0 .. MaxProcesses] /\ stage' \in [Owners -> Stages]
  BY <1>1, <1>2 DEF LedgerShape, Stages, Processes
<1>12. LedgerShape'
  <2>1. \A q \in Processes : Blocks(pending'[q], Owners)
    BY <1>2, <1>8, <1>10 DEF LedgerShape
  <2>2. \A n \in Owners : Blocks(size'[n], Entries) /\ Blocks(charge'[n], Files)
    BY <1>1, <1>2, <1>6 DEF LedgerShape
  <2> QED
    BY <1>1, <1>2, <1>7, <1>10, <1>11, <2>1, <2>2 DEF LedgerShape
<1>13. LedgerCounts'
  BY <1>12, LedgerCountsAre, PTL
<1>14. LifePart'
  <2> SUFFICES ASSUME NEW n \in Owners PROVE Life(n)'
    BY DEF LifePart
  <2>1. Life(n) /\ DOMAIN size'[n] \subseteq DOMAIN size[n]
    BY <1>6 DEF LedgerIInv, LifePart
  <2>2. CASE n = o
    BY <1>1, <1>3, <1>11, <2>1, <2>2 DEF Life, Open
  <2>3. CASE n # o
    BY <1>1, <1>11, <2>1, <2>3 DEF Life, Open
  <2> QED
    BY <2>2, <2>3
<1>15. CoverPart'
  <2> SUFFICES ASSUME NEW n \in Owners, stage'[n] # "gone"
               PROVE  Covered(size'[n], charge'[n], retained'[n])
    BY DEF CoverPart
  <2>1. CASE n = o
    <3>1. DOMAIN size'[n] = {} /\ retained'[n] \in Nat
      BY <1>1, <1>3, <1>6, <2>1
    <3> QED
      BY <3>1, CoveredEmpty
  <2>2. CASE n # o
    <3>1. stage[n] # "gone" /\ n \notin Q
      BY <1>5, <1>11, <2>2
    <3> QED
      BY <1>1, <1>6, <3>1 DEF LedgerIInv, CoverPart
  <2> QED
    BY <2>1, <2>2
<1>16. QueuePart'
  <2> SUFFICES ASSUME NEW q \in Processes, NEW n \in DOMAIN pending'[q]
               PROVE  proc'[n] = q /\ stage'[n] = "gone" /\ OnDisk(n)' <= pending'[q][n]
    BY DEF QueuePart
  <2>1. n \in DOMAIN pending[q] /\ pending'[q][n] = pending[q][n] /\ n \in Owners
    BY <1>8, <1>10, <1>12 DEF LedgerShape, Blocks, b, Q
  <2>2. proc[n] = q /\ stage[n] = "gone" /\ OnDisk(n) <= pending[q][n]
    BY <2>1 DEF LedgerIInv, QueuePart
  <2>3. n # o
    BY <1>1, <2>2
  <2>4. OnDisk(n) \in Nat /\ pending[q][n] \in Nat
    BY <1>2, <2>1 DEF LedgerCounts, LedgerShape, Blocks
  <2>5. OnDisk(n)' = Total(size'[n])
    BY DEF OnDisk
  <2> QED
    BY <1>6, <1>11, <2>1, <2>2, <2>3, <2>4, <2>5
<1>17. ASSUME NEW q \in Processes
       PROVE  /\ q # p => Owned(q)' = Owned(q)
              /\ q = p => Owned(q)' = Owned(q) \cup {o}
              /\ o \notin Owned(q)
              /\ Owned(q) \subseteq Owners
  BY <1>3, <1>11, SortScratchAssumption DEF Owned, Processes
<1>18. Astray(p, o)' = 0 /\ Bill(o)' = 0
  <2>1. Total(charge'[o]) = 0
    BY <1>1, <1>3, TotalEmpty DEF Open
  <2> QED
    BY <1>1, <1>3, <1>11, <2>1 DEF Astray, Bill
<1>19. ASSUME NEW q \in Processes, NEW n \in Owned(q)
       PROVE  Astray(q, n)' <= Astray(q, n)
  <2>1. n \in Owners /\ n # o
    BY <1>17
  <2>2. OnDisk(n)' = Total(size'[n]) /\ OnDisk(n) \in Nat
    BY <1>2, <2>1 DEF OnDisk, LedgerCounts
  <2>3. CASE n \in DOMAIN pending[q] /\ n \notin DOMAIN pending'[q]
    <3>1. n \in C
      BY <1>8, <1>10, <2>3 DEF Q, b
    <3> QED
      BY <1>6, <2>1, <2>2, <3>1 DEF Astray
  <2>4. CASE n \in DOMAIN pending'[q]
    BY <2>2, <2>4 DEF Astray
  <2>5. CASE n \notin DOMAIN pending[q]
    BY <1>6, <1>11, <2>1, <2>2, <2>5 DEF Astray
  <2> QED
    BY <2>3, <2>4, <2>5
<1>20. ASSUME NEW q \in Processes
       PROVE  Total(Strays(q))' <= Total(Strays(q)) /\ Total(Bills(q))' = Total(Bills(q))
  <2> DEFINE D == Owned(q)
  <2> DEFINE f == Strays(q)
  <2> DEFINE h == Strays(q)'
  <2> DEFINE g == Bills(q)
  <2> DEFINE k == Bills(q)'
  <2>1. IsFiniteSet(D) /\ f \in [D -> Int] /\ g \in [D -> Int]
    BY <1>2 DEF LedgerCounts
  <2>2. CASE q # p
    <3>1. D' = D
      BY <1>17, <2>2
    <3>2. h \in [D -> Int] /\ \A n \in D : h[n] <= f[n]
      <4>1. h \in [D' -> Nat]
        BY <1>13 DEF LedgerCounts
      <4>2. \A n \in D' : h[n] = Astray(q, n)'
        BY DEF Strays
      <4>3. \A n \in D : f[n] = Astray(q, n)
        BY DEF Strays
      <4> HIDE DEF h, f
      <4> QED
        BY <1>19, <3>1, <4>1, <4>2, <4>3
    <3>3. k = g
      BY <1>1, <3>1 DEF Bills, Bill
    <3>4. Total(h) <= Total(f)
      <4> HIDE DEF h, f, D
      <4> QED
        BY <2>1, <3>2, TotalMonotone
    <3> QED
      BY <3>3, <3>4
  <2>3. CASE q = p
    <3>1. D' = D \cup {o} /\ o \notin D
      BY <1>17, <2>3
    <3>2. h \in [D \cup {o} -> Int] /\ h[o] = 0 /\ \A n \in D : h[n] <= f[n]
      <4>1. h \in [D' -> Nat]
        BY <1>13 DEF LedgerCounts
      <4>2. \A n \in D' : h[n] = Astray(q, n)'
        BY DEF Strays
      <4>3. \A n \in D : f[n] = Astray(q, n)
        BY DEF Strays
      <4> HIDE DEF h, f
      <4>4. h \in [D \cup {o} -> Int] /\ h[o] = Astray(q, o)'
        BY <3>1, <4>1, <4>2
      <4>5. h[o] = 0
        BY <1>18, <2>3, <4>4
      <4>6. \A n \in D : h[n] <= f[n]
        BY <1>19, <3>1, <4>2, <4>3
      <4> QED
        BY <4>4, <4>5, <4>6
    <3>3. k = Added(g, o, 0)
      BY <1>1, <1>18, <2>3, <3>1 DEF Bills, Bill, Added
    <3> HIDE DEF D, f, h, g, k
    <3>4. Total(k) = Total(g) + 0 /\ Total(g) \in Int
      BY <2>1, <3>1, <3>3, TotalOfAdded, TotalIsInt
    <3> DEFINE j == Added(f, o, 0)
    <3>5. Total(j) = Total(f) + 0 /\ Total(f) \in Int
      BY <2>1, <3>1, TotalOfAdded, TotalIsInt
    <3> DEFINE E == D \cup {o}
    <3>6. j \in [E -> Int] /\ IsFiniteSet(E) /\ h \in [E -> Int]
          /\ \A n \in E : h[n] <= j[n]
      BY <2>1, <3>1, <3>2, FS_AddElement DEF Added
    <3> HIDE DEF j, E
    <3>7. Total(h) <= Total(j)
      BY <3>6, TotalMonotone
    <3>8. Total(h) <= Total(f) /\ Total(k) = Total(g)
      BY <3>4, <3>5, <3>7
    <3> QED
      BY <3>8 DEF f, h, g, k
  <2> QED
    BY <2>2, <2>3
<1>21. StrayPart'
  <2> SUFFICES ASSUME NEW q \in Processes, power[q] # "ended"
               PROVE  Total(Strays(q))' <= lost[q]
    BY <1>1 DEF StrayPart
  <2>1. Total(Strays(q)) <= lost[q] /\ lost[q] \in Nat
    BY <1>2 DEF LedgerIInv, StrayPart, LedgerShape
  <2>2. Total(Strays(q)) \in Nat /\ Total(Strays(q))' \in Nat
    BY <1>2, <1>13 DEF LedgerCounts
  <2> QED
    BY <1>20, <2>1, <2>2
<1>22. LimitPart'
  <2>1. \A q \in Processes : disk[q] <= DiskLimit /\ DiskLimit \in Nat
    BY SortScratchAssumption DEF LedgerIInv, LimitPart
  <2>2. disk'[p] <= DiskLimit
    BY <1>9, <1>10, <2>1
  <2> QED
    BY <1>10, <2>1, <2>2 DEF LimitPart
<1>23. BillPart'
  <2> SUFFICES ASSUME NEW q \in Processes PROVE LedgerIsExact(q)'
    BY DEF BillPart
  <2>1. disk[q] = Total(Bills(q)) + Total(pending[q]) + lost[q]
    BY DEF LedgerIInv, BillPart, LedgerIsExact, Bills
  <2> DEFINE x == Total(Bills(q))
  <2> DEFINE y == Total(pending[q])
  <2>2. x \in Nat /\ y \in Nat /\ lost[q] \in Nat /\ Total(Bills(q))' = x
    BY <1>2, <1>20 DEF LedgerCounts, LedgerShape
  <2>3. CASE q # p
    <3>1. disk'[q] = Total(Bills(q))' + Total(pending'[q]) + lost'[q]
      BY <1>1, <1>10, <2>1, <2>2, <2>3
    <3> QED
      BY <3>1 DEF LedgerIsExact, Bills
  <2>4. CASE q = p
    <3>1. disk'[q] = disk[q] - Total(a) /\ Total(pending'[q]) = y - Total(a)
      BY <1>9, <1>10, <2>4 DEF b
    <3> HIDE DEF x, y
    <3>2. disk[q] = x + y + lost[q]
      BY <2>1 DEF x, y
    <3>3. disk'[q] = x + Total(pending'[q]) + lost[q]
      BY <1>9, <2>2, <3>1, <3>2
    <3> QED
      BY <1>1, <2>2, <3>3 DEF LedgerIsExact, Bills
  <2> QED
    BY <2>3, <2>4
<1> QED
  BY <1>12, <1>14, <1>15, <1>16, <1>21, <1>22, <1>23 DEF LedgerIInv

\* Drop for Owner: a directory that goes gives its charge back. One that stays
\* hands it to the queue, or to the part that is lost until the process ends.
LEMMA DropOwnerPays ==
    ASSUME LedgerIInv, NEW o \in Owners, DropOwner(o), NEW p \in Processes, p = proc[o]
    PROVE  LedgerIInv'
<1> DEFINE r == retained[o]
<1> DEFINE b == pending[p]
<1>1. /\ stage[o] = "unlocked" /\ stage' = [stage EXCEPT ![o] = "gone"]
      /\ size' = Remaining({o}) /\ retained' = [retained EXCEPT ![o] = 0]
      /\ UNCHANGED <<power, proc, charge>>
  BY DEF DropOwner
<1>2. LedgerShape /\ LedgerCounts
  BY LedgerCountsAre DEF LedgerIInv
<1>3. Open(o) = {} /\ p \in Processes /\ r \in Nat /\ Covered(size[o], charge[o], r)
      /\ Blocks(size[o], Entries) /\ Blocks(charge[o], Entries) /\ p # 0
  BY <1>1, OwnerHas DEF LedgerIInv, LifePart, Life, CoverPart
<1>4. Total(charge[o]) = 0
  BY <1>3, TotalEmpty DEF Open
<1>5. OnDisk(o) <= r
  <2>1. Total(size[o]) <= Total(charge[o]) + r
    BY <1>3, LedgerFinite, CoveredTotal
  <2> QED
    BY <1>3, <1>4, <2>1 DEF OnDisk
<1>6. /\ Blocks(size'[o], Entries)
      /\ Total(size'[o]) <= OnDisk(o) /\ Total(size'[o]) \in Nat
      /\ Stuck(o) = {} => Total(size'[o]) = 0
      /\ \A n \in Owners \ {o} : size'[n] = size[n]
  BY <1>1, RemainingPays
<1>7. Total(size'[o]) <= r /\ OnDisk(o) \in Nat
  BY <1>2, <1>3, <1>5, <1>6 DEF LedgerCounts
<1>8. /\ stage'[o] = "gone" /\ retained'[o] = 0
      /\ stage' \in [Owners -> Stages] /\ retained' \in [Owners -> Nat]
      /\ DOMAIN size' = Owners
      /\ \A n \in Owners \ {o} : stage'[n] = stage[n] /\ retained'[n] = retained[n]
  BY <1>1, <1>2 DEF LedgerShape, Stages, Remaining
<1>9. Life(o)'
  BY <1>1, <1>3, <1>8 DEF Life, Open
<1>10. Bill(o) = r /\ Bill(o)' = 0
  BY <1>1, <1>3, <1>4, <1>8 DEF Bill
<1>11. \A q \in Processes : disk[q] \in Int /\ disk[q] <= DiskLimit /\ DiskLimit \in Nat
  BY <1>2, SortScratchAssumption DEF LedgerIInv, LimitPart, LedgerShape
<1>12. ASSUME UNCHANGED <<lost, pending>>, Total(size'[o]) = 0,
              disk' = [disk EXCEPT ![p] = @ - r]
       PROVE  LedgerIInv'
  <2>1. disk'[p] = disk[p] - r /\ disk' \in [Processes -> Int]
        /\ \A q \in Processes : q # p => disk'[q] = disk[q]
    BY <1>2, <1>3, <1>12 DEF LedgerShape
  <2>2. OnlyOwner(o)
    BY <1>1, <1>2, <1>6, <1>8, <1>12, <2>1 DEF OnlyOwner, LedgerShape
  <2>3. (disk[p] - Bill(o)) + Bill(o)' = disk[p] - r /\ disk[p] - r <= DiskLimit
    BY <1>3, <1>10, <1>11
  <2>4. PaysFor(o)
    BY <1>11, <2>1, <2>3 DEF PaysFor
  <2>5. LeavesNoMore(o)
    BY <1>1, <1>12 DEF LeavesNoMore
  <2> QED
    BY <1>8, <1>9, <2>2, <2>4, <2>5, OwnerStep
<1>13. CASE exists[o] /\ Stuck(o) = {}
  BY <1>6, <1>12, <1>13 DEF DropOwner
<1>14. CASE ~ (exists[o] /\ Stuck(o) = {}) /\ r = 0
  <2>1. UNCHANGED <<lost, pending, disk>> /\ Total(size'[o]) = 0
    BY <1>6, <1>7, <1>14 DEF DropOwner
  <2>2. disk' = [disk EXCEPT ![p] = @ - r]
    BY <1>2, <1>3, <1>14, <2>1 DEF LedgerShape
  <2> QED
    BY <1>12, <2>1, <2>2
<1>15. ASSUME disk' = disk, LedgerShape',
              \A q \in Processes : q # p => pending'[q] = pending[q] /\ lost'[q] = lost[q],
              DOMAIN pending'[p] \subseteq DOMAIN b \cup {o},
              DOMAIN b \subseteq DOMAIN pending'[p],
              \A n \in DOMAIN b : pending'[p][n] = b[n],
              o \in DOMAIN pending'[p] => pending'[p][o] = r,
              Total(pending'[p]) + lost'[p] = Total(b) + lost[p] + r,
              Total(Strays(p))' <= Total(Strays(p)) + (lost'[p] - lost[p])
       PROVE  LedgerIInv'
  <2>1. LedgerCounts'
    BY <1>15, LedgerCountsAre, PTL
  <2>2. LifePart'
    BY <1>1, <1>6, <1>8, <1>9 DEF LedgerIInv, LifePart, Life, Open
  <2>3. CoverPart'
    BY <1>1, <1>6, <1>8 DEF LedgerIInv, CoverPart
  <2>4. QueuePart'
    <3> SUFFICES ASSUME NEW q \in Processes, NEW n \in DOMAIN pending'[q]
                 PROVE  proc[n] = q /\ stage'[n] = "gone" /\ OnDisk(n)' <= pending'[q][n]
      BY <1>1 DEF QueuePart
    <3>1. CASE n = o /\ q = p
      BY <1>7, <1>8, <1>15, <3>1 DEF OnDisk
    <3>2. CASE n \in DOMAIN pending[q]
      <4>1. n \in Owners /\ proc[n] = q /\ stage[n] = "gone" /\ OnDisk(n) <= pending[q][n]
        BY <1>2, <3>2 DEF LedgerShape, Blocks, LedgerIInv, QueuePart
      <4>2. n # o /\ pending'[q][n] = pending[q][n]
        BY <1>1, <1>15, <3>2, <4>1
      <4> QED
        BY <1>6, <1>8, <4>1, <4>2 DEF OnDisk
    <3> QED
      BY <1>15, <3>1, <3>2
  <2>5. \A q \in Processes : q # p => Strays(q)' = Strays(q)
    <3> SUFFICES ASSUME NEW q \in Processes, q # p PROVE Strays(q)' = Strays(q)
      OBVIOUS
    <3>1. Owned(q)' = Owned(q)
      BY <1>1 DEF Owned
    <3>2. ASSUME NEW n \in Owned(q) PROVE Astray(q, n)' = Astray(q, n)
      <4>1. n \in Owners /\ n # o
        BY DEF Owned
      <4> QED
        BY <1>6, <1>8, <1>15, <4>1 DEF Astray, OnDisk
    <3> QED
      BY <3>1, <3>2 DEF Strays
  <2>6. StrayPart'
    <3> SUFFICES ASSUME NEW q \in Processes, power[q] # "ended"
                 PROVE  Total(Strays(q))' <= lost'[q]
      BY <1>1 DEF StrayPart
    <3>1. Total(Strays(q)) <= lost[q] /\ lost[q] \in Nat /\ lost'[q] \in Nat
      BY <1>2, <1>15 DEF LedgerIInv, StrayPart, LedgerShape
    <3>2. Total(Strays(q)) \in Nat /\ Total(Strays(q))' \in Nat
      BY <1>2, <2>1 DEF LedgerCounts
    <3>3. CASE q = p
      <4> DEFINE x == Total(Strays(p))
      <4> DEFINE y == Total(Strays(p))'
      <4>1. y <= x + (lost'[p] - lost[p])
        BY <1>15
      <4>2. x <= lost[p] /\ x \in Nat /\ y \in Nat
        BY <3>1, <3>2, <3>3
      <4> HIDE DEF x, y
      <4>3. y <= lost'[p]
        BY <3>1, <3>3, <4>1, <4>2
      <4> QED
        BY <3>3, <4>3 DEF y
    <3>4. CASE q # p
      BY <1>15, <2>5, <3>1, <3>4
    <3> QED
      BY <3>3, <3>4
  <2>7. LimitPart'
    BY <1>15 DEF LimitPart, LedgerIInv
  <2>8. BillPart'
    <3> SUFFICES ASSUME NEW q \in Processes PROVE LedgerIsExact(q)'
      BY DEF BillPart
    <3>1. disk[q] = Total(Bills(q)) + Total(pending[q]) + lost[q]
      BY DEF LedgerIInv, BillPart, LedgerIsExact, Bills
    <3>2. BillsFollow(o, q)
      <4>1. LedgerShape' /\ proc' = proc
            /\ \A n \in Owners \ {o} : charge'[n] = charge[n] /\ retained'[n] = retained[n]
        BY <1>1, <1>8, <1>15
      <4> QED
        BY <1>2, <4>1, BillsMove
    <3> DEFINE x == Total(Bills(q))
    <3> DEFINE y == Total(pending[q])
    <3> DEFINE z == Total(pending'[q])
    <3>3. x \in Nat /\ y \in Nat /\ z \in Nat /\ lost[q] \in Nat /\ lost'[q] \in Nat
      BY <1>2, <1>15, <2>1 DEF LedgerCounts, LedgerShape
    <3>4. Total(Bills(q))' = IF q = p THEN x - r ELSE x
      BY <1>3, <1>10, <3>2, <3>3 DEF BillsFollow
    <3>5. z + lost'[q] = IF q = p THEN y + lost[q] + r ELSE y + lost[q]
      BY <1>15
    <3>6. disk'[q] = Total(Bills(q))' + z + lost'[q]
      <4>1. disk'[q] = x + y + lost[q]
        BY <1>15, <3>1
      <4> HIDE DEF x, y, z
      <4> QED
        BY <1>3, <3>3, <3>4, <3>5, <4>1
    <3> QED
      BY <3>6 DEF LedgerIsExact, Bills
  <2> QED
    BY <1>15, <2>2, <2>3, <2>4, <2>6, <2>7, <2>8 DEF LedgerIInv
<1>16. Blocks(b, Owners) /\ Total(b) \in Nat /\ o \notin DOMAIN b /\ lost[p] \in Nat
  BY <1>1, <1>2, <1>3 DEF LedgerShape, LedgerCounts, LedgerIInv, QueuePart
<1>17. Astray(p, o) = 0 /\ o \in Owned(p)
       /\ \A n \in Owned(p) \ {o} : n \in Owners
  BY <1>1 DEF Astray, Owned
<1>18. CASE /\ disk' = disk
            /\ pending' = [pending EXCEPT ![p] = Added(@, o, r)]
            /\ UNCHANGED lost
  <2> DEFINE e == Added(b, o, r)
  <2>1. DOMAIN e = DOMAIN b \cup {o} /\ e[o] = r /\ \A n \in DOMAIN b : n # o => e[n] = b[n]
    BY DEF Added
  <2> HIDE DEF b
  <2>2. Blocks(e, Owners) /\ Total(e) = Total(b) + r
    BY <1>3, <1>16, LedgerFinite, BlocksAdded
  <2> HIDE DEF e
  <2>3. /\ pending'[p] = e /\ DOMAIN pending' = Processes
        /\ \A q \in Processes : q # p => pending'[q] = pending[q]
    BY <1>2, <1>3, <1>18 DEF LedgerShape, e, b
  <2>4. LedgerShape'
    <3>1. \A q \in Processes : Blocks(pending'[q], Owners)
      BY <1>2, <2>2, <2>3 DEF LedgerShape
    <3>2. \A n \in Owners : Blocks(size'[n], Entries) /\ Blocks(charge'[n], Files)
      BY <1>1, <1>2, <1>6 DEF LedgerShape
    <3> QED
      BY <1>1, <1>2, <1>8, <1>18, <2>3, <3>1, <3>2 DEF LedgerShape
  <2>5. Total(Strays(p))' <= Total(Strays(p))
    <3>1. ASSUME NEW n \in Owned(p) PROVE Astray(p, n)' <= Astray(p, n)
      <4>1. CASE n = o
        BY <1>17, <2>1, <2>3, <4>1 DEF Astray
      <4>2. CASE n # o
        <5>1. n \in Owners /\ OnDisk(n) \in Nat
          BY <1>2, <1>17, <4>2 DEF LedgerCounts
        <5>2. n \in DOMAIN pending'[p] <=> n \in DOMAIN pending[p]
          BY <2>1, <2>3, <4>2 DEF b
        <5> QED
          BY <1>6, <1>8, <4>2, <5>1, <5>2 DEF Astray, OnDisk
      <4> QED
        BY <4>1, <4>2
    <3> QED
      BY <1>1, <1>2, <1>3, <2>4, <3>1, StraysShrink
  <2>6. Total(Strays(p)) \in Nat /\ Total(Strays(p))' \in Nat
    <3>1. LedgerCounts'
      BY <2>4, LedgerCountsAre, PTL
    <3> QED
      BY <1>2, <1>3, <3>1 DEF LedgerCounts
  <2>7. /\ Total(pending'[p]) + lost'[p] = Total(b) + lost[p] + r
        /\ Total(Strays(p))' <= Total(Strays(p)) + (lost'[p] - lost[p])
    BY <1>3, <1>16, <1>18, <2>2, <2>3, <2>5, <2>6
  <2>8. /\ DOMAIN pending'[p] \subseteq DOMAIN b \cup {o}
        /\ DOMAIN b \subseteq DOMAIN pending'[p]
        /\ \A n \in DOMAIN b : pending'[p][n] = b[n]
        /\ pending'[p][o] = r
    BY <1>16, <2>1, <2>3
  <2> QED
    BY <1>15, <1>18, <2>3, <2>4, <2>7, <2>8 DEF b
<1>19. CASE /\ disk' = disk
            /\ lost' = [lost EXCEPT ![p] = @ + r]
            /\ UNCHANGED pending
  <2>1. /\ lost'[p] = lost[p] + r /\ lost' \in [Processes -> Nat]
        /\ \A q \in Processes : q # p => lost'[q] = lost[q]
    BY <1>2, <1>3, <1>19 DEF LedgerShape
  <2>2. LedgerShape'
    <3>1. \A n \in Owners : Blocks(size'[n], Entries) /\ Blocks(charge'[n], Files)
      BY <1>1, <1>2, <1>6 DEF LedgerShape
    <3> QED
      BY <1>1, <1>2, <1>8, <1>19, <2>1, <3>1 DEF LedgerShape
  <2>3. LedgerCounts'
    BY <2>2, LedgerCountsAre, PTL
  <2>4. Total(Strays(p))' <= Total(Strays(p)) + r
    <3> DEFINE D == Owned(p)
    <3> DEFINE f == Strays(p)
    <3> DEFINE h == Strays(p)'
    <3>1. D' = D
      BY <1>1 DEF Owned
    <3>2. IsFiniteSet(D) /\ f \in [D -> Int] /\ h \in [D -> Int]
      BY <1>2, <1>3, <2>3, <3>1 DEF LedgerCounts
    <3>3. ASSUME NEW n \in D \ {o} PROVE h[n] = f[n]
      <4>1. n \in Owners /\ n # o /\ n \in Owned(p) /\ n \in Owned(p)'
        BY <1>17, <3>1
      <4>2. Astray(p, n)' = Astray(p, n)
        BY <1>6, <1>8, <1>19, <4>1 DEF Astray, OnDisk
      <4> QED
        BY <4>1, <4>2 DEF Strays
    <3>4. o \in D /\ f[o] = 0 /\ h[o] = Total(size'[o])
      <4>1. Astray(p, o)' = Total(size'[o])
        BY <1>8, <1>16, <1>19 DEF Astray, OnDisk
      <4> QED
        BY <1>17, <3>1, <4>1 DEF Strays
    <3> HIDE DEF D, f, h
    <3>5. Total(h) = (Total(f) - f[o]) + h[o]
      BY <3>2, <3>3, <3>4, TotalChanges
    <3>6. Total(f) \in Int /\ h[o] <= r /\ h[o] \in Nat
      BY <1>6, <1>7, <3>2, <3>4, TotalIsInt
    <3>7. Total(h) <= Total(f) + r
      BY <1>3, <3>4, <3>5, <3>6
    <3> QED
      BY <3>7 DEF f, h
  <2>5. /\ Total(pending'[p]) + lost'[p] = Total(b) + lost[p] + r
        /\ Total(Strays(p))' <= Total(Strays(p)) + (lost'[p] - lost[p])
    <3>1. lost'[p] - lost[p] = r
      BY <1>3, <1>16, <2>1
    <3> QED
      BY <1>3, <1>16, <1>19, <2>1, <2>4, <3>1
  <2> QED
    BY <1>15, <1>16, <1>19, <2>1, <2>2, <2>5
<1>20. CASE ~ (exists[o] /\ Stuck(o) = {}) /\ r # 0
  <2>1. Defer(p, o) /\ disk' = disk
    BY <1>20 DEF DropOwner
  <2> QED
    BY <1>18, <1>19, <2>1 DEF Defer
<1> QED
  BY <1>13, <1>14, <1>20

\* Before any process sorts.
LEMMA LedgerInitIInv == SortInit => LedgerIInv
<1> SUFFICES ASSUME SortInit PROVE LedgerIInv
  OBVIOUS
<1> USE DEF SortInit
<1>1. Blocks(Nothing, Owners) /\ Blocks(Nothing, Files) /\ Blocks(Nothing, Entries)
      /\ DOMAIN Nothing = {}
  BY DEF Blocks, Nothing
<1>2. LedgerShape
  BY <1>1, SortScratchAssumption DEF LedgerShape, Stages
<1>3. LifePart /\ CoverPart
  <2>1. ASSUME NEW o \in Owners PROVE Covered(size[o], charge[o], retained[o])
    BY <1>1, CoveredEmpty
  <2> QED
    BY <1>1, <2>1 DEF LifePart, Life, CoverPart, Open
<1>4. QueuePart
  BY <1>1 DEF QueuePart
<1>5. ASSUME NEW p \in Processes PROVE Owned(p) = {}
  BY SortScratchAssumption DEF Owned, Processes
<1>6. ASSUME NEW p \in Processes
      PROVE  Total(Bills(p)) = 0 /\ Total(Strays(p)) = 0 /\ Total(pending[p]) = 0
  <2>1. DOMAIN Bills(p) = {} /\ DOMAIN Strays(p) = {} /\ DOMAIN pending[p] = {}
    BY <1>1, <1>5 DEF Bills, Strays
  <2> QED
    BY <2>1, TotalEmpty
<1>7. StrayPart
  BY <1>6 DEF StrayPart
<1>8. LimitPart
  BY SortScratchAssumption DEF LimitPart
<1>9. BillPart
  BY <1>6 DEF BillPart, LedgerIsExact, Bills
<1> QED
  BY <1>2, <1>3, <1>4, <1>7, <1>8, <1>9 DEF LedgerIInv

LEMMA LedgerStepIInv == LedgerIInv /\ [SortNext]_sortVars => LedgerIInv'
<1> SUFFICES ASSUME LedgerIInv, [SortNext]_sortVars PROVE LedgerIInv'
  OBVIOUS
<1>0. DOMAIN power = Processes
  BY DEF LedgerIInv, LedgerShape
<1>1. ASSUME NEW p \in Processes, SortSteps(p) PROVE LedgerIInv'
  <2>1. CASE FirstSort(p)
    BY <1>0, <2>1, LedgerIdleStep DEF FirstSort
  <2>2. CASE Recovered(p)
    BY <1>0, <2>2, LedgerIdleStep DEF Recovered
  <2>3. CASE EndProcess(p)
    BY <2>3, EndProcessPays
  <2>4. ASSUME NEW o \in Owners, Judge(p, o) PROVE LedgerIInv'
    BY <1>0, <2>4, LedgerIdleStep DEF Judge
  <2>5. ASSUME NEW o \in Owners, Sweep(p, o) PROVE LedgerIInv'
    BY <2>5, SweepPays
  <2>6. ASSUME NEW o \in Owners, MakeDirectory(p, o) PROVE LedgerIInv'
    BY <2>6, MakeDirectoryPays
  <2> QED
    BY <1>1, <2>1, <2>2, <2>3, <2>4, <2>5, <2>6 DEF SortSteps
<1>2. ASSUME NEW o \in Owners, OwnerSteps(o) PROVE LedgerIInv'
  <2>1. CASE MakeLock(o)
    BY <2>1, MakeLockPays
  <2>2. CASE Unlock(o)
    BY <2>2, UnlockPays
  <2>3. CASE DropOwner(o)
    <3>1. proc[o] \in Processes
      BY <2>3, OwnerHas DEF DropOwner
    <3>2. PICK p \in Processes : p = proc[o]
      BY <3>1
    <3> QED
      BY <2>3, <3>2, DropOwnerPays
  <2>4. ASSUME NEW f \in Files,
               MakeFile(o, f) \/ Grow(o, f) \/ WriteOut(o, f) \/ DropFile(o, f)
        PROVE  LedgerIInv'
    BY <2>4, MakeFilePays, GrowPays, WriteOutPays, DropFilePays
  <2> QED
    BY <1>2, <2>1, <2>2, <2>3, <2>4 DEF OwnerSteps
<1>3. CASE Grip \/ LetGo
  BY <1>0, <1>3, LedgerIdleStep DEF Grip, LetGo
<1>4. CASE UNCHANGED sortVars
  BY <1>0, <1>4, LedgerIdleStep DEF sortVars
<1> QED
  BY <1>1, <1>2, <1>3, <1>4 DEF SortNext

\* What is on the disk is paid for: by the owners, the queue or the lost part.
LEMMA LedgerCovers ==
    ASSUME LedgerIInv, NEW p \in Processes, power[p] # "ended"
    PROVE  Total([o \in Owned(p) |-> OnDisk(o)]) <= disk[p]
<1> DEFINE D == Owned(p)
<1> DEFINE b == pending[p]
<1> DEFINE u == [o \in D |-> OnDisk(o)]
<1> DEFINE f == Bills(p)
<1> DEFINE g == Strays(p)
<1> DEFINE q == [o \in D |-> IF o \in DOMAIN b THEN b[o] ELSE 0]
<1> DEFINE h == [o \in D |-> g[o] + q[o]]
<1> DEFINE e == [o \in D |-> f[o] + h[o]]
<1>1. LedgerShape /\ LedgerCounts
  BY LedgerCountsAre DEF LedgerIInv
<1>2. IsFiniteSet(D) /\ f \in [D -> Int] /\ g \in [D -> Int] /\ D \subseteq Owners
  BY <1>1 DEF LedgerCounts, Owned
<1>3. Blocks(b, Owners) /\ DOMAIN b \subseteq D
  BY <1>1 DEF LedgerShape, LedgerIInv, QueuePart, Owned, Blocks
<1>4. q \in [D -> Int] /\ \A o \in D : q[o] = IF o \in DOMAIN b THEN b[o] ELSE 0
  BY <1>3 DEF Blocks
<1>5. Total(q) = Total(b)
  <2> DEFINE T == DOMAIN b
  <2>1. T \subseteq D /\ b \in [T -> Int]
        /\ (\A x \in T : q[x] = b[x]) /\ \A x \in D \ T : q[x] = 0
    BY <1>3, <1>4 DEF Blocks
  <2> HIDE DEF b, q, T, D
  <2> QED
    BY <1>2, <1>4, <2>1, TotalOfSupport
<1>6. ASSUME NEW o \in D PROVE OnDisk(o) <= f[o] + (g[o] + q[o])
  <2>1. o \in Owners /\ f[o] = Bill(o) /\ g[o] = Astray(p, o) /\ OnDisk(o) \in Nat
        /\ Bill(o) \in Nat
    BY <1>1, <1>2 DEF Bills, Strays, LedgerCounts
  <2>2. q[o] = IF o \in DOMAIN b THEN b[o] ELSE 0
    BY <1>4
  <2>3. o \in DOMAIN b => b[o] \in Nat
    BY <1>3 DEF Blocks
  <2> HIDE DEF q
  <2>4. CASE stage[o] # "gone"
    <3>1. o \notin DOMAIN b /\ g[o] = 0
      BY <2>1, <2>4 DEF LedgerIInv, QueuePart, Astray
    <3>2. Blocks(size[o], Entries) /\ Blocks(charge[o], Entries) /\ retained[o] \in Nat
          /\ Covered(size[o], charge[o], retained[o])
      BY <2>1, <2>4, OwnerHas DEF LedgerIInv, CoverPart
    <3>3. Total(size[o]) <= Total(charge[o]) + retained[o]
      BY <3>2, LedgerFinite, CoveredTotal
    <3>4. OnDisk(o) <= f[o]
      BY <2>1, <3>3 DEF OnDisk, Bill
    <3> QED
      BY <2>1, <2>2, <3>1, <3>4
  <2>5. CASE o \in DOMAIN b
    <3>1. OnDisk(o) <= b[o] /\ g[o] = 0
      BY <2>1, <2>5 DEF LedgerIInv, QueuePart, Astray
    <3> HIDE DEF b
    <3> QED
      BY <2>1, <2>2, <2>3, <2>5, <3>1
  <2>6. CASE stage[o] = "gone" /\ o \notin DOMAIN b
    <3>1. g[o] = OnDisk(o) /\ q[o] = 0
      BY <2>1, <2>2, <2>6 DEF Astray
    <3> QED
      BY <2>1, <3>1
  <2> QED
    BY <2>4, <2>5, <2>6
<1>7. u \in [D -> Int]
  BY <1>1, <1>2 DEF LedgerCounts
<1>8. h \in [D -> Int] /\ \A o \in D : h[o] = g[o] + q[o]
  BY <1>2, <1>4
<1>9. e \in [D -> Int] /\ \A o \in D : e[o] = f[o] + h[o]
  BY <1>2, <1>8
<1>10. \A o \in D : u[o] <= e[o]
  BY <1>6
<1>11. Total(f) \in Nat /\ Total(g) \in Nat /\ Total(b) \in Nat
  BY <1>1 DEF LedgerCounts
<1>12. Total(g) <= lost[p] /\ lost[p] \in Nat
  BY <1>1 DEF LedgerIInv, StrayPart, LedgerShape
<1>13. disk[p] = Total(f) + Total(b) + lost[p]
  BY DEF LedgerIInv, BillPart, LedgerIsExact, Bills
<1> HIDE DEF u, e, h, f, g, q, b, D
<1>14. Total(u) <= Total(e)
  BY <1>2, <1>7, <1>9, <1>10, TotalMonotone
<1>15. Total(e) = Total(f) + Total(h)
  BY <1>2, <1>8, <1>9, TotalAdds
<1>16. Total(h) = Total(g) + Total(q)
  BY <1>2, <1>4, <1>8, TotalAdds
<1>17. Total(u) \in Int
  BY <1>2, <1>7, TotalIsInt
<1>18. Total(u) <= disk[p]
  BY <1>5, <1>11, <1>12, <1>13, <1>14, <1>15, <1>16, <1>17
<1> QED
  BY <1>18 DEF u, D

\* The ledger of a process never counts less than it has on the disk, never more
\* than its limit, and every charge once, whatever other programs hold, whichever
\* deletions are deferred or given up and whoever ends or recovers beside it
\* (SortResources, Drop for DiskFile, Drop for Owner): for any number of
\* processes, directories, files and blocks.
THEOREM LedgerStaysSound == ScratchSpec => []LedgerIsSound
<1>1. SortInit => LedgerIInv
  BY LedgerInitIInv
<1>2. LedgerIInv /\ [SortNext]_sortVars => LedgerIInv'
  BY LedgerStepIInv
<1>3. LedgerIInv => LedgerIsSound
  <2> SUFFICES ASSUME LedgerIInv, NEW p \in Processes, power[p] = "on"
               PROVE  LedgerCoversDisk(p) /\ LedgerIsExact(p)
    BY DEF LedgerIsSound
  <2>1. Total([o \in Owned(p) |-> OnDisk(o)]) <= disk[p]
    BY LedgerCovers
  <2>2. disk[p] <= DiskLimit /\ LedgerIsExact(p)
    BY DEF LedgerIInv, LimitPart, BillPart
  <2> QED
    BY <2>1, <2>2 DEF LedgerCoversDisk
<1> QED
  BY <1>1, <1>2, <1>3, PTL DEF ScratchSpec

=============================================================================
