--------------------------- MODULE TextFileProofs ---------------------------
(***************************************************************************)
(* Proofs about an open text document and a search in it, for every file,  *)
(* every change that other programs make, every buffer, limit and quota.   *)
(*                                                                         *)
(* The reader (DocumentReader): an engine that has lost trust in its source *)
(* never finds it again; the scan session refines the abstract stream of   *)
(* the snapshot's records; and a viewport that is handed over holds the    *)
(* rows asked for, of the snapshot.  ReaderBase says where the one thread  *)
(* stands, with what, and that whoever captured the object at its present  *)
(* revision captured what it is.  ScanPart says that the scanner agrees    *)
(* with the records found; ViewPart what a viewport has collected and      *)
(* copied, as long as nobody wrote (Calm): after a write nothing is known  *)
(* of a call, and the engine's last check never lets it hand anything over. *)
(*                                                                         *)
(* The search (QuerySession): however it is cut, cancelled and navigated,  *)
(* the page in memory is a part of the hit file, the hit file keeps to its *)
(* quota, and what is shown as a match is the entry the hit file has for   *)
(* it.  FoundPart adds that this entry is a hit of the snapshot: the       *)
(* scanner agrees with the records found, the bytes read are the file's    *)
(* where they are used, the matcher's state is that of the place the       *)
(* search has come to, and the hit file holds every hit before that place. *)
(* So the search implements SearchHits.                                    *)
(***************************************************************************)
EXTENDS DocumentReader, QuerySession, ScannerProofs

-----------------------------------------------------------------------------
(* The shape of the reader's state.                                           *)

Objects == [bytes : Seq(Bytes), rev : Nat]

Resting == {"closed", "opening", "idle", "refused"}
Scans == {"scan", "scan_check", "scan_read", "scan_feed", "scan_eof", "scan_verify"}
Views == {"view_capture", "view_loop", "view_read", "view_feed", "view_fill", "fill_read",
          "fill_check"}
Ranks == {"rank_next", "rank_read"}

JobFields == {"kind", "first", "base", "s", "next", "spans", "stopped", "buf", "rows", "eof",
              "unterminated", "status", "taken"}
Shaped(j) == DOMAIN j = JobFields /\ j = [x \in JobFields |-> j[x]]

\* What a call works on, by where it stands.
JobShape ==
    /\ pc \in Resting => job = NoJob
    /\ pc \notin Resting => Shaped(job) /\ job.taken \in Nat
    /\ pc \in Scans => job.kind = "scan"
    /\ pc \in Views => job.kind \in {"open", "view"}
    /\ pc \in Ranks => job.kind = "ranked"
    /\ pc \in {"view", "view_verify"} => job.kind \in {"open", "view", "ranked"}

ScanShape ==
    /\ DOMAIN scan = {"snap", "s", "done", "failed", "unterminated"}
    /\ scan = [x \in DOMAIN scan |-> scan[x]]
    /\ scan.snap \in Objects /\ scan.done \in BOOLEAN /\ scan.failed \in BOOLEAN

ReaderShape ==
    /\ {windows, delimited} \subseteq BOOLEAN
    /\ disk \in Objects /\ disk.rev <= MaxWrites
    /\ opened \in Objects /\ [csv |-> delimited, bytes |-> opened.bytes] \in Documents
    /\ evidence \in {"readable", "unreadable", "restored"}
    /\ path \in {"same", "lookalike", "other"}
    /\ engine \in [failed : BOOLEAN, since : 0 .. StrongCheck]
    /\ ScanShape
    /\ pc \in Resting \cup Scans \cup {"view"} \cup Views \cup Ranks \cup {"view_verify"}
    /\ JobShape

\* An engine that has lost trust refuses at the next verification.
DistrustPart == engine.failed => pc \in {"idle", "refused", "scan", "view"}

\* Writes move the revision: whoever captured the object at the revision it has
\* now captured what it is now.
Honest(object) ==
    /\ object \in Objects
    /\ object.rev <= disk.rev
    /\ object.rev = disk.rev => object = disk

CapturePart ==
    /\ Honest(opened)
    /\ pc = "closed" => disk = opened
    /\ pc \notin {"closed", "opening", "refused"} => Honest(scan.snap) /\ opened.rev <= scan.snap.rev
    /\ pc \in Scans \ {"scan"} => scan.snap = opened
    /\ pc \in Views \ {"view_capture"} => Honest(job.base) /\ opened.rev <= job.base.rev
    /\ pc = "rank_read" => Honest(job.base) /\ opened.rev <= job.base.rev

ReaderBase == ReaderShape /\ DistrustPart /\ CapturePart

LEMMA DocumentsShape ==
    ASSUME NEW d \in Documents
    PROVE  d.csv \in BOOLEAN /\ d.bytes \in Seq(Bytes) /\ d = [csv |-> d.csv, bytes |-> d.bytes]
BY ReaderAssumption

LEMMA CompareSame ==
    ASSUME NEW base \in Objects, NEW now \in Objects, Compare(base, now) = "unchanged"
    PROVE  base.rev = now.rev
BY DEF Compare, Objects

LEMMA SoundIsSame ==
    ASSUME NEW base \in Objects, disk \in Objects, Honest(base), Unchanged(base)
    PROVE  base = disk
BY CompareSame DEF Unchanged, Changed, Honest

LEMMA JobIs ==
    ASSUME NEW kind, NEW first
    PROVE  /\ Shaped(Job(kind, first)) /\ Job(kind, first).taken = 0
           /\ Job(kind, first).kind = kind
BY DEF Shaped, Job, JobFields

LEMMA ReaderInitBase == ReaderInit => ReaderBase
<1> SUFFICES ASSUME ReaderInit PROVE ReaderBase
  OBVIOUS
<1>1. PICK d \in Documents : delimited = d.csv /\ disk = [bytes |-> d.bytes, rev |-> 0]
  BY DEF ReaderInit
<1>2. d.csv \in BOOLEAN /\ d.bytes \in Seq(Bytes) /\ d = [csv |-> d.csv, bytes |-> d.bytes]
  BY DocumentsShape
<1>3. disk \in Objects /\ disk.rev = 0 /\ opened = disk /\ opened.bytes = d.bytes
  BY <1>1, <1>2 DEF ReaderInit, Objects
<1>4. scan.snap \in Objects /\ scan.done = FALSE /\ scan.failed = FALSE
  BY DEF ReaderInit, NoSession, Objects
<1>5. /\ DOMAIN scan = {"snap", "s", "done", "failed", "unterminated"}
      /\ scan = [x \in DOMAIN scan |-> scan[x]]
  BY DEF ReaderInit, NoSession
<1>6. pc = "closed" /\ job = NoJob /\ engine = [failed |-> FALSE, since |-> 0]
      /\ windows \in BOOLEAN /\ evidence = "readable" /\ path = "same"
  BY DEF ReaderInit
<1>7. [csv |-> delimited, bytes |-> opened.bytes] \in Documents
  BY <1>1, <1>2, <1>3
<1>8. JobShape
  BY <1>6 DEF JobShape, Resting, Scans, Views, Ranks
<1>9. engine \in [failed : BOOLEAN, since : 0 .. StrongCheck]
  BY <1>6, ReaderAssumption
<1>10. ReaderShape
  <2>1. {windows, delimited} \subseteq BOOLEAN /\ disk.rev <= MaxWrites
    BY <1>1, <1>2, <1>3, <1>6, ReaderAssumption
  <2>2. ScanShape
    BY <1>4, <1>5 DEF ScanShape
  <2>3. pc \in Resting /\ evidence = "readable" /\ path = "same"
    BY <1>6 DEF Resting
  <2> QED
    BY <1>3, <1>7, <1>8, <1>9, <2>1, <2>2, <2>3 DEF ReaderShape
<1>11. DistrustPart /\ CapturePart
  BY <1>3, <1>6 DEF DistrustPart, CapturePart, Honest, Scans, Views
<1> QED
  BY <1>10, <1>11 DEF ReaderBase

\* A step of the thread leaves the files alone and keeps the session's snapshot.
LEMMA KeepsBase ==
    ASSUME ReaderBase, UNCHANGED source,
           engine' \in [failed : BOOLEAN, since : 0 .. StrongCheck],
           ScanShape', scan'.snap = scan.snap,
           pc' \in (Resting \ {"closed", "opening"})
                    \cup Scans \cup {"view"} \cup Views \cup Ranks \cup {"view_verify"},
           pc \notin {"closed", "opening", "refused"},
           JobShape', DistrustPart',
           pc' \in Scans \ {"scan"} => scan.snap = opened,
           pc' \in Views \ {"view_capture"} \/ pc' = "rank_read" =>
              \/ pc \in Views \ {"view_capture"} /\ job'.base = job.base
              \/ pc = "rank_read" /\ job'.base = job.base
              \/ job'.base = disk
    PROVE  ReaderBase'
<1>0. /\ windows' = windows /\ delimited' = delimited /\ disk' = disk /\ evidence' = evidence
      /\ path' = path /\ opened' = opened
  BY DEF source
<1>1. ReaderShape'
  <2>1. {windows', delimited'} \subseteq BOOLEAN
    BY <1>0 DEF ReaderBase, ReaderShape
  <2> QED
    BY <1>0, <2>1 DEF ReaderBase, ReaderShape
<1>2. CapturePart'
  <2>1. Honest(opened) /\ Honest(scan.snap) /\ opened.rev <= scan.snap.rev
    BY DEF ReaderBase, CapturePart
  <2>2. disk.rev \in Nat /\ opened.rev <= disk.rev /\ Honest(disk)
    BY DEF ReaderBase, ReaderShape, Objects, CapturePart, Honest
  <2>3. pc' \in Views \ {"view_capture"} \/ pc' = "rank_read" =>
           Honest(job'.base) /\ opened.rev <= job'.base.rev
    BY <2>2 DEF ReaderBase, CapturePart
  <2>4. /\ pc' # "closed" /\ pc' \notin {"opening"}
    BY DEF Resting, Scans, Views, Ranks
  <2> QED
    BY <1>0, <2>1, <2>3, <2>4 DEF CapturePart, Honest
<1> QED
  BY <1>1, <1>2 DEF ReaderBase

LEMMA ReturnBase ==
    ASSUME ReaderBase, Return, Distrust \/ Trust, UNCHANGED source,
           ScanShape', scan'.snap = scan.snap,
           pc \notin Resting
    PROVE  ReaderBase'
<1>1. pc' \in {"idle", "refused"} /\ job' = NoJob
  BY DEF Return
<1>2. engine' \in [failed : BOOLEAN, since : 0 .. StrongCheck]
  BY DEF Distrust, Trust, ReaderBase, ReaderShape
<1>3. JobShape' /\ DistrustPart'
  BY <1>1 DEF JobShape, DistrustPart, Resting, Scans, Views, Ranks
<1>4. /\ pc' \notin Scans \cup Views \cup Ranks
      /\ pc' \in Resting \ {"closed", "opening"}
      /\ pc \notin {"closed", "opening", "refused"}
  BY <1>1 DEF Resting, Scans, Views, Ranks
<1>5. pc' # "rank_read"
  BY <1>4 DEF Ranks
<1> QED
  BY <1>2, <1>3, <1>4, <1>5, KeepsBase

\* Where the thread may go from a step that trusts its engine.
LEMMA GoesBase ==
    ASSUME ReaderBase, Trust, UNCHANGED source, ScanShape', scan'.snap = scan.snap,
           pc \notin Resting \cup {"view", "scan"}, Shaped(job'), job'.taken \in Nat,
           job'.kind = job.kind,
           \/ pc \in Scans /\ pc' \in Scans \ {"scan"}
           \/ pc \in Views \cup {"view_verify"} /\ pc' \in Views \cup {"view_verify"} /\ pc # "view_verify"
           \/ pc \in Ranks /\ pc' \in Ranks \cup {"view_verify"},
           pc' \in Views \ {"view_capture"} \/ pc' = "rank_read" =>
              \/ pc \in Views \ {"view_capture"} /\ job'.base = job.base
              \/ pc = "rank_read" /\ job'.base = job.base
              \/ job'.base = disk
    PROVE  ReaderBase'
<1>1. engine' = engine /\ engine \in [failed : BOOLEAN, since : 0 .. StrongCheck]
  BY DEF Trust, ReaderBase, ReaderShape
<1>2. ~ engine.failed
  BY <1>1 DEF ReaderBase, DistrustPart, Resting
<1>3. DistrustPart'
  BY <1>1, <1>2 DEF DistrustPart
<1>4. JobShape'
  BY DEF ReaderBase, ReaderShape, JobShape, Resting, Scans, Views, Ranks
<1>5. pc' \in Scans \ {"scan"} => scan.snap = opened
  BY DEF ReaderBase, CapturePart, Scans, Views, Ranks, Resting
<1>6. /\ pc' \in (Resting \ {"closed", "opening"})
                    \cup Scans \cup {"view"} \cup Views \cup Ranks \cup {"view_verify"}
      /\ pc \notin {"closed", "opening", "refused"}
  BY DEF Resting
<1> QED
  BY <1>1, <1>3, <1>4, <1>5, <1>6, KeepsBase

LEMMA OpenFileBase == ReaderBase /\ OpenFile => ReaderBase'
<1> SUFFICES ASSUME ReaderBase, OpenFile PROVE ReaderBase'
  OBVIOUS
<1>1. /\ windows' = windows /\ delimited' = delimited /\ disk' = disk /\ evidence' = evidence
      /\ path' = path /\ opened' = disk /\ engine' = engine /\ scan' = scan /\ job' = job
      /\ pc = "closed" /\ pc' = "opening" /\ opened = disk
  BY DEF OpenFile, ReaderBase, CapturePart
<1>2. JobShape'
  BY <1>1 DEF ReaderBase, ReaderShape, JobShape, Resting, Scans, Views, Ranks
<1>3. ReaderShape'
  BY <1>1, <1>2 DEF ReaderBase, ReaderShape, ScanShape, Resting
<1>4. DistrustPart'
  BY <1>1 DEF ReaderBase, DistrustPart
<1>5. CapturePart'
  BY <1>1 DEF ReaderBase, CapturePart, Honest, Scans, Views
<1> QED
  BY <1>3, <1>4, <1>5 DEF ReaderBase

LEMMA NewSessionBase == ReaderBase /\ NewSession => ReaderBase'
<1> SUFFICES ASSUME ReaderBase, NewSession PROVE ReaderBase'
  OBVIOUS
<1>1. /\ windows' = windows /\ delimited' = delimited /\ disk' = disk /\ evidence' = evidence
      /\ path' = path /\ opened' = opened /\ engine' = engine /\ pc = "opening"
  BY DEF NewSession, source
<1>2. engine.failed = FALSE /\ job = NoJob
  BY <1>1 DEF ReaderBase, ReaderShape, DistrustPart, JobShape, Resting
<1>3. \/ scan' = [scan EXCEPT !.snap = disk] /\ pc' = "view" /\ job' = Job("open", 0)
      \/ scan' = scan /\ pc' = "refused" /\ job' = job
  BY DEF NewSession
<1>4. ScanShape' /\ (pc' = "view" => scan'.snap = disk)
  BY <1>3 DEF ReaderBase, ReaderShape, ScanShape
<1>5. JobShape'
  BY <1>2, <1>3, JobIs DEF JobShape, Resting, Scans, Views, Ranks
<1>6. ReaderShape'
  BY <1>1, <1>3, <1>4, <1>5 DEF ReaderBase, ReaderShape, Resting
<1>7. DistrustPart'
  BY <1>1, <1>2 DEF DistrustPart
<1>8. opened.rev <= disk.rev /\ Honest(opened) /\ Honest(disk)
  BY DEF ReaderBase, ReaderShape, CapturePart, Honest, Objects
<1>9. CapturePart'
  BY <1>1, <1>3, <1>4, <1>8 DEF CapturePart, Honest, Scans, Views
<1> QED
  BY <1>6, <1>7, <1>9 DEF ReaderBase

\* A call begins.
LEMMA BeginBase ==
    ASSUME ReaderBase, pc = "idle", UNCHANGED <<source, engine, scan>>,
           \/ pc' = "scan" /\ job'.kind = "scan"
           \/ pc' = "view" /\ job'.kind \in {"view", "ranked"},
           Shaped(job'), job'.taken = 0
    PROVE  ReaderBase'
<1>1. JobShape'
  BY DEF JobShape, Resting, Scans, Views, Ranks
<1>2. DistrustPart' /\ engine' = engine
  BY DEF DistrustPart
<1>3. ScanShape' /\ scan'.snap = scan.snap
  BY DEF ReaderBase, ReaderShape, ScanShape
<1>4. engine' \in [failed : BOOLEAN, since : 0 .. StrongCheck]
  BY <1>2 DEF ReaderBase, ReaderShape
<1>5. /\ pc' \in Scans \cup {"view"} /\ pc' \notin Views \cup Ranks /\ pc' \notin Scans \ {"scan"}
      /\ pc' # "rank_read"
  BY DEF Scans, Views, Ranks
<1> QED
  BY <1>1, <1>2, <1>3, <1>4, <1>5, KeepsBase

LEMMA BeginScanBase == ReaderBase /\ BeginScan => ReaderBase'
BY BeginBase, JobIs DEF BeginScan, source

LEMMA BeginViewBase == ReaderBase /\ BeginView => ReaderBase'
BY BeginBase, JobIs DEF BeginView, source

LEMMA BeginRankedBase == ReaderBase /\ BeginRanked => ReaderBase'
<1> SUFFICES ASSUME ReaderBase, BeginRanked PROVE ReaderBase'
  OBVIOUS
<1>1. PICK first : job' = [Job("ranked", first) EXCEPT
                     !.spans = SubSeq(Order, first + 1, AtMost(first + RowLimit, Len(Order))),
                     !.eof = first + RowLimit >= Len(Order)]
  BY DEF BeginRanked
<1>2. Shaped(job') /\ job'.taken = 0 /\ job'.kind = "ranked"
  <2> DEFINE j == Job("ranked", first)
             spans == SubSeq(Order, first + 1, AtMost(first + RowLimit, Len(Order)))
             eof == first + RowLimit >= Len(Order)
  <2>1. Shaped(j) /\ j.taken = 0 /\ j.kind = "ranked"
    BY JobIs
  <2>2. job' = [j EXCEPT !.spans = spans, !.eof = eof]
    BY <1>1
  <2> HIDE DEF j, spans, eof
  <2> QED
    BY <2>1, <2>2 DEF Shaped, JobFields
<1> QED
  BY <1>2, BeginBase DEF BeginRanked, source

LEMMA VerifyBeforeScanBase == ReaderBase /\ VerifyBeforeScan => ReaderBase'
<1> SUFFICES ASSUME ReaderBase, VerifyBeforeScan PROVE ReaderBase'
  OBVIOUS
<1>1. /\ pc = "scan" /\ UNCHANGED source /\ scan' = scan /\ pc \notin Resting
      /\ ScanShape' /\ scan'.snap = scan.snap
  BY DEF VerifyBeforeScan, ReaderBase, ReaderShape, ScanShape, Resting
<1>2. CASE ~ Verified(FALSE)
  BY <1>1, <1>2, ReturnBase DEF VerifyBeforeScan
<1>3. CASE Verified(FALSE)
  <2>1. pc' = "scan_check" /\ engine' = engine /\ job' = job /\ ~ engine.failed /\ Unchanged(opened)
    BY <1>3 DEF VerifyBeforeScan, Verified, Trust
  <2>2. opened = disk /\ opened.rev \in Nat
    BY <2>1, SoundIsSame DEF ReaderBase, ReaderShape, CapturePart, Objects
  <2>3. scan.snap = opened
    BY <1>1, <2>2 DEF ReaderBase, ReaderShape, ScanShape, CapturePart, Honest, Objects
  <2>4. JobShape'
    BY <1>1, <2>1 DEF ReaderBase, ReaderShape, JobShape, Resting, Scans, Views, Ranks
  <2>5. DistrustPart' /\ engine' \in [failed : BOOLEAN, since : 0 .. StrongCheck]
    BY <2>1 DEF ReaderBase, ReaderShape, DistrustPart
  <2>6. pc' \in Scans /\ pc' \notin Views /\ pc' # "rank_read" /\ pc \notin {"closed", "opening", "refused"}
    BY <1>1, <2>1 DEF Scans, Views
  <2> QED
    BY <1>1, <2>3, <2>4, <2>5, <2>6, KeepsBase
<1> QED
  BY <1>2, <1>3

\* The session's first failure is sticky, the second too.
LEMMA SessionFailsBase ==
    ASSUME ReaderBase, SessionFails, UNCHANGED source, pc \notin Resting
    PROVE  ReaderBase'
<1>1. scan' = [scan EXCEPT !.failed = TRUE]
  BY DEF SessionFails
<1>2. ScanShape' /\ scan'.snap = scan.snap
  BY <1>1 DEF ReaderBase, ReaderShape, ScanShape
<1>3. Return /\ (Distrust \/ Trust)
  BY DEF SessionFails
<1> QED
  BY <1>2, <1>3, ReturnBase

LEMMA FinalizeShape ==
    ASSUME ReaderBase, NEW s, Finalize(s), pc \in Scans
    PROVE  /\ ScanShape' /\ scan'.snap = scan.snap
           /\ Shaped(job') /\ job'.taken \in Nat /\ job'.kind = job.kind
           /\ scan'.s = s /\ scan'.done = TRUE /\ scan'.failed = scan.failed
<1>1. Shaped(job) /\ job.taken \in Nat /\ ScanShape
  BY DEF ReaderBase, ReaderShape, JobShape, Scans, Resting
<1>2. scan' = [scan EXCEPT !.s = s, !.done = TRUE, !.unterminated = Unterminated(delimited, s)]
  BY DEF Finalize
<1>3. job' = [job EXCEPT !.status = "complete"]
  BY DEF Finalize
<1>4. Shaped(job') /\ job'.taken \in Nat /\ job'.kind = job.kind
  BY <1>1, <1>3 DEF Shaped, JobFields
<1> DEFINE u == Unterminated(delimited, s)
<1>5. scan' = [scan EXCEPT !.s = s, !.done = TRUE, !.unterminated = u]
  BY <1>2
<1> HIDE DEF u
<1>6. /\ ScanShape' /\ scan'.snap = scan.snap
      /\ scan'.s = s /\ scan'.done = TRUE /\ scan'.failed = scan.failed
  BY <1>1, <1>5 DEF ScanShape
<1> QED
  BY <1>4, <1>6

LEMMA CheckBeforeReadBase == ReaderBase /\ CheckBeforeRead => ReaderBase'
<1> SUFFICES ASSUME ReaderBase, CheckBeforeRead PROVE ReaderBase'
  OBVIOUS
<1>1. /\ pc = "scan_check" /\ UNCHANGED source /\ pc \in Scans
      /\ pc \notin Resting \cup {"view", "scan"} /\ pc \notin Resting
  BY DEF CheckBeforeRead, Resting, Scans
<1>2. Shaped(job) /\ job.taken \in Nat
  BY <1>1 DEF ReaderBase, ReaderShape, JobShape
<1>3. CASE SessionFails
  BY <1>1, <1>3, SessionFailsBase
<1>4. CASE pc' = "scan_verify" /\ job' = [job EXCEPT !.status = "complete"] /\ UNCHANGED <<engine, scan>>
  <2>1. Shaped(job') /\ job'.taken \in Nat /\ job'.kind = job.kind
    BY <1>2, <1>4 DEF Shaped, JobFields
  <2>2. ScanShape' /\ scan'.snap = scan.snap /\ Trust
    BY <1>4 DEF ReaderBase, ReaderShape, ScanShape, Trust
  <2>3. pc' \in Scans \ {"scan"} /\ pc' \notin Views /\ pc' # "rank_read"
    BY <1>4 DEF Scans, Views
  <2> QED
    BY <1>1, <2>1, <2>2, <2>3, GoesBase
<1>5. CASE Finalize(scan.s) /\ pc' = "scan_verify" /\ Trust
  <2>1. pc' \in Scans \ {"scan"} /\ pc' \notin Views /\ pc' # "rank_read"
    BY <1>5 DEF Scans, Views
  <2>2. /\ ScanShape' /\ scan'.snap = scan.snap
        /\ Shaped(job') /\ job'.taken \in Nat /\ job'.kind = job.kind
    BY <1>1, <1>5, FinalizeShape
  <2> QED
    BY <1>1, <1>5, <2>1, <2>2, GoesBase
<1>6. CASE pc' = "scan_read" /\ UNCHANGED <<engine, scan, job>>
  <2>1. ScanShape' /\ scan'.snap = scan.snap /\ Trust
    BY <1>6 DEF ReaderBase, ReaderShape, ScanShape, Trust
  <2>2. pc' \in Scans \ {"scan"} /\ pc' \notin Views /\ pc' # "rank_read"
    BY <1>6 DEF Scans, Views
  <2> QED
    BY <1>1, <1>2, <1>6, <2>1, <2>2, GoesBase
<1> QED
  BY <1>3, <1>4, <1>5, <1>6 DEF CheckBeforeRead

LEMMA ScanReadBase == ReaderBase /\ ScanRead => ReaderBase'
<1> SUFFICES ASSUME ReaderBase, ScanRead PROVE ReaderBase'
  OBVIOUS
<1>1. /\ pc = "scan_read" /\ UNCHANGED source /\ pc \in Scans
      /\ pc \notin Resting \cup {"view", "scan"} /\ pc \notin Resting
  BY DEF ScanRead, Resting, Scans
<1>2. Shaped(job) /\ job.taken \in Nat
  BY <1>1 DEF ReaderBase, ReaderShape, JobShape
<1>3. ScanShape' /\ scan'.snap = scan.snap
  BY DEF ScanRead, ReaderBase, ReaderShape, ScanShape
<1>4. CASE Distrust /\ Return
  BY <1>1, <1>3, <1>4, ReturnBase
<1>5. CASE pc' = "scan_feed" /\ Trust /\ \E n \in 1 .. ReadBuffer :
                Received(scan.s.offset,
                         AtMost(ReadBuffer, Len(scan.snap.bytes) - scan.s.offset), n)
  <2>1. PICK b : job' = [job EXCEPT !.buf = b]
    BY <1>5 DEF Received
  <2>2. Shaped(job') /\ job'.taken \in Nat /\ job'.kind = job.kind
    BY <1>2, <2>1 DEF Shaped, JobFields
  <2>3. pc' \in Scans \ {"scan"} /\ pc' \notin Views /\ pc' # "rank_read"
    BY <1>5 DEF Scans, Views
  <2> QED
    BY <1>1, <1>3, <1>5, <2>2, <2>3, GoesBase
<1> QED
  BY <1>4, <1>5 DEF ScanRead

\* The scanner takes a part of the chunk.
LEMMA FedShape ==
    ASSUME ReaderBase, pc \in Scans, NEW s, NEW n \in Nat,
           scan' = [scan EXCEPT !.s = s], job' = [job EXCEPT !.taken = n]
    PROVE  /\ ScanShape' /\ scan'.snap = scan.snap
           /\ Shaped(job') /\ job'.taken \in Nat /\ job'.kind = job.kind
           /\ scan'.s = s /\ scan'.done = scan.done /\ scan'.failed = scan.failed
<1>1. Shaped(job) /\ ScanShape
  BY DEF ReaderBase, ReaderShape, JobShape, Scans, Resting
<1>2. Shaped(job') /\ job'.taken \in Nat /\ job'.kind = job.kind
  BY <1>1 DEF Shaped, JobFields
<1>3. /\ ScanShape' /\ scan'.snap = scan.snap
      /\ scan'.s = s /\ scan'.done = scan.done /\ scan'.failed = scan.failed
  BY <1>1 DEF ScanShape
<1> QED
  BY <1>2, <1>3

LEMMA ScanFeedBase == ReaderBase /\ ScanFeed => ReaderBase'
<1> SUFFICES ASSUME ReaderBase, ScanFeed PROVE ReaderBase'
  OBVIOUS
<1>1. /\ pc = "scan_feed" /\ UNCHANGED source /\ pc \in Scans
      /\ pc \notin Resting \cup {"view", "scan"} /\ pc \notin Resting
  BY DEF ScanFeed, Resting, Scans
<1>2. CASE SessionFails
  BY <1>1, <1>2, SessionFailsBase
<1>3. CASE ~ SessionFails
  <2>1. PICK n \in 0 .. Len(job.buf) :
           /\ scan' = [scan EXCEPT !.s = Feed(delimited, scan.s, SubSeq(job.buf, 1, n), n + 1).s]
           /\ job' = [job EXCEPT !.taken = n]
           /\ pc' \in {"scan_eof", "scan_verify"}
    BY <1>3 DEF ScanFeed
  <2>2. n \in Nat /\ Trust
    BY <1>3 DEF ScanFeed
  <2>3. /\ ScanShape' /\ scan'.snap = scan.snap
        /\ Shaped(job') /\ job'.taken \in Nat /\ job'.kind = job.kind
    BY <1>1, <2>1, <2>2, FedShape
  <2>4. pc' \in Scans \ {"scan"} /\ pc' \notin Views /\ pc' # "rank_read"
    BY <2>1 DEF Scans, Views
  <2> QED
    BY <1>1, <2>2, <2>3, <2>4, GoesBase
<1> QED
  BY <1>2, <1>3

LEMMA ScanEofBase == ReaderBase /\ ScanEof => ReaderBase'
<1> SUFFICES ASSUME ReaderBase, ScanEof PROVE ReaderBase'
  OBVIOUS
<1>1. /\ pc = "scan_eof" /\ UNCHANGED source /\ pc \in Scans
      /\ pc \notin Resting \cup {"view", "scan"} /\ pc \notin Resting
  BY DEF ScanEof, Resting, Scans
<1>2. CASE SessionFails
  BY <1>1, <1>2, SessionFailsBase
<1>3. CASE Finalize(scan.s) /\ pc' = "scan_verify" /\ Trust
  <2>1. pc' \in Scans \ {"scan"} /\ pc' \notin Views /\ pc' # "rank_read"
    BY <1>3 DEF Scans, Views
  <2>2. /\ ScanShape' /\ scan'.snap = scan.snap
        /\ Shaped(job') /\ job'.taken \in Nat /\ job'.kind = job.kind
    BY <1>1, <1>3, FinalizeShape
  <2> QED
    BY <1>1, <1>3, <2>1, <2>2, GoesBase
<1> QED
  BY <1>2, <1>3 DEF ScanEof

LEMMA VerifyAfterScanBase == ReaderBase /\ VerifyAfterScan => ReaderBase'
<1> SUFFICES ASSUME ReaderBase, VerifyAfterScan PROVE ReaderBase'
  OBVIOUS
<1> DEFINE since == AtMost(engine.since + job.taken, StrongCheck)
<1>1. /\ pc = "scan_verify" /\ UNCHANGED source /\ scan' = scan /\ Return
      /\ \/ engine' = [engine EXCEPT !.since = 0]
         \/ engine' = [engine EXCEPT !.since = since]
         \/ engine' = [failed |-> TRUE, since |-> since]
  BY DEF VerifyAfterScan
<1>2. job.taken \in Nat /\ engine \in [failed : BOOLEAN, since : 0 .. StrongCheck]
  BY <1>1 DEF ReaderBase, ReaderShape, JobShape, Resting
<1>3. since \in 0 .. StrongCheck /\ 0 \in 0 .. StrongCheck
  BY <1>2, ReaderAssumption DEF AtMost
<1>4. engine' \in [failed : BOOLEAN, since : 0 .. StrongCheck]
  <2> HIDE DEF since
  <2>1. CASE engine' = [engine EXCEPT !.since = 0]
    BY <1>2, <1>3, <2>1
  <2>2. CASE engine' = [engine EXCEPT !.since = since]
    BY <1>2, <1>3, <2>2
  <2>3. CASE engine' = [failed |-> TRUE, since |-> since]
    BY <1>3, <2>3
  <2> QED
    BY <1>1, <2>1, <2>2, <2>3
<1>5. pc' = "idle" /\ job' = NoJob
  BY <1>1 DEF Return, ReaderBase, ReaderShape, JobShape, Scans
<1>6. JobShape' /\ DistrustPart'
  BY <1>5 DEF JobShape, DistrustPart, Resting, Scans, Views, Ranks
<1>7. ScanShape' /\ scan'.snap = scan.snap
  BY <1>1 DEF ReaderBase, ReaderShape, ScanShape
<1>8. pc' \in Resting \ {"closed", "opening"} /\ pc' \notin Scans \cup Views /\ pc' # "rank_read"
      /\ pc \notin {"closed", "opening", "refused"}
  BY <1>1, <1>5 DEF Resting, Scans, Views
<1> QED
  BY <1>1, <1>4, <1>6, <1>7, <1>8, KeepsBase

\* What every step of a viewport leaves alone.
LEMMA ViewFrame ==
    ASSUME ReaderBase, UNCHANGED <<source, scan>>, pc \in Views \cup Ranks \cup {"view", "view_verify"}
    PROVE  /\ UNCHANGED source /\ scan' = scan /\ ScanShape' /\ scan'.snap = scan.snap
           /\ pc \notin Resting /\ pc \notin {"closed", "opening", "refused"}
           /\ Shaped(job) /\ job.taken \in Nat
<1>1. pc \notin Resting
  BY DEF Views, Ranks, Resting
<1> QED
  BY <1>1 DEF source, ReaderBase, ReaderShape, ScanShape, JobShape, Resting

LEMMA CancelViewBase == ReaderBase /\ CancelView => ReaderBase'
<1> SUFFICES ASSUME ReaderBase, CancelView PROVE ReaderBase'
  OBVIOUS
<1>1. /\ pc \in Views \cup Ranks \cup {"view", "view_verify"} /\ UNCHANGED <<source, scan>>
      /\ Return /\ Trust
  BY DEF CancelView, Views, Ranks, Trust
<1> QED
  BY <1>1, ViewFrame, ReturnBase

LEMMA ReadFailsBase == ReaderBase /\ ReadFails => ReaderBase'
<1> SUFFICES ASSUME ReaderBase, ReadFails PROVE ReaderBase'
  OBVIOUS
<1>1. /\ pc \notin Resting /\ UNCHANGED source /\ Return /\ Trust
      /\ ScanShape' /\ scan'.snap = scan.snap
  BY DEF ReadFails, Resting, Trust, ReaderBase, ReaderShape, ScanShape
<1> QED
  BY <1>1, ReturnBase

LEMMA VerifyBeforeViewBase == ReaderBase /\ VerifyBeforeView => ReaderBase'
<1> SUFFICES ASSUME ReaderBase, VerifyBeforeView PROVE ReaderBase'
  OBVIOUS
<1>1. /\ pc = "view" /\ pc \in Views \cup Ranks \cup {"view", "view_verify"}
      /\ UNCHANGED <<source, scan>>
  BY DEF VerifyBeforeView
<1>2. CASE ~ Verified(TRUE)
  BY <1>1, <1>2, ViewFrame, ReturnBase DEF VerifyBeforeView
<1>3. CASE Verified(TRUE)
  <2>1. /\ pc' = (IF job.kind = "ranked" THEN "rank_next" ELSE "view_capture") /\ engine' = engine
        /\ job' = job /\ ~ engine.failed
    BY <1>3 DEF VerifyBeforeView, Verified, Trust
  <2>2. JobShape'
    BY <1>1, <2>1 DEF ReaderBase, ReaderShape, JobShape, Resting, Scans, Views, Ranks
  <2>3. DistrustPart' /\ engine' \in [failed : BOOLEAN, since : 0 .. StrongCheck]
    BY <2>1 DEF ReaderBase, ReaderShape, DistrustPart
  <2>4. pc' \in Views \cup Ranks /\ pc' \notin Scans /\ pc' \notin Views \ {"view_capture"}
        /\ pc' # "rank_read"
    BY <2>1 DEF Scans, Views, Ranks
  <2> QED
    BY <1>1, <2>2, <2>3, <2>4, ViewFrame, KeepsBase
<1> QED
  BY <1>2, <1>3

LEMMA ViewCaptureBase == ReaderBase /\ ViewCapture => ReaderBase'
<1> SUFFICES ASSUME ReaderBase, ViewCapture PROVE ReaderBase'
  OBVIOUS
<1>1. /\ pc = "view_capture" /\ pc \in Views /\ pc \in Views \cup Ranks \cup {"view", "view_verify"}
      /\ pc \notin Resting \cup {"view", "scan"}
      /\ UNCHANGED <<source, scan>> /\ Trust
  BY DEF ViewCapture, Views, Resting, Trust
<1>2. CASE Return
  BY <1>1, <1>2, ViewFrame, ReturnBase
<1>3. CASE ~ Return
  <2>1. PICK offset, row : /\ job' = [job EXCEPT !.base = disk, !.s = ScannerAt(offset), !.next = row]
                           /\ pc' = "view_loop"
    BY <1>3 DEF ViewCapture
  <2>2. Shaped(job') /\ job'.taken \in Nat /\ job'.kind = job.kind /\ job'.base = disk
    BY <1>1, <2>1, ViewFrame DEF Shaped, JobFields
  <2>3. pc' \in Views
    BY <2>1 DEF Views
  <2> QED
    BY <1>1, <2>2, <2>3, ViewFrame, GoesBase
<1> QED
  BY <1>2, <1>3

LEMMA ViewFailsBase ==
    ASSUME ReaderBase, ViewFails, UNCHANGED <<source, scan>>, pc \in Views
    PROVE  ReaderBase'
<1>1. Return /\ (Distrust \/ Trust) /\ pc \in Views \cup Ranks \cup {"view", "view_verify"}
  BY DEF ViewFails
<1> QED
  BY <1>1, ViewFrame, ReturnBase

\* A step of a viewport that goes on with its own capture of the object.
LEMMA ViewGoesBase ==
    ASSUME ReaderBase, Trust, UNCHANGED <<source, scan>>,
           pc \in Views \ {"view_capture"}, pc' \in (Views \ {"view_capture"}) \cup {"view_verify"},
           Shaped(job'), job'.taken = job.taken, job'.kind = job.kind, job'.base = job.base
    PROVE  ReaderBase'
<1>1. pc \in Views \cup Ranks \cup {"view", "view_verify"} /\ pc \notin Resting \cup {"view", "scan"}
      /\ pc # "view_verify" /\ pc \in Views
  BY DEF Views, Resting
<1>2. UNCHANGED source /\ ScanShape' /\ scan'.snap = scan.snap /\ job'.taken \in Nat
  BY <1>1, ViewFrame
<1> QED
  BY <1>1, <1>2, GoesBase

LEMMA ViewLoopBase == ReaderBase /\ ViewLoop => ReaderBase'
<1> SUFFICES ASSUME ReaderBase, ViewLoop PROVE ReaderBase'
  OBVIOUS
<1>1. /\ pc = "view_loop" /\ pc \in Views /\ pc \in Views \ {"view_capture"}
      /\ UNCHANGED <<source, scan>>
  BY DEF ViewLoop, Views
<1>2. Shaped(job)
  BY <1>1, ViewFrame
<1>3. CASE ViewFails
  BY <1>1, <1>3, ViewFailsBase
<1>4. CASE pc' = "view_read" /\ Trust /\ job' = job
  <2>1. pc' \in Views \ {"view_capture"}
    BY <1>4 DEF Views
  <2> QED
    BY <1>1, <1>2, <1>4, <2>1, ViewGoesBase
<1>5. CASE /\ pc' = "view_fill" /\ Trust
           /\ \E eof, spans, u : job' = [job EXCEPT !.eof = eof, !.spans = spans, !.unterminated = u]
  <2>1. PICK eof, spans, u : job' = [job EXCEPT !.eof = eof, !.spans = spans, !.unterminated = u]
    BY <1>5
  <2>2. Shaped(job') /\ job'.taken = job.taken /\ job'.kind = job.kind /\ job'.base = job.base
    BY <1>2, <2>1 DEF Shaped, JobFields
  <2>3. pc' \in Views \ {"view_capture"}
    BY <1>5 DEF Views
  <2> QED
    BY <1>1, <1>5, <2>2, <2>3, ViewGoesBase
<1>6. ViewOver /\ ~ ViewFails => \E eof, spans, u : job' = [job EXCEPT !.eof = eof, !.spans = spans, !.unterminated = u]
  <2> SUFFICES ASSUME ViewOver, ~ ViewFails
               PROVE  \E eof, spans, u :
                         job' = [job EXCEPT !.eof = eof, !.spans = spans, !.unterminated = u]
    OBVIOUS
  <2> DEFINE eof == job.s.offset = Len(job.base.bytes)
             finish == eof /\ Len(job.spans) < RowLimit
             spans == IF finish THEN Collected(Finish(job.s)) ELSE job.spans
             u == finish /\ Unterminated(delimited, job.s)
  <2>1. job' = [job EXCEPT !.eof = eof, !.spans = spans, !.unterminated = u]
    BY DEF ViewLoop
  <2> HIDE DEF eof, spans, u
  <2> QED
    BY <2>1
<1> QED
  BY <1>3, <1>4, <1>5, <1>6 DEF ViewLoop

LEMMA ViewReadBase == ReaderBase /\ ViewRead => ReaderBase'
<1> SUFFICES ASSUME ReaderBase, ViewRead PROVE ReaderBase'
  OBVIOUS
<1>1. /\ pc = "view_read" /\ pc \in Views /\ pc \in Views \ {"view_capture"}
      /\ pc \in Views \cup Ranks \cup {"view", "view_verify"}
      /\ UNCHANGED <<source, scan>>
  BY DEF ViewRead, Views
<1>2. CASE Distrust /\ Return
  BY <1>1, <1>2, ViewFrame, ReturnBase
<1>3. CASE pc' = "view_feed" /\ Trust /\ \E b : job' = [job EXCEPT !.buf = b]
  <2>1. PICK b : job' = [job EXCEPT !.buf = b]
    BY <1>3
  <2>2. Shaped(job') /\ job'.taken = job.taken /\ job'.kind = job.kind /\ job'.base = job.base
    BY <1>1, <2>1, ViewFrame DEF Shaped, JobFields
  <2>3. pc' \in Views \ {"view_capture"}
    BY <1>3 DEF Views
  <2> QED
    BY <1>1, <1>3, <2>2, <2>3, ViewGoesBase
<1> QED
  BY <1>2, <1>3 DEF ViewRead, Received

LEMMA ViewFeedBase == ReaderBase /\ ViewFeed => ReaderBase'
<1> SUFFICES ASSUME ReaderBase, ViewFeed PROVE ReaderBase'
  OBVIOUS
<1>1. /\ pc = "view_feed" /\ pc \in Views /\ pc \in Views \ {"view_capture"}
      /\ pc \in Views \cup Ranks \cup {"view", "view_verify"}
      /\ UNCHANGED <<source, scan>>
  BY DEF ViewFeed, Views
<1>2. CASE ViewFails
  BY <1>1, <1>2, ViewFailsBase
<1>3. CASE ~ ViewFails
  <2> DEFINE fed == Feed(delimited, job.s, job.buf, StopAfter)
  <2>1. /\ pc' = "view_loop" /\ Trust
        /\ job' = [job EXCEPT !.s = fed.s, !.stopped = fed.stopped, !.buf = <<>>,
                              !.next = @ + Len(fed.out), !.spans = Collected(fed.out)]
    BY <1>3 DEF ViewFeed
  <2> DEFINE a == fed.s
             b == fed.stopped
             c == Len(fed.out)
             d == Collected(fed.out)
  <2>2. job' = [job EXCEPT !.s = a, !.stopped = b, !.buf = <<>>, !.next = @ + c, !.spans = d]
    BY <2>1
  <2> HIDE DEF a, b, c, d
  <2>3. Shaped(job') /\ job'.taken = job.taken /\ job'.kind = job.kind /\ job'.base = job.base
    BY <1>1, <2>2, ViewFrame DEF Shaped, JobFields
  <2>4. pc' \in Views \ {"view_capture"}
    BY <2>1 DEF Views
  <2> QED
    BY <1>1, <2>1, <2>3, <2>4, ViewGoesBase
<1> QED
  BY <1>2, <1>3

LEMMA PushRowShape ==
    ASSUME Shaped(job), PushRow
    PROVE  /\ Shaped(job') /\ job'.taken = job.taken /\ job'.kind = job.kind /\ job'.base = job.base
           /\ job'.buf = <<>> /\ job'.spans = job.spans /\ job'.first = job.first /\ job'.eof = job.eof
           /\ job'.unterminated = job.unterminated /\ job'.s = job.s /\ job'.next = job.next
           /\ job'.rows = Append(job.rows, [row |-> Filling.row, span |-> Filling.span, bytes |-> job.buf])
<1> DEFINE row == [row |-> Filling.row, span |-> Filling.span, bytes |-> job.buf]
<1>1. job' = [job EXCEPT !.buf = <<>>, !.rows = Append(@, row)]
  BY DEF PushRow
<1> HIDE DEF row
<1>2. /\ Shaped(job') /\ job'.taken = job.taken /\ job'.kind = job.kind /\ job'.base = job.base
      /\ job'.buf = <<>> /\ job'.spans = job.spans /\ job'.first = job.first /\ job'.eof = job.eof
      /\ job'.unterminated = job.unterminated /\ job'.s = job.s /\ job'.next = job.next
      /\ job'.rows = Append(job.rows, row)
  BY <1>1 DEF Shaped, JobFields
<1> QED
  BY <1>2 DEF row

LEMMA ViewFillBase == ReaderBase /\ ViewFill => ReaderBase'
<1> SUFFICES ASSUME ReaderBase, ViewFill PROVE ReaderBase'
  OBVIOUS
<1>1. /\ pc = "view_fill" /\ pc \in Views /\ pc \in Views \ {"view_capture"}
      /\ pc \in Views \cup Ranks \cup {"view", "view_verify"}
      /\ UNCHANGED <<source, scan>>
  BY DEF ViewFill, Views
<1>2. Shaped(job)
  BY <1>1, ViewFrame
<1>3. CASE ViewFails
  BY <1>1, <1>3, ViewFailsBase
<1>4. CASE pc' \in {"view_verify", "fill_read"} /\ Trust /\ job' = job
  <2>1. pc' \in (Views \ {"view_capture"}) \cup {"view_verify"}
    BY <1>4 DEF Views
  <2> QED
    BY <1>1, <1>2, <1>4, <2>1, ViewGoesBase
<1>5. CASE PushRow /\ Trust /\ pc' = pc
  BY <1>1, <1>2, <1>5, PushRowShape, ViewGoesBase
<1> QED
  BY <1>3, <1>4, <1>5 DEF ViewFill

LEMMA FillMoreShape ==
    ASSUME Shaped(job), NEW n, FillMore(n)
    PROVE  /\ Shaped(job') /\ job'.taken = job.taken /\ job'.kind = job.kind /\ job'.base = job.base
           /\ job'.spans = job.spans /\ job'.first = job.first /\ job'.eof = job.eof
           /\ job'.unterminated = job.unterminated /\ job'.s = job.s /\ job'.next = job.next
           /\ job'.rows = job.rows
           /\ job'.buf = job.buf \o SubSeq(disk.bytes, Filling.span.start + Len(job.buf) + 1,
                                           Filling.span.start + Len(job.buf) + n)
<1> DEFINE b == SubSeq(disk.bytes, Filling.span.start + Len(job.buf) + 1,
                       Filling.span.start + Len(job.buf) + n)
<1>1. job' = [job EXCEPT !.buf = @ \o b]
  BY DEF FillMore
<1> HIDE DEF b
<1>2. /\ Shaped(job') /\ job'.taken = job.taken /\ job'.kind = job.kind /\ job'.base = job.base
      /\ job'.spans = job.spans /\ job'.first = job.first /\ job'.eof = job.eof
      /\ job'.unterminated = job.unterminated /\ job'.s = job.s /\ job'.next = job.next
      /\ job'.rows = job.rows /\ job'.buf = job.buf \o b
  BY <1>1 DEF Shaped, JobFields
<1> QED
  BY <1>2 DEF b

LEMMA FillReadBase == ReaderBase /\ FillRead => ReaderBase'
<1> SUFFICES ASSUME ReaderBase, FillRead PROVE ReaderBase'
  OBVIOUS
<1>1. /\ pc = "fill_read" /\ pc \in Views /\ pc \in Views \ {"view_capture"}
      /\ pc \in Views \cup Ranks \cup {"view", "view_verify"}
      /\ UNCHANGED <<source, scan>>
  BY DEF FillRead, Views
<1>2. CASE Distrust /\ Return
  BY <1>1, <1>2, ViewFrame, ReturnBase
<1>3. CASE pc' = "fill_check" /\ Trust /\ \E n \in 1 .. MaxPreview : FillMore(n)
  <2>1. Shaped(job') /\ job'.taken = job.taken /\ job'.kind = job.kind /\ job'.base = job.base
    BY <1>1, <1>3, ViewFrame, FillMoreShape
  <2>2. pc' \in Views \ {"view_capture"}
    BY <1>3 DEF Views
  <2> QED
    BY <1>1, <1>3, <2>1, <2>2, ViewGoesBase
<1> QED
  BY <1>2, <1>3 DEF FillRead

LEMMA FillCheckBase == ReaderBase /\ FillCheck => ReaderBase'
<1> SUFFICES ASSUME ReaderBase, FillCheck PROVE ReaderBase'
  OBVIOUS
<1>1. /\ pc = "fill_check" /\ pc \in Views /\ pc \in Views \ {"view_capture"}
      /\ pc \in Views \cup Ranks \cup {"view", "view_verify"}
      /\ UNCHANGED <<source, scan>>
  BY DEF FillCheck, Views
<1>2. CASE ViewFails
  BY <1>1, <1>2, ViewFailsBase
<1>3. CASE pc' = "view_fill" /\ Trust /\ job' = job
  <2>1. pc' \in Views \ {"view_capture"}
    BY <1>3 DEF Views
  <2> QED
    BY <1>1, <1>3, <2>1, ViewFrame, ViewGoesBase
<1> QED
  BY <1>2, <1>3 DEF FillCheck

LEMMA VerifyAfterViewBase == ReaderBase /\ VerifyAfterView => ReaderBase'
<1> SUFFICES ASSUME ReaderBase, VerifyAfterView PROVE ReaderBase'
  OBVIOUS
<1>1. /\ pc = "view_verify" /\ pc \in Views \cup Ranks \cup {"view", "view_verify"}
      /\ UNCHANGED <<source, scan>>
  BY DEF VerifyAfterView
<1>2. CASE Distrust /\ Return
  BY <1>1, <1>2, ViewFrame, ReturnBase
<1>3. CASE pc' = "idle" /\ job' = NoJob /\ Trust
  <2>1. JobShape' /\ DistrustPart'
    BY <1>3 DEF JobShape, DistrustPart, Resting, Scans, Views, Ranks
  <2>2. engine' \in [failed : BOOLEAN, since : 0 .. StrongCheck]
    BY <1>3 DEF Trust, ReaderBase, ReaderShape
  <2>3. pc' \in Resting \ {"closed", "opening"} /\ pc' \notin Scans \cup Views /\ pc' # "rank_read"
    BY <1>3 DEF Resting, Scans, Views
  <2> QED
    BY <1>1, <2>1, <2>2, <2>3, ViewFrame, KeepsBase
<1> QED
  BY <1>2, <1>3 DEF VerifyAfterView

LEMMA RankNextBase == ReaderBase /\ RankNext => ReaderBase'
<1> SUFFICES ASSUME ReaderBase, RankNext PROVE ReaderBase'
  OBVIOUS
<1>1. /\ pc = "rank_next" /\ pc \in Ranks /\ pc \in Views \cup Ranks \cup {"view", "view_verify"}
      /\ pc \notin Resting \cup {"view", "scan"} /\ UNCHANGED <<source, scan>> /\ Trust
  BY DEF RankNext, Ranks, Resting, Trust
<1>2. Shaped(job) /\ job.taken \in Nat
  BY <1>1, ViewFrame
<1>3. CASE Return
  BY <1>1, <1>3, ViewFrame, ReturnBase
<1>4. CASE pc' = "view_verify" /\ job' = job
  <2>1. pc' \in Ranks \cup {"view_verify"} /\ pc' \notin Views /\ pc' # "rank_read"
    BY <1>4 DEF Views
  <2> QED
    BY <1>1, <1>2, <1>4, <2>1, ViewFrame, GoesBase
<1>5. CASE pc' = "rank_read" /\ job' = [job EXCEPT !.base = disk]
  <2>1. pc' \in Ranks \cup {"view_verify"}
    BY <1>5 DEF Ranks
  <2>2. Shaped(job') /\ job'.taken \in Nat /\ job'.kind = job.kind /\ job'.base = disk
    BY <1>2, <1>5 DEF Shaped, JobFields
  <2> QED
    BY <1>1, <2>1, <2>2, ViewFrame, GoesBase
<1> QED
  BY <1>3, <1>4, <1>5 DEF RankNext

LEMMA RankReadBase == ReaderBase /\ RankRead => ReaderBase'
<1> SUFFICES ASSUME ReaderBase, RankRead PROVE ReaderBase'
  OBVIOUS
<1>1. /\ pc = "rank_read" /\ pc \in Ranks /\ pc \in Views \cup Ranks \cup {"view", "view_verify"}
      /\ pc \notin Resting \cup {"view", "scan"} /\ UNCHANGED <<source, scan>> /\ Trust
  BY DEF RankRead, Ranks, Resting, Trust
<1>2. Shaped(job) /\ job.taken \in Nat
  BY <1>1, ViewFrame
<1>3. CASE Return
  BY <1>1, <1>3, ViewFrame, ReturnBase
<1>4. CASE PushRow /\ pc' = "rank_next"
  <2>1. pc' \in Ranks \cup {"view_verify"} /\ pc' \notin Views /\ pc' # "rank_read"
    BY <1>4 DEF Ranks, Views
  <2>2. Shaped(job') /\ job'.taken \in Nat /\ job'.kind = job.kind
    BY <1>2, <1>4, PushRowShape
  <2> QED
    BY <1>1, <2>1, <2>2, ViewFrame, GoesBase
<1>5. CASE pc' = pc /\ \E n \in 1 .. MaxPreview : FillMore(n)
  <2>1. pc' \in Ranks \cup {"view_verify"}
    BY <1>1, <1>5
  <2>2. Shaped(job') /\ job'.taken \in Nat /\ job'.kind = job.kind /\ job'.base = job.base
    BY <1>2, <1>5, FillMoreShape
  <2> QED
    BY <1>1, <2>1, <2>2, ViewFrame, GoesBase
<1> QED
  BY <1>3, <1>4, <1>5 DEF RankRead

\* Another program writes: who captured before is behind.
LEMMA RewriteBase == ReaderBase /\ Rewrite => ReaderBase'
<1> SUFFICES ASSUME ReaderBase, Rewrite PROVE ReaderBase'
  OBVIOUS
<1>1. /\ windows' = windows /\ delimited' = delimited /\ evidence' = evidence /\ path' = path
      /\ opened' = opened /\ engine' = engine /\ scan' = scan /\ pc' = pc /\ job' = job
      /\ pc \notin {"closed", "refused"}
  BY DEF Rewrite, Disturbed
<1>2. disk' \in Objects /\ disk'.rev = disk.rev + 1 /\ disk'.rev <= MaxWrites
  BY ReaderAssumption DEF Rewrite, Objects, ReaderBase, ReaderShape
<1>3. ReaderShape'
  BY <1>1, <1>2 DEF ReaderBase, ReaderShape, ScanShape, JobShape
<1>4. DistrustPart'
  BY <1>1 DEF ReaderBase, DistrustPart
<1>5. ASSUME NEW object, Honest(object)
      PROVE  object.rev <= disk'.rev /\ object.rev # disk'.rev
  BY <1>2, <1>5 DEF Honest, ReaderBase, ReaderShape, Objects
<1>6. CapturePart'
  BY <1>1, <1>5 DEF ReaderBase, CapturePart, Honest
<1> QED
  BY <1>3, <1>4, <1>6 DEF ReaderBase

LEMMA StillBase ==
    ASSUME ReaderBase, UNCHANGED <<windows, delimited, disk, opened, engine, scan, pc, job>>,
           evidence' \in {"readable", "unreadable", "restored"}, path' \in {"same", "lookalike", "other"}
    PROVE  ReaderBase'
<1>1. ReaderShape'
  BY DEF ReaderBase, ReaderShape, ScanShape, JobShape
<1>2. DistrustPart' /\ CapturePart'
  BY DEF ReaderBase, DistrustPart, CapturePart, Honest
<1> QED
  BY <1>1, <1>2 DEF ReaderBase

LEMMA ReaderStepBase == ReaderBase /\ [ReaderNext]_readerVars => ReaderBase'
<1> SUFFICES ASSUME ReaderBase, [ReaderNext]_readerVars PROVE ReaderBase'
  OBVIOUS
<1>1. CASE ScanSteps
  BY <1>1, VerifyBeforeScanBase, CheckBeforeReadBase, ScanReadBase, ScanFeedBase, ScanEofBase,
     VerifyAfterScanBase DEF ScanSteps
<1>2. CASE ViewSteps
  BY <1>2, VerifyBeforeViewBase, ViewCaptureBase, ViewLoopBase, ViewReadBase, ViewFeedBase,
     ViewFillBase, FillReadBase, FillCheckBase, VerifyAfterViewBase, RankNextBase, RankReadBase
  DEF ViewSteps
<1>3. evidence \in {"readable", "unreadable", "restored"} /\ path \in {"same", "lookalike", "other"}
  BY DEF ReaderBase, ReaderShape
<1>4. CASE Environment
  <2>1. ReplacePath \/ LoseEvidence => ReaderBase'
    BY <1>3, StillBase DEF ReplacePath, LoseEvidence
  <2> QED
    BY <1>4, <2>1, RewriteBase DEF Environment
<1>5. UNCHANGED readerVars => ReaderBase'
  BY <1>3, StillBase DEF readerVars
<1> QED
  BY <1>1, <1>2, <1>4, <1>5, OpenFileBase, NewSessionBase, BeginScanBase, BeginViewBase,
     BeginRankedBase, CancelViewBase, ReadFailsBase DEF ReaderNext

DistrustStep ==
    engine.failed => /\ engine'.failed /\ UNCHANGED <<seen, scan>>
                     /\ shown' \in {shown, NoView}

LEMMA DistrustStays == ReaderBase /\ [ReaderNext]_readerVars => DistrustStep
<1> SUFFICES ASSUME ReaderBase, [ReaderNext]_readerVars, engine.failed
             PROVE  /\ engine'.failed /\ UNCHANGED <<seen, scan>>
                    /\ shown' \in {shown, NoView}
  BY DEF DistrustStep
<1>1. pc \in {"idle", "refused", "scan", "view"} /\ engine \in [failed : BOOLEAN, since : 0 .. StrongCheck]
  BY DEF ReaderBase, ReaderShape, DistrustPart
<1>2. Distrust => engine'.failed
  BY <1>1 DEF Distrust
<1>3. ~ Verified(TRUE) /\ ~ Verified(FALSE)
  BY DEF Verified
<1>4. CASE BeginScan \/ BeginView \/ BeginRanked
  BY <1>4 DEF BeginScan, BeginView, BeginRanked
<1>5. CASE ScanSteps
  BY <1>1, <1>2, <1>3, <1>5
  DEF ScanSteps, VerifyBeforeScan, CheckBeforeRead, ScanRead, ScanFeed, ScanEof, VerifyAfterScan
<1>6. CASE ViewSteps
  <2>1. VerifyBeforeView
    BY <1>1, <1>6
    DEF ViewSteps, VerifyBeforeView, ViewCapture, ViewLoop, ViewRead, ViewFeed, ViewFill, FillRead,
        FillCheck, VerifyAfterView, RankNext, RankRead
  <2> QED
    BY <1>2, <1>3, <2>1 DEF VerifyBeforeView
<1>7. CASE CancelView \/ ReadFails
  BY <1>7 DEF CancelView, ReadFails
<1>8. CASE Environment
  BY <1>8 DEF Environment, Rewrite, ReplacePath, LoseEvidence
<1>9. CASE UNCHANGED readerVars
  BY <1>9 DEF readerVars
<1>10. ~ OpenFile /\ ~ NewSession
  BY <1>1 DEF OpenFile, NewSession
<1> QED
  BY <1>4, <1>5, <1>6, <1>7, <1>8, <1>9, <1>10 DEF ReaderNext

\* An engine that has found its source changed discovers no row and hands out no
\* viewport again, whatever is called and whatever the file is changed back to
\* (document_engine.rs: integrity_failed, verify_source).
THEOREM DistrustHasNoWayBack == ReaderSpec => DistrustIsFinal
<1>1. ReaderBase /\ [ReaderNext]_readerVars => [DistrustStep]_readerVars
  BY DistrustStays
<1>2. ReaderSpec => []ReaderBase
  BY ReaderInitBase, ReaderStepBase, PTL DEF ReaderSpec
<1>3. ReaderSpec => [][DistrustStep]_readerVars
  BY <1>1, <1>2, PTL DEF ReaderSpec
<1> QED
  BY <1>3, PTL DEF DistrustIsFinal, DistrustStep

File == opened.bytes
All == Scanned(delimited, File)

\* The scanner stands where the records found so far end.
Found ==
    /\ seen \in Seq(Spans)
    /\ \A j \in 1 .. Len(seen) : seen[j] = All[j]
    /\ ~ scan.done => Agree(delimited, File, scan.s, Len(seen))
    /\ scan.done => seen = All
    /\ Good(scan.s) /\ scan.s.offset \in 0 .. Len(File)
    /\ scan.s.offset = 0 \/ scan.snap = opened

\* A chunk that was read while the file was the snapshot is the snapshot's.
ChunkPart ==
    disk.rev = opened.rev =>
        /\ job.buf \in Seq(Bytes)
        /\ scan.s.offset + Len(job.buf) <= Len(File)
        /\ \A i \in 1 .. Len(job.buf) : job.buf[i] = File[scan.s.offset + i]

ScanPart ==
    /\ Found
    /\ pc \in {"closed", "opening"} => scan.s.offset = 0
    /\ pc \in {"scan_read", "scan_feed", "scan_eof"} => ~ scan.done
    /\ pc = "scan_eof" => scan.s.offset = Len(File)
    /\ pc = "scan_feed" => ChunkPart

LEMMA FileShape ==
    ASSUME ReaderBase PROVE File \in Seq(Bytes) /\ delimited \in BOOLEAN /\ Len(File) \in Nat
BY DEF ReaderBase, ReaderShape, Objects, File

LEMMA ReaderInitScan == ReaderInit => ScanPart
<1> SUFFICES ASSUME ReaderInit PROVE ScanPart
  OBVIOUS
<1>1. seen = <<>> /\ scan.s = ScannerAt(0) /\ scan.done = FALSE /\ pc = "closed"
  BY DEF ReaderInit, NoSession
<1>2. File \in Seq(Bytes) /\ delimited \in BOOLEAN /\ Len(File) \in Nat
  BY ReaderInitBase, FileShape
<1>3. Agree(delimited, File, scan.s, 0) /\ Good(scan.s) /\ scan.s.offset = 0
  BY <1>1, <1>2, OriginAgrees, ScannerAtGood
<1>4. Found
  BY <1>1, <1>2, <1>3 DEF Found
<1> QED
  BY <1>1, <1>3, <1>4 DEF ScanPart

\* Steps that find nothing and take no chunk.
LEMMA KeepsScanPart ==
    ASSUME ReaderBase, ScanPart, UNCHANGED <<seen, opened, delimited>>,
           scan'.s = scan.s, scan'.done = scan.done, scan'.snap = scan.snap \/ scan.s.offset = 0,
           pc' \notin {"scan_read", "scan_feed", "scan_eof"},
           pc' \in {"closed", "opening"} => pc \in {"closed", "opening"}
    PROVE  ScanPart'
<1>1. Found'
  BY DEF ScanPart, Found, All, File
<1> QED
  BY <1>1 DEF ScanPart

LEMMA SessionSame ==
    ASSUME ReaderBase, pc \in Scans \ {"scan"}, SessionSound
    PROVE  scan.snap = opened /\ disk = opened /\ disk.rev = opened.rev /\ scan.failed = FALSE
BY SoundIsSame DEF ReaderBase, ReaderShape, ScanShape, CapturePart, SessionSound

\* What finish adds completes the records.
LEMMA FinishFinds ==
    ASSUME ReaderBase, Found, ~ scan.done, scan.s.offset = Len(File)
    PROVE  seen \o Finish(scan.s) = All
<1> DEFINE rest == Finish(scan.s)
<1>1. Agree(delimited, File, scan.s, Len(seen)) /\ seen \in Seq(Spans)
      /\ \A j \in 1 .. Len(seen) : seen[j] = All[j]
  BY DEF Found
<1>2. /\ Len(All) = Len(seen) + Len(rest) /\ rest \in Seq(Spans)
      /\ \A i \in 1 .. Len(rest) : All[Len(seen) + i] = rest[i]
  BY <1>1, FileShape, AgreeEnd DEF All
<1>3. All \in Seq(Spans)
  BY FileShape, ScannedFacts DEF All
<1> HIDE DEF rest
<1>4. /\ seen \o rest \in Seq(Spans) /\ Len(seen \o rest) = Len(seen) + Len(rest)
      /\ \A j \in 1 .. Len(seen) + Len(rest) : (seen \o rest)[j] = All[j]
  <2> DEFINE m == Len(seen)
             all == All
  <2>1. seen \in Seq(Spans) /\ rest \in Seq(Spans) /\ \A j \in 1 .. Len(seen) : seen[j] = all[j]
    BY <1>1, <1>2
  <2>2. \A j \in 1 .. Len(rest) : all[Len(seen) + j] = rest[j]
    BY <1>2
  <2> HIDE DEF all
  <2>3. /\ seen \o rest \in Seq(Spans) /\ Len(seen \o rest) = Len(seen) + Len(rest)
        /\ \A j \in 1 .. Len(seen) + Len(rest) : (seen \o rest)[j] = all[j]
    BY <2>1, <2>2, Joined
  <2> QED
    BY <2>3 DEF all
<1>5. Len(seen \o rest) = Len(All) /\ \A j \in 1 .. Len(seen \o rest) : (seen \o rest)[j] = All[j]
  BY <1>2, <1>4
<1> QED
  BY <1>3, <1>4, <1>5, SeqEqual DEF rest

\* The records a chunk of n bytes adds.
Finds(fed, n) ==
    /\ seen \o fed.out \in Seq(Spans)
    /\ \A j \in 1 .. Len(seen \o fed.out) : (seen \o fed.out)[j] = All[j]
    /\ Len(seen) <= Len(seen \o fed.out) /\ Len(seen \o fed.out) <= Len(All)
    /\ Agree(delimited, File, fed.s, Len(seen \o fed.out))
    /\ Good(fed.s) /\ fed.s.offset = scan.s.offset + n

\* The scanner's records are the next ones.
LEMMA FeedFinds ==
    ASSUME ReaderBase, Found, ~ scan.done, NEW n \in Nat, scan.s.offset + n <= Len(File),
           NEW chunk, Len(chunk) = n, \A i \in 1 .. n : chunk[i] = File[scan.s.offset + i],
           NEW fed, fed = Feed(delimited, scan.s, chunk, n + 1)
    PROVE  Finds(fed, n)
<1> DEFINE m == Len(seen)
           p == scan.s.offset
           out == fed.out
<1>1. Agree(delimited, File, scan.s, m) /\ seen \in Seq(Spans)
      /\ \A j \in 1 .. m : seen[j] = All[j]
  BY DEF Found
<1>2. Held(delimited, File, m, p, n + 1, fed, n)
  BY <1>1, FileShape, FeedAgrees
<1>3. /\ out \in Seq(Spans) /\ Len(out) <= n /\ Agree(delimited, File, fed.s, m + Len(out))
      /\ \A j \in 1 .. Len(out) : All[m + j] = out[j]
      /\ fed.stopped => Len(out) = n + 1
      /\ ~ fed.stopped => fed.s.offset = p + n
  BY <1>2 DEF Held, All
<1>4. fed.s.offset = p + n
  BY <1>3
<1>5. Good(fed.s) /\ m + Len(out) <= Len(All) /\ Len(out) \in Nat /\ m \in Nat
  BY <1>1, <1>3, FileShape, AgreeGood, AgreeBound DEF All
<1> HIDE DEF out, p
<1>6. /\ seen \o out \in Seq(Spans) /\ Len(seen \o out) = m + Len(out)
      /\ \A j \in 1 .. m : (seen \o out)[j] = seen[j]
      /\ \A j \in 1 .. m + Len(out) : (seen \o out)[j] = All[j]
  BY <1>1, <1>3, Joined
<1>7. Agree(delimited, File, fed.s, Len(seen \o out))
  BY <1>3, <1>6
<1> HIDE DEF m
<1>8. /\ m <= Len(seen \o out) /\ Len(seen \o out) <= Len(All)
      /\ \A j \in 1 .. Len(seen \o out) : (seen \o out)[j] = All[j]
  BY <1>5, <1>6
<1> QED
  BY <1>4, <1>5, <1>6, <1>7, <1>8 DEF out, p, m, Finds

\* What a step may do to the stream of records.
StreamStep ==
    /\ opened' = opened /\ delimited' = delimited
    /\ \/ UNCHANGED <<seen, scan.done, scan.failed>>
       \/ /\ ~ scan.failed /\ scan'.failed = TRUE
          /\ UNCHANGED <<seen, scan.done>>
       \/ /\ ~ scan.done /\ ~ scan.failed /\ scan'.failed = scan.failed
          /\ \E n \in Len(seen) .. Len(All) :
                seen' = SubSeq(All, 1, n) /\ scan'.done \in {FALSE, n = Len(All)}

ScanStep == ScanPart' /\ StreamStep

LEMMA PrefixIs ==
    ASSUME NEW S, NEW s \in Seq(S), NEW all \in Seq(S), Len(s) <= Len(all),
           \A j \in 1 .. Len(s) : s[j] = all[j]
    PROVE  s = SubSeq(all, 1, Len(s))
<1> DEFINE n == Len(s)
           t == SubSeq(all, 1, n)
<1>1. n \in Nat /\ 1 \in Int /\ n \in Int /\ \A i \in 1 .. n : all[i] \in S
  OBVIOUS
<1>2. /\ t \in Seq(S) /\ Len(t) = IF 1 <= n THEN n - 1 + 1 ELSE 0
      /\ \A i \in 1 .. n - 1 + 1 : t[i] = all[1 + i - 1]
  <2> HIDE DEF n
  <2> QED
    BY <1>1, SubSeqProperties
<1>3. n - 1 + 1 = n /\ \A i \in 1 .. n : 1 + i - 1 = i
  BY <1>1
<1>4. Len(t) = n /\ \A i \in 1 .. n : t[i] = all[i]
  <2> HIDE DEF t, n
  <2> QED
    BY <1>1, <1>2, <1>3
<1>5. \A i \in 1 .. Len(s) : s[i] = t[i]
  BY <1>4
<1> HIDE DEF t
<1> QED
  BY <1>2, <1>4, <1>5, SeqEqual DEF t

\* Steps that find nothing.
LEMMA QuietScanStep ==
    ASSUME ReaderBase, ScanPart, UNCHANGED <<seen, opened, delimited>>,
           scan'.s = scan.s, scan'.done = scan.done, scan'.snap = scan.snap \/ scan.s.offset = 0,
           scan'.failed = scan.failed \/ scan'.failed = TRUE,
           pc' \notin {"scan_read", "scan_feed", "scan_eof"},
           pc' \in {"closed", "opening"} => pc \in {"closed", "opening"}
    PROVE  ScanStep
<1>1. ScanPart'
  BY KeepsScanPart
<1>2. scan.failed \in BOOLEAN
  BY DEF ReaderBase, ReaderShape, ScanShape
<1>3. StreamStep
  BY <1>2 DEF StreamStep
<1> QED
  BY <1>1, <1>3 DEF ScanStep

LEMMA SessionFailsScan ==
    ASSUME ReaderBase, ScanPart, SessionFails, UNCHANGED <<source, seen>>
    PROVE  ScanStep
<1>1. scan' = [scan EXCEPT !.failed = TRUE] /\ pc' \in {"idle", "refused"}
  BY DEF SessionFails, Return
<1>2. scan'.s = scan.s /\ scan'.done = scan.done /\ scan'.snap = scan.snap /\ scan'.failed = TRUE
  BY <1>1 DEF ReaderBase, ReaderShape, ScanShape
<1> QED
  BY <1>1, <1>2, QuietScanStep DEF source

LEMMA FinalizeScan ==
    ASSUME ReaderBase, ScanPart, pc \in Scans \ {"scan"}, SessionSound, ~ scan.done,
           scan.s.offset = Len(scan.snap.bytes),
           Finalize(scan.s), seen' = seen \o Finish(scan.s), pc' = "scan_verify", UNCHANGED source
    PROVE  ScanStep
<1>1. scan.snap = opened /\ scan.failed = FALSE /\ scan.s.offset = Len(File)
  BY SessionSame DEF File
<1>2. seen' = All
  BY <1>1, FinishFinds DEF ScanPart
<1>3. /\ scan'.snap = scan.snap /\ scan'.s = scan.s /\ scan'.done = TRUE /\ scan'.failed = scan.failed
  BY FinalizeShape
<1>4. opened' = opened /\ delimited' = delimited /\ All' = All /\ File' = File
  BY DEF source, All, File
<1>5. All \in Seq(Spans) /\ seen \in Seq(Spans) /\ \A j \in 1 .. Len(seen) : seen[j] = All[j]
  BY FileShape, ScannedFacts DEF All, ScanPart, Found
<1>6. Found'
  BY <1>1, <1>2, <1>3, <1>4, <1>5 DEF Found, ScanPart
<1>7. ScanPart'
  BY <1>6 DEF ScanPart
<1>8. Len(seen) <= Len(All)
  <2>1. Agree(delimited, File, scan.s, Len(seen))
    BY DEF ScanPart, Found
  <2> QED
    BY <2>1, FileShape, AgreeBound DEF All
<1>9. All = SubSeq(All, 1, Len(All))
  BY <1>5, PrefixIs
<1>10. Len(All) \in Len(seen) .. Len(All)
  BY <1>5, <1>8
<1>11. StreamStep
  BY <1>1, <1>2, <1>3, <1>4, <1>9, <1>10 DEF StreamStep
<1> QED
  BY <1>7, <1>11 DEF ScanStep

LEMMA CheckBeforeReadScan == ReaderBase /\ ScanPart /\ CheckBeforeRead => ScanStep
<1> SUFFICES ASSUME ReaderBase, ScanPart, CheckBeforeRead PROVE ScanStep
  OBVIOUS
<1>1. pc = "scan_check" /\ UNCHANGED source /\ pc \in Scans \ {"scan"}
  BY DEF CheckBeforeRead, Scans
<1>2. CASE SessionFails /\ UNCHANGED seen
  BY <1>1, <1>2, SessionFailsScan
<1>3. CASE pc' = "scan_verify" /\ UNCHANGED <<engine, scan, seen>>
  BY <1>1, <1>3, QuietScanStep DEF source
<1>4. CASE /\ SessionSound /\ ~scan.done /\ scan.s.offset = Len(scan.snap.bytes)
           /\ Finalize(scan.s) /\ seen' = seen \o Finish(scan.s)
           /\ pc' = "scan_verify"
  BY <1>1, <1>4, FinalizeScan
<1>5. CASE ~ scan.done /\ pc' = "scan_read" /\ UNCHANGED <<engine, scan, seen, job>>
  <2>1. ScanPart'
    BY <1>1, <1>5 DEF source, ScanPart, Found, All, File
  <2> QED
    BY <1>1, <1>5, <2>1 DEF ScanStep, StreamStep, source
<1> QED
  BY <1>2, <1>3, <1>4, <1>5 DEF CheckBeforeRead

LEMMA ScanReadScan == ReaderBase /\ ScanPart /\ ScanRead => ScanStep
<1> SUFFICES ASSUME ReaderBase, ScanPart, ScanRead PROVE ScanStep
  OBVIOUS
<1>1. pc = "scan_read" /\ UNCHANGED source /\ pc \in Scans \ {"scan"} /\ scan' = scan /\ seen' = seen
      /\ ~ scan.done
  BY DEF ScanRead, Scans, ScanPart
<1>2. CASE Return
  BY <1>1, <1>2, QuietScanStep DEF source, Return
<1>3. CASE ~ Return
  <2> DEFINE p == scan.s.offset
  <2>1. PICK n \in 1 .. ReadBuffer :
           /\ n \in 1 .. AtMost(AtMost(ReadBuffer, Len(scan.snap.bytes) - p), Len(disk.bytes) - p)
           /\ job' = [job EXCEPT !.buf = SubSeq(disk.bytes, p + 1, p + n)]
           /\ pc' = "scan_feed"
    BY <1>3 DEF ScanRead, Received
  <2>2. job'.buf = SubSeq(disk.bytes, p + 1, p + n)
    BY <1>1, <2>1 DEF ReaderBase, ReaderShape, JobShape, Resting, Shaped, JobFields
  <2>3. p \in Nat /\ n \in Nat
    BY <2>1, ReaderAssumption DEF ScanPart, Found
  <2>4. ChunkPart'
    <3>1. SUFFICES ASSUME disk.rev = opened.rev
                   PROVE  /\ job'.buf \in Seq(Bytes)
                          /\ p + Len(job'.buf) <= Len(File)
                          /\ \A i \in 1 .. Len(job'.buf) : job'.buf[i] = File[p + i]
      BY <1>1 DEF ChunkPart, source, File
    <3>2. disk = opened /\ disk.bytes = File /\ File \in Seq(Bytes) /\ Len(File) \in Nat
      BY <3>1, FileShape DEF ReaderBase, CapturePart, Honest, File
    <3>3. p + n <= Len(File)
      <4> DEFINE lim == AtMost(ReadBuffer, Len(scan.snap.bytes) - p)
                 rest == Len(disk.bytes) - p
      <4>1. n \in 1 .. AtMost(lim, rest)
        BY <2>1
      <4>2. rest \in Int /\ rest = Len(File) - p
        BY <2>3, <3>2
      <4>3. lim \in Int
        <5>1. Len(scan.snap.bytes) \in Nat /\ ReadBuffer \in Nat
          BY ReaderAssumption DEF ReaderBase, ReaderShape, ScanShape, Objects
        <5> HIDE DEF p
        <5> QED
          BY <2>3, <5>1 DEF AtMost
      <4> HIDE DEF lim, rest, p
      <4>4. n <= rest
        BY <4>1, <4>2, <4>3, <2>3 DEF AtMost
      <4> QED
        BY <4>2, <4>4, <2>3, <3>2
    <3> HIDE DEF p
    <3>4. /\ Len(SubSeq(File, p + 1, p + n)) = n
          /\ \A i \in 1 .. n : SubSeq(File, p + 1, p + n)[i] = File[p + i]
      BY <2>3, <3>2, <3>3, ChunkIs
    <3>5. SubSeq(File, p + 1, p + n) \in Seq(Bytes)
      BY <2>3, <3>2, <3>3
    <3>6. job'.buf = SubSeq(File, p + 1, p + n)
      BY <2>2, <3>2
    <3> QED
      BY <3>3, <3>4, <3>5, <3>6
  <2>5. ScanPart'
    BY <1>1, <2>1, <2>4 DEF source, ScanPart, Found, All, File
  <2> QED
    BY <1>1, <2>5 DEF ScanStep, StreamStep, source
<1> QED
  BY <1>2, <1>3

LEMMA ScanFeedScan == ReaderBase /\ ScanPart /\ ScanFeed => ScanStep
<1> SUFFICES ASSUME ReaderBase, ScanPart, ScanFeed PROVE ScanStep
  OBVIOUS
<1>1. pc = "scan_feed" /\ UNCHANGED source /\ pc \in Scans \ {"scan"} /\ pc \in Scans /\ ~ scan.done
  BY DEF ScanFeed, Scans, ScanPart
<1>2. CASE SessionFails /\ UNCHANGED seen
  BY <1>1, <1>2, SessionFailsScan
<1>3. CASE ~ (SessionFails /\ UNCHANGED seen)
  <2>1. SessionSound
    BY <1>3 DEF ScanFeed
  <2>2. scan.snap = opened /\ disk.rev = opened.rev /\ scan.failed = FALSE
    BY <1>1, <2>1, SessionSame
  <2>3. PICK n \in 0 .. Len(job.buf) :
           LET fed == Feed(delimited, scan.s, SubSeq(job.buf, 1, n), n + 1)
           IN  /\ scan' = [scan EXCEPT !.s = fed.s]
               /\ seen' = seen \o fed.out
               /\ job' = [job EXCEPT !.taken = n]
               /\ pc' = IF n = Len(job.buf) /\ fed.s.offset = Len(scan.snap.bytes)
                        THEN "scan_eof" ELSE "scan_verify"
    BY <1>3 DEF ScanFeed
  <2> DEFINE chunk == SubSeq(job.buf, 1, n)
             fed == Feed(delimited, scan.s, chunk, n + 1)
             p == scan.s.offset
  <2>4. /\ scan' = [scan EXCEPT !.s = fed.s]
        /\ seen' = seen \o fed.out
        /\ job' = [job EXCEPT !.taken = n]
        /\ pc' = IF n = Len(job.buf) /\ fed.s.offset = Len(scan.snap.bytes)
                 THEN "scan_eof" ELSE "scan_verify"
    BY <2>3
  <2>5. /\ job.buf \in Seq(Bytes) /\ p + Len(job.buf) <= Len(File)
        /\ \A i \in 1 .. Len(job.buf) : job.buf[i] = File[p + i]
        /\ Found /\ p \in Nat /\ n \in Nat
    BY <1>1, <2>2 DEF ScanPart, ChunkPart, Found
  <2>6. /\ Len(SubSeq(job.buf, 0 + 1, 0 + n)) = n
        /\ \A i \in 1 .. n : SubSeq(job.buf, 0 + 1, 0 + n)[i] = job.buf[0 + i]
    <3>1. 0 \in Nat /\ 0 + n <= Len(job.buf)
      BY <2>5
    <3> QED
      BY <2>5, <3>1, ChunkIs
  <2>7. Len(chunk) = n /\ \A i \in 1 .. n : chunk[i] = File[p + i]
    <3>1. chunk = SubSeq(job.buf, 0 + 1, 0 + n) /\ \A i \in 1 .. n : 0 + i = i
      BY <2>5
    <3>2. \A i \in 1 .. n : i \in 1 .. Len(job.buf)
      BY <2>5
    <3> HIDE DEF chunk, p
    <3> QED
      BY <2>5, <2>6, <3>1, <3>2
  <2>8. p + n <= Len(File)
    BY <2>5, FileShape
  <2>15a. fed = Feed(delimited, scan.s, chunk, n + 1)
    OBVIOUS
  <2>15b. scan.s.offset + n <= Len(File) /\ \A i \in 1 .. n : chunk[i] = File[scan.s.offset + i]
    BY <2>7, <2>8
  <2> HIDE DEF fed, chunk
  <2>9. /\ seen \o fed.out \in Seq(Spans)
        /\ \A j \in 1 .. Len(seen \o fed.out) : (seen \o fed.out)[j] = All[j]
        /\ Len(seen) <= Len(seen \o fed.out) /\ Len(seen \o fed.out) <= Len(All)
        /\ Agree(delimited, File, fed.s, Len(seen \o fed.out))
        /\ Good(fed.s) /\ fed.s.offset = p + n
    <3>1. ~ scan.done /\ Found /\ n \in Nat /\ scan.s.offset + n <= Len(File) /\ Len(chunk) = n
      BY <1>1, <2>5, <2>7, <2>15b
    <3>2. \A i \in 1 .. n : chunk[i] = File[scan.s.offset + i]
      BY <2>15b
    <3> HIDE DEF p
    <3>3. Finds(fed, n)
      BY <2>15a, <3>1, <3>2, FeedFinds
    <3> QED
      BY <3>3 DEF p, Finds
  <2>10. /\ scan'.snap = scan.snap /\ scan'.s = fed.s /\ scan'.done = scan.done
         /\ scan'.failed = scan.failed
    BY <1>1, <2>4, <2>5, FedShape
  <2>11. opened' = opened /\ delimited' = delimited /\ All' = All /\ File' = File
    BY <1>1 DEF source, All, File
  <2>12. fed.s.offset \in 0 .. Len(File)
    BY <2>5, <2>8, <2>9, FileShape
  <2>13. Found'
    BY <1>1, <2>2, <2>4, <2>9, <2>10, <2>11, <2>12 DEF Found
  <2>14. ScanPart'
    <3>1. pc' \in {"scan_eof", "scan_verify"} /\ (pc' = "scan_eof" => fed.s.offset = Len(File))
      BY <2>2, <2>4 DEF File
    <3> QED
      BY <1>1, <2>10, <2>11, <2>13, <3>1 DEF ScanPart
  <2>15. StreamStep
    <3> DEFINE new == seen \o fed.out
    <3>1. All \in Seq(Spans)
      BY FileShape, ScannedFacts DEF All
    <3> HIDE DEF new
    <3>2. new = SubSeq(All, 1, Len(new)) /\ Len(new) \in Len(seen) .. Len(All)
      <4>1. new \in Seq(Spans) /\ Len(new) <= Len(All) /\ Len(seen) <= Len(new)
            /\ \A j \in 1 .. Len(new) : new[j] = All[j]
        BY <2>9 DEF new
      <4>2. Len(seen) \in Nat
        BY <2>5 DEF Found
      <4>3. new = SubSeq(All, 1, Len(new))
        BY <3>1, <4>1, PrefixIs
      <4>4. Len(new) \in Nat /\ Len(All) \in Nat
        BY <3>1, <4>1
      <4> QED
        BY <4>1, <4>2, <4>3, <4>4
    <3>3. seen' = new /\ scan'.done = FALSE
      <4>1. scan.done \in BOOLEAN
        BY DEF ReaderBase, ReaderShape, ScanShape
      <4> QED
        BY <1>1, <2>4, <2>10, <4>1 DEF new
    <3> QED
      BY <1>1, <2>2, <2>10, <2>11, <3>2, <3>3 DEF StreamStep
  <2> QED
    BY <2>14, <2>15 DEF ScanStep
<1> QED
  BY <1>2, <1>3

LEMMA ScanEofScan == ReaderBase /\ ScanPart /\ ScanEof => ScanStep
<1> SUFFICES ASSUME ReaderBase, ScanPart, ScanEof PROVE ScanStep
  OBVIOUS
<1>1. pc = "scan_eof" /\ UNCHANGED source /\ pc \in Scans \ {"scan"} /\ ~ scan.done
      /\ scan.s.offset = Len(File)
  BY DEF ScanEof, Scans, ScanPart
<1>2. CASE SessionFails /\ UNCHANGED seen
  BY <1>1, <1>2, SessionFailsScan
<1>3. CASE /\ SessionSound /\ Finalize(scan.s) /\ seen' = seen \o Finish(scan.s)
           /\ pc' = "scan_verify"
  <2>1. scan.s.offset = Len(scan.snap.bytes)
    BY <1>1, <1>3, SessionSame DEF File
  <2> QED
    BY <1>1, <1>3, <2>1, FinalizeScan
<1> QED
  BY <1>2, <1>3 DEF ScanEof

LEMMA OpenFileScan == ReaderBase /\ ScanPart /\ OpenFile => ScanStep
<1> SUFFICES ASSUME ReaderBase, ScanPart, OpenFile PROVE ScanStep
  OBVIOUS
<1>1. pc = "closed" /\ opened' = disk /\ delimited' = delimited /\ scan' = scan /\ seen' = seen
      /\ pc' = "opening"
  BY DEF OpenFile
<1>2. opened' = opened
  BY <1>1 DEF ReaderBase, CapturePart
<1>3. ScanPart'
  BY <1>1, <1>2, KeepsScanPart
<1> QED
  BY <1>1, <1>2, <1>3 DEF ScanStep, StreamStep

LEMMA NewSessionScan == ReaderBase /\ ScanPart /\ NewSession => ScanStep
<1> SUFFICES ASSUME ReaderBase, ScanPart, NewSession PROVE ScanStep
  OBVIOUS
<1>1. pc = "opening" /\ UNCHANGED <<source, seen>> /\ pc' \in {"view", "refused"}
      /\ scan.s.offset = 0
  BY DEF NewSession, ScanPart
<1>2. CASE scan' = [scan EXCEPT !.snap = disk]
  <2>1. scan'.s = scan.s /\ scan'.done = scan.done /\ scan'.failed = scan.failed
    BY <1>2 DEF ReaderBase, ReaderShape, ScanShape
  <2> QED
    BY <1>1, <2>1, QuietScanStep DEF source
<1>3. CASE scan' = scan
  BY <1>1, <1>3, QuietScanStep DEF source
<1> QED
  BY <1>2, <1>3 DEF NewSession

\* The thread's other steps.
LEMMA OtherScan ==
    ASSUME ReaderBase, ScanPart, UNCHANGED <<source, scan, seen>>,
           pc' \notin {"scan_read", "scan_feed", "scan_eof", "closed", "opening"}
    PROVE  ScanStep
BY QuietScanStep DEF source

LEMMA ViewStepsScan == ReaderBase /\ ScanPart /\ ViewSteps => ScanStep
<1> SUFFICES ASSUME ReaderBase, ScanPart, ViewSteps PROVE ScanStep
  OBVIOUS
<1>1. UNCHANGED <<source, scan, seen>>
  BY DEF ViewSteps, VerifyBeforeView, ViewCapture, ViewLoop, ViewRead, ViewFeed, ViewFill,
         FillRead, FillCheck, VerifyAfterView, RankNext, RankRead
<1>2. pc' \in {"idle", "refused", "view_capture", "view_loop", "view_read", "view_feed",
               "view_fill", "fill_read", "fill_check", "view_verify", "rank_next", "rank_read"}
  <2>1. CASE VerifyBeforeView
    BY <2>1 DEF VerifyBeforeView, Return
  <2>2. CASE ViewCapture
    BY <2>2 DEF ViewCapture, Return
  <2>3. CASE ViewLoop
    BY <2>3 DEF ViewLoop, ViewFails, Return
  <2>4. CASE ViewRead
    BY <2>4 DEF ViewRead, Return
  <2>5. CASE ViewFeed
    BY <2>5 DEF ViewFeed, ViewFails, Return
  <2>6. CASE ViewFill
    BY <2>6 DEF ViewFill, ViewFails, Return
  <2>7. CASE FillRead
    BY <2>7 DEF FillRead, Return
  <2>8. CASE FillCheck
    BY <2>8 DEF FillCheck, ViewFails, Return
  <2>9. CASE VerifyAfterView
    BY <2>9 DEF VerifyAfterView, Return
  <2>10. CASE RankNext
    BY <2>10 DEF RankNext, Return
  <2>11. CASE RankRead
    BY <2>11 DEF RankRead, Return
  <2> QED
    BY <2>1, <2>2, <2>3, <2>4, <2>5, <2>6, <2>7, <2>8, <2>9, <2>10, <2>11 DEF ViewSteps
<1> QED
  BY <1>1, <1>2, OtherScan

\* What other programs do.
LEMMA EnvironmentScan == ReaderBase /\ ScanPart /\ Environment => ScanStep
<1> SUFFICES ASSUME ReaderBase, ScanPart, Environment PROVE ScanStep
  OBVIOUS
<1>1. /\ opened' = opened /\ delimited' = delimited /\ scan' = scan /\ seen' = seen
      /\ pc' = pc /\ job' = job
  BY DEF Environment, Rewrite, ReplacePath, LoseEvidence
<1>2. Found'
  BY <1>1 DEF ScanPart, Found, All, File
<1>3. pc = "scan_feed" => ChunkPart'
  <2>1. CASE disk' = disk
    BY <1>1, <2>1 DEF ScanPart, ChunkPart, File
  <2>2. CASE Rewrite
    <3>1. disk'.rev = disk.rev + 1 /\ opened.rev <= disk.rev /\ disk.rev \in Nat /\ opened.rev \in Nat
      BY <2>2 DEF Rewrite, ReaderBase, ReaderShape, CapturePart, Honest, Objects
    <3>2. disk'.rev # opened'.rev
      BY <1>1, <3>1
    <3> QED
      BY <3>2 DEF ChunkPart
  <2> QED
    BY <2>1, <2>2 DEF Environment, ReplacePath, LoseEvidence
<1>4. ScanPart'
  BY <1>1, <1>2, <1>3 DEF ScanPart, File
<1> QED
  BY <1>1, <1>4 DEF ScanStep, StreamStep

LEMMA ReaderStepScan == ReaderBase /\ ScanPart /\ [ReaderNext]_readerVars => ScanStep
<1> SUFFICES ASSUME ReaderBase, ScanPart, [ReaderNext]_readerVars PROVE ScanStep
  OBVIOUS
<1>1. CASE BeginScan \/ BeginView \/ BeginRanked
  <2>1. UNCHANGED <<source, scan, seen>> /\ pc' \in {"scan", "view"}
    BY <1>1 DEF BeginScan, BeginView, BeginRanked
  <2> QED
    BY <2>1, OtherScan
<1>2. CASE VerifyBeforeScan \/ VerifyAfterScan
  <2>1. UNCHANGED <<source, scan, seen>> /\ pc' \in {"scan_check", "idle", "refused"}
    BY <1>2 DEF VerifyBeforeScan, VerifyAfterScan, Return
  <2> QED
    BY <2>1, OtherScan
<1>3. CASE CancelView \/ ReadFails
  <2>1. UNCHANGED <<source, scan, seen>> /\ pc' \in {"idle", "refused"}
    BY <1>3 DEF CancelView, ReadFails, Return
  <2> QED
    BY <2>1, OtherScan
<1>4. CASE UNCHANGED readerVars
  <2>1. ScanPart'
    BY <1>4 DEF readerVars, ScanPart, Found, ChunkPart, All, File
  <2> QED
    BY <1>4, <2>1 DEF readerVars, ScanStep, StreamStep
<1> QED
  BY <1>1, <1>2, <1>3, <1>4, OpenFileScan, NewSessionScan, CheckBeforeReadScan, ScanReadScan,
     ScanFeedScan, ScanEofScan, ViewStepsScan, EnvironmentScan DEF ReaderNext, ScanSteps

LEMMA TruthIs == ReaderBase => Truth = All
<1> SUFFICES ASSUME ReaderBase PROVE Truth = All
  OBVIOUS
<1> DEFINE d == [csv |-> delimited, bytes |-> opened.bytes]
<1>1. d \in Documents /\ d.csv = delimited /\ d.bytes = File
  BY DEF ReaderBase, ReaderShape, File
<1>2. Truth = RecordsOf[d]
  BY DEF Truth
<1>3. RecordsOf[d] = Records(delimited, File)
  <2> HIDE DEF d
  <2> QED
    BY <1>1 DEF RecordsOf
<1>4. delimited \in BOOLEAN /\ File \in Seq(Bytes)
  BY FileShape
<1> QED
  BY <1>2, <1>3, <1>4, RecordsAreScanned DEF All

LEMMA StreamStepIs ==
    ASSUME StreamStep, Truth = All, Truth' = All'
    PROVE  [Stream!Next]_(Stream!vars)
<1>1. All' = All
  BY DEF StreamStep, All, File
<1>2. CASE UNCHANGED <<seen, scan.done, scan.failed>>
  BY <1>1, <1>2 DEF Stream!vars
<1>3. CASE /\ ~ scan.failed /\ scan'.failed = TRUE
           /\ UNCHANGED <<seen, scan.done>>
  BY <1>1, <1>3 DEF Stream!Next, Stream!Break
<1>4. CASE /\ ~ scan.done /\ ~ scan.failed /\ scan'.failed = scan.failed
           /\ \E n \in Len(seen) .. Len(All) :
                 seen' = SubSeq(All, 1, n) /\ scan'.done \in {FALSE, n = Len(All)}
  <2> HIDE DEF All, Truth
  <2> QED
    BY <1>1, <1>4 DEF Stream!Next, Stream!Discover
<1> QED
  BY <1>2, <1>3, <1>4 DEF StreamStep

\* The scan session discovers the records of the snapshot, in order and once each,
\* whatever the quanta, cancellations, failed reads and rewrites, and finalizes
\* only with all of them (session.rs: ScanSession::step, finalize).
THEOREM ScanIsTheStream == ReaderSpec => StreamOfSnapshot
<1>1. ReaderInit => Stream!Init
  BY DEF ReaderInit, NoSession, Stream!Init
<1>4. ReaderBase' => (Truth = All)'
  BY TruthIs, PTL
<1>2. ReaderBase /\ ScanPart /\ [ReaderNext]_readerVars => [Stream!Next]_(Stream!vars)
  <2> SUFFICES ASSUME ReaderBase, ScanPart, [ReaderNext]_readerVars
               PROVE  [Stream!Next]_(Stream!vars)
    OBVIOUS
  <2>1. ReaderBase'
    BY ReaderStepBase
  <2>2. Truth = All
    BY TruthIs
  <2>3. Truth' = All'
    BY <1>4, <2>1
  <2>4. StreamStep
    BY ReaderStepScan DEF ScanStep
  <2> QED
    BY <2>2, <2>3, <2>4, StreamStepIs
<1>3. ReaderSpec => [](ReaderBase /\ ScanPart)
  <2>1. ReaderInit => ReaderBase /\ ScanPart
    BY ReaderInitBase, ReaderInitScan
  <2>2. ReaderBase /\ ScanPart /\ [ReaderNext]_readerVars => (ReaderBase /\ ScanPart)'
    BY ReaderStepBase, ReaderStepScan DEF ScanStep
  <2> QED
    BY <2>1, <2>2, PTL DEF ReaderSpec
<1> QED
  BY <1>1, <1>2, <1>3, PTL DEF ReaderSpec, StreamOfSnapshot, Stream!Spec

-----------------------------------------------------------------------------
(* Viewports.                                                               *)

\* What a viewport needs holds as long as nobody wrote to the file.
Calm == disk.rev = opened.rev

ViewRow == [row : Nat, span : Spans]
ShownRow == [row : Nat, span : Spans, bytes : Seq(Bytes)]
Piece(from, n) == SubSeq(File, from + 1, from + n)
Over(first, n) == IF n <= first THEN 0 ELSE n - first

Whole(kind) == IF kind = "ranked" THEN Order ELSE Rows
AskedRows(kind, first) ==
    SubSeq(Whole(kind), first + 1, AtMost(first + RowLimit, Len(Whole(kind))))

Left(kind, rows, i) ==
    IF kind = "ranked" THEN MaxPreview
    ELSE AtMost(MaxPreview, PayloadLeft(SubSeq(rows, 1, i - 1)))

\* The rows from the first one asked for to the n-th of the file.
IsRows(spans, first, n) ==
    /\ spans \in Seq(ViewRow) /\ Len(spans) = Over(first, n)
    /\ \A i \in 1 .. Over(first, n) :
          spans[i] = [row |-> first + i - 1, span |-> All[first + i]]

Ready(j) ==
    /\ j.first \in Nat
    /\ j.spans = AskedRows(j.kind, j.first)
    /\ j.eof <=> j.first + Len(j.spans) >= Len(Whole(j.kind))
    /\ j.unterminated => j.eof /\ delimited /\ Inside(File)[Len(File) + 1]

Blank(j) == j.rows = <<>> /\ j.buf = <<>>

Untouched(j) ==
    /\ j.first \in Nat /\ Blank(j)
    /\ j.kind = "ranked" => Ready(j)
    /\ j.kind # "ranked" => j.spans = <<>> /\ ~ j.stopped /\ ~ j.unterminated

Collects(j) ==
    /\ j.first \in Nat /\ j.next \in Nat /\ j.rows = <<>> /\ ~ j.unterminated
    /\ Agree(delimited, File, j.s, j.next)
    /\ IsRows(j.spans, j.first, j.next)
    /\ Over(j.first, j.next) <= RowLimit
    /\ j.stopped <=> Len(j.spans) = RowLimit
    /\ j.stopped => j.s = ScannerAt(j.s.offset)

Shows(j) ==
    /\ j.rows \in Seq(ShownRow) /\ Len(j.rows) <= Len(j.spans)
    /\ \A i \in 1 .. Len(j.rows) :
          /\ j.rows[i].row = j.spans[i].row
          /\ j.rows[i].span = j.spans[i].span
          /\ j.rows[i].bytes = VisiblePrefix(j.spans[i].span, Left(j.kind, j.rows, i))
    /\ Len(j.rows) < Len(j.spans) =>
          LET start == j.spans[Len(j.rows) + 1].span.start
          IN  /\ Len(j.buf) \in Nat /\ start + Len(j.buf) <= Len(File)
              /\ j.buf = Piece(start, Len(j.buf))

\* What holds of the call j of a viewport that stands at p.
ViewAt(p, j) ==
    /\ p \in {"view", "view_capture"} => Untouched(j)
    /\ p \in {"view_loop", "view_read", "view_feed"} => Collects(j)
    /\ p \in {"view_loop", "view_read"} => j.buf = <<>>
    /\ p \in {"view_read", "view_feed"} => ~ j.stopped /\ j.s.offset < Len(File)
    /\ p = "view_feed" => /\ Len(j.buf) \in Nat /\ j.s.offset + Len(j.buf) <= Len(File)
                          /\ j.buf = Piece(j.s.offset, Len(j.buf))
    /\ p \in {"view_fill", "fill_read", "fill_check", "rank_next", "rank_read", "view_verify"} =>
          Ready(j) /\ Shows(j)
    /\ p \in {"fill_read", "fill_check", "rank_read"} => Len(j.rows) < Len(j.spans)
    /\ p = "view_verify" => Len(j.rows) = Len(j.spans)

ViewPart == Calm => ViewAt(pc, job)

\* Joined sequences are a sequence.
LEMMA FlattenIs ==
    ASSUME NEW S, NEW ss \in Seq(Seq(S))
    PROVE  FlattenSeq(ss) \in Seq(S)
<1>1. CASE Len(ss) = 0
  <2>1. ss = <<>>
    BY <1>1, EmptySeq
  <2> QED
    BY <1>1, <2>1 DEF FlattenSeq
<1>2. CASE Len(ss) # 0
  <2> DEFINE Flat(f) == f = [i \in 1 .. Len(ss) |-> IF i = 1 THEN ss[i] ELSE f[i - 1] \o ss[i]]
             flatten == CHOOSE f : Flat(f)
  <2>1. FlattenSeq(ss) = flatten[Len(ss)]
    BY <1>2 DEF FlattenSeq
  <2>2. \E f : Flat(f)
    <3>1. Len(ss) \in Nat /\ Len(ss) <= Len(ss)
      OBVIOUS
    <3>2. PICK f : Flats(S, ss, f, Len(ss))
      BY <3>1, FlatExists
    <3>3. Flat(f)
      BY <3>2 DEF Flats
    <3> HIDE DEF Flat
    <3> QED
      BY <3>3
  <2>3. Flat(flatten)
    <3> HIDE DEF Flat
    <3> QED
      BY <2>2, Zenon
  <2> HIDE DEF flatten
  <2> DEFINE N == {m \in Nat : m + 1 \in 1 .. Len(ss) => flatten[m + 1] \in Seq(S)}
  <2>4. 0 \in N
    BY <2>3
  <2>5. ASSUME NEW m \in Nat, m \in N PROVE m + 1 \in N
    <3>1. SUFFICES ASSUME m + 2 \in 1 .. Len(ss) PROVE flatten[m + 2] \in Seq(S)
      OBVIOUS
    <3>2. m + 1 \in 1 .. Len(ss) /\ m + 2 # 1 /\ (m + 2) - 1 = m + 1
      BY <3>1
    <3>3. flatten[m + 2] = flatten[m + 1] \o ss[m + 2]
      BY <2>3, <3>1, <3>2
    <3>4. flatten[m + 1] \in Seq(S) /\ ss[m + 2] \in Seq(S)
      BY <2>5, <3>1, <3>2
    <3> QED
      BY <3>3, <3>4
  <2> HIDE DEF N
  <2>6. Nat \subseteq N
    BY <2>4, <2>5, NumbersByInduction
  <2>7. Len(ss) - 1 \in Nat /\ (Len(ss) - 1) + 1 = Len(ss) /\ Len(ss) \in 1 .. Len(ss)
    BY <1>2
  <2>8. Len(ss) - 1 \in N
    BY <2>6, <2>7
  <2>9. flatten[Len(ss)] \in Seq(S)
    BY <2>7, <2>8 DEF N
  <2> QED
    BY <2>1, <2>9
<1> QED
  BY <1>1, <1>2

\* What the shown rows leave of the payload is a number.
LEMMA PayloadIs ==
    ASSUME NEW rows \in Seq(ShownRow)
    PROVE  PayloadLeft(rows) \in Int
<1> DEFINE ss == [i \in 1 .. Len(rows) |-> rows[i].bytes]
<1>1. ss \in Seq(Seq(Bytes))
  <2>1. \A i \in 1 .. Len(rows) : rows[i] \in ShownRow
    OBVIOUS
  <2> QED
    BY <2>1 DEF ShownRow
<1> HIDE DEF ss
<1>2. Len(FlattenSeq(ss)) \in Nat
  <2>1. FlattenSeq(ss) \in Seq(Bytes)
    BY <1>1, FlattenIs
  <2> QED
    BY <2>1
<1> QED
  BY <1>2, ReaderAssumption DEF PayloadLeft, ss

\* A piece of the file, and the piece after it.
LEMMA PieceIs ==
    ASSUME File \in Seq(Bytes), NEW from \in Nat, NEW n \in Nat, from + n <= Len(File)
    PROVE  /\ Piece(from, n) \in Seq(Bytes) /\ Len(Piece(from, n)) = n
           /\ \A i \in 1 .. n : Piece(from, n)[i] = File[from + i]
<1>1. /\ Len(SubSeq(File, from + 1, from + n)) = n
      /\ \A i \in 1 .. n : SubSeq(File, from + 1, from + n)[i] = File[from + i]
  BY ChunkIs
<1>2. SubSeq(File, from + 1, from + n) \in Seq(Bytes)
  OBVIOUS
<1> QED
  BY <1>1, <1>2 DEF Piece

LEMMA PieceGrows ==
    ASSUME File \in Seq(Bytes), NEW from \in Nat, NEW n \in Nat, NEW k \in Nat,
           from + n + k <= Len(File)
    PROVE  Piece(from, n) \o Piece(from + n, k) = Piece(from, n + k)
<1> DEFINE a == Piece(from, n)
           b == Piece(from + n, k)
           c == Piece(from, n + k)
<1>0. from + n \in Nat /\ from + n <= Len(File) /\ from + (n + k) <= Len(File) /\ n + k \in Nat
  OBVIOUS
<1>1. /\ a \in Seq(Bytes) /\ Len(a) = n
      /\ \A i \in 1 .. n : a[i] = File[from + i]
  BY <1>0, PieceIs
<1>2. /\ b \in Seq(Bytes) /\ Len(b) = k
      /\ \A i \in 1 .. k : b[i] = File[from + n + i]
  BY PieceIs
<1>3. /\ c \in Seq(Bytes) /\ Len(c) = n + k
      /\ \A i \in 1 .. n + k : c[i] = File[from + i]
  BY PieceIs
<1> HIDE DEF a, b, c
<1>4. /\ a \o b \in Seq(Bytes) /\ Len(a \o b) = n + k
      /\ \A i \in 1 .. n + k : (a \o b)[i] = IF i <= n THEN a[i] ELSE b[i - n]
  BY <1>1, <1>2, ConcatProperties
<1>5. ASSUME NEW i \in 1 .. n + k PROVE (a \o b)[i] = c[i]
  <2>1. CASE i <= n
    <3>1. i \in 1 .. n
      BY <2>1
    <3>2. (a \o b)[i] = a[i]
      BY <1>4, <2>1
    <3> QED
      BY <1>1, <1>3, <3>1, <3>2
  <2>2. CASE ~ (i <= n)
    <3>1. i - n \in 1 .. k /\ from + n + (i - n) = from + i
      BY <2>2
    <3>2. b[i - n] = File[from + n + (i - n)]
      BY <1>2, <3>1
    <3> QED
      BY <1>3, <1>4, <2>2, <3>1, <3>2
  <2> QED
    BY <2>1, <2>2
<1>6. a \o b = c
  BY <1>3, <1>4, <1>5, SeqEqual
<1> QED
  BY <1>6 DEF a, b, c

\* No bytes were read yet.
LEMMA NoPiece ==
    ASSUME File \in Seq(Bytes), NEW from \in Nat, from <= Len(File)
    PROVE  Piece(from, 0) = <<>> /\ Len(<<>>) = 0
<1>1. Piece(from, 0) \in Seq(Bytes) /\ Len(Piece(from, 0)) = 0
  BY PieceIs
<1> QED
  BY <1>1, EmptySeq

\* The records of the file, in order, within it.
LEMMA AllFacts ==
    ASSUME ReaderBase
    PROVE  /\ All \in Seq(Spans) /\ Len(All) \in Nat
           /\ \A i \in 1 .. Len(All) : All[i] \in Spans /\ All[i].start <= Len(File)
<1>1. All \in Seq(Spans) /\ delimited \in BOOLEAN /\ File \in Seq(Bytes)
  BY FileShape, ScannedFacts DEF All
<1>2. ASSUME NEW i \in 1 .. Len(All) PROVE All[i].start <= Len(File)
  <2>1. All[i] \in Spans
    BY <1>1
  <2>2. Agree(delimited, File, ScannerAt(All[i].start), i - 1)
    BY <1>1, <1>2, StartsAgree DEF All
  <2>3. ScannerAt(All[i].start).offset <= Len(File)
    BY <1>1, <2>2, AgreeBound
  <2> HIDE DEF All
  <2> QED
    BY <2>1, <2>3, ScannerAtGood DEF Spans
<1> HIDE DEF All
<1> QED
  BY <1>1, <1>2

\* Row i is record i.
LEMMA RowsFacts ==
    ASSUME ReaderBase
    PROVE  /\ Rows \in Seq(ViewRow) /\ Len(Rows) = Len(All)
           /\ \A i \in 1 .. Len(All) : Rows[i] = [row |-> i - 1, span |-> All[i]]
<1>1. Rows = [i \in 1 .. Len(All) |-> [row |-> i - 1, span |-> All[i]]]
  BY TruthIs DEF Rows
<1>2. \A i \in 1 .. Len(All) : [row |-> i - 1, span |-> All[i]] \in ViewRow
  BY AllFacts DEF ViewRow
<1>3. Len(All) \in Nat
  BY AllFacts
<1> HIDE DEF All, ViewRow, Rows
<1> QED
  BY <1>1, <1>2, <1>3

\* The rows in their order, or by their rank.
LEMMA WholeFacts ==
    ASSUME ReaderBase, NEW kind
    PROVE  /\ Whole(kind) \in Seq(ViewRow) /\ Len(Whole(kind)) = Len(All)
           /\ \A i \in 1 .. Len(All) : Whole(kind)[i].span \in Spans
                                       /\ Whole(kind)[i].span.start <= Len(File)
<1>1. /\ Rows \in Seq(ViewRow) /\ Len(Rows) = Len(All) /\ Len(All) \in Nat
      /\ \A i \in 1 .. Len(All) : Rows[i].span \in Spans /\ Rows[i].span.start <= Len(File)
  <2>1. /\ Rows \in Seq(ViewRow) /\ Len(Rows) = Len(All)
        /\ \A i \in 1 .. Len(All) : Rows[i] = [row |-> i - 1, span |-> All[i]]
    BY RowsFacts
  <2>2. Len(All) \in Nat /\ \A i \in 1 .. Len(All) : All[i] \in Spans /\ All[i].start <= Len(File)
    BY AllFacts
  <2>3. ASSUME NEW i \in 1 .. Len(All) PROVE Rows[i].span = All[i]
    <3>1. Rows[i] = [row |-> i - 1, span |-> All[i]]
      BY <2>1
    <3> HIDE DEF All, Rows
    <3> QED
      BY <3>1
  <2> QED
    BY <2>1, <2>2, <2>3
<1>2. Order = [i \in 1 .. Len(All) |-> Rows[(Len(All) - i) + 1]]
  BY <1>1 DEF Order, Reverse
<1> HIDE DEF All, Rows, ViewRow, Order
<1>3. \A i \in 1 .. Len(All) : (Len(All) - i) + 1 \in 1 .. Len(All)
  BY <1>1
<1>4. /\ Order \in Seq(ViewRow) /\ Len(Order) = Len(All)
      /\ \A i \in 1 .. Len(All) : Order[i].span \in Spans /\ Order[i].span.start <= Len(File)
  BY <1>1, <1>2, <1>3
<1>5. CASE kind = "ranked"
  BY <1>4, <1>5 DEF Whole
<1>6. CASE kind # "ranked"
  BY <1>1, <1>6 DEF Whole
<1> QED
  BY <1>5, <1>6

Until(first) == AtMost(first + RowLimit, Len(All))

\* How many rows are asked for.
LEMMA UntilIs ==
    ASSUME ReaderBase, NEW first \in Nat
    PROVE  /\ Until(first) \in Nat /\ Until(first) <= Len(All) /\ Until(first) <= first + RowLimit
           /\ Over(first, Until(first)) \in 0 .. RowLimit
           /\ Len(All) \in Nat /\ RowLimit \in Nat \ {0}
<1>1. Len(All) \in Nat /\ RowLimit \in Nat \ {0}
  BY AllFacts, ReaderAssumption
<1> HIDE DEF All
<1>2. Until(first) \in Nat /\ Until(first) <= Len(All) /\ Until(first) <= first + RowLimit
  BY <1>1 DEF Until, AtMost
<1> HIDE DEF Until
<1> QED
  BY <1>1, <1>2 DEF Over

\* The rows asked for.
LEMMA AskedFacts ==
    ASSUME ReaderBase, NEW kind, NEW first \in Nat
    PROVE  /\ AskedRows(kind, first) \in Seq(ViewRow)
           /\ Len(AskedRows(kind, first)) = Over(first, Until(first))
           /\ \A i \in 1 .. Over(first, Until(first)) :
                 /\ first + i \in 1 .. Len(All)
                 /\ AskedRows(kind, first)[i] = Whole(kind)[first + i]
<1> DEFINE all == Whole(kind)
           a == first + 1
           b == Until(first)
           asked == AskedRows(kind, first)
           n == Over(first, b)
<1>1. all \in Seq(ViewRow) /\ Len(all) = Len(All)
  BY WholeFacts
<1>2. asked = SubSeq(all, a, b)
  BY <1>1 DEF AskedRows, Until
<1>3. b \in Nat /\ b <= Len(All) /\ Len(All) \in Nat
  BY UntilIs
<1> HIDE DEF all, asked, b, All, ViewRow
<1>4. a \in Int /\ b \in Int /\ \A i \in a .. b : all[i] \in ViewRow
  BY <1>1, <1>3
<1>5. /\ n = IF a <= b THEN b - a + 1 ELSE 0
      /\ \A i \in 1 .. n : i \in 1 .. b - a + 1 /\ a + i - 1 = first + i /\ first + i \in 1 .. Len(All)
  BY <1>3 DEF Over
<1> HIDE DEF a, n
<1>6. /\ asked \in Seq(ViewRow) /\ Len(asked) = IF a <= b THEN b - a + 1 ELSE 0
      /\ \A i \in 1 .. b - a + 1 : asked[i] = all[a + i - 1]
  BY <1>2, <1>4, SubSeqProperties
<1>7. /\ asked \in Seq(ViewRow) /\ Len(asked) = n
      /\ \A i \in 1 .. n : first + i \in 1 .. Len(All) /\ asked[i] = all[first + i]
  BY <1>5, <1>6
<1> QED
  BY <1>7 DEF all, asked, b, n

\* The rows asked for in the order of the file.
LEMMA AskedIsRows ==
    ASSUME ReaderBase, NEW kind, kind # "ranked", NEW first \in Nat
    PROVE  IsRows(AskedRows(kind, first), first, Until(first))
<1>1. /\ AskedRows(kind, first) \in Seq(ViewRow)
      /\ Len(AskedRows(kind, first)) = Over(first, Until(first))
      /\ \A i \in 1 .. Over(first, Until(first)) :
            first + i \in 1 .. Len(All) /\ AskedRows(kind, first)[i] = Whole(kind)[first + i]
  BY AskedFacts
<1>2. Whole(kind) = Rows
  BY DEF Whole
<1>3. \A i \in 1 .. Len(All) : Rows[i] = [row |-> i - 1, span |-> All[i]]
  BY RowsFacts
<1>4. Over(first, Until(first)) \in Nat
  BY UntilIs
<1> DEFINE asked == AskedRows(kind, first)
           n == Over(first, Until(first))
<1>5. ASSUME NEW i \in 1 .. n
      PROVE  asked[i] = [row |-> first + i - 1, span |-> All[first + i]]
  <2> DEFINE x == first + i
  <2>1. x \in 1 .. Len(All) /\ asked[i] = Rows[x]
    BY <1>1, <1>2
  <2> HIDE DEF x
  <2>2. asked[i] = [row |-> x - 1, span |-> All[x]]
    BY <1>3, <2>1
  <2> QED
    BY <2>2 DEF x
<1> QED
  BY <1>1, <1>5 DEF IsRows

\* Rows that have been collected up to the limit, or to the end, are those asked for.
LEMMA SameRows ==
    ASSUME NEW a, NEW b, NEW first, NEW m, NEW n, IsRows(a, first, m), IsRows(b, first, n),
           Over(first, m) = Over(first, n)
    PROVE  a = b
<1>1. a \in Seq(ViewRow) /\ b \in Seq(ViewRow) /\ Len(a) = Len(b)
  BY DEF IsRows
<1>2. \A i \in 1 .. Len(a) : a[i] = b[i]
  BY DEF IsRows
<1> HIDE DEF ViewRow
<1> QED
  BY <1>1, <1>2, SeqEqual

\* What accept adds for the records that follow.
LEMMA CollectedIs ==
    ASSUME ReaderBase, job.first \in Nat, job.next \in Nat,
           IsRows(job.spans, job.first, job.next),
           NEW out \in Seq(Spans), \A i \in 1 .. Len(out) : All[job.next + i] = out[i]
    PROVE  IsRows(Collected(out), job.first, job.next + Len(out))
<1> DEFINE first == job.first
           next == job.next
           k == Len(out)
           rows == [i \in 1 .. k |-> [row |-> next + i - 1, span |-> out[i]]]
           skip == Skipped
           rest == SubSeq(rows, skip + 1, k)
           old == job.spans
           m == Over(first, next)
           n == Over(first, next + k)
<1>0. first \in Nat /\ next \in Nat /\ k \in Nat
  OBVIOUS
<1>1. rows \in Seq(ViewRow) /\ Len(rows) = k
  <2>1. \A i \in 1 .. k : [row |-> next + i - 1, span |-> out[i]] \in ViewRow
    BY DEF ViewRow
  <2> HIDE DEF ViewRow
  <2> QED
    BY <2>1
<1>2. Collected(out) = old \o rest
  BY <1>1 DEF Collected
<1>3. skip = IF next < first THEN first - next ELSE 0
  BY DEF Skipped
<1>4. ASSUME NEW i \in 1 .. k
      PROVE  rows[i] = [row |-> next + i - 1, span |-> All[next + i]]
  BY <1>4
<1>5. old \in Seq(ViewRow) /\ Len(old) = m
      /\ \A i \in 1 .. m : old[i] = [row |-> first + i - 1, span |-> All[first + i]]
  BY DEF IsRows
<1> DEFINE a == skip + 1
<1>6. a \in Int /\ k \in Int /\ skip \in Nat
  BY <1>0, <1>3
<1>7. /\ n = m + (IF a <= k THEN k - a + 1 ELSE 0)
      /\ \A i \in 1 .. n : i > m => i - m \in 1 .. k - a + 1 /\ next + (a + (i - m) - 1) = first + i
                                    /\ a + (i - m) - 1 \in 1 .. k
      /\ m \in Nat /\ n \in Nat
  <2> HIDE DEF first, next, k, skip
  <2>1. CASE next < first
    <3>1. skip = first - next /\ m = 0 /\ (n = IF next + k <= first THEN 0 ELSE (next + k) - first)
      BY <1>0, <1>3, <2>1 DEF Over
    <3> HIDE DEF m, n
    <3> QED
      BY <1>0, <2>1, <3>1
  <2>2. CASE ~ (next < first)
    <3>1. skip = 0 /\ m = next - first /\ n = (next + k) - first
      BY <1>0, <1>3, <2>2 DEF Over
    <3> HIDE DEF m, n
    <3> QED
      BY <1>0, <2>2, <3>1
  <2> QED
    BY <2>1, <2>2
<1> HIDE DEF rows, skip, a, k, rest, m, n, ViewRow, first, next, old
<1>8. /\ rest \in Seq(ViewRow) /\ Len(rest) = IF a <= k THEN k - a + 1 ELSE 0
      /\ \A i \in 1 .. k - a + 1 : rest[i] = rows[a + i - 1]
  <2>1. rest = SubSeq(rows, a, k)
    BY DEF rest, a
  <2>2. \A i \in a .. k : rows[i] \in ViewRow
    <3>1. \A i \in a .. k : i \in 1 .. k
      BY <1>6 DEF a
    <3>2. \A i \in 1 .. k : rows[i] \in ViewRow
      BY <1>1
    <3> QED
      BY <3>1, <3>2
  <2> QED
    BY <1>6, <2>1, <2>2, SubSeqProperties
<1>9. /\ old \o rest \in Seq(ViewRow) /\ Len(old \o rest) = n
      /\ \A i \in 1 .. n : (old \o rest)[i] = IF i <= m THEN old[i] ELSE rest[i - m]
  <2>1. Len(old) + Len(rest) = n
    BY <1>5, <1>7, <1>8
  <2>2. /\ old \o rest \in Seq(ViewRow) /\ Len(old \o rest) = Len(old) + Len(rest)
        /\ \A i \in 1 .. Len(old) + Len(rest) :
              (old \o rest)[i] = IF i <= Len(old) THEN old[i] ELSE rest[i - Len(old)]
    BY <1>5, <1>8, ConcatProperties
  <2> QED
    BY <1>5, <2>1, <2>2
<1>10. ASSUME NEW i \in 1 .. n
       PROVE  (old \o rest)[i] = [row |-> first + i - 1, span |-> All[first + i]]
  <2>1. CASE i <= m
    <3>1. i \in 1 .. m
      BY <1>7, <2>1
    <3> QED
      BY <1>5, <1>9, <2>1, <3>1
  <2>2. CASE ~ (i <= m)
    <3>1. i - m \in 1 .. k - a + 1 /\ next + (a + (i - m) - 1) = first + i /\ a + (i - m) - 1 \in 1 .. k
      BY <1>7, <2>2
    <3> DEFINE x == a + (i - m) - 1
    <3>2. (old \o rest)[i] = rows[x]
      BY <1>8, <1>9, <2>2, <3>1
    <3>3. x \in 1 .. k /\ next + x = first + i
      BY <3>1
    <3> HIDE DEF x
    <3>4. rows[x] = [row |-> next + x - 1, span |-> All[next + x]]
      BY <1>4, <3>3
    <3>5. rows[x] = [row |-> first + i - 1, span |-> All[first + i]]
      <4> DEFINE y == first + i
                 z == next + x
      <4>1. z = y
        BY <3>3
      <4>0. next + x - 1 = z - 1 /\ first + i - 1 = y - 1
        BY <1>0, <1>7, <3>3
      <4>2. rows[x] = [row |-> z - 1, span |-> All[z]]
        <5> DEFINE w == next + x - 1
        <5>1. rows[x] = [row |-> w, span |-> All[z]] /\ w = z - 1
          BY <3>4, <4>0
        <5> HIDE DEF w, z
        <5> QED
          BY <5>1
      <4> HIDE DEF z
      <4> DEFINE w == first + i - 1
      <4>4. w = y - 1
        BY <4>0
      <4> HIDE DEF w, y
      <4>3. rows[x] = [row |-> w, span |-> All[y]]
        BY <4>1, <4>2, <4>4
      <4> QED
        BY <4>3 DEF w, y
    <3> QED
      BY <3>2, <3>5
  <2> QED
    BY <2>1, <2>2
<1> QED
  BY <1>2, <1>9, <1>10 DEF IsRows, n, k, first, next, old

\* Rows from the first on, counted.
LEMMA OverIs ==
    ASSUME NEW first \in Nat, NEW n \in Nat
    PROVE  Over(first, n) \in Nat
BY DEF Over

\* Whoever sees no change while nobody wrote sees the snapshot.
LEMMA CalmIs ==
    ASSUME ReaderBase, Calm
    PROVE  /\ disk = opened /\ disk.bytes = File
           /\ pc \in Views \ {"view_capture"} => job.base = opened /\ job.base.bytes = File
           /\ pc = "rank_read" => job.base = opened
<1>1. /\ Honest(opened) /\ disk.rev \in Nat /\ opened.rev \in Nat
  BY DEF ReaderBase, ReaderShape, CapturePart, Objects
<1>2. disk = opened
  BY <1>1 DEF Calm, Honest
<1>3. ASSUME Honest(job.base), opened.rev <= job.base.rev PROVE job.base = disk
  <2>1. job.base.rev \in Nat /\ job.base.rev <= disk.rev
    BY <1>3 DEF Honest, Objects
  <2>2. job.base.rev = disk.rev
    BY <1>1, <1>3, <2>1 DEF Calm
  <2> QED
    BY <1>3, <2>2 DEF Honest
<1> QED
  BY <1>2, <1>3 DEF ReaderBase, CapturePart, File

\* Steps that leave the call and the snapshot alone.
LEMMA ReadySteady ==
    ASSUME UNCHANGED source, Ready(job') PROVE Ready(job)'
BY DEF source, Ready, AskedRows, Whole, Order, Rows, Truth, File

LEMMA ShowsSteady ==
    ASSUME UNCHANGED source, Shows(job') PROVE Shows(job)'
<1>1. opened' = opened /\ File' = File
  BY DEF source, File
<1> QED
  BY <1>1 DEF Shows, VisiblePrefix, Piece, Left, PayloadLeft

LEMMA CollectsSteady ==
    ASSUME UNCHANGED source, Collects(job') PROVE Collects(job)'
<1>1. File' = File /\ All' = All /\ delimited' = delimited
  BY DEF source, File, All
<1> QED
  BY <1>1 DEF Collects, IsRows, Over

LEMMA UntouchedSteady ==
    ASSUME UNCHANGED source, Untouched(job') PROVE Untouched(job)'
BY ReadySteady DEF Untouched, Blank

\* A step of the thread keeps the calm, and what it says of the call.
LEMMA ViewSteady ==
    ASSUME UNCHANGED source, Calm => ViewAt(pc', job') PROVE ViewPart'
<1>1. File' = File /\ (Calm' <=> Calm)
  BY DEF source, File, Calm
<1>2. ASSUME ViewAt(pc', job') PROVE ViewAt(pc, job)'
  BY <1>1, <1>2, ReadySteady, ShowsSteady, CollectsSteady, UntouchedSteady DEF ViewAt, Piece
<1> QED
  BY <1>1, <1>2 DEF ViewPart

\* A call that has returned claims nothing.
LEMMA ReturnView ==
    ASSUME UNCHANGED source, Return PROVE ViewPart'
<1>1. pc' \in {"idle", "refused"}
  BY DEF Return
<1>2. ViewAt(pc', job')
  BY <1>1 DEF ViewAt
<1> QED
  BY <1>2, ViewSteady

\* Nothing is read of a viewport at these places.
LEMMA ElsewhereView ==
    ASSUME UNCHANGED source,
           pc' \in {"closed", "opening", "idle", "refused"} \cup Scans
    PROVE ViewPart'
<1>2. ViewAt(pc', job')
  BY DEF ViewAt, Scans
<1> QED
  BY <1>2, ViewSteady

\* A call that fails returns.
LEMMA ViewFailsView ==
    ASSUME UNCHANGED source, ViewFails PROVE ViewPart'
BY ReturnView DEF ViewFails

\* The fields of a new call.
LEMMA JobOf ==
    ASSUME NEW kind, NEW first
    PROVE  LET j == Job(kind, first)
           IN  /\ Shaped(j) /\ j.kind = kind /\ j.first = first /\ j.rows = <<>> /\ j.buf = <<>>
               /\ j.spans = <<>> /\ ~ j.stopped /\ ~ j.unterminated
BY DEF Shaped, Job, JobFields

\* The rows found so far are boundaries to start from.
LEMMA SeenFacts ==
    ASSUME ReaderBase, ScanPart
    PROVE  /\ seen \in Seq(Spans) /\ Len(seen) \in Nat /\ Len(seen) <= Len(All)
           /\ \A i \in 1 .. Len(seen) : seen[i] = All[i]
<1>1. /\ seen \in Seq(Spans) /\ \A i \in 1 .. Len(seen) : seen[i] = All[i]
      /\ ~ scan.done => Agree(delimited, File, scan.s, Len(seen))
      /\ scan.done => seen = All
      /\ scan.done \in BOOLEAN
  BY DEF ReaderBase, ReaderShape, ScanShape, ScanPart, Found
<1>2. Len(seen) \in Nat
  BY <1>1
<1>3. Len(seen) <= Len(All)
  <2>1. CASE scan.done
    BY <1>1, <1>2, <2>1
  <2>2. CASE ~ scan.done
    BY <1>1, <2>2, FileShape, AgreeBound DEF All
  <2> QED
    BY <2>1, <2>2
<1> QED
  BY <1>1, <1>2, <1>3

\* The steps of the first viewport, of any, and of a ranked one.
LEMMA NewSessionView ==
    ASSUME ReaderBase, NewSession PROVE ViewPart'
<1>1. UNCHANGED source
  BY DEF NewSession
<1>2. CASE pc' = "refused"
  BY <1>1, <1>2, ElsewhereView
<1>3. CASE pc' = "view" /\ job' = Job("open", 0)
  <2>1. job'.first = 0 /\ Untouched(job')
    BY <1>3, JobOf DEF Untouched, Blank
  <2> QED
    BY <1>1, <1>3, <2>1, ViewSteady DEF ViewAt
<1> QED
  BY <1>2, <1>3 DEF NewSession

LEMMA BeginViewView ==
    ASSUME ReaderBase, ScanPart, BeginView PROVE ViewPart'
<1>1. UNCHANGED source /\ pc' = "view"
  BY DEF BeginView
<1>2. PICK first \in 0 .. Len(seen) + 1 : job' = Job("view", first)
  BY DEF BeginView
<1>3. first \in Nat
  BY SeenFacts
<1>4. Untouched(job')
  BY <1>2, <1>3, JobOf DEF Untouched, Blank
<1> QED
  BY <1>1, <1>4, ViewSteady DEF ViewAt

LEMMA BeginRankedView ==
    ASSUME ReaderBase, BeginRanked PROVE ViewPart'
<1>1. UNCHANGED source /\ pc' = "view"
  BY DEF BeginRanked
<1>2. PICK first \in 0 .. Len(Order) :
         job' = [Job("ranked", first) EXCEPT
                     !.spans = SubSeq(Order, first + 1, AtMost(first + RowLimit, Len(Order))),
                     !.eof = first + RowLimit >= Len(Order)]
  BY DEF BeginRanked
<1> DEFINE j == Job("ranked", first)
           spans == AskedRows("ranked", first)
           eof == first + RowLimit >= Len(Order)
<1>3. Len(Order) = Len(All) /\ Whole("ranked") = Order
  BY WholeFacts DEF Whole
<1>4. first \in Nat /\ first <= Len(All) /\ Len(All) \in Nat
  BY <1>2, <1>3, UntilIs, AllFacts
<1>5. job' = [j EXCEPT !.spans = spans, !.eof = eof]
  BY <1>2, <1>3 DEF AskedRows
<1>6. /\ Shaped(j) /\ j.kind = "ranked" /\ j.first = first /\ j.rows = <<>> /\ j.buf = <<>>
      /\ ~ j.unterminated
  BY JobOf
<1>7. eof <=> first + Len(spans) >= Len(Whole("ranked"))
  <2>1. Len(spans) = Over(first, Until(first)) /\ RowLimit \in Nat \ {0}
    BY <1>4, AskedFacts, UntilIs
  <2> HIDE DEF spans
  <2> QED
    BY <1>3, <1>4, <2>1 DEF Over, Until, AtMost
<1> HIDE DEF j, spans, eof
<1>8. /\ job'.kind = "ranked" /\ job'.first = first /\ job'.rows = <<>> /\ job'.buf = <<>>
      /\ ~ job'.unterminated /\ job'.spans = spans /\ job'.eof = eof
  BY <1>5, <1>6 DEF Shaped, JobFields
<1>9. Ready(job')
  BY <1>4, <1>7, <1>8 DEF Ready, spans
<1>10. Untouched(job')
  BY <1>4, <1>8, <1>9 DEF Untouched, Blank
<1> QED
  BY <1>1, <1>10, ViewSteady DEF ViewAt

\* No row is filled yet.
LEMMA ShownNothing ==
    ASSUME NEW j, Blank(j), File \in Seq(Bytes),
           \A i \in 1 .. Len(j.spans) : j.spans[i].span.start \in Nat
                                        /\ j.spans[i].span.start <= Len(File),
           Len(j.spans) \in Nat
    PROVE  Shows(j)
<1>1. j.rows = <<>> /\ j.buf = <<>> /\ Len(<<>>) = 0 /\ <<>> \in Seq(ShownRow) /\ 1 .. 0 = {}
  BY DEF Blank
<1>2. ASSUME 0 < Len(j.spans)
      PROVE  LET start == j.spans[1].span.start
             IN  start + Len(j.buf) <= Len(File) /\ j.buf = Piece(start, Len(j.buf))
  <2>1. 1 \in 1 .. Len(j.spans)
    BY <1>2
  <2>2. j.spans[1].span.start \in Nat /\ j.spans[1].span.start <= Len(File)
    BY <2>1
  <2>3. Piece(j.spans[1].span.start, 0) = <<>>
    BY <2>2, NoPiece
  <2> QED
    BY <1>1, <2>2, <2>3
<1>3. 0 + 1 = 1
  OBVIOUS
<1> QED
  BY <1>1, <1>2, <1>3 DEF Shows

\* The rows asked for lie in the file.
LEMMA ReadyInFile ==
    ASSUME ReaderBase, NEW j, Ready(j)
    PROVE  /\ j.spans \in Seq(ViewRow) /\ Len(j.spans) \in Nat
           /\ \A i \in 1 .. Len(j.spans) : /\ j.spans[i].span \in Spans /\ j.spans[i].row \in Nat
                                           /\ j.spans[i].span.start <= Len(File)
<1>1. /\ j.spans = AskedRows(j.kind, j.first) /\ j.first \in Nat
  BY DEF Ready
<1>2. /\ j.spans \in Seq(ViewRow) /\ Len(j.spans) = Over(j.first, Until(j.first))
      /\ \A i \in 1 .. Over(j.first, Until(j.first)) :
            j.first + i \in 1 .. Len(All) /\ j.spans[i] = Whole(j.kind)[j.first + i]
  BY <1>1, AskedFacts
<1>3. \A i \in 1 .. Len(All) : Whole(j.kind)[i].span \in Spans
                               /\ Whole(j.kind)[i].span.start <= Len(File)
  BY WholeFacts
<1>4. Len(j.spans) \in Nat /\ \A i \in 1 .. Len(j.spans) : j.spans[i] \in ViewRow
  BY <1>2
<1>5. ASSUME NEW i \in 1 .. Len(j.spans)
      PROVE  /\ j.spans[i].span \in Spans /\ j.spans[i].row \in Nat
             /\ j.spans[i].span.start <= Len(File)
  <2>1. j.spans[i] \in ViewRow /\ j.first + i \in 1 .. Len(All) /\ j.spans[i] = Whole(j.kind)[j.first + i]
    BY <1>2, <1>4
  <2>2. j.spans[i].span.start <= Len(File)
    BY <1>3, <2>1
  <2> QED
    BY <2>1, <2>2 DEF ViewRow
<1> QED
  BY <1>2, <1>4, <1>5

\* The engine is trusted: the call goes on to its rows.
LEMMA VerifyBeforeViewView ==
    ASSUME ReaderBase, ViewPart, VerifyBeforeView PROVE ViewPart'
<1>1. UNCHANGED source /\ pc = "view"
  BY DEF VerifyBeforeView
<1>2. CASE Return
  BY <1>1, <1>2, ReturnView
<1>3. CASE ~ Return
  <2>1. job' = job /\ pc' = IF job.kind = "ranked" THEN "rank_next" ELSE "view_capture"
    BY <1>3 DEF VerifyBeforeView
  <2>2. ASSUME Calm PROVE ViewAt(pc', job')
    <3>1. Untouched(job)
      BY <1>1, <2>2 DEF ViewPart, ViewAt
    <3>2. CASE job.kind # "ranked"
      BY <2>1, <3>1, <3>2 DEF ViewAt
    <3>3. CASE job.kind = "ranked"
      <4>1. Ready(job) /\ Blank(job)
        BY <3>1, <3>3 DEF Untouched
      <4>2. File \in Seq(Bytes)
        BY FileShape
      <4>3. Shows(job)
        BY <4>1, <4>2, ReadyInFile, ShownNothing DEF Spans
      <4> QED
        BY <2>1, <3>3, <4>1, <4>3 DEF ViewAt
    <3> QED
      BY <3>2, <3>3
  <2> QED
    BY <1>1, <2>2, ViewSteady
<1> QED
  BY <1>2, <1>3

\* A boundary of the index at or before the first row.
LEMMA ViewCaptureView ==
    ASSUME ReaderBase, ScanPart, ViewPart, ViewCapture PROVE ViewPart'
<1>1. UNCHANGED source /\ pc = "view_capture"
  BY DEF ViewCapture
<1>2. CASE Return
  BY <1>1, <1>2, ReturnView
<1>3. CASE ~ Return
  <2>1. PICK row \in 0 .. AtMost(job.first, Len(seen)) :
           /\ row = 0 \/ row < Len(seen)
           /\ LET offset == IF row = 0 THEN 0 ELSE seen[row + 1].start
              IN  job' = [job EXCEPT !.base = disk, !.s = ScannerAt(offset), !.next = row]
           /\ pc' = "view_loop"
    BY <1>3 DEF ViewCapture
  <2> DEFINE s == ScannerAt(IF row = 0 THEN 0 ELSE seen[row + 1].start)
  <2>2. job' = [job EXCEPT !.base = disk, !.s = s, !.next = row]
    BY <2>1
  <2>3. ASSUME Calm PROVE ViewAt(pc', job')
    <3>1. job.kind # "ranked" /\ Shaped(job)
      BY <1>1 DEF ReaderBase, ReaderShape, JobShape, Views, Resting
    <3>2. /\ job.first \in Nat /\ job.rows = <<>> /\ job.buf = <<>> /\ job.spans = <<>>
          /\ ~ job.stopped /\ ~ job.unterminated
      BY <1>1, <2>3, <3>1 DEF ViewPart, ViewAt, Untouched, Blank
    <3>3. row \in Nat /\ row <= job.first /\ row <= Len(seen)
      BY <2>1, <3>2, SeenFacts DEF AtMost
    <3>4. Agree(delimited, File, s, row)
      <4>1. CASE row = 0
        BY <4>1, FileShape, OriginAgrees
      <4>2. CASE row # 0
        <5>1. row + 1 \in 1 .. Len(seen) /\ row + 1 \in 1 .. Len(All) /\ (row + 1) - 1 = row
          BY <2>1, <3>3, <4>2, SeenFacts, AllFacts
        <5>2. seen[row + 1] = All[row + 1]
          BY <5>1, SeenFacts
        <5>3. s = ScannerAt(All[row + 1].start)
          BY <4>2, <5>2
        <5> DEFINE n == row + 1
        <5>4. n \in 1 .. Len(Scanned(delimited, File)) /\ n - 1 = row
          BY <5>1 DEF All
        <5>6. Agree(delimited, File, ScannerAt(Scanned(delimited, File)[n].start), n - 1)
          <6> HIDE DEF n
          <6> QED
            BY <5>4, FileShape, StartsAgree
        <5> QED
          BY <5>3, <5>4, <5>6 DEF All
      <4> QED
        BY <4>1, <4>2
    <3> HIDE DEF s
    <3>5. /\ job'.first = job.first /\ job'.rows = <<>> /\ job'.buf = <<>> /\ job'.spans = <<>>
          /\ ~ job'.stopped /\ ~ job'.unterminated /\ job'.s = s /\ job'.next = row
      BY <2>2, <3>1, <3>2 DEF Shaped, JobFields
    <3>6. Over(job.first, row) = 0 /\ RowLimit \in Nat \ {0} /\ Len(<<>>) = 0 /\ <<>> \in Seq(ViewRow)
      BY <3>2, <3>3, ReaderAssumption DEF Over
    <3>7. IsRows(<<>>, job.first, row)
      BY <3>6 DEF IsRows
    <3>8. Collects(job')
      BY <3>2, <3>3, <3>4, <3>5, <3>6, <3>7 DEF Collects
    <3> QED
      BY <2>1, <3>5, <3>8 DEF ViewAt
  <2> QED
    BY <1>1, <2>3, ViewSteady
<1> QED
  BY <1>2, <1>3

\* A read returns bytes of the file.
LEMMA ReadBounds ==
    ASSUME ReaderBase, Calm, NEW from \in Nat, NEW request \in Int,
           NEW n \in 1 .. AtMost(request, Len(disk.bytes) - from)
    PROVE  n \in Nat /\ from + n <= Len(File) /\ SubSeq(disk.bytes, from + 1, from + n) = Piece(from, n)
<1>1. disk.bytes = File /\ Len(File) \in Nat
  BY CalmIs, FileShape
<1>2. Len(disk.bytes) - from \in Int
  BY <1>1
<1> DEFINE rest == Len(disk.bytes) - from
<1>3. n \in Nat /\ n <= rest
  <2> DEFINE most == AtMost(request, rest)
  <2>1. rest \in Int /\ n \in 1 .. most
    BY <1>2
  <2> HIDE DEF rest
  <2>2. most \in Int /\ most <= rest
    BY <2>1 DEF AtMost
  <2> HIDE DEF most
  <2> QED
    BY <2>1, <2>2
<1>4. from + n <= Len(File)
  BY <1>1, <1>3
<1> QED
  BY <1>1, <1>3, <1>4 DEF Piece

\* A chunk is read.
LEMMA ViewReadView ==
    ASSUME ReaderBase, ViewPart, ViewRead PROVE ViewPart'
<1>1. UNCHANGED source /\ pc = "view_read"
  BY DEF ViewRead
<1>2. CASE Return
  BY <1>1, <1>2, ReturnView
<1>3. CASE ~ Return
  <2> DEFINE p == job.s.offset
             request == AtMost(ReadBuffer, Len(job.base.bytes) - p)
  <2>1. PICK n \in 1 .. ReadBuffer :
           /\ n \in 1 .. AtMost(request, Len(disk.bytes) - p)
           /\ job' = [job EXCEPT !.buf = SubSeq(disk.bytes, p + 1, p + n)]
           /\ pc' = "view_feed"
    BY <1>3 DEF ViewRead, Received
  <2>2. ASSUME Calm PROVE ViewAt(pc', job')
    <3>1. Shaped(job) /\ pc \in Views \ {"view_capture"}
      BY <1>1 DEF ReaderBase, ReaderShape, JobShape, Views, Resting
    <3>2. Collects(job) /\ ~ job.stopped /\ p < Len(File)
      BY <1>1, <2>2 DEF ViewPart, ViewAt
    <3>3. p \in Nat /\ p <= Len(File) /\ Len(File) \in Nat
      BY <3>2, FileShape, AgreeBound DEF Collects
    <3>4. job.base.bytes = File /\ disk.bytes = File
      BY <2>2, <3>1, CalmIs
    <3>5. request \in Int
      <4>1. Len(job.base.bytes) - p \in Int /\ ReadBuffer \in Int
        BY <3>3, <3>4, ReaderAssumption
      <4> QED
        BY <4>1 DEF AtMost
    <3> HIDE DEF p, request
    <3>6. n \in Nat /\ p + n <= Len(File) /\ SubSeq(disk.bytes, p + 1, p + n) = Piece(p, n)
      BY <2>1, <2>2, <3>3, <3>5, ReadBounds
    <3>7. File \in Seq(Bytes)
      BY FileShape
    <3>8. Len(Piece(p, n)) = n
      BY <3>3, <3>6, <3>7, PieceIs
    <3> DEFINE b == Piece(p, n)
    <3>9. job' = [job EXCEPT !.buf = b]
      BY <2>1, <3>6
    <3>10. b = Piece(p, n) /\ Len(b) = n
      BY <3>8
    <3> HIDE DEF b
    <3>11. /\ job'.buf = b /\ job'.s = job.s /\ job'.first = job.first /\ job'.next = job.next
           /\ job'.rows = job.rows /\ job'.spans = job.spans /\ job'.stopped = job.stopped
           /\ job'.unterminated = job.unterminated
      BY <3>1, <3>9 DEF Shaped, JobFields
    <3>12. Collects(job')
      BY <3>2, <3>11 DEF Collects
    <3>13. job'.s.offset = p
      BY <3>11 DEF p
    <3> QED
      BY <2>1, <3>2, <3>6, <3>10, <3>11, <3>12, <3>13 DEF ViewAt, p
  <2> QED
    BY <1>1, <2>2, ViewSteady
<1> QED
  BY <1>2, <1>3

\* The callback stops the scanner at the record that fills the viewport.
LEMMA StopIs ==
    ASSUME NEW first \in Nat, NEW next \in Nat, NEW limit \in Nat \ {0},
           Over(first, next) < limit, NEW skip,
           skip = IF next < first THEN first - next ELSE 0,
           NEW stop, stop = skip + limit - Over(first, next)
    PROVE  /\ stop \in Nat /\ 0 < stop
           /\ \A k \in Nat : k <= stop =>
                 Over(first, next + k) <= limit /\ (k = stop <=> Over(first, next + k) = limit)
<1>1. CASE next < first
  <2>1. skip = first - next /\ Over(first, next) = 0
    BY <1>1 DEF Over
  <2>2. stop = (first - next) + limit
    BY <2>1
  <2>3. \A k \in Nat : Over(first, next + k) = IF next + k <= first THEN 0 ELSE (next + k) - first
    BY DEF Over
  <2> QED
    BY <1>1, <2>2, <2>3
<1>2. CASE ~ (next < first)
  <2>1. skip = 0 /\ Over(first, next) = next - first
    BY <1>2 DEF Over
  <2>2. stop = limit - (next - first) /\ next - first < limit
    BY <2>1
  <2>3. \A k \in Nat : Over(first, next + k) = (next + k) - first
    BY <1>2 DEF Over
  <2> QED
    BY <1>2, <2>2, <2>3
<1> QED
  BY <1>1, <1>2

\* A chunk is scanned.
LEMMA ViewFeedView ==
    ASSUME ReaderBase, ViewPart, ViewFeed PROVE ViewPart'
<1>1. UNCHANGED source /\ pc = "view_feed"
  BY DEF ViewFeed
<1>2. CASE ViewFails
  BY <1>1, <1>2, ViewFailsView
<1>3. CASE ~ ViewFails
  <2> DEFINE fed == Feed(delimited, job.s, job.buf, StopAfter)
             out == fed.out
             spans == Collected(out)
             stopped == fed.stopped
             s == fed.s
             k == Len(out)
             p == job.s.offset
             n == Len(job.buf)
  <2>1. /\ pc' = "view_loop"
        /\ job' = [job EXCEPT !.s = s, !.stopped = stopped, !.buf = <<>>,
                              !.next = @ + k, !.spans = spans]
    BY <1>3 DEF ViewFeed
  <2>2. ASSUME Calm PROVE ViewAt(pc', job')
    <3>1. Shaped(job) /\ pc \in Views \ {"view_capture"}
      BY <1>1 DEF ReaderBase, ReaderShape, JobShape, Views, Resting
    <3>2. /\ Collects(job) /\ ~ job.stopped /\ p < Len(File)
          /\ n \in Nat /\ p + n <= Len(File) /\ job.buf = Piece(p, n)
      BY <1>1, <2>2 DEF ViewPart, ViewAt
    <3>3. /\ job.first \in Nat /\ job.next \in Nat /\ job.rows = <<>> /\ ~ job.unterminated
          /\ Agree(delimited, File, job.s, job.next)
          /\ IsRows(job.spans, job.first, job.next)
          /\ Over(job.first, job.next) <= RowLimit
          /\ Len(job.spans) # RowLimit
      BY <3>2 DEF Collects
    <3>4. Over(job.first, job.next) < RowLimit /\ Len(job.spans) = Over(job.first, job.next)
          /\ RowLimit \in Nat \ {0}
      BY <3>3, ReaderAssumption DEF IsRows, Over
    <3>5. StopAfter = Skipped + RowLimit - Over(job.first, job.next)
          /\ Skipped = IF job.next < job.first THEN job.first - job.next ELSE 0
      BY <3>4 DEF StopAfter, Skipped
    <3>6. /\ StopAfter \in Nat /\ 0 < StopAfter
          /\ \A i \in Nat : i <= StopAfter =>
                /\ Over(job.first, job.next + i) <= RowLimit
                /\ i = StopAfter <=> Over(job.first, job.next + i) = RowLimit
      <4> DEFINE first == job.first
                 next == job.next
                 skip == Skipped
                 stop == StopAfter
      <4>1. /\ first \in Nat /\ next \in Nat /\ Over(first, next) < RowLimit
            /\ skip = IF next < first THEN first - next ELSE 0
            /\ stop = skip + RowLimit - Over(first, next)
        BY <3>3, <3>4, <3>5
      <4> HIDE DEF first, next, skip, stop
      <4>2. /\ stop \in Nat /\ 0 < stop
            /\ \A i \in Nat : i <= stop =>
                  /\ Over(first, next + i) <= RowLimit
                  /\ i = stop <=> Over(first, next + i) = RowLimit
        BY <3>4, <4>1, StopIs
      <4> QED
        BY <4>2 DEF first, next, skip, stop
    <3>7. Held(delimited, File, job.next, p, StopAfter, fed, n)
      <4>1. delimited \in BOOLEAN /\ File \in Seq(Bytes) /\ p \in Nat
        BY <3>3, FileShape, AgreeBound
      <4>2. \A i \in 1 .. n : job.buf[i] = File[p + i]
        <5> HIDE DEF n, p
        <5>1. \A i \in 1 .. n : Piece(p, n)[i] = File[p + i]
          BY <3>2, <4>1, PieceIs
        <5> QED
          BY <3>2, <5>1
      <4> DEFINE stop == StopAfter
                 chunk == job.buf
      <4>3. stop \in Nat /\ 0 < stop /\ Len(chunk) = n /\ \A i \in 1 .. n : chunk[i] = File[job.s.offset + i]
        BY <3>6, <4>2
      <4> HIDE DEF stop, chunk, n
      <4>4. job.s.offset + n <= Len(File) /\ n \in Nat
        BY <3>2
      <4>5. Held(delimited, File, job.next, job.s.offset, stop, Feed(delimited, job.s, chunk, stop), n)
        BY <3>3, <4>1, <4>3, <4>4, FeedAgrees
      <4> QED
        BY <4>5 DEF stop, chunk
    <3>8. /\ out \in Seq(Spans) /\ Agree(delimited, File, s, job.next + k)
          /\ \A j \in 1 .. k : All[job.next + j] = out[j]
          /\ stopped => k = StopAfter /\ s = ScannerAt(s.offset)
          /\ ~ stopped => k < StopAfter
      BY <3>7 DEF Held, All
    <3>9. k \in Nat /\ k <= StopAfter /\ (stopped <=> k = StopAfter)
      BY <3>6, <3>8
    <3> DEFINE next == job.next + k
    <3>10. IsRows(spans, job.first, next)
      <4> HIDE DEF out
      <4>1. \A j \in 1 .. Len(out) : All[job.next + j] = out[j]
        BY <3>8
      <4>2. IsRows(Collected(out), job.first, job.next + Len(out))
        BY <3>3, <3>8, <4>1, CollectedIs
      <4> QED
        BY <4>2
    <3>11. next \in Nat /\ Over(job.first, next) <= RowLimit
           /\ (stopped <=> Over(job.first, next) = RowLimit)
      <4> HIDE DEF k, stopped
      <4> QED
        BY <3>3, <3>6, <3>9
    <3> HIDE DEF s, stopped, spans, out, k, next
    <3>12. job' = [job EXCEPT !.s = s, !.stopped = stopped, !.buf = <<>>, !.next = next, !.spans = spans]
      BY <2>1 DEF next
    <3>13. /\ job'.s = s /\ job'.stopped = stopped /\ job'.buf = <<>> /\ job'.next = next
           /\ job'.spans = spans /\ job'.first = job.first /\ job'.rows = job.rows
           /\ job'.unterminated = job.unterminated
      BY <3>1, <3>12 DEF Shaped, JobFields
    <3>14. Agree(delimited, File, s, next)
      BY <3>8 DEF next
    <3>15. Len(spans) = Over(job.first, next)
      BY <3>10 DEF IsRows
    <3>16. stopped => s = ScannerAt(s.offset)
      BY <3>8
    <3>17. stopped <=> Len(spans) = RowLimit
      BY <3>11, <3>15
    <3>18. job'.stopped <=> Len(job'.spans) = RowLimit
      BY <3>13, <3>17
    <3>19. job'.stopped => job'.s = ScannerAt(job'.s.offset)
      BY <3>13, <3>16
    <3>20. Collects(job')
      BY <3>3, <3>10, <3>11, <3>13, <3>14, <3>18, <3>19 DEF Collects
    <3> QED
      BY <2>1, <3>13, <3>20 DEF ViewAt
  <2> QED
    BY <1>1, <2>2, ViewSteady
<1> QED
  BY <1>2, <1>3

\* A carriage return is kept back only outside a quoted section.
LEMMA WaitsOutside ==
    ASSUME NEW csv \in BOOLEAN, NEW file \in Seq(Bytes)
    PROVE  \A k \in 0 .. Len(file) :
              At(csv, file, k).s.cr # NoCr => At(csv, file, k).s.state # "quoted"
<1> DEFINE Good1(k) == At(csv, file, k).s.cr # NoCr => At(csv, file, k).s.state # "quoted"
           S == {k \in Nat : k <= Len(file) => Good1(k)}
<1>1. 0 \in S
  <2>1. At(csv, file, 0).s = ScannerAt(0) /\ ScannerAt(0).state = "field_start"
    BY PassFacts, ScannerAtGood
  <2> QED
    BY <2>1
<1>2. ASSUME NEW k \in Nat, k \in S PROVE k + 1 \in S
  <2>1. SUFFICES ASSUME k + 1 <= Len(file) PROVE Good1(k + 1)
    OBVIOUS
  <2>2. k \in 0 .. Len(file) - 1 /\ k \in 0 .. Len(file) /\ Len(file) \in Nat
    BY <2>1
  <2> DEFINE s == At(csv, file, k).s
             q == At(csv, file, k + 1).s
             byte == file[k + 1]
             e == Settled(s)
  <2>3. q = Moved(csv, s, byte)
    BY <2>2, PassFacts DEF Steps
  <2>4. q = (IF e.state # "quoted" /\ byte = "cr"
             THEN Scanner(e.state, s.offset + 1, e.start, s.offset)
             ELSE IF byte = "lf" /\ (s.cr # NoCr \/ e.state # "quoted")
             THEN ScannerAt(s.offset + 1)
             ELSE Scanner(IF csv THEN FieldState(e.state, byte) ELSE e.state,
                          s.offset + 1, e.start, NoCr))
    BY <2>3 DEF Moved
  <2> HIDE DEF s, q, byte, e
  <2>5. q.cr # NoCr => q.state # "quoted"
    <3>1. CASE e.state # "quoted" /\ byte = "cr"
      BY <2>4, <3>1 DEF Scanner
    <3>2. CASE ~ (e.state # "quoted" /\ byte = "cr")
      BY <2>4, <3>2 DEF Scanner, ScannerAt
    <3> QED
      BY <3>1, <3>2
  <2> QED
    BY <2>5 DEF q
<1> HIDE DEF S
<1>3. Nat \subseteq S
  BY <1>1, <1>2, NumbersByInduction
<1> QED
  BY <1>3 DEF S

\* A scanner that is in a quoted section at the end finds it unterminated.
LEMMA QuotedAtEnd ==
    ASSUME NEW csv \in BOOLEAN, NEW file \in Seq(Bytes), NEW s, s = At(csv, file, Len(file)).s,
           Unterminated(csv, s)
    PROVE  csv /\ Inside(file)[Len(file) + 1]
<1>1. csv /\ s.state = "quoted"
  BY DEF Unterminated
<1>2. Len(file) \in 0 .. Len(file)
  OBVIOUS
<1>3. s.cr = NoCr
  BY <1>1, <1>2, WaitsOutside
<1>4. Section(s) = "quoted"
  BY <1>1, <1>3 DEF Section, Settled
<1>5. Cuts(csv, file, Len(file))
  BY <1>2, CutsAlways
<1>6. Reads(file, Len(file), "quoted")
  BY <1>1, <1>4, <1>5 DEF Cuts
<1> QED
  BY <1>1, <1>2, <1>6, QuotedIs

\* The rows that were collected are those asked for: because the viewport is
\* full, or because the file has no more.
LEMMA LoopEnds ==
    ASSUME ReaderBase, Calm, job.kind # "ranked", Collects(job), job.base.bytes = File, ViewOver,
           NEW finish, finish = (job.s.offset = Len(File) /\ Len(job.spans) < RowLimit),
           NEW spans, spans = IF finish THEN Collected(Finish(job.s)) ELSE job.spans
    PROVE  /\ spans = AskedRows(job.kind, job.first)
           /\ job.s.offset = Len(File) <=> job.first + Len(spans) >= Len(All)
           /\ finish => job.s = At(delimited, File, Len(File)).s
<1> DEFINE first == job.first
           next == job.next
           total == Len(All)
           end == Len(File)
           p == job.s.offset
<1>1. /\ first \in Nat /\ next \in Nat /\ Agree(delimited, File, job.s, next)
      /\ IsRows(job.spans, first, next) /\ Over(first, next) <= RowLimit
      /\ job.stopped <=> Len(job.spans) = RowLimit
      /\ job.stopped => job.s = ScannerAt(p)
  BY DEF Collects
<1>2. total \in Nat /\ end \in Nat /\ p \in Nat /\ p <= end /\ next <= total /\ RowLimit \in Nat \ {0}
  BY <1>1, FileShape, AgreeBound, ReaderAssumption DEF All
<1>3. Len(job.spans) = Over(first, next)
  BY <1>1 DEF IsRows
<1>4. IsRows(AskedRows(job.kind, first), first, Until(first))
  BY <1>1, AskedIsRows
<1>5. CASE finish
  <2> DEFINE rest == Finish(job.s)
             m == next + Len(rest)
  <2>1. p = end /\ Over(first, next) < RowLimit
    BY <1>3, <1>5
  <2>2. /\ job.s = At(delimited, File, Len(File)).s /\ total = m /\ rest \in Seq(Spans)
        /\ \A i \in 1 .. Len(rest) : All[next + i] = rest[i]
    BY <1>1, <2>1, FileShape, AgreeEnd DEF All
  <2>3. Len(rest) \in 0 .. 1
    BY DEF Finish
  <2>4. IsRows(spans, first, m)
    <3> HIDE DEF rest
    <3>1. IsRows(Collected(rest), job.first, job.next + Len(rest))
      BY <1>1, <2>2, CollectedIs
    <3> QED
      BY <1>5, <3>1 DEF rest
  <2>5. Until(first) = total
    <3> HIDE DEF total, rest, m, next, first
    <3>1. total = m /\ m <= next + 1
      BY <1>1, <2>2, <2>3 DEF m
    <3>2. next < first + RowLimit
      BY <1>1, <1>2, <2>1 DEF Over
    <3>3. total <= first + RowLimit
      BY <1>1, <1>2, <3>1, <3>2
    <3>4. Until(first) = AtMost(first + RowLimit, total)
      BY DEF Until, total
    <3> QED
      BY <1>1, <1>2, <3>3, <3>4 DEF AtMost
  <2>6. spans = AskedRows(job.kind, first)
    BY <1>4, <2>2, <2>4, <2>5, SameRows
  <2>7. Len(spans) = Over(first, total)
    BY <2>2, <2>4 DEF IsRows
  <2>8. first + Len(spans) >= total
    <3> HIDE DEF first, total
    <3> QED
      BY <1>1, <1>2, <2>7 DEF Over
  <2> QED
    BY <2>1, <2>2, <2>6, <2>8
<1>6. CASE ~ finish
  <2>1. spans = job.spans
    BY <1>6
  <2>2. Len(job.spans) = RowLimit /\ job.stopped
    <3>1. job.stopped \/ p = end \/ Len(job.spans) = RowLimit
      BY DEF ViewOver
    <3>2. ~ (p = end /\ Len(job.spans) < RowLimit)
      BY <1>6
    <3> HIDE DEF p, end, first, next
    <3>3. p = end => Len(job.spans) = RowLimit
      BY <1>1, <1>2, <1>3, <3>2 DEF Over
    <3> QED
      BY <1>1, <3>1, <3>3
  <2>3. next = first + RowLimit
    <3> HIDE DEF first, next
    <3> QED
      BY <1>1, <1>2, <1>3, <2>2 DEF Over
  <2>4. Until(first) = next
    <3> HIDE DEF first, next, total
    <3>1. Until(first) = AtMost(first + RowLimit, total)
      BY DEF Until, total
    <3> QED
      BY <1>1, <1>2, <2>3, <3>1 DEF AtMost
  <2>5. spans = AskedRows(job.kind, first)
    BY <1>1, <1>4, <2>1, <2>4, SameRows
  <2>6. p < end => next < total
    <3> HIDE DEF next
    <3>1. ASSUME p < end PROVE next < total
      <4>1. job.s.offset < Len(File)
        BY <3>1
      <4>2. next < Len(Scanned(delimited, File))
        BY <1>1, <4>1, FileShape, AgreeStep
      <4> QED
        BY <4>2 DEF All
    <3> QED
      BY <3>1
  <2>7. p = end => total = next
    <3>1. ASSUME p = end PROVE total = next
      <4>1. job.s = ScannerAt(p)
        BY <1>1, <2>2
      <4>2. Finish(ScannerAt(p)) = <<>>
        BY <1>2, ScannerAtGood DEF Finish
      <4>3. Len(Scanned(delimited, File)) = next + Len(Finish(job.s))
        BY <1>1, <3>1, FileShape, AgreeEnd
      <4> QED
        BY <1>1, <4>1, <4>2, <4>3 DEF All
    <3> QED
      BY <3>1
  <2>8. p = end <=> first + Len(spans) >= total
    <3> HIDE DEF first, next, total, p, end
    <3> QED
      BY <1>1, <1>2, <2>1, <2>2, <2>3, <2>6, <2>7
  <2> QED
    BY <1>6, <2>5, <2>8
<1> QED
  BY <1>5, <1>6

\* The loop ends with the rows asked for, or goes on.
LEMMA ViewLoopView ==
    ASSUME ReaderBase, ViewPart, ViewLoop PROVE ViewPart'
<1>1. UNCHANGED source /\ pc = "view_loop"
  BY DEF ViewLoop
<1>2. CASE ViewFails
  BY <1>1, <1>2, ViewFailsView
<1>3. CASE ~ ViewOver /\ pc' = "view_read" /\ job' = job
  <2>1. ASSUME Calm PROVE ViewAt(pc', job')
    <3>1. Collects(job) /\ job.buf = <<>>
      BY <1>1, <2>1 DEF ViewPart, ViewAt
    <3>2. job.base.bytes = File
      BY <1>1, <2>1, CalmIs DEF Views
    <3>3. ~ job.stopped /\ job.s.offset # Len(File)
      BY <1>3, <3>2 DEF ViewOver
    <3>4. job.s.offset \in Nat /\ job.s.offset <= Len(File) /\ Len(File) \in Nat
      BY <3>1, FileShape, AgreeBound DEF Collects
    <3>5. job.s.offset < Len(File)
      BY <3>3, <3>4
    <3> QED
      BY <1>3, <3>1, <3>3, <3>5 DEF ViewAt
  <2> QED
    BY <1>1, <2>1, ViewSteady
<1>4. CASE ~ ViewFails /\ ViewOver
  <2> DEFINE eof == job.s.offset = Len(job.base.bytes)
             finish == eof /\ Len(job.spans) < RowLimit
             spans == IF finish THEN Collected(Finish(job.s)) ELSE job.spans
             u == finish /\ Unterminated(delimited, job.s)
  <2>1. job' = [job EXCEPT !.eof = eof, !.spans = spans, !.unterminated = u] /\ pc' = "view_fill"
    BY <1>4 DEF ViewLoop
  <2>2. ASSUME Calm PROVE ViewAt(pc', job')
    <3>1. Shaped(job) /\ job.kind # "ranked"
      BY <1>1 DEF ReaderBase, ReaderShape, JobShape, Views, Resting
    <3>2. Collects(job) /\ job.buf = <<>> /\ job.rows = <<>>
      BY <1>1, <2>2 DEF ViewPart, ViewAt, Collects
    <3>3. job.base.bytes = File
      BY <1>1, <2>2, CalmIs DEF Views
    <3>4. /\ spans = AskedRows(job.kind, job.first)
          /\ eof <=> job.first + Len(spans) >= Len(All)
          /\ finish => job.s = At(delimited, File, Len(File)).s
      <4>1. eof <=> job.s.offset = Len(File)
        BY <3>3
      <4>2. finish = (job.s.offset = Len(File) /\ Len(job.spans) < RowLimit)
        BY <3>3
      <4> HIDE DEF finish, eof
      <4>3. spans = IF finish THEN Collected(Finish(job.s)) ELSE job.spans
        OBVIOUS
      <4> HIDE DEF spans
      <4>4. /\ spans = AskedRows(job.kind, job.first)
            /\ job.s.offset = Len(File) <=> job.first + Len(spans) >= Len(All)
            /\ finish => job.s = At(delimited, File, Len(File)).s
        BY <1>4, <2>2, <3>1, <3>2, <3>3, <4>2, <4>3, LoopEnds
      <4> QED
        BY <4>1, <4>4
    <3>5. u => eof /\ delimited /\ Inside(File)[Len(File) + 1]
      <4>1. ASSUME u PROVE eof /\ delimited /\ Inside(File)[Len(File) + 1]
        <5>1. job.s = At(delimited, File, Len(File)).s /\ Unterminated(delimited, job.s) /\ eof
          BY <3>4, <4>1
        <5>2. delimited \in BOOLEAN /\ File \in Seq(Bytes)
          BY FileShape
        <5>3. delimited /\ Inside(File)[Len(File) + 1]
          BY <5>1, <5>2, QuotedAtEnd
        <5> QED
          BY <5>1, <5>3
      <4> QED
        BY <4>1
    <3>6. Len(Whole(job.kind)) = Len(All)
      BY WholeFacts
    <3> HIDE DEF eof, finish, spans, u
    <3>7. /\ job'.eof = eof /\ job'.spans = spans /\ job'.unterminated = u /\ job'.kind = job.kind
          /\ job'.first = job.first /\ job'.rows = <<>> /\ job'.buf = <<>>
      BY <2>1, <3>1, <3>2 DEF Shaped, JobFields
    <3>8. job.first \in Nat
      BY <3>2 DEF Collects
    <3>9. Ready(job')
      <4>1. job'.spans = AskedRows(job'.kind, job'.first) /\ job'.first \in Nat
        BY <3>4, <3>7, <3>8
      <4>2. job'.eof <=> job'.first + Len(job'.spans) >= Len(Whole(job'.kind))
        BY <3>4, <3>6, <3>7
      <4>3. job'.unterminated => job'.eof /\ delimited /\ Inside(File)[Len(File) + 1]
        BY <3>5, <3>7
      <4> QED
        BY <4>1, <4>2, <4>3 DEF Ready
    <3>10. Shows(job')
      <4>1. Blank(job') /\ File \in Seq(Bytes)
        BY <3>7, FileShape DEF Blank
      <4> QED
        BY <3>9, <4>1, ReadyInFile, ShownNothing DEF Spans
    <3> QED
      BY <2>1, <3>9, <3>10 DEF ViewAt
  <2> QED
    BY <1>1, <2>2, ViewSteady
<1> QED
  BY <1>2, <1>3, <1>4 DEF ViewLoop

\* The first part of a piece.
LEMMA InitialIs ==
    ASSUME NEW S, NEW s \in Seq(S), NEW x \in S, NEW i \in 1 .. Len(s) + 1
    PROVE  SubSeq(Append(s, x), 1, i - 1) = SubSeq(s, 1, i - 1)
<1> DEFINE n == i - 1
           t == Append(s, x)
           a == SubSeq(t, 1, n)
           b == SubSeq(s, 1, n)
<1>1. n \in Int /\ 1 \in Int /\ n \in Nat /\ n <= Len(s) /\ Len(s) \in Nat
  OBVIOUS
<1>2. t \in Seq(S) /\ \A j \in 1 .. Len(s) : t[j] = s[j] /\ s[j] \in S
  BY AppendProperties
<1> HIDE DEF n, t
<1>3. \A j \in 1 .. n : j \in 1 .. Len(s)
  BY <1>1
<1>4. \A j \in 1 .. n : t[j] \in S /\ s[j] \in S /\ t[j] = s[j]
  BY <1>2, <1>3
<1>5. /\ a \in Seq(S) /\ Len(a) = IF 1 <= n THEN n - 1 + 1 ELSE 0
      /\ \A j \in 1 .. n - 1 + 1 : a[j] = t[1 + j - 1]
  BY <1>1, <1>4, SubSeqProperties
<1>6. /\ b \in Seq(S) /\ Len(b) = IF 1 <= n THEN n - 1 + 1 ELSE 0
      /\ \A j \in 1 .. n - 1 + 1 : b[j] = s[1 + j - 1]
  BY <1>1, <1>4, SubSeqProperties
<1> HIDE DEF a, b
<1>7. Len(a) = Len(b) /\ Len(a) = n
  BY <1>1, <1>5, <1>6
<1>8. \A j \in 1 .. Len(a) : j \in 1 .. n - 1 + 1 /\ 1 + j - 1 = j /\ j \in 1 .. n
  BY <1>1, <1>7
<1>9. \A j \in 1 .. Len(a) : a[j] = b[j]
  BY <1>4, <1>5, <1>6, <1>8
<1>10. a = b
  BY <1>5, <1>6, <1>7, <1>9, SeqEqual
<1> QED
  BY <1>10 DEF a, b, t, n

\* Rows do not depend on the call.
LEMMA WholeOf ==
    ASSUME NEW S, NEW s \in Seq(S) PROVE SubSeq(s, 1, Len(s)) = s
<1>1. Len(s) <= Len(s) /\ \A j \in 1 .. Len(s) : s[j] = s[j]
  OBVIOUS
<1> QED
  BY <1>1, PrefixIs

\* A step that keeps the rows collected.
LEMMA ReadyKept ==
    ASSUME NEW j, NEW k, Ready(j), k.first = j.first, k.kind = j.kind, k.spans = j.spans,
           k.eof = j.eof, k.unterminated = j.unterminated
    PROVE  Ready(k)
BY DEF Ready

\* What is copied of a record, in one bound.
LEMMA CopyIs ==
    ASSUME ReaderBase, job.rows \in Seq(ShownRow), NEW span, span \in Spans, span = Filling.span,
           NEW x \in ShownRow
    PROVE  /\ CopySize \in Int
           /\ Length(span) \in Int
           /\ CopySize = AtMost(Length(span),
                                Left(job.kind, Append(job.rows, x), Len(job.rows) + 1))
<1> DEFINE n == Len(job.rows)
           left == PayloadLeft(job.rows)
           size == Length(span)
<1>1. n \in Nat /\ n + 1 \in 1 .. Len(job.rows) + 1 /\ (n + 1) - 1 = n
  OBVIOUS
<1>2. left \in Int /\ MaxPreview \in Int /\ size \in Int
  BY PayloadIs, ReaderAssumption DEF Length, Spans
<1>3. SubSeq(Append(job.rows, x), 1, (n + 1) - 1) = job.rows
  <2> DEFINE m == n + 1
  <2>1. m \in 1 .. Len(job.rows) + 1 /\ m - 1 = Len(job.rows)
    BY <1>1
  <2> HIDE DEF m
  <2>2. SubSeq(Append(job.rows, x), 1, m - 1) = SubSeq(job.rows, 1, m - 1)
    BY <2>1, InitialIs
  <2>3. SubSeq(job.rows, 1, Len(job.rows)) = job.rows
    BY WholeOf
  <2> QED
    BY <2>1, <2>2, <2>3 DEF m
<1>4. CASE job.kind = "ranked"
  <2>1. CopySize = AtMost(size, MaxPreview)
    BY <1>4 DEF CopySize
  <2>2. Left(job.kind, Append(job.rows, x), n + 1) = MaxPreview
    BY <1>4 DEF Left
  <2> HIDE DEF size
  <2>3. AtMost(size, MaxPreview) \in Int
    BY <1>2 DEF AtMost
  <2> QED
    BY <1>2, <2>1, <2>2, <2>3 DEF size
<1>5. CASE job.kind # "ranked"
  <2>1. CopySize = AtMost(AtMost(size, MaxPreview), left)
    BY <1>5 DEF CopySize
  <2>2. Left(job.kind, Append(job.rows, x), n + 1) = AtMost(MaxPreview, left)
    BY <1>3, <1>5 DEF Left
  <2> HIDE DEF size, left
  <2>3. /\ AtMost(AtMost(size, MaxPreview), left) \in Int
        /\ AtMost(AtMost(size, MaxPreview), left) = AtMost(size, AtMost(MaxPreview, left))
    BY <1>2 DEF AtMost
  <2> QED
    BY <1>2, <2>1, <2>2, <2>3 DEF size
<1> QED
  BY <1>4, <1>5

\* A row is filled.
LEMMA PushShows ==
    ASSUME ReaderBase, Shaped(job), Ready(job), Shows(job), Len(job.rows) < Len(job.spans),
           Len(job.buf) = CopySize, PushRow
    PROVE  Ready(job') /\ Shows(job')
<1> DEFINE n == Len(job.rows)
           at == job.spans[n + 1]
           x == [row |-> at.row, span |-> at.span, bytes |-> job.buf]
           rows == Append(job.rows, x)
           from == at.span.start
           m == Len(job.buf)
<1>1. /\ job'.rows = rows /\ job'.buf = <<>> /\ job'.spans = job.spans /\ job'.first = job.first
      /\ job'.kind = job.kind /\ job'.eof = job.eof /\ job'.unterminated = job.unterminated
  BY PushRowShape DEF Filling
<1>2. Ready(job')
  BY <1>1, ReadyKept
<1>3. /\ job.rows \in Seq(ShownRow) /\ n <= Len(job.spans) /\ n \in Nat /\ Len(job.spans) \in Nat
      /\ \A i \in 1 .. n :
            /\ job.rows[i].row = job.spans[i].row
            /\ job.rows[i].span = job.spans[i].span
            /\ job.rows[i].bytes = VisiblePrefix(job.spans[i].span, Left(job.kind, job.rows, i))
      /\ m \in Nat /\ from + m <= Len(File) /\ job.buf = Piece(from, m)
  BY ReadyInFile DEF Shows
<1>4. /\ n + 1 \in 1 .. Len(job.spans)
      /\ \A i \in 1 .. Len(job.spans) : /\ job.spans[i].span \in Spans /\ job.spans[i].row \in Nat
                                        /\ job.spans[i].span.start <= Len(File)
  BY <1>3, ReadyInFile
<1>5. at.span \in Spans /\ at.row \in Nat /\ from \in Nat /\ File \in Seq(Bytes)
  BY <1>4, FileShape DEF Spans
<1>6. job.buf \in Seq(Bytes)
  <2> HIDE DEF from, m
  <2> QED
    BY <1>3, <1>5, PieceIs
<1>7. x \in ShownRow /\ x.row = at.row /\ x.span = at.span /\ x.bytes = job.buf
  BY <1>5, <1>6 DEF ShownRow
<1>8. m = AtMost(Length(at.span), Left(job.kind, rows, n + 1))
  <2>1. at.span = Filling.span
    BY DEF Filling
  <2> HIDE DEF x, at
  <2>2. CopySize = AtMost(Length(at.span), Left(job.kind, Append(job.rows, x), Len(job.rows) + 1))
    BY <1>3, <1>5, <1>7, <2>1, CopyIs
  <2> QED
    BY <2>2
<1>9. job.buf = VisiblePrefix(at.span, Left(job.kind, rows, n + 1))
  <2> DEFINE most == Left(job.kind, rows, n + 1)
  <2>1. VisiblePrefix(at.span, most) = Piece(from, AtMost(Length(at.span), most))
    BY DEF VisiblePrefix, Piece, File
  <2>2. m = AtMost(Length(at.span), most)
    BY <1>8
  <2> HIDE DEF most, m, at
  <2> QED
    BY <1>3, <2>1, <2>2 DEF most
<1>10. rows \in Seq(ShownRow) /\ Len(rows) = n + 1 /\ rows[n + 1] = x
       /\ \A i \in 1 .. n : rows[i] = job.rows[i]
  <2> HIDE DEF x
  <2> QED
    BY <1>3, <1>7, AppendProperties
<1>11. ASSUME NEW i \in 1 .. n
       PROVE  Left(job.kind, rows, i) = Left(job.kind, job.rows, i)
  <2>1. i \in 1 .. Len(job.rows) + 1
    BY <1>3
  <2> HIDE DEF x
  <2>2. SubSeq(rows, 1, i - 1) = SubSeq(job.rows, 1, i - 1)
    BY <1>3, <1>7, <2>1, InitialIs
  <2> HIDE DEF rows
  <2> QED
    BY <2>2 DEF Left
<1> HIDE DEF rows, x
<1>12. ASSUME NEW i \in 1 .. n + 1
       PROVE  /\ rows[i].row = job.spans[i].row
              /\ rows[i].span = job.spans[i].span
              /\ rows[i].bytes = VisiblePrefix(job.spans[i].span, Left(job.kind, rows, i))
  <2>1. CASE i = n + 1
    BY <1>7, <1>9, <1>10, <2>1
  <2>2. CASE i # n + 1
    <3>1. i \in 1 .. n
      BY <1>3, <2>2
    <3> QED
      BY <1>3, <1>10, <1>11, <3>1
  <2> QED
    BY <2>1, <2>2
<1>13. ASSUME n + 1 < Len(job.spans)
       PROVE  LET start == job.spans[n + 1 + 1].span.start
              IN  /\ Len(<<>>) = 0 /\ start + Len(<<>>) <= Len(File)
                  /\ <<>> = Piece(start, Len(<<>>))
  <2> DEFINE k == n + 1 + 1
  <2>1. k \in 1 .. Len(job.spans)
    BY <1>3, <1>13
  <2> HIDE DEF k
  <2>2. job.spans[k].span.start \in Nat /\ job.spans[k].span.start <= Len(File) /\ Len(<<>>) = 0
    BY <1>4, <2>1 DEF Spans
  <2>3. Piece(job.spans[k].span.start, 0) = <<>>
    BY <1>5, <2>2, NoPiece
  <2> QED
    BY <2>2, <2>3 DEF k
<1>14. Shows(job')
  <2>1. Len(job'.rows) = n + 1 /\ n + 1 <= Len(job.spans)
    BY <1>1, <1>3, <1>10
  <2> HIDE DEF n, at, from, m
  <2> QED
    BY <1>1, <1>10, <1>12, <1>13, <2>1 DEF Shows
<1> QED
  BY <1>2, <1>14

\* More of a row is copied.
LEMMA FillShows ==
    ASSUME ReaderBase, Calm, Shaped(job), Ready(job), Shows(job), Len(job.rows) < Len(job.spans),
           NEW n, FillMore(n)
    PROVE  Ready(job') /\ Shows(job') /\ Len(job'.rows) < Len(job'.spans)
<1> DEFINE at == job.spans[Len(job.rows) + 1]
           from == at.span.start
           m == Len(job.buf)
           offset == Filling.span.start + Len(job.buf)
<1>1. /\ job'.rows = job.rows /\ job'.spans = job.spans /\ job'.first = job.first
      /\ job'.kind = job.kind /\ job'.eof = job.eof /\ job'.unterminated = job.unterminated
      /\ job'.buf = job.buf \o SubSeq(disk.bytes, offset + 1, offset + n)
  BY FillMoreShape
<1>2. Ready(job')
  BY <1>1, ReadyKept
<1>3. /\ job.rows \in Seq(ShownRow) /\ Len(job.rows) \in Nat /\ Len(job.spans) \in Nat
      /\ m \in Nat /\ from + m <= Len(File) /\ job.buf = Piece(from, m)
  BY ReadyInFile DEF Shows
<1>4. Len(job.rows) + 1 \in 1 .. Len(job.spans)
  BY <1>3
<1>5. at.span \in Spans /\ at.row \in Nat
  BY <1>4, ReadyInFile
<1>6. File \in Seq(Bytes) /\ from \in Nat /\ offset = from + m /\ at = Filling
  BY <1>5, FileShape DEF Spans, Filling
<1>7. CopySize \in Int
  <2> DEFINE x == [row |-> at.row, span |-> at.span, bytes |-> <<>>]
  <2>1. x \in ShownRow
    BY <1>5 DEF ShownRow
  <2> HIDE DEF x, at
  <2> QED
    BY <1>3, <1>5, <1>6, <2>1, CopyIs
<1> DEFINE request == CopySize - m
<1>8. n \in 1 .. AtMost(request, Len(disk.bytes) - offset)
  BY DEF FillMore
<1>9. request \in Int /\ offset \in Nat
  BY <1>3, <1>6, <1>7
<1> HIDE DEF request, offset, m, from, at
<1>10. n \in Nat /\ offset + n <= Len(File) /\ SubSeq(disk.bytes, offset + 1, offset + n) = Piece(offset, n)
  BY <1>8, <1>9, ReadBounds
<1>11. from + m + n <= Len(File)
  BY <1>3, <1>6, <1>10
<1>12. job'.buf = Piece(from, m + n)
  <2>1. Piece(from, m) \o Piece(from + m, n) = Piece(from, m + n)
    BY <1>3, <1>6, <1>10, <1>11, PieceGrows
  <2> QED
    BY <1>1, <1>3, <1>6, <1>10, <2>1
<1>13. m + n \in Nat /\ from + (m + n) <= Len(File)
  BY <1>3, <1>6, <1>10, <1>11
<1>14. Len(job'.buf) = m + n
  <2> DEFINE k == m + n
  <2>1. k \in Nat /\ from + k <= Len(File) /\ job'.buf = Piece(from, k)
    BY <1>12, <1>13
  <2> HIDE DEF k
  <2> QED
    BY <1>6, <2>1, PieceIs DEF k
<1>15. Shows(job')
  <2>1. Len(job'.buf) \in Nat /\ from + Len(job'.buf) <= Len(File) /\ job'.buf = Piece(from, Len(job'.buf))
    BY <1>12, <1>13, <1>14
  <2>2. from = job'.spans[Len(job'.rows) + 1].span.start
    BY <1>1 DEF from, at
  <2> QED
    BY <1>1, <2>1, <2>2 DEF Shows
<1> QED
  BY <1>1, <1>2, <1>15

\* The steps that fill the rows.
LEMMA ViewFillView ==
    ASSUME ReaderBase, ViewPart, ViewFill PROVE ViewPart'
<1>1. UNCHANGED source /\ pc = "view_fill"
  BY DEF ViewFill
<1>2. CASE ViewFails
  BY <1>1, <1>2, ViewFailsView
<1>3. CASE ~ ViewFails
  <2>1. ASSUME Calm PROVE ViewAt(pc', job')
    <3>1. Shaped(job)
      BY <1>1 DEF ReaderBase, ReaderShape, JobShape, Resting
    <3>2. Ready(job) /\ Shows(job)
      BY <1>1, <2>1 DEF ViewPart, ViewAt
    <3>3. Len(job.rows) \in Nat /\ Len(job.spans) \in Nat /\ Len(job.rows) <= Len(job.spans)
      BY <3>2, ReadyInFile DEF Shows
    <3>4. CASE Len(job.rows) = Len(job.spans)
      <4>1. pc' = "view_verify" /\ job' = job
        BY <1>3, <3>4 DEF ViewFill
      <4> QED
        BY <3>2, <3>4, <4>1 DEF ViewAt
    <3>5. CASE Len(job.rows) # Len(job.spans) /\ Len(job.buf) = CopySize
      <4>1. PushRow /\ pc' = "view_fill" /\ Len(job.rows) < Len(job.spans)
        BY <1>1, <3>3, <3>5 DEF ViewFill
      <4>2. Ready(job') /\ Shows(job')
        BY <3>1, <3>2, <3>5, <4>1, PushShows
      <4> QED
        BY <4>1, <4>2 DEF ViewAt
    <3>6. CASE Len(job.rows) # Len(job.spans) /\ Len(job.buf) # CopySize
      <4>1. pc' = "fill_read" /\ job' = job /\ Len(job.rows) < Len(job.spans)
        BY <1>3, <3>3, <3>6 DEF ViewFill
      <4> QED
        BY <3>2, <4>1 DEF ViewAt
    <3> QED
      BY <3>4, <3>5, <3>6
  <2> QED
    BY <1>1, <2>1, ViewSteady
<1> QED
  BY <1>2, <1>3

LEMMA FillReadView ==
    ASSUME ReaderBase, ViewPart, FillRead PROVE ViewPart'
<1>1. UNCHANGED source /\ pc = "fill_read"
  BY DEF FillRead
<1>2. CASE Return
  BY <1>1, <1>2, ReturnView
<1>3. CASE ~ Return
  <2>1. ASSUME Calm PROVE ViewAt(pc', job')
    <3>1. Shaped(job)
      BY <1>1 DEF ReaderBase, ReaderShape, JobShape, Resting
    <3>2. Ready(job) /\ Shows(job) /\ Len(job.rows) < Len(job.spans)
      BY <1>1, <2>1 DEF ViewPart, ViewAt
    <3>3. PICK n : FillMore(n) /\ pc' = "fill_check"
      BY <1>3 DEF FillRead
    <3>4. Ready(job') /\ Shows(job') /\ Len(job'.rows) < Len(job'.spans)
      BY <2>1, <3>1, <3>2, <3>3, FillShows
    <3> QED
      BY <3>3, <3>4 DEF ViewAt
  <2> QED
    BY <1>1, <2>1, ViewSteady
<1> QED
  BY <1>2, <1>3

LEMMA FillCheckView ==
    ASSUME ReaderBase, ViewPart, FillCheck PROVE ViewPart'
<1>1. UNCHANGED source /\ pc = "fill_check"
  BY DEF FillCheck
<1>2. CASE ViewFails
  BY <1>1, <1>2, ViewFailsView
<1>3. CASE ~ ViewFails
  <2>1. pc' = "view_fill" /\ job' = job
    BY <1>3 DEF FillCheck
  <2>2. Calm => ViewAt(pc', job')
    BY <1>1, <2>1 DEF ViewPart, ViewAt
  <2> QED
    BY <1>1, <2>2, ViewSteady
<1> QED
  BY <1>2, <1>3

\* The steps that read the rows of a ranked viewport.
LEMMA RankNextView ==
    ASSUME ReaderBase, ViewPart, RankNext PROVE ViewPart'
<1>1. UNCHANGED source /\ pc = "rank_next"
  BY DEF RankNext
<1>2. CASE Return
  BY <1>1, <1>2, ReturnView
<1>3. CASE ~ Return
  <2>1. ASSUME Calm PROVE ViewAt(pc', job')
    <3>1. Shaped(job)
      BY <1>1 DEF ReaderBase, ReaderShape, JobShape, Resting
    <3>2. Ready(job) /\ Shows(job)
      BY <1>1, <2>1 DEF ViewPart, ViewAt
    <3>3. Len(job.rows) \in Nat /\ Len(job.spans) \in Nat /\ Len(job.rows) <= Len(job.spans)
      BY <3>2, ReadyInFile DEF Shows
    <3>4. CASE Len(job.rows) = Len(job.spans)
      <4>1. pc' = "view_verify" /\ job' = job
        BY <3>4 DEF RankNext
      <4> QED
        BY <3>2, <3>4, <4>1 DEF ViewAt
    <3>5. CASE Len(job.rows) # Len(job.spans)
      <4>1. pc' = "rank_read" /\ job' = [job EXCEPT !.base = disk]
        BY <1>3, <3>5 DEF RankNext
      <4>2. /\ job'.rows = job.rows /\ job'.buf = job.buf /\ job'.spans = job.spans
            /\ job'.first = job.first /\ job'.kind = job.kind /\ job'.eof = job.eof
            /\ job'.unterminated = job.unterminated
        BY <3>1, <4>1 DEF Shaped, JobFields
      <4>3. Ready(job')
        BY <3>2, <4>2, ReadyKept
      <4>4. Shows(job')
        BY <3>2, <4>2 DEF Shows
      <4>5. Len(job'.rows) < Len(job'.spans)
        BY <3>3, <3>5, <4>2
      <4> QED
        BY <4>1, <4>3, <4>4, <4>5 DEF ViewAt
    <3> QED
      BY <3>4, <3>5
  <2> QED
    BY <1>1, <2>1, ViewSteady
<1> QED
  BY <1>2, <1>3

LEMMA RankReadView ==
    ASSUME ReaderBase, ViewPart, RankRead PROVE ViewPart'
<1>1. UNCHANGED source /\ pc = "rank_read"
  BY DEF RankRead
<1>2. CASE Return
  BY <1>1, <1>2, ReturnView
<1>3. CASE ~ Return
  <2>1. ASSUME Calm PROVE ViewAt(pc', job')
    <3>1. Shaped(job)
      BY <1>1 DEF ReaderBase, ReaderShape, JobShape, Resting
    <3>2. Ready(job) /\ Shows(job) /\ Len(job.rows) < Len(job.spans)
      BY <1>1, <2>1 DEF ViewPart, ViewAt
    <3>3. CASE Len(job.buf) = CopySize
      <4>1. PushRow /\ pc' = "rank_next"
        BY <1>3, <3>3 DEF RankRead
      <4>2. Ready(job') /\ Shows(job')
        BY <3>1, <3>2, <3>3, <4>1, PushShows
      <4> QED
        BY <4>1, <4>2 DEF ViewAt
    <3>4. CASE Len(job.buf) # CopySize
      <4>1. PICK n : FillMore(n) /\ pc' = "rank_read"
        BY <1>1, <1>3, <3>4 DEF RankRead
      <4>2. Ready(job') /\ Shows(job') /\ Len(job'.rows) < Len(job'.spans)
        BY <2>1, <3>1, <3>2, <4>1, FillShows
      <4> QED
        BY <4>1, <4>2 DEF ViewAt
    <3> QED
      BY <3>3, <3>4
  <2> QED
    BY <1>1, <2>1, ViewSteady
<1> QED
  BY <1>2, <1>3

\* A scan claims nothing of viewports.
LEMMA ScanStepsView ==
    ASSUME ReaderBase, ScanSteps PROVE ViewPart'
<1>1. UNCHANGED source /\ (Return \/ pc' \in Scans)
  BY DEF ScanSteps, VerifyBeforeScan, CheckBeforeRead, ScanRead, ScanFeed, ScanEof, VerifyAfterScan,
         SessionFails, Scans
<1> QED
  BY <1>1, ReturnView, ElsewhereView

\* What other programs do ends the calm or leaves the file as it is.
LEMMA EnvironmentView ==
    ASSUME ReaderBase, ViewPart, Environment PROVE ViewPart'
<1>1. CASE Rewrite
  <2>1. opened' = opened /\ disk'.rev = disk.rev + 1
    BY <1>1 DEF Rewrite
  <2>2. opened.rev \in Nat /\ disk.rev \in Nat /\ opened.rev <= disk.rev
    BY DEF ReaderBase, ReaderShape, CapturePart, Honest, Objects
  <2>3. ~ Calm'
    BY <2>1, <2>2 DEF Calm
  <2> QED
    BY <2>3 DEF ViewPart
<1>2. CASE ReplacePath \/ LoseEvidence
  <2>1. /\ delimited' = delimited /\ disk' = disk /\ opened' = opened /\ pc' = pc /\ job' = job
    BY <1>2 DEF ReplacePath, LoseEvidence
  <2> QED
    BY <2>1 DEF ViewPart, Calm, ViewAt, Untouched, Blank, Collects, IsRows, Over, Ready, Shows,
                AskedRows, Whole, Order, Rows, Truth, File, All, Piece, VisiblePrefix, Left
<1> QED
  BY <1>1, <1>2 DEF Environment

\* Every step.
LEMMA ReaderStepView ==
    ASSUME ReaderBase, ScanPart, ViewPart, [ReaderNext]_readerVars PROVE ViewPart'
<1>1. CASE ScanSteps
  BY <1>1, ScanStepsView
<1>2. CASE ViewSteps
  <2>1. VerifyAfterView => UNCHANGED source /\ pc' \in {"closed", "opening", "idle", "refused"}
    BY DEF VerifyAfterView, Return
  <2> QED
    BY <1>2, <2>1, VerifyBeforeViewView, ViewCaptureView, ViewLoopView, ViewReadView, ViewFeedView,
       ViewFillView, FillReadView, FillCheckView, ElsewhereView, RankNextView, RankReadView
    DEF ViewSteps
<1>3. CASE CancelView \/ ReadFails
  <2>1. UNCHANGED source /\ Return
    BY <1>3 DEF CancelView, ReadFails
  <2> QED
    BY <2>1, ReturnView
<1>4. CASE BeginScan
  <2>1. UNCHANGED source /\ pc' \in Scans
    BY <1>4 DEF BeginScan, Scans
  <2> QED
    BY <2>1, ElsewhereView
<1>5. CASE OpenFile
  <2>1. pc' = "opening"
    BY <1>5 DEF OpenFile
  <2> QED
    BY <2>1 DEF ViewPart, ViewAt
<1>6. CASE UNCHANGED readerVars
  BY <1>6 DEF readerVars, ViewPart, Calm, ViewAt, Untouched, Blank, Collects, IsRows, Over, Ready,
              Shows, AskedRows, Whole, Order, Rows, Truth, File, All, Piece, VisiblePrefix, Left
<1> QED
  BY <1>1, <1>2, <1>3, <1>4, <1>5, <1>6, NewSessionView, BeginViewView, BeginRankedView,
     EnvironmentView DEF ReaderNext

\* The view v holds the rows asked for, as the snapshot has them.
Honours(v) ==
    /\ Len(v.rows) = Len(AskedRows(v.kind, v.first))
    /\ \A i \in 1 .. Len(AskedRows(v.kind, v.first)) :
          /\ v.rows[i].row = AskedRows(v.kind, v.first)[i].row
          /\ v.rows[i].span = AskedRows(v.kind, v.first)[i].span
          /\ v.rows[i].bytes = VisiblePrefix(AskedRows(v.kind, v.first)[i].span, Left(v.kind, v.rows, i))
    /\ v.eof <=> v.first + Len(AskedRows(v.kind, v.first)) >= Len(Whole(v.kind))
    /\ v.unterminated => v.eof /\ delimited /\ Inside(opened.bytes)[Len(opened.bytes) + 1]

ShownHonours == shown # NoView => Honours(shown)

\* The property, in these terms.
LEMMA ShownMeans == ShownIsSnapshot <=> ShownHonours
BY DEF ShownIsSnapshot, ShownHonours, Honours, AskedRows, Whole, Left

\* The snapshot stays, and so does what is shown of it.
LEMMA SameSnapshotSameView ==
    ASSUME UNCHANGED <<opened, delimited, shown>>, Honours(shown)
    PROVE  Honours(shown)'
<1>1. Order' = Order /\ Rows' = Rows
  BY DEF Order, Rows, Truth
<1>2. Whole(shown.kind)' = Whole(shown.kind)
  BY <1>1 DEF Whole
<1>3. AskedRows(shown.kind, shown.first)' = AskedRows(shown.kind, shown.first)
  BY <1>2 DEF AskedRows
<1>4. \A i : Left(shown.kind, shown.rows, i)' = Left(shown.kind, shown.rows, i)
  BY DEF Left, PayloadLeft
<1>5. \A span, most : VisiblePrefix(span, most)' = VisiblePrefix(span, most)
  BY DEF VisiblePrefix, Length
<1> QED
  BY <1>2, <1>3, <1>4, <1>5 DEF Honours

\* What is handed over was asked for and is the snapshot's.
LEMMA HandedOver ==
    ASSUME ReaderBase, ViewPart, VerifyAfterView, shown' # shown
    PROVE  ShownHonours'
<1>1. /\ pc = "view_verify" /\ Verified(TRUE) /\ opened' = opened /\ delimited' = delimited
      /\ shown' = [kind |-> job.kind, first |-> job.first, rows |-> job.rows,
                   eof |-> job.eof, unterminated |-> job.unterminated]
  BY DEF VerifyAfterView, source
<1>2. Calm
  <2>1. disk = opened
    BY <1>1, SoundIsSame DEF Verified, ReaderBase, ReaderShape, CapturePart
  <2> QED
    BY <2>1 DEF Calm
<1>3. Ready(job) /\ Shows(job) /\ Len(job.rows) = Len(job.spans)
  BY <1>1, <1>2 DEF ViewPart, ViewAt
<1>4. Honours(job)
  BY <1>3 DEF Ready, Shows, File, Honours
<1>5. /\ shown'.kind = job.kind /\ shown'.first = job.first /\ shown'.rows = job.rows
      /\ shown'.eof = job.eof /\ shown'.unterminated = job.unterminated
  BY <1>1
<1>6. Order' = Order /\ Rows' = Rows
  BY <1>1 DEF Order, Rows, Truth
<1>7. Honours(shown)'
  <2>1. Whole(shown.kind)' = Whole(job.kind)
    BY <1>5, <1>6 DEF Whole
  <2>2. AskedRows(shown.kind, shown.first)' = AskedRows(job.kind, job.first)
    BY <1>5, <2>1 DEF AskedRows
  <2>3. \A i : Left(shown.kind, shown.rows, i)' = Left(job.kind, job.rows, i)
    BY <1>5 DEF Left, PayloadLeft
  <2>4. \A span, most : VisiblePrefix(span, most)' = VisiblePrefix(span, most)
    BY <1>1 DEF VisiblePrefix, Length
  <2> QED
    BY <1>1, <1>4, <1>5, <2>1, <2>2, <2>3, <2>4 DEF Honours
<1> QED
  BY <1>7 DEF ShownHonours

\* Every other step keeps the rows on screen or takes them away.
LEMMA OthersHandOverNothing ==
    ASSUME [ReaderNext]_readerVars, ~ VerifyAfterView PROVE shown' \in {shown, NoView}
BY DEF ReaderNext, readerVars, source, OpenFile, NewSession, BeginScan, ScanSteps, VerifyBeforeScan,
       CheckBeforeRead, ScanRead, ScanFeed, ScanEof, VerifyAfterScan, BeginView, BeginRanked,
       ViewSteps, VerifyBeforeView, ViewCapture, ViewLoop, ViewRead, ViewFeed, ViewFill, FillRead,
       FillCheck, RankNext, RankRead, CancelView, ReadFails, Environment, Rewrite, ReplacePath,
       LoseEvidence

\* At first nothing is shown.
LEMMA ReaderInitView == ReaderInit => ViewPart /\ ShownHonours
BY DEF ReaderInit, ViewPart, ViewAt, ShownHonours

\* Every step keeps the promise.
LEMMA ReaderStepShown ==
    ASSUME ReaderBase, ScanPart, ViewPart, ShownHonours, [ReaderNext]_readerVars
    PROVE  ShownHonours'
<1>1. CASE VerifyAfterView /\ shown' # shown
  BY <1>1, HandedOver
<1>2. CASE shown' = NoView
  BY <1>2 DEF ShownHonours, NoView
<1>3. CASE shown' = shown
  <2>1. CASE shown = NoView
    BY <1>3, <2>1 DEF ShownHonours, NoView
  <2>2. CASE shown # NoView
    <3>1. Honours(shown)
      BY <2>2 DEF ShownHonours
    <3>2. UNCHANGED <<opened, delimited>>
      <4>1. StreamStep
        BY ReaderStepScan DEF ScanStep
      <4> QED
        BY <4>1 DEF StreamStep
    <3>3. Honours(shown)'
      BY <1>3, <3>1, <3>2, SameSnapshotSameView
    <3> QED
      BY <3>3 DEF ShownHonours
  <2> QED
    BY <2>1, <2>2
<1> QED
  BY <1>1, <1>2, <1>3, OthersHandOverNothing

\* A viewport that reaches the interface shows the rows asked for, of the snapshot the
\* document was opened with, whatever changed between a check and a read (viewport.rs:
\* read_viewport, materialize_previews; document_engine.rs: snapshot, verify_source).
THEOREM ShownRowsAreTheSnapshots == ReaderSpec => []ShownIsSnapshot
<1>1. ReaderInit => ReaderBase /\ ScanPart /\ ViewPart /\ ShownHonours
  BY ReaderInitBase, ReaderInitScan, ReaderInitView
<1>2. ReaderBase /\ ScanPart /\ ViewPart /\ ShownHonours /\ [ReaderNext]_readerVars
        => (ReaderBase /\ ScanPart /\ ViewPart /\ ShownHonours)'
  BY ReaderStepBase, ReaderStepScan, ReaderStepView, ReaderStepShown DEF ScanStep
<1>3. ShownHonours => ShownIsSnapshot
  BY ShownMeans
<1> QED
  BY <1>1, <1>2, <1>3, PTL DEF ReaderSpec

-----------------------------------------------------------------------------
(* The search.                                                              *)

\* A sequence over its own elements: what the entries are is of no matter here.
Sound(s) == s \in Seq({s[i] : i \in 1 .. Len(s)})

\* A page holds the entries that the hit file has at its place.
IsPage(p, entries) ==
    /\ p = [first |-> p.first, hits |-> p.hits]
    /\ p.first \in Nat
    /\ Sound(p.hits)
    /\ Len(p.hits) <= PageHits
    /\ \A i \in 1 .. Len(p.hits) :
          p.first + i <= Len(entries) /\ p.hits[i] = entries[p.first + i]

\* The hit file counts its bytes exactly and stays within its quota.
StorePart ==
    /\ store = [entries |-> store.entries, used |-> store.used]
    /\ Sound(store.entries)
    /\ store.used = HeaderBytes + EntryBytes * Len(store.entries)
    /\ store.used <= ScratchQuota

PagePart == IsPage(page, store.entries)

\* The match that is active is an entry of the hit file, and the one shown.
ShownOf(f, entries) ==
    /\ {"phase", "demand", "active", "hit", "commands"} \subseteq DOMAIN f
    /\ f.demand \in Nat \cup {NoHit}
    /\ f.active \in Nat \cup {NoHit}
    /\ f.active # NoHit => f.active < Len(entries) /\ f.hit = entries[f.active + 1]

ShownPart == ShownOf(find, store.entries)

\* A call of advance runs for a demanded hit only.
DemandPart == quantum.pc \notin {"plan", "rest"} => find.demand # NoHit

\* The inductive invariant.
SearchIInv == StorePart /\ PagePart /\ ShownPart /\ DemandPart

-----------------------------------------------------------------------------
(* Sequences and pages.                                                      *)

LEMMA SoundSeq ==
    ASSUME NEW S, NEW s \in Seq(S)
    PROVE  Sound(s)
<1>1. DOMAIN s = 1 .. Len(s) /\ s = [i \in 1 .. Len(s) |-> s[i]] /\ Len(s) \in Nat
  OBVIOUS
<1> QED
  BY <1>1 DEF Sound

LEMMA SoundAppend ==
    ASSUME NEW s, Sound(s), NEW x
    PROVE  /\ Sound(Append(s, x))
           /\ Len(s) \in Nat
           /\ Len(Append(s, x)) = Len(s) + 1
           /\ \A i \in 1 .. Len(s) : Append(s, x)[i] = s[i]
           /\ Append(s, x)[Len(s) + 1] = x
<1> DEFINE S == {s[i] : i \in 1 .. Len(s)} \cup {x}
<1>1. s \in Seq(S)
  BY DEF Sound
<1>2. x \in S
  OBVIOUS
<1> HIDE DEF S
<1>3. Append(s, x) \in Seq(S)
  BY <1>1, <1>2
<1>4. Sound(Append(s, x))
  BY <1>3, SoundSeq
<1> QED
  BY <1>1, <1>2, <1>4

LEMMA SoundOne ==
    ASSUME NEW x
    PROVE  Sound(<<x>>) /\ Len(<<x>>) = 1 /\ <<x>>[1] = x
<1>1. <<x>> \in Seq({x})
  OBVIOUS
<1> QED
  BY <1>1, SoundSeq

LEMMA SoundSub ==
    ASSUME NEW s, Sound(s), NEW from \in Nat, NEW to \in Nat, to <= Len(s)
    PROVE  LET sub == SubSeq(s, from + 1, to)
           IN  /\ Sound(sub)
               /\ Len(sub) = IF from < to THEN to - from ELSE 0
               /\ \A i \in 1 .. Len(sub) : sub[i] = s[from + i]
<1> DEFINE S == {s[i] : i \in 1 .. Len(s)}
           sub == SubSeq(s, from + 1, to)
<1>1. s \in Seq(S) /\ Len(s) \in Nat
  BY DEF Sound
<1> HIDE DEF S
<1>2. sub \in Seq(S)
  BY <1>1, SubSeqProperties
<1>3. Len(sub) = IF from + 1 <= to THEN to - (from + 1) + 1 ELSE 0
  BY <1>1, SubSeqProperties
<1>4. \A i \in 1 .. Len(sub) : sub[i] = s[from + 1 + i - 1]
  <2> DEFINE a == from + 1
  <2>1. a \in Int /\ to \in Int /\ \A i \in a .. to : s[i] \in S
    BY <1>1
  <2>2. \A i \in 1 .. Len(sub) : i \in 1 .. to - a + 1
    BY <1>3
  <2> HIDE DEF a
  <2>3. \A i \in 1 .. to - a + 1 : SubSeq(s, a, to)[i] = s[a + i - 1]
    BY <2>1, SubSeqProperties
  <2> QED
    BY <2>2, <2>3 DEF a
<1>5. \A i \in 1 .. Len(sub) : from + 1 + i - 1 = from + i
  BY <1>3
<1>6. \A i \in 1 .. Len(sub) : sub[i] = s[from + i]
  BY <1>4, <1>5
<1>7. Len(sub) = IF from < to THEN to - from ELSE 0
  BY <1>3
<1>8. Sound(sub)
  BY <1>2, SoundSeq
<1> HIDE DEF sub
<1>9. Sound(sub) /\ Len(sub) = (IF from < to THEN to - from ELSE 0)
        /\ \A i \in 1 .. Len(sub) : sub[i] = s[from + i]
  BY <1>6, <1>7, <1>8, Zenon
<1> QED
  BY <1>9, Zenon DEF sub

\* An entry written behind the others leaves every page a part of the file.
LEMMA PagesOutliveAppends ==
    ASSUME NEW p, NEW entries, NEW hit, Sound(entries), IsPage(p, entries)
    PROVE  IsPage(p, Append(entries, hit))
<1>1. /\ Len(entries) \in Nat
      /\ Len(Append(entries, hit)) = Len(entries) + 1
      /\ \A i \in 1 .. Len(entries) : Append(entries, hit)[i] = entries[i]
  BY SoundAppend
<1>2. Len(p.hits) \in Nat
  BY DEF IsPage, Sound
<1>3. ASSUME NEW i \in 1 .. Len(p.hits)
      PROVE  /\ p.first + i <= Len(entries) + 1
             /\ p.hits[i] = Append(entries, hit)[p.first + i]
  <2>1. p.first + i \in 1 .. Len(entries)
    BY <1>1, <1>2 DEF IsPage
  <2> QED
    BY <1>1, <2>1 DEF IsPage
<1> QED
  BY <1>1, <1>3 DEF IsPage

\* HitPageBuffer::append with the next index of the hit file.
LEMMA AppendedPage ==
    ASSUME NEW hit, StorePart, PagePart
    PROVE  IsPage(PageAppend(Len(store.entries), hit), Append(store.entries, hit))
<1> DEFINE n == Len(store.entries)
           entries == Append(store.entries, hit)
<1>1. Sound(store.entries)
  BY DEF StorePart
<1>2. n \in Nat /\ Len(entries) = n + 1 /\ entries[n + 1] = hit
  BY <1>1, SoundAppend
<1>3. PageHits \in Nat \ {0}
  BY QueryAssumption DEF ValidConfig
<1>4. CASE page.hits = <<>> \/ page.first + Len(page.hits) # n \/ Len(page.hits) = PageHits
  <2>1. PageAppend(n, hit) = [first |-> n, hits |-> <<hit>>]
    BY <1>4 DEF PageAppend
  <2>2. Sound(<<hit>>) /\ Len(<<hit>>) = 1 /\ <<hit>>[1] = hit
    BY SoundOne
  <2> QED
    BY <1>2, <1>3, <2>1, <2>2 DEF IsPage
<1>5. CASE ~ (page.hits = <<>> \/ page.first + Len(page.hits) # n \/ Len(page.hits) = PageHits)
  <2> DEFINE hits == Append(page.hits, hit)
  <2>0. page = [first |-> page.first, hits |-> page.hits]
    BY DEF PagePart, IsPage
  <2>1. PageAppend(n, hit) = [first |-> page.first, hits |-> hits]
    BY <1>5, <2>0 DEF PageAppend
  <2>2. Sound(page.hits) /\ page.first \in Nat /\ Len(page.hits) <= PageHits
    BY DEF PagePart, IsPage
  <2>3. /\ Sound(hits) /\ Len(page.hits) \in Nat /\ Len(hits) = Len(page.hits) + 1
        /\ \A i \in 1 .. Len(page.hits) : hits[i] = page.hits[i]
        /\ hits[Len(page.hits) + 1] = hit
    BY <2>2, SoundAppend
  <2>4. page.first + Len(page.hits) = n /\ Len(page.hits) # PageHits
    BY <1>5
  <2>5. IsPage(page, entries)
    BY <1>1, PagesOutliveAppends DEF PagePart
  <2>6. \A i \in 1 .. Len(page.hits) :
            page.first + i <= Len(entries) /\ page.hits[i] = entries[page.first + i]
    BY <2>5 DEF IsPage
  <2> HIDE DEF hits
  <2>7. ASSUME NEW i \in 1 .. Len(hits)
        PROVE  page.first + i <= Len(entries) /\ hits[i] = entries[page.first + i]
    <3>1. CASE i = Len(page.hits) + 1
      <4>1. hits[i] = hit
        BY <2>3, <3>1
      <4>2. page.first + i = n + 1
        <5> DEFINE first == page.first
                   held == Len(page.hits)
        <5>1. first \in Nat /\ held \in Nat /\ first + held = n /\ i = held + 1
          BY <2>2, <2>3, <2>4, <3>1
        <5> HIDE DEF first, held, n, entries
        <5>2. first + i = n + 1
          BY <5>1
        <5> QED
          BY <5>2 DEF first
      <4> QED
        BY <1>2, <4>1, <4>2
    <3>2. CASE i \in 1 .. Len(page.hits)
      BY <2>3, <2>6, <3>2
    <3>3. i = Len(page.hits) + 1 \/ i \in 1 .. Len(page.hits)
      BY <2>3
    <3> QED
      BY <3>1, <3>2, <3>3
  <2>8. Len(hits) <= PageHits
    BY <1>3, <2>2, <2>3, <2>4
  <2> DEFINE p == [first |-> page.first, hits |-> hits]
  <2> HIDE DEF entries
  <2>9. p = [first |-> p.first, hits |-> p.hits] /\ p.first = page.first /\ p.hits = hits
    OBVIOUS
  <2> HIDE DEF p
  <2>10. IsPage(p, entries)
    BY <2>2, <2>3, <2>7, <2>8, <2>9 DEF IsPage
  <2> QED
    BY <2>1, <2>10 DEF p, entries
<1> QED
  BY <1>4, <1>5

\* HitPageBuffer::read from any place of the hit file.
LEMMA ReadPageIsPage ==
    ASSUME NEW first \in Nat, StorePart
    PROVE  IsPage(ReadPage(first), store.entries)
<1> DEFINE to == Least(first + PageHits, Len(store.entries))
           hits == SubSeq(store.entries, first + 1, to)
<1>1. PageHits \in Nat \ {0}
  BY QueryAssumption DEF ValidConfig
<1>2. Sound(store.entries) /\ Len(store.entries) \in Nat
  BY DEF StorePart, Sound
<1>3. to \in Nat /\ to <= Len(store.entries) /\ to <= first + PageHits
  BY <1>1, <1>2 DEF Least
<1> HIDE DEF to
<1>4. /\ Sound(hits)
      /\ Len(hits) = IF first < to THEN to - first ELSE 0
      /\ \A i \in 1 .. Len(hits) : hits[i] = store.entries[first + i]
  BY <1>2, <1>3, SoundSub
<1> HIDE DEF hits
<1>5. Len(hits) <= PageHits
  BY <1>1, <1>3, <1>4
<1>6. \A i \in 1 .. Len(hits) : first + i <= Len(store.entries)
  BY <1>2, <1>3, <1>4
<1> DEFINE p == [first |-> first, hits |-> hits]
<1>7. p.first = first /\ p.hits = hits
  OBVIOUS
<1>8. p = [first |-> p.first, hits |-> p.hits]
  OBVIOUS
<1> HIDE DEF p
<1>9. IsPage(p, store.entries)
  BY <1>4, <1>5, <1>6, <1>7, <1>8 DEF IsPage
<1>10. ReadPage(first) = p
  BY DEF ReadPage, p, hits, to
<1> QED
  BY <1>9, <1>10

\* read_hit: the page it leaves in memory is one of the hit file.
LEMMA PageForIsPage ==
    ASSUME NEW index \in Nat, StorePart, PagePart
    PROVE  IsPage(PageFor(index), store.entries)
<1>1. PageHits \in Nat \ {0}
  BY QueryAssumption DEF ValidConfig
<1>2. index \div PageHits \in Nat
  BY <1>1
<1>3. (index \div PageHits) * PageHits \in Nat
  BY <1>1, <1>2
<1>4. IsPage(ReadPage((index \div PageHits) * PageHits), store.entries)
  BY <1>3, ReadPageIsPage
<1> QED
  BY <1>4 DEF PageFor, PagePart

\* What a page has for an index is the entry of the hit file.
LEMMA CachedIsEntry ==
    ASSUME NEW p, NEW entries, Sound(entries), IsPage(p, entries),
           NEW index \in Nat, NEW hit \in Cached(p, index)
    PROVE  index < Len(entries) /\ hit = entries[index + 1]
<1>1. p.first \in Nat /\ Len(p.hits) \in Nat /\ Len(entries) \in Nat
  BY DEF IsPage, Sound
<1>2. /\ p.first <= index /\ index < p.first + Len(p.hits)
      /\ hit = p.hits[index - p.first + 1]
  BY DEF Cached
<1> DEFINE i == index - p.first + 1
<1>3. i \in 1 .. Len(p.hits) /\ p.first + i = index + 1
  BY <1>1, <1>2
<1>4. p.first + i <= Len(entries) /\ p.hits[i] = entries[p.first + i]
  BY <1>3 DEF IsPage
<1> QED
  BY <1>1, <1>2, <1>3, <1>4

\* A command or a failure that leaves the active match as it is.
Keeps(g, f) ==
    /\ DOMAIN g = DOMAIN f
    /\ g.active = f.active /\ g.hit = f.hit
    /\ g.demand \in Nat \cup {NoHit}

LEMMA ShownStays ==
    ASSUME NEW f, NEW g, NEW entries, ShownOf(f, entries), Keeps(g, f)
    PROVE  ShownOf(g, entries)
BY DEF ShownOf, Keeps

LEMMA ShownFails ==
    ASSUME NEW f, NEW entries, ShownOf(f, entries), NEW phase
    PROVE  ShownOf([f EXCEPT !.phase = phase, !.demand = NoHit], entries)
<1>1. Keeps([f EXCEPT !.phase = phase, !.demand = NoHit], f)
  BY DEF ShownOf, Keeps
<1> QED
  BY <1>1, ShownStays

\* activate_query_hit
LEMMA ActivateShows ==
    ASSUME SearchIInv, NEW index \in Nat, NEW commands, Activate(index, commands),
           store' = store
    PROVE  StorePart' /\ PagePart' /\ ShownPart'
<1>1. StorePart'
  BY DEF SearchIInv, StorePart
<1>2. CASE /\ page' = PageFor(index)
           /\ \E hit \in Cached(page', index) :
                 find' = [phase |-> "match_ready", demand |-> NoHit, active |-> index,
                          hit |-> hit, commands |-> commands]
  <2>1. IsPage(page', store.entries)
    BY <1>2, PageForIsPage DEF SearchIInv
  <2>2. PICK hit \in Cached(page', index) :
            find' = [phase |-> "match_ready", demand |-> NoHit, active |-> index,
                     hit |-> hit, commands |-> commands]
    BY <1>2
  <2>3. Sound(store.entries)
    BY DEF SearchIInv, StorePart
  <2>4. index < Len(store.entries) /\ hit = store.entries[index + 1]
    BY <2>1, <2>3, CachedIsEntry
  <2>5. ShownOf(find', store.entries)
    BY <2>2, <2>4 DEF ShownOf
  <2> QED
    BY <1>1, <2>1, <2>5 DEF SearchIInv, PagePart, ShownPart
<1>3. CASE find' = [find EXCEPT !.phase = "failed", !.demand = NoHit] /\ UNCHANGED page
  <2>1. ShownOf(find', store.entries)
    BY <1>3, ShownFails DEF SearchIInv, ShownPart
  <2> QED
    BY <1>1, <1>3, <2>1 DEF SearchIInv, PagePart, ShownPart
<1> QED
  BY <1>2, <1>3 DEF Activate

-----------------------------------------------------------------------------
(* The inductive invariant.                                                  *)

LEMMA InitSearch == SearchInit => SearchIInv
<1> SUFFICES ASSUME SearchInit PROVE SearchIInv
  OBVIOUS
<1>1. <<>> \in Seq({}) /\ Len(<<>>) = 0
  OBVIOUS
<1>2. Sound(<<>>)
  BY <1>1, SoundSeq
<1>3. StorePart
  BY <1>1, <1>2, QueryAssumption
  DEF SearchInit, StorePart, ValidConfig, HeaderBytes, EntryBytes
<1>4. PagePart
  BY <1>1, <1>2, QueryAssumption DEF SearchInit, PagePart, IsPage, ValidConfig
<1>5. ShownPart
  BY DEF SearchInit, ShownPart, ShownOf, NoHit
<1>6. DemandPart
  BY DEF SearchInit, DemandPart, NoHit
<1> QED
  BY <1>3, <1>4, <1>5, <1>6 DEF SearchIInv

\* Every failure drops the demand and leaves the rest of the search as it is.
LEMMA FailureStep ==
    ASSUME SearchIInv, SearchFails, UNCHANGED <<store, page>>
    PROVE  SearchIInv'
<1>1. ShownPart'
  BY ShownFails DEF SearchFails, SearchIInv, ShownPart
<1>2. DemandPart'
  BY DEF SearchFails, NoQuantum, DemandPart
<1> QED
  BY <1>1, <1>2 DEF SearchIInv, StorePart, PagePart

LEMMA MatchStep ==
    ASSUME SearchIInv, MatchByte
    PROVE  SearchIInv'
<1>1. find' = find /\ DemandPart'
  BY DEF MatchByte, SearchIInv, DemandPart
<1>2. CASE UNCHANGED <<page, store>>
  BY <1>1, <1>2 DEF SearchIInv, StorePart, PagePart, ShownPart
<1>3. CASE ~ UNCHANGED <<page, store>>
  <2>1. HasRoom /\ \E hit : AppendHit(hit)
    BY <1>3 DEF MatchByte
  <2>2. PICK hit : AppendHit(hit)
    BY <2>1
  <2> DEFINE entries == Append(store.entries, hit)
             n == Len(store.entries)
  <2>3. Sound(store.entries) /\ store.used = HeaderBytes + EntryBytes * n
    BY DEF SearchIInv, StorePart
  <2>4. /\ Sound(entries) /\ n \in Nat /\ Len(entries) = n + 1
        /\ \A i \in 1 .. n : entries[i] = store.entries[i]
    BY <2>3, SoundAppend
  <2>5. page' = PageAppend(n, hit)
        /\ store' = [entries |-> entries, used |-> store.used + EntryBytes]
    BY <2>2 DEF AppendHit
  <2>6. IsPage(PageAppend(n, hit), entries)
    BY AppendedPage DEF SearchIInv
  <2> HIDE DEF entries
  <2>7. store'.entries = entries /\ store'.used = store.used + EntryBytes
    BY <2>5
  <2>8. StorePart'
    BY <2>1, <2>3, <2>4, <2>5, <2>7
    DEF StorePart, HasRoom, HeaderBytes, EntryBytes
  <2>9. PagePart'
    BY <2>5, <2>6, <2>7 DEF PagePart
  <2>10. ShownOf(find, entries)
    BY <2>4 DEF SearchIInv, ShownPart, ShownOf, NoHit
  <2> QED
    BY <1>1, <2>7, <2>8, <2>9, <2>10 DEF SearchIInv, ShownPart
<1> QED
  BY <1>2, <1>3

LEMMA ValidateStep ==
    ASSUME SearchIInv, Validate
    PROVE  SearchIInv'
<1>1. store' = store /\ ShownOf(find, store.entries) /\ find.demand # NoHit
  BY DEF Validate, SearchIInv, ShownPart, DemandPart
<1>5. DemandPart'
  BY DEF Validate, NoQuantum, DemandPart
<1>2. CASE UNCHANGED page /\ \E phase : find' = [find EXCEPT !.phase = phase, !.demand = NoHit]
  <2>1. PICK phase : find' = [find EXCEPT !.phase = phase, !.demand = NoHit]
    BY <1>2
  <2>2. ShownOf(find', store.entries)
    BY <1>1, <2>1, ShownFails
  <2> QED
    BY <1>1, <1>2, <1>5, <2>2 DEF SearchIInv, StorePart, PagePart, ShownPart
<1>3. CASE UNCHANGED <<page, find>>
  BY <1>1, <1>3, <1>5 DEF SearchIInv, StorePart, PagePart, ShownPart
<1>4. CASE PathSound /\ Len(store.entries) > find.demand /\ Activate(find.demand, find.commands)
  <2>1. find.demand \in Nat
    BY <1>1 DEF ShownOf
  <2> QED
    BY <1>1, <1>4, <1>5, <2>1, ActivateShows DEF SearchIInv
<1> QED
  BY <1>2, <1>3, <1>4 DEF Validate

\* The user's commands come between two calls.
LEMMA CommandStep ==
    ASSUME SearchIInv, NextHit \/ PreviousHit
    PROVE  SearchIInv'
<1>1. /\ store' = store /\ quantum' = quantum /\ quantum.pc = "rest"
      /\ ShownOf(find, store.entries)
  BY DEF NextHit, PreviousHit, Commanded, SearchIInv, ShownPart
<1>2. DemandPart'
  BY <1>1 DEF DemandPart
<1>3. find.active \in Nat \cup {NoHit} /\ Len(store.entries) \in Nat
  BY <1>1 DEF ShownOf, SearchIInv, StorePart, Sound
<1>4. ASSUME NEW index \in Nat, NEW commands, Activate(index, commands)
      PROVE  SearchIInv'
  BY <1>1, <1>2, <1>4, ActivateShows DEF SearchIInv
<1>5. ASSUME UNCHANGED page, Keeps(find', find)
      PROVE  SearchIInv'
  <2>1. ShownOf(find', store.entries)
    BY <1>1, <1>5, ShownStays
  <2> QED
    BY <1>1, <1>2, <1>5, <2>1 DEF SearchIInv, StorePart, PagePart, ShownPart
<1>6. {"phase", "demand", "active", "hit", "commands"} \subseteq DOMAIN find
  BY <1>1 DEF ShownOf
<1>8. CASE NextHit
  <2> DEFINE target == find.active + 1
             told == [find EXCEPT !.commands = @ + 1, !.demand = NoHit]
  <2>1. target \in Nat
    BY <1>3 DEF NoHit
  <2>2. Keeps(told, find) /\ told.demand = NoHit
    BY <1>6 DEF Keeps
  <2>3. \/ Activate(target, find.commands + 1)
        \/ /\ UNCHANGED page
           /\ \/ find' = [told EXCEPT !.demand = target, !.phase = "searching"]
              \/ find' = [told EXCEPT !.phase = session.status]
    BY <1>8 DEF NextHit
  <2> HIDE DEF told, target
  <2>4. /\ Keeps([told EXCEPT !.demand = target, !.phase = "searching"], find)
        /\ Keeps([told EXCEPT !.phase = session.status], find)
    BY <1>6, <2>1, <2>2 DEF Keeps
  <2> QED
    BY <1>4, <1>5, <2>1, <2>3, <2>4
<1>9. CASE PreviousHit
  <2>1. CASE PreviousIndex # NoHit /\ Activate(PreviousIndex, find.commands + 1)
    <3>1. PreviousIndex \in Nat
      BY <1>3, <2>1 DEF PreviousIndex, NoHit
    <3> QED
      BY <1>4, <2>1, <3>1
  <2>2. CASE /\ UNCHANGED page
             /\ \E phase : find' = [find EXCEPT !.commands = @ + 1, !.demand = NoHit,
                                               !.phase = phase]
    <3>1. PICK phase : find' = [find EXCEPT !.commands = @ + 1, !.demand = NoHit,
                                            !.phase = phase]
      BY <2>2
    <3>2. Keeps(find', find)
      BY <1>6, <3>1 DEF Keeps
    <3> QED
      BY <1>5, <2>2, <3>2
  <2> QED
    BY <1>9, <2>1, <2>2 DEF PreviousHit
<1> QED
  BY <1>8, <1>9

LEMMA SearchStep == SearchIInv /\ [SearchNext]_searchVars => SearchIInv'
<1> SUFFICES ASSUME SearchIInv, [SearchNext]_searchVars PROVE SearchIInv'
  OBVIOUS
<1>1. ASSUME UNCHANGED <<store, page, find>>, DemandPart' PROVE SearchIInv'
  BY <1>1 DEF SearchIInv, StorePart, PagePart, ShownPart
<1>2. ASSUME UNCHANGED <<store, page, find>>, quantum.pc \notin {"plan", "rest"}
      PROVE  SearchIInv'
  BY <1>1, <1>2 DEF SearchIInv, DemandPart
<1>3. CASE SearchFails /\ UNCHANGED <<store, page>>
  BY <1>3, FailureStep
<1>4. CASE QueryPlan
  <2>1. CASE quantum' = NoQuantum /\ UNCHANGED find
    BY <1>1, <1>4, <2>1 DEF QueryPlan, DemandPart, NoQuantum
  <2> QED
    BY <1>3, <1>4, <2>1 DEF QueryPlan
<1>5. CASE BeginQuantum
  BY <1>1, <1>5 DEF BeginQuantum, DemandPart
<1>6. CASE SourceFails \/ IoFails
  BY <1>3, <1>6 DEF SourceFails, IoFails
<1>7. CASE Loop \/ CancelLoop \/ Scan \/ BeginMatch
  BY <1>2, <1>7 DEF Loop, CancelLoop, Scan, BeginMatch
<1>8. CASE Read
  <2>1. CASE SearchFails
    BY <1>3, <1>8, <2>1 DEF Read
  <2>2. CASE UNCHANGED find
    BY <1>2, <1>8, <2>2 DEF Read
  <2> QED
    BY <1>8, <2>1, <2>2 DEF Read
<1>9. CASE MatchByte
  BY <1>9, MatchStep
<1>10. CASE CancelMatch \/ EndMatch
  BY <1>2, <1>10 DEF CancelMatch, EndMatch
<1>11. CASE Validate
  BY <1>11, ValidateStep
<1>12. CASE NextHit \/ PreviousHit
  BY <1>12, CommandStep
<1>13. CASE RewriteSearched \/ LoseTrack
  BY <1>1, <1>13 DEF RewriteSearched, LoseTrack, SearchIInv, DemandPart
<1>14. CASE Idle \/ UNCHANGED searchVars
  BY <1>1, <1>14 DEF Idle, searchVars, SearchIInv, DemandPart
<1> QED
  BY <1>4, <1>5, <1>6, <1>7, <1>8, <1>9, <1>10, <1>11, <1>12, <1>13, <1>14
  DEF SearchNext, Quantum

\* What the navigation shows as match i is entry i of the hit file, and the hit
\* file never outgrows its quota (query.rs: HitPageBuffer, ScratchHitStore::append,
\* read_hit).
ShownIsStored ==
    find.active # NoHit =>
        find.active < Len(store.entries) /\ find.hit = store.entries[find.active + 1]

QuotaHolds ==
    /\ store.used = HeaderBytes + EntryBytes * Len(store.entries)
    /\ store.used <= ScratchQuota

\* The page in memory never disagrees with the hit file, for every file, needle,
\* page size and quota, and whatever is cancelled, failed or navigated between
\* (query.rs: read_hit, HitPageBuffer; worker.rs: activate_query_hit).
THEOREM PagesAreTheHitFile ==
    SearchSpec => [](PageIsStore /\ ShownIsStored /\ QuotaHolds)
<1>1. SearchIInv => PageIsStore /\ ShownIsStored /\ QuotaHolds
  BY DEF SearchIInv, StorePart, PagePart, ShownPart, IsPage, ShownOf, PageIsStore,
         ShownIsStored, QuotaHolds
<1> QED
  BY <1>1, InitSearch, SearchStep, PTL DEF SearchSpec

-----------------------------------------------------------------------------
(* What the hit file holds.                                                 *)

Searched == search.bytes
SearchedRecords == Scanned(search.csv, Searched)
SearchedHits == AllHits(search.csv, search.needle, search.fold, Searched)

\* The matcher's state over the record that starts at `start`, read up to c.
Matching(start, c, state) ==
    Longest(Pattern(search.needle, search.fold), Text(search.fold, Searched), start,
            Len(search.needle) - 1, state, c)

\* The hits of the first k records, and of record k + 1 up to c.
HitsOf(k) == HitsBefore(search.csv, search.needle, search.fold, Searched)[k]
HitsUpTo(k, c) == Reached(search.csv, search.needle, search.fold, Searched, k, c)

\* What the file has from offset `at` on.
IsChunk(bytes, at) ==
    /\ bytes \in Seq(Bytes) /\ at + Len(bytes) <= Len(Searched)
    /\ \A i \in 1 .. Len(bytes) : bytes[i] = Searched[at + i]

IsSession(t) ==
    t = [s |-> t.s, over |-> t.over, pending |-> t.pending, nextRow |-> t.nextRow,
         examined |-> t.examined, status |-> t.status]

IsQuantum(q) ==
    q = [pc |-> q.pc, left |-> q.left, buf |-> q.buf, n |-> q.n, state |-> q.state]

InSearch == {"plan", "loop", "read", "use", "match", "full"}

QueryShape ==
    /\ search = [csv |-> search.csv, bytes |-> search.bytes, needle |-> search.needle,
                 fold |-> search.fold, windows |-> search.windows]
    /\ [search EXCEPT !.windows = FALSE] \in Searches
    /\ IsSession(session) /\ IsQuantum(quantum)
    /\ quantum.left \in Int /\ quantum.n \in Nat
    /\ quantum.pc \notin {"match", "full"} => quantum.n = 0
    /\ searchDisk.rev \in Nat
    /\ search.windows => searchDisk.rev = 0
    /\ searchDisk.rev = 0 => searchDisk.bytes = Searched

CachePart ==
    /\ cache.start \in Nat
    /\ cache.loaded /\ searchDisk.rev = 0 => IsChunk(cache.bytes, cache.start)

IsPending(p, row) ==
    /\ p = [row |-> p.row, span |-> p.span, cursor |-> p.cursor, state |-> p.state]
    /\ p.row = row - 1 /\ row \in 1 .. Len(SearchedRecords) /\ p.span = SearchedRecords[row]
    /\ p.cursor \in p.span.start .. p.span.end

\* The records found so far, and the one whose bytes are matched.
RecordPart ==
    /\ session.nextRow \in Nat
    /\ ~ session.over => Agree(search.csv, Searched, session.s, session.nextRow)
    /\ session.over => session.nextRow = Len(SearchedRecords)
    /\ Pending => IsPending(session.pending, session.nextRow)

StatusPart ==
    /\ session.status \in {"running", "cancelled", "complete", "quota"}
    /\ quantum.pc \in InSearch => session.status = "running"
    /\ session.status \in {"complete", "quota"} /\ quantum.pc = "rest" => find.demand = NoHit
    /\ session.status = "complete" => ~ Pending /\ session.nextRow = Len(SearchedRecords)
    /\ find.phase = "failed" => quantum.pc = "rest" /\ find.demand = NoHit

\* The bytes read are those of the file, where they are used.
BufferPart ==
    /\ quantum.pc \in {"read", "use"} => Pending \/ ~ session.over
    /\ quantum.pc \in {"match", "full"} => Pending /\ searchDisk.rev = 0
    /\ quantum.pc \in {"use", "match", "full"} /\ searchDisk.rev = 0 =>
          /\ quantum.n <= Len(quantum.buf)
          /\ Pending => /\ IsChunk(quantum.buf, session.pending.cursor)
                        /\ session.pending.cursor + Len(quantum.buf) <= session.pending.span.end
          /\ ~ Pending => IsChunk(quantum.buf, session.s.offset)

Capped == session.status = "quota" \/ quantum.pc = "full"
Fits == (ScratchQuota - HeaderBytes) \div EntryBytes

\* The hit file holds every hit before the place that the search has come to.
Complete(p, c, state) ==
    Matching(p.span.start, c, state) /\ store.entries = HitsUpTo(p.row, c)

PlacePart ==
    /\ Capped => Len(store.entries) = Fits /\ Len(store.entries) < Len(SearchedHits)
    /\ ~ Capped /\ ~ Pending => store.entries = HitsOf(session.nextRow)
    /\ ~ Capped /\ Pending /\ quantum.pc # "match" =>
          Complete(session.pending, session.pending.cursor, session.pending.state)
    /\ quantum.pc = "match" =>
          Complete(session.pending, session.pending.cursor + quantum.n, quantum.state)

HitPart ==
    /\ store.entries \in Seq(Hit) /\ Begins(store.entries, SearchedHits)
    /\ find.phase # "failed" => PlacePart

FoundPart == QueryShape /\ CachePart /\ RecordPart /\ StatusPart /\ BufferPart /\ HitPart

-----------------------------------------------------------------------------
LEMMA SearchFacts ==
    ASSUME QueryShape
    PROVE  /\ search.csv \in BOOLEAN /\ Searched \in Seq(Bytes) /\ Len(Searched) \in Nat
           /\ search.needle \in Seq(Bytes) /\ Len(search.needle) \in Nat /\ Len(search.needle) > 0
           /\ SearchedRecords \in Seq(Spans) /\ Len(SearchedRecords) \in Nat
           /\ SearchedHits \in Seq(Hit)
           /\ TheLiteral = Compiled(search.needle, search.fold)
<1> DEFINE q == [search EXCEPT !.windows = FALSE]
<1>1. q \in [csv : BOOLEAN, bytes : Seq(Bytes), needle : Seq(Bytes) \ {<<>>},
             fold : BOOLEAN, windows : {FALSE}]
  BY QueryAssumption DEF QueryShape
<1>2. q.csv = search.csv /\ q.bytes = search.bytes /\ q.needle = search.needle /\ q.fold = search.fold
  BY DEF QueryShape
<1>3. TheLiteral = Compiled(search.needle, search.fold)
  <2>1. q \in Searches /\ TheLiteral = Literal[q]
    BY DEF QueryShape, TheLiteral
  <2>2. Literal[q] = Compiled(q.needle, q.fold)
    BY <2>1 DEF Literal
  <2> HIDE DEF q
  <2> QED
    BY <1>2, <2>1, <2>2
<1> HIDE DEF q
<1>4. search.csv \in BOOLEAN /\ search.bytes \in Seq(Bytes) /\ search.needle \in Seq(Bytes) \ {<<>>}
  BY <1>1, <1>2
<1>5. Len(search.needle) \in Nat /\ Len(search.needle) # 0
  BY <1>4, EmptySeq
<1>6. SearchedRecords \in Seq(Spans)
  BY <1>4, ScannedFacts DEF SearchedRecords, Searched
<1>7. SearchedHits \in Seq(Hit)
  BY <1>4, <1>5, HitsFacts DEF SearchedHits, Searched
<1> QED
  BY <1>3, <1>4, <1>5, <1>6, <1>7 DEF Searched

LEMMA InitFound == SearchInit => FoundPart
<1> SUFFICES ASSUME SearchInit PROVE FoundPart
  OBVIOUS
<1>1. PICK q \in Searches, w \in BOOLEAN :
          search = [q EXCEPT !.windows = w] /\ searchDisk = [bytes |-> q.bytes, rev |-> 0]
  BY DEF SearchInit
<1>2. q \in [csv : BOOLEAN, bytes : Seq(Bytes), needle : Seq(Bytes) \ {<<>>},
             fold : BOOLEAN, windows : {FALSE}]
  BY QueryAssumption
<1>3. /\ search = [csv |-> q.csv, bytes |-> q.bytes, needle |-> q.needle, fold |-> q.fold, windows |-> w]
      /\ [search EXCEPT !.windows = FALSE] = q
  BY <1>1, <1>2
<1>4. QueryShape
  <2>1. /\ search = [csv |-> search.csv, bytes |-> search.bytes, needle |-> search.needle,
                     fold |-> search.fold, windows |-> search.windows]
        /\ [search EXCEPT !.windows = FALSE] \in Searches
    BY <1>3
  <2>2. IsSession(session)
    BY DEF SearchInit, IsSession
  <2>3. IsQuantum(quantum) /\ quantum.left = 0 /\ quantum.n = 0
    BY DEF SearchInit, IsQuantum, NoQuantum
  <2>4. searchDisk.rev = 0 /\ searchDisk.bytes = Searched
    BY <1>1, <1>3 DEF Searched
  <2> QED
    BY <2>1, <2>2, <2>3, <2>4 DEF QueryShape
<1>5. ~ Pending /\ session.status = "running" /\ quantum.pc = "plan" /\ session.nextRow = 0
      /\ session.s = ScannerAt(0) /\ ~ session.over /\ find.phase = "searching"
      /\ store.entries = <<>> /\ cache.start = 0 /\ ~ cache.loaded
  BY DEF SearchInit, Pending, NoQuantum
<1>6. CachePart /\ StatusPart /\ BufferPart
  BY <1>5 DEF CachePart, StatusPart, BufferPart, InSearch
<1>7. RecordPart
  BY <1>4, <1>5, SearchFacts, OriginAgrees DEF RecordPart
<1>8. HitPart
  <2>1. HitsOf(0) = <<>>
    BY <1>4, SearchFacts, HitsFacts DEF HitsOf
  <2>2. <<>> \in Seq(Hit) /\ Len(<<>>) = 0 /\ Len(SearchedHits) \in Nat
    BY <1>4, SearchFacts
  <2>3. Begins(<<>>, SearchedHits)
    BY <2>2 DEF Begins
  <2> QED
    BY <1>5, <2>1, <2>2, <2>3 DEF HitPart, PlacePart, Capped
<1> QED
  BY <1>4, <1>6, <1>7, <1>8 DEF FoundPart

\* What depends on the search alone.
LEMMA SearchSame ==
    ASSUME search' = search
    PROVE  /\ Searched' = Searched /\ SearchedRecords' = SearchedRecords
           /\ SearchedHits' = SearchedHits
BY DEF Searched, SearchedRecords, SearchedHits

\* Nothing but the call, the demand and what is shown changes.
LEMMA Rests ==
    ASSUME FoundPart, UNCHANGED <<search, searchDisk, cache, session>>, store'.entries = store.entries,
           IsQuantum(quantum'), quantum'.left \in Int, quantum'.n = 0,
           quantum'.pc \notin {"read", "use", "match", "full"},
           quantum.pc \notin {"match", "full"} \/ find'.phase = "failed",
           find.phase = "failed" => find'.phase = "failed",
           StatusPart'
    PROVE  FoundPart'
<1>1. /\ Searched' = Searched /\ SearchedRecords' = SearchedRecords
      /\ SearchedHits' = SearchedHits
  BY SearchSame
<1>2. QueryShape'
  BY <1>1 DEF FoundPart, QueryShape
<1>3. CachePart' /\ RecordPart'
  BY <1>1 DEF FoundPart, CachePart, RecordPart, IsChunk, Pending, IsPending
<1>4. BufferPart'
  BY DEF BufferPart
<1>5. HitPart'
  <2>1. store'.entries \in Seq(Hit) /\ Begins(store'.entries, SearchedHits')
    BY <1>1 DEF FoundPart, HitPart
  <2>2. ASSUME find'.phase # "failed" PROVE PlacePart'
    <3>1. PlacePart /\ quantum.pc \notin {"match", "full"}
      BY <2>2 DEF FoundPart, HitPart
    <3>2. Capped' = Capped /\ quantum'.pc # "match" /\ Pending' = Pending
      BY <3>1 DEF Capped, Pending
    <3>3. HitsOf(session.nextRow)' = HitsOf(session.nextRow)
      BY <1>1 DEF HitsOf
    <3>4. Complete(session.pending, session.pending.cursor, session.pending.state)'
            = Complete(session.pending, session.pending.cursor, session.pending.state)
      BY <1>1 DEF Complete, Matching, HitsUpTo
    <3> QED
      BY <1>1, <3>1, <3>2, <3>3, <3>4 DEF PlacePart
  <2> QED
    BY <2>1, <2>2 DEF HitPart
<1> QED
  BY <1>2, <1>3, <1>4, <1>5 DEF FoundPart

LEMMA NoQuantumIs ==
    ASSUME NEW p, NEW left
    PROVE  LET q == [NoQuantum EXCEPT !.pc = p, !.left = left]
           IN  IsQuantum(q) /\ q.pc = p /\ q.left = left /\ q.n = 0
<1> DEFINE q == [NoQuantum EXCEPT !.pc = p, !.left = left]
           fields == {"pc", "left", "buf", "n", "state"}
<1>1. DOMAIN NoQuantum = fields /\ NoQuantum = [x \in fields |-> NoQuantum[x]] /\ NoQuantum.n = 0
  BY DEF NoQuantum
<1>2. q = [x \in fields |-> q[x]] /\ DOMAIN q = fields /\ q.pc = p /\ q.left = left /\ q.n = NoQuantum.n
  BY <1>1
<1> HIDE DEF q
<1>3. IsQuantum(q)
  BY <1>2 DEF IsQuantum
<1> QED
  BY <1>1, <1>2, <1>3 DEF q

LEMMA OtherQuantumIs ==
    ASSUME NEW p
    PROVE  LET q == [NoQuantum EXCEPT !.pc = p]
           IN  IsQuantum(q) /\ q.pc = p /\ q.left = 0 /\ q.n = 0
BY DEF NoQuantum, IsQuantum

LEMMA AtRest == IsQuantum(NoQuantum) /\ NoQuantum.pc = "rest" /\ NoQuantum.left = 0 /\ NoQuantum.n = 0
BY DEF NoQuantum, IsQuantum

\* The phase and the demand are found where they were put.
LEMMA FindIs ==
    ASSUME ShownPart, NEW phase, NEW demand
    PROVE  LET f == [find EXCEPT !.phase = phase, !.demand = demand]
           IN  f.phase = phase /\ f.demand = demand
BY DEF ShownPart, ShownOf

FindFields == {"phase", "demand", "active", "hit", "commands"}

LEMMA PhaseIs ==
    ASSUME NEW f, FindFields \subseteq DOMAIN f, NEW phase
    PROVE  LET g == [f EXCEPT !.phase = phase] IN g.demand = f.demand /\ g.phase = phase
BY DEF FindFields

LEMMA ToldIs ==
    ASSUME ShownPart
    PROVE  LET told == [find EXCEPT !.commands = @ + 1, !.demand = NoHit]
           IN  told.demand = NoHit /\ FindFields \subseteq DOMAIN told
BY DEF ShownPart, ShownOf, FindFields

LEMMA FailsFound ==
    ASSUME FoundPart, ShownPart, SearchFails, UNCHANGED <<search, searchDisk, cache, session, store>>
    PROVE  FoundPart'
<1>1. find'.phase = "failed" /\ find'.demand = NoHit
  BY FindIs DEF SearchFails
<1>2. quantum' = NoQuantum
  BY DEF SearchFails
<1>3. StatusPart'
  BY <1>1, <1>2, AtRest DEF FoundPart, StatusPart, InSearch, Pending, SearchedRecords, Searched
<1> QED
  BY <1>1, <1>2, <1>3, AtRest, Rests

LEMMA QueryPlanFound == FoundPart /\ ShownPart /\ QueryPlan => FoundPart'
<1> SUFFICES ASSUME FoundPart, ShownPart, QueryPlan PROVE FoundPart'
  OBVIOUS
<1>1. UNCHANGED <<search, searchDisk, cache, session, store>> /\ quantum.pc = "plan"
  BY DEF QueryPlan, searchWorld
<1>2. CASE SearchFails
  BY <1>1, <1>2, FailsFound
<1>3. CASE quantum' = NoQuantum /\ UNCHANGED find
  <2>1. StatusPart'
    BY <1>1, <1>3, AtRest DEF FoundPart, StatusPart, InSearch, Pending, SearchedRecords, Searched
  <2> QED
    BY <1>1, <1>3, <2>1, AtRest, Rests
<1> QED
  BY <1>2, <1>3 DEF QueryPlan

LEMMA FailuresFound == FoundPart /\ ShownPart /\ (SourceFails \/ IoFails) => FoundPart'
BY FailsFound DEF SourceFails, IoFails, searchWorld

LEMMA ActivateIs ==
    ASSUME ShownPart, NEW index, NEW commands, Activate(index, commands)
    PROVE  find'.demand = NoHit /\ find'.phase \in {"match_ready", "failed"}
<1>1. CASE find' = [find EXCEPT !.phase = "failed", !.demand = NoHit]
  BY <1>1, FindIs
<1>2. CASE \E hit \in Cached(page', index) :
             find' = [phase |-> "match_ready", demand |-> NoHit, active |-> index,
                      hit |-> hit, commands |-> commands]
  BY <1>2
<1> QED
  BY <1>1, <1>2 DEF Activate

LEMMA ValidateFound ==
    ASSUME FoundPart, ShownPart, Validate
    PROVE  FoundPart'
<1>1. UNCHANGED <<search, searchDisk, cache, session, store>> /\ quantum.pc = "validate"
      /\ quantum' = NoQuantum
  BY DEF Validate, searchWorld
<1>2. \/ find'.demand = NoHit /\ find'.phase \in {"match_ready", "failed", session.status}
      \/ find' = find /\ session.status \in {"running", "cancelled"}
  <2>1. CASE ~ PathSound
    <3>1. find' = [find EXCEPT !.phase = "failed", !.demand = NoHit]
      BY <2>1 DEF Validate
    <3> QED
      BY <3>1, FindIs
  <2>2. CASE PathSound /\ Len(store.entries) > find.demand
    <3>1. Activate(find.demand, find.commands)
      BY <2>2 DEF Validate
    <3> QED
      BY <3>1, ActivateIs
  <2>3. CASE PathSound /\ ~ Len(store.entries) > find.demand
    <3>1. find' = IF session.status \in {"running", "cancelled"} THEN find
                  ELSE [find EXCEPT !.phase = session.status, !.demand = NoHit]
      BY <2>3 DEF Validate
    <3> QED
      BY <3>1, FindIs
  <2> QED
    BY <2>1, <2>2, <2>3
<1>3. find.phase # "failed"
  BY <1>1 DEF FoundPart, StatusPart
<1>4. StatusPart'
  BY <1>1, <1>2, <1>3, AtRest DEF FoundPart, StatusPart, InSearch, Pending, SearchedRecords, Searched
<1> QED
  BY <1>1, <1>3, <1>4, AtRest, Rests

LEMMA CommandFound ==
    ASSUME FoundPart, ShownPart, NextHit \/ PreviousHit
    PROVE  FoundPart'
<1>1. /\ UNCHANGED <<search, searchDisk, cache, session, store, quantum>> /\ quantum.pc = "rest"
      /\ find.phase # "failed"
  BY DEF NextHit, PreviousHit, Commanded, searchWorld
<1>2. \/ find'.demand = NoHit
      \/ session.status \in {"running", "cancelled"} /\ find'.phase = "searching"
  <2>1. CASE NextHit
    <3> DEFINE target == find.active + 1
               told == [find EXCEPT !.commands = @ + 1, !.demand = NoHit]
    <3>1. told.demand = NoHit /\ FindFields \subseteq DOMAIN told
      BY ToldIs
    <3>2. \/ Activate(target, find.commands + 1)
          \/ find' = [told EXCEPT !.demand = target, !.phase = "searching"]
             /\ session.status \in {"running", "cancelled"}
          \/ find' = [told EXCEPT !.phase = session.status]
      BY <2>1 DEF NextHit
    <3> HIDE DEF told, target
    <3>3. CASE Activate(target, find.commands + 1)
      <4>1. find'.demand = NoHit
        BY <3>3, ActivateIs
      <4> QED
        BY <4>1
    <3>4. CASE find' = [told EXCEPT !.demand = target, !.phase = "searching"]
               /\ session.status \in {"running", "cancelled"}
      BY <3>1, <3>4 DEF FindFields
    <3>5. CASE find' = [told EXCEPT !.phase = session.status]
      <4>1. find'.demand = NoHit
        BY <3>1, <3>5, PhaseIs
      <4> QED
        BY <4>1
    <3> QED
      BY <3>2, <3>3, <3>4, <3>5
  <2>2. CASE PreviousHit
    <3>1. \/ Activate(PreviousIndex, find.commands + 1)
          \/ \E phase : find' = [find EXCEPT !.commands = @ + 1, !.demand = NoHit, !.phase = phase]
      BY <2>2 DEF PreviousHit
    <3>2. CASE Activate(PreviousIndex, find.commands + 1)
      <4>1. find'.demand = NoHit
        BY <3>2, ActivateIs
      <4> QED
        BY <4>1
    <3>3. ASSUME NEW phase, find' = [find EXCEPT !.commands = @ + 1, !.demand = NoHit, !.phase = phase]
          PROVE  find'.demand = NoHit
      BY <3>3 DEF ShownPart, ShownOf
    <3> QED
      BY <3>1, <3>2, <3>3
  <2> QED
    BY <2>1, <2>2
<1>3. find'.phase = "failed" => find'.demand = NoHit
  BY <1>2
<1>4. StatusPart'
  BY <1>1, <1>2, <1>3 DEF FoundPart, StatusPart, InSearch, Pending, SearchedRecords, Searched
<1>5. IsQuantum(quantum') /\ quantum'.left \in Int /\ quantum'.n = 0 /\ quantum'.pc = "rest"
  BY <1>1 DEF FoundPart, QueryShape
<1> QED
  BY <1>1, <1>4, <1>5, Rests

\* Other programs.
LEMMA DisturbedFound ==
    ASSUME FoundPart, UNCHANGED <<search, cache, session, store, quantum, find>>,
           searchDisk' = searchDisk \/ RewriteSearched
    PROVE  FoundPart'
<1>1. /\ Searched' = Searched /\ SearchedRecords' = SearchedRecords
      /\ SearchedHits' = SearchedHits
  BY SearchSame
<1>2. CASE RewriteSearched
  <2>1. searchDisk'.rev = searchDisk.rev + 1 /\ ~ search.windows /\ quantum.pc \notin {"match", "full"}
    BY <1>2 DEF RewriteSearched, SearchDisturbed
  <2>2. searchDisk'.rev # 0 /\ searchDisk'.rev \in Nat
    BY <2>1 DEF FoundPart, QueryShape
  <2> QED
    BY <1>1, <2>1, <2>2
    DEF FoundPart, QueryShape, CachePart, RecordPart, StatusPart, BufferPart, HitPart, PlacePart, Capped,
        Pending, IsPending, IsChunk, HitsOf, HitsUpTo, Complete, Matching
<1>3. CASE searchDisk' = searchDisk
  BY <1>1, <1>3
  DEF FoundPart, QueryShape, CachePart, RecordPart, StatusPart, BufferPart, HitPart, PlacePart, Capped,
      Pending, IsPending, IsChunk, HitsOf, HitsUpTo, Complete, Matching
<1> QED
  BY <1>2, <1>3

\* A call goes on with its loop, or ends, between two bytes.
LEMMA GoesOnFound ==
    ASSUME FoundPart, UNCHANGED <<search, searchDisk, cache, store, find>>, find.phase # "failed",
           IsSession(session'), IsQuantum(quantum'), quantum'.left \in Int, quantum'.n = 0,
           quantum'.pc \in {"loop", "validate"},
           session'.status \in {"running", "cancelled", "complete"},
           quantum'.pc = "loop" => session'.status = "running",
           session'.status = "complete" => ~ Pending' /\ session'.nextRow = Len(SearchedRecords),
           RecordPart',
           ~ Pending' => store.entries = HitsOf(session'.nextRow),
           Pending' => Complete(session'.pending, session'.pending.cursor, session'.pending.state)
    PROVE  FoundPart'
<1>1. /\ Searched' = Searched /\ SearchedRecords' = SearchedRecords
      /\ SearchedHits' = SearchedHits
  BY SearchSame
<1>2. QueryShape'
  BY <1>1 DEF FoundPart, QueryShape
<1>3. CachePart'
  BY <1>1 DEF FoundPart, CachePart, IsChunk
<1>4. StatusPart'
  BY <1>1 DEF FoundPart, StatusPart, InSearch, Pending
<1>5. BufferPart'
  BY DEF BufferPart
<1>6. HitPart'
  <2>1. store'.entries \in Seq(Hit) /\ Begins(store'.entries, SearchedHits')
    BY <1>1 DEF FoundPart, HitPart
  <2>2. ~ Capped' /\ quantum'.pc # "match"
    BY DEF Capped
  <2>3. HitsOf(session.nextRow)' = HitsOf(session'.nextRow)
    BY <1>1 DEF HitsOf
  <2>4. Complete(session.pending, session.pending.cursor, session.pending.state)'
          <=> Complete(session'.pending, session'.pending.cursor, session'.pending.state)
    BY <1>1 DEF Complete, Matching, HitsUpTo
  <2> QED
    BY <2>1, <2>2, <2>3, <2>4 DEF HitPart, PlacePart
<1> QED
  BY <1>2, <1>3, <1>4, <1>5, <1>6 DEF FoundPart

\* The parts of the session, one of them replaced.
SessionIs(t, s, over, pending, nextRow, status) ==
    /\ IsSession(t) /\ t.s = s /\ t.over = over /\ t.pending = pending /\ t.nextRow = nextRow
    /\ t.status = status

LEMMA StatusIs ==
    ASSUME NEW t, IsSession(t), NEW status
    PROVE  SessionIs([t EXCEPT !.status = status], t.s, t.over, t.pending, t.nextRow, status)
<1> DEFINE fields == {"s", "over", "pending", "nextRow", "examined", "status"}
           u == [t EXCEPT !.status = status]
<1>1. DOMAIN t = fields
  BY DEF IsSession
<1>2. u = [x \in fields |-> u[x]] /\ DOMAIN u = fields /\ u.status = status /\ u.s = t.s
      /\ u.over = t.over /\ u.pending = t.pending /\ u.nextRow = t.nextRow
  BY <1>1
<1> HIDE DEF u
<1> QED
  BY <1>2 DEF SessionIs, IsSession, u

LEMMA ScannerIs ==
    ASSUME NEW t, IsSession(t), NEW s
    PROVE  SessionIs([t EXCEPT !.s = s], s, t.over, t.pending, t.nextRow, t.status)
<1> DEFINE fields == {"s", "over", "pending", "nextRow", "examined", "status"}
           u == [t EXCEPT !.s = s]
<1>1. DOMAIN t = fields
  BY DEF IsSession
<1>2. u = [x \in fields |-> u[x]] /\ DOMAIN u = fields /\ u.status = t.status /\ u.s = s
      /\ u.over = t.over /\ u.pending = t.pending /\ u.nextRow = t.nextRow
  BY <1>1
<1> HIDE DEF u
<1> QED
  BY <1>2 DEF SessionIs, IsSession, u

LEMMA TakenIs ==
    ASSUME NEW t, IsSession(t)
    PROVE  SessionIs([t EXCEPT !.over = TRUE], t.s, TRUE, t.pending, t.nextRow, t.status)
<1> DEFINE fields == {"s", "over", "pending", "nextRow", "examined", "status"}
           over == TRUE
           u == [t EXCEPT !.over = over]
<1>1. DOMAIN t = fields
  BY DEF IsSession
<1> HIDE DEF over
<1>2. u = [x \in fields |-> u[x]] /\ DOMAIN u = fields /\ u.status = t.status /\ u.s = t.s
      /\ u.over = over /\ u.pending = t.pending /\ u.nextRow = t.nextRow
  BY <1>1
<1> HIDE DEF u
<1>3. SessionIs(u, t.s, over, t.pending, t.nextRow, t.status)
  BY <1>2 DEF SessionIs, IsSession
<1> QED
  BY <1>3 DEF u, over

LEMMA ExaminedIs ==
    ASSUME NEW t, IsSession(t)
    PROVE  SessionIs(Examined(t), t.s, t.over, NoPending, t.nextRow, t.status)
<1> DEFINE fields == {"s", "over", "pending", "nextRow", "examined", "status"}
           none == NoPending
           many == t.examined + 1
           u == [t EXCEPT !.pending = none, !.examined = many]
<1>1. DOMAIN t = fields
  BY DEF IsSession
<1> HIDE DEF none, many
<1>2. u = [x \in fields |-> u[x]] /\ DOMAIN u = fields /\ u.status = t.status /\ u.s = t.s
      /\ u.over = t.over /\ u.pending = none /\ u.nextRow = t.nextRow
  BY <1>1
<1>3. Examined(t) = u
  BY DEF Examined, none, many
<1> HIDE DEF u
<1> QED
  BY <1>2, <1>3 DEF SessionIs, IsSession, none

NewPending(k, span) == [row |-> k, span |-> span, cursor |-> span.start, state |-> 0]

LEMMA QueuedIs ==
    ASSUME NEW t, IsSession(t), NEW span
    PROVE  SessionIs(Queued(t, span), t.s, t.over, NewPending(t.nextRow, span), t.nextRow + 1, t.status)
<1> DEFINE fields == {"s", "over", "pending", "nextRow", "examined", "status"}
           p == NewPending(t.nextRow, span)
           next == t.nextRow + 1
           u == [t EXCEPT !.nextRow = next, !.pending = p]
<1>1. DOMAIN t = fields
  BY DEF IsSession
<1> HIDE DEF p, next
<1>2. u = [x \in fields |-> u[x]] /\ DOMAIN u = fields /\ u.status = t.status /\ u.s = t.s
      /\ u.over = t.over /\ u.pending = p /\ u.nextRow = next
  BY <1>1
<1>3. Queued(t, span) = u
  BY DEF Queued, p, next, NewPending
<1> HIDE DEF u
<1> QED
  BY <1>2, <1>3 DEF SessionIs, IsSession, p, next

\* A record that the scanner has found, and of which nothing was matched yet.
LEMMA Queues ==
    ASSUME QueryShape, NEW k \in Nat, k < Len(SearchedRecords), NEW span, span = SearchedRecords[k + 1],
           store.entries = HitsOf(k), NEW p, p = NewPending(k, span)
    PROVE  IsPending(p, k + 1) /\ Complete(p, p.cursor, p.state) /\ p # NoPending
<1>1. /\ search.csv \in BOOLEAN /\ Searched \in Seq(Bytes) /\ Len(search.needle) \in Nat
      /\ Len(search.needle) > 0 /\ Len(SearchedRecords) \in Nat
  BY SearchFacts
<1>2. k + 1 \in 1 .. Len(SearchedRecords) /\ (k + 1) - 1 = k
  BY <1>1
<1>3. span.start \in Nat /\ span.end \in Nat /\ span.start <= span.end
  BY <1>1, <1>2, RecordsInFile DEF SearchedRecords
<1>4. p.row = k /\ p.span = span /\ p.cursor = span.start /\ p.state = 0
      /\ p = [row |-> p.row, span |-> p.span, cursor |-> p.cursor, state |-> p.state]
  BY DEF NewPending
<1>5. IsPending(p, k + 1)
  BY <1>2, <1>3, <1>4 DEF IsPending
<1>6. Matching(span.start, span.start, 0)
  <2> DEFINE b == Pattern(search.needle, search.fold)
             t == Text(search.fold, Searched)
             at == span.start
             top == Len(search.needle) - 1
  <2>1. at \in Nat /\ top \in Nat
    BY <1>1, <1>3
  <2> HIDE DEF b, t, at, top
  <2>2. Matches(b, t, at, 0, at)
    BY <2>1 DEF Matches
  <2>3. \A i \in 1 .. top : ~ Matches(b, t, at, i, at)
    BY <2>1 DEF Matches
  <2>4. Longest(b, t, at, top, 0, at)
    BY <2>1, <2>2, <2>3 DEF Longest
  <2> QED
    BY <2>4 DEF Matching, b, t, at, top
<1>7. HitsUpTo(k, span.start) = HitsOf(k)
  BY <1>1, <1>3, ReachedIs DEF HitsUpTo, HitsOf, SearchedRecords
<1>8. p # NoPending
  BY <1>4 DEF NoPending
<1> QED
  BY <1>4, <1>5, <1>6, <1>7, <1>8 DEF Complete

LEMMA GoesIs ==
    ASSUME NEW where, NEW left \in Int
    PROVE  LET q == Goes(where, left)
           IN  IsQuantum(q) /\ q.pc \in {where, "validate"} /\ q.left \in Int /\ q.n = 0
<1>1. CASE left = 0
  BY <1>1, OtherQuantumIs DEF Goes
<1>2. CASE left # 0
  <2> DEFINE q == [NoQuantum EXCEPT !.pc = where, !.left = left]
  <2>1. Goes(where, left) = q
    BY <1>2 DEF Goes
  <2>2. IsQuantum(q) /\ q.pc = where /\ q.left = left /\ q.n = 0
    BY NoQuantumIs
  <2> HIDE DEF q
  <2> QED
    BY <2>1, <2>2
<1> QED
  BY <1>1, <1>2

LEMMA BeginQuantumFound == FoundPart /\ BeginQuantum => FoundPart'
<1> SUFFICES ASSUME FoundPart, BeginQuantum PROVE FoundPart'
  OBVIOUS
<1>1. /\ UNCHANGED <<search, searchDisk, cache, store, find>>
      /\ quantum.pc = "rest" /\ find.demand # NoHit
      /\ session' = [session EXCEPT !.status = "running"]
      /\ quantum' = [NoQuantum EXCEPT !.pc = "loop", !.left = SearchBuffer]
  BY DEF BeginQuantum, searchWorld
<1>2. IsSession(session) /\ RecordPart /\ StatusPart /\ HitPart
  BY DEF FoundPart, QueryShape
<1>3. SessionIs(session', session.s, session.over, session.pending, session.nextRow, "running")
  BY <1>1, <1>2, StatusIs
<1>4. IsQuantum(quantum') /\ quantum'.pc = "loop" /\ quantum'.left = SearchBuffer /\ quantum'.n = 0
  BY <1>1, NoQuantumIs
<1>5. SearchBuffer \in Int
  BY QueryAssumption DEF ValidConfig
<1>6. session.status \notin {"complete", "quota"} /\ find.phase # "failed"
  BY <1>1, <1>2 DEF StatusPart
<1>7. PlacePart /\ ~ Capped
  BY <1>1, <1>2, <1>6 DEF HitPart, Capped
<1>8. SearchedRecords' = SearchedRecords /\ Searched' = Searched /\ SearchedHits' = SearchedHits
  BY <1>1, SearchSame
<1>9. RecordPart'
  BY <1>1, <1>2, <1>3, <1>8 DEF RecordPart, SessionIs, Pending, IsPending
<1>10. ~ Pending' => store.entries = HitsOf(session'.nextRow)
  BY <1>3, <1>7, <1>1 DEF PlacePart, SessionIs, Pending
<1>11. Pending' => Complete(session'.pending, session'.pending.cursor, session'.pending.state)
  BY <1>3, <1>7, <1>1 DEF PlacePart, SessionIs, Pending
<1> QED
  BY <1>1, <1>3, <1>4, <1>5, <1>6, <1>9, <1>10, <1>11, GoesOnFound DEF SessionIs

\* advance was cancelled, or all records are through.
LEMMA StopFound ==
    ASSUME FoundPart, NEW status \in {"cancelled", "complete"}, Stop(status),
           UNCHANGED <<search, searchDisk, cache, store, find>>, quantum.pc = "loop",
           status = "complete" => ~ Pending /\ session.over
    PROVE  FoundPart'
<1>2. IsSession(session) /\ RecordPart /\ StatusPart /\ HitPart
  BY DEF FoundPart, QueryShape
<1>3. SessionIs(session', session.s, session.over, session.pending, session.nextRow, status)
  BY <1>2, StatusIs DEF Stop
<1>4. IsQuantum(quantum') /\ quantum'.pc = "validate" /\ quantum'.left = 0 /\ quantum'.n = 0
  BY OtherQuantumIs DEF Stop
<1>6. session.status = "running" /\ find.phase # "failed"
  BY <1>2 DEF StatusPart, InSearch
<1>7. PlacePart /\ ~ Capped
  BY <1>2, <1>6 DEF HitPart, Capped
<1>8. SearchedRecords' = SearchedRecords /\ Searched' = Searched /\ SearchedHits' = SearchedHits
  BY SearchSame
<1>9. RecordPart'
  BY <1>2, <1>3, <1>8 DEF RecordPart, SessionIs, Pending, IsPending
<1>10. ~ Pending' => store.entries = HitsOf(session'.nextRow)
  BY <1>3, <1>7 DEF PlacePart, SessionIs, Pending
<1>11. Pending' => Complete(session'.pending, session'.pending.cursor, session'.pending.state)
  BY <1>3, <1>7 DEF PlacePart, SessionIs, Pending
<1>12. session'.status = "complete" => ~ Pending' /\ session'.nextRow = Len(SearchedRecords)
  BY <1>2, <1>3 DEF RecordPart, SessionIs, Pending
<1> QED
  BY <1>3, <1>4, <1>6, <1>9, <1>10, <1>11, <1>12, GoesOnFound DEF SessionIs

LEMMA CancelLoopFound == FoundPart /\ CancelLoop => FoundPart'
BY StopFound DEF CancelLoop, searchWorld

\* The record that no line break ends.
LEMMA LastFound ==
    ASSUME FoundPart, UNCHANGED <<search, searchDisk, cache, store, find>>,
           quantum.pc = "loop", ~ Pending, ~ session.over, session.s.offset = SearchSize,
           LET last == LastRecord
               taken == [session EXCEPT !.over = TRUE]
           IN  IF last = <<>>
               THEN /\ session' = [taken EXCEPT !.status = "complete"]
                    /\ quantum' = [NoQuantum EXCEPT !.pc = "validate"]
               ELSE session' = Queued(taken, last[1]) /\ UNCHANGED quantum
    PROVE  FoundPart'
<1> DEFINE last == Finish(session.s)
           taken == [session EXCEPT !.over = TRUE]
           k == session.nextRow
<1>1. /\ IsSession(session) /\ RecordPart /\ StatusPart /\ HitPart /\ QueryShape
      /\ IsQuantum(quantum) /\ quantum.left \in Int /\ quantum.n = 0
  BY DEF FoundPart, QueryShape
<1>2. search.csv \in BOOLEAN /\ Searched \in Seq(Bytes) /\ Len(SearchedRecords) \in Nat
  BY <1>1, SearchFacts
<1>3. Agree(search.csv, Searched, session.s, k) /\ session.s.offset = Len(Searched) /\ k \in Nat
  BY <1>1 DEF RecordPart, SearchSize, Searched
<1>4. /\ Len(SearchedRecords) = k + Len(last) /\ last \in Seq(Spans)
      /\ \A i \in 1 .. Len(last) : SearchedRecords[k + i] = last[i]
  BY <1>2, <1>3, AgreeEnd DEF SearchedRecords
<1>5. Len(last) <= 1
  <2>1. Good(session.s)
    BY <1>2, <1>3, AgreeGood
  <2>2. last = <<Ended(session.s)>> \/ last = <<>>
    BY <2>1, FinishIs
  <2> HIDE DEF last
  <2>3. Len(<<Ended(session.s)>>) = 1 /\ Len(<<>>) = 0
    OBVIOUS
  <2>4. CASE last = <<>>
    BY <2>4
  <2>5. CASE last = <<Ended(session.s)>>
    <3>1. Len(last) = 1
      BY <2>3, <2>5
    <3> QED
      BY <3>1
  <2> QED
    BY <2>2, <2>4, <2>5
<1>6. session.status = "running" /\ find.phase # "failed"
  BY <1>1 DEF StatusPart, InSearch
<1>7. store.entries = HitsOf(k)
  BY <1>1, <1>6 DEF HitPart, PlacePart, Capped
<1>8. SessionIs(taken, session.s, TRUE, session.pending, k, "running")
  BY <1>1, <1>6, TakenIs
<1>9. SearchedRecords' = SearchedRecords /\ Searched' = Searched /\ SearchedHits' = SearchedHits
  BY SearchSame
<1> HIDE DEF last, taken
<1>10. CASE last = <<>>
  <2>1. session' = [taken EXCEPT !.status = "complete"] /\ quantum' = [NoQuantum EXCEPT !.pc = "validate"]
    BY <1>10 DEF last, taken, LastRecord
  <2>2. SessionIs(session', session.s, TRUE, session.pending, k, "complete")
    <3>1. IsSession(taken) /\ taken.s = session.s /\ taken.over = TRUE
          /\ taken.pending = session.pending /\ taken.nextRow = k
      BY <1>8 DEF SessionIs
    <3>2. SessionIs(session', taken.s, taken.over, taken.pending, taken.nextRow, "complete")
      BY <2>1, <3>1, StatusIs
    <3> QED
      BY <3>1, <3>2
  <2>3. IsQuantum(quantum') /\ quantum'.pc = "validate" /\ quantum'.left = 0 /\ quantum'.n = 0
    BY <2>1, OtherQuantumIs
  <2>4. k = Len(SearchedRecords)
    BY <1>3, <1>4, <1>10
  <2>5. ~ Pending'
    BY <2>2 DEF Pending, SessionIs
  <2>6. RecordPart'
    BY <1>1, <1>9, <2>2, <2>4, <2>5 DEF RecordPart, SessionIs
  <2> QED
    BY <1>6, <1>7, <2>2, <2>3, <2>4, <2>5, <2>6, GoesOnFound DEF SessionIs
<1>11. CASE last # <<>>
  <2>1. session' = Queued(taken, last[1]) /\ quantum' = quantum
    BY <1>11 DEF last, taken, LastRecord
  <2>2. Len(last) = 1 /\ SearchedRecords[k + 1] = last[1] /\ Len(SearchedRecords) = k + 1
    <3>1. Len(last) # 0 /\ Len(last) \in Nat
      BY <1>4, <1>11, EmptySeq
    <3>2. Len(last) = 1
      <4>1. \A m \in Nat : m <= 1 /\ m # 0 => m = 1
        OBVIOUS
      <4> QED
        BY <1>5, <3>1, <4>1, Zenon
    <3> QED
      BY <1>3, <1>4, <3>2
  <2> DEFINE p == NewPending(k, last[1])
  <2>3. SessionIs(session', session.s, TRUE, p, k + 1, "running")
    BY <1>8, <2>1, QueuedIs DEF SessionIs
  <2> HIDE DEF p
  <2>4. IsPending(p, k + 1) /\ Complete(p, p.cursor, p.state) /\ p # NoPending
    BY <1>1, <1>2, <1>3, <1>7, <2>2, Queues DEF p
  <2>5. Pending' /\ session'.pending = p
    BY <2>3, <2>4 DEF Pending, SessionIs
  <2>6. RecordPart'
    <3>1. IsPending(session.pending, session.nextRow)'
      BY <1>9, <2>3, <2>4 DEF SessionIs, IsPending
    <3>2. session'.nextRow \in Nat /\ session'.over /\ session'.nextRow = Len(SearchedRecords)'
      BY <1>3, <1>9, <2>2, <2>3 DEF SessionIs
    <3> QED
      BY <3>1, <3>2 DEF RecordPart
  <2> QED
    BY <1>1, <1>6, <2>1, <2>3, <2>4, <2>5, <2>6, GoesOnFound DEF SessionIs
<1> QED
  BY <1>10, <1>11

\* The hits up to a record's end are those of the records so far.
LEMMA RecordEnds ==
    ASSUME QueryShape, NEW p, NEW k, k \in Nat, IsPending(p, k)
    PROVE  HitsUpTo(p.row, p.span.end) = HitsOf(k)
<1>1. /\ search.csv \in BOOLEAN /\ Searched \in Seq(Bytes) /\ Len(search.needle) \in Nat
      /\ Len(search.needle) > 0 /\ Len(SearchedRecords) \in Nat
  BY SearchFacts
<1> DEFINE row == p.row
           end == p.span.end
           csv == search.csv
           needle == search.needle
           fold == search.fold
           file == Searched
<1>2. row \in Nat /\ row < Len(Scanned(csv, file)) /\ k = row + 1 /\ end = Scanned(csv, file)[k].end
  BY <1>1 DEF IsPending, SearchedRecords
<1>3. end \in Nat /\ Scanned(csv, file)[k].start <= end
  BY <1>1, RecordsInFile DEF SearchedRecords, IsPending
<1>4. csv \in BOOLEAN /\ file \in Seq(Bytes) /\ Len(needle) \in Nat /\ Len(needle) > 0
  BY <1>1
<1>5. /\ HitsUpTo(row, end) = Reached(csv, needle, fold, file, row, end)
      /\ HitsOf(k) = HitsBefore(csv, needle, fold, file)[k]
  BY DEF HitsUpTo, HitsOf
<1> HIDE DEF row, end, csv, needle, fold, file
<1>6. Reached(csv, needle, fold, file, row, end) = HitsBefore(csv, needle, fold, file)[k]
  BY <1>2, <1>3, <1>4, ReachedEnd
<1> QED
  BY <1>5, <1>6 DEF row, end

\* The bytes of a record are through.
LEMMA ExaminedFound ==
    ASSUME FoundPart, UNCHANGED <<search, searchDisk, cache, store, find, quantum>>,
           quantum.pc = "loop", Pending, session.pending.cursor = session.pending.span.end,
           session' = Examined(session)
    PROVE  FoundPart'
<1> DEFINE p == session.pending
           k == session.nextRow
<1>1. /\ IsSession(session) /\ RecordPart /\ StatusPart /\ HitPart /\ QueryShape
      /\ IsQuantum(quantum) /\ quantum.left \in Int /\ quantum.n = 0
  BY DEF FoundPart, QueryShape
<1>2. session.status = "running" /\ find.phase # "failed"
  BY <1>1 DEF StatusPart, InSearch
<1>3. IsPending(p, k) /\ k \in Nat
  BY <1>1 DEF RecordPart
<1>4. store.entries = HitsUpTo(p.row, p.span.end)
  BY <1>1, <1>2 DEF HitPart, PlacePart, Capped, Complete
<1>5. store.entries = HitsOf(k)
  BY <1>1, <1>3, <1>4, RecordEnds
<1>6. SessionIs(session', session.s, session.over, NoPending, k, "running")
  BY <1>1, <1>2, ExaminedIs
<1>7. SearchedRecords' = SearchedRecords /\ Searched' = Searched /\ SearchedHits' = SearchedHits
  BY SearchSame
<1>8. ~ Pending'
  BY <1>6 DEF Pending, SessionIs
<1>9. RecordPart'
  BY <1>1, <1>6, <1>7, <1>8 DEF RecordPart, SessionIs
<1> QED
  BY <1>1, <1>2, <1>5, <1>6, <1>8, <1>9, GoesOnFound DEF SessionIs

LEMMA LoopFound == FoundPart /\ Loop => FoundPart'
<1> SUFFICES ASSUME FoundPart, Loop PROVE FoundPart'
  OBVIOUS
<1>1. UNCHANGED <<search, searchDisk, cache, store, find>> /\ quantum.pc = "loop"
  BY DEF Loop, searchWorld
<1>2. CASE /\ Pending /\ session.pending.cursor = session.pending.span.end
           /\ session' = Examined(session)
           /\ UNCHANGED quantum
  BY <1>1, <1>2, ExaminedFound
<1>3. CASE /\ Pending \/ ~ session.over
           /\ quantum' = [quantum EXCEPT !.pc = "read"]
           /\ UNCHANGED session
  <2>1. /\ QueryShape /\ CachePart /\ RecordPart /\ StatusPart /\ HitPart
        /\ IsQuantum(quantum) /\ quantum.left \in Int /\ quantum.n = 0
    BY <1>1 DEF FoundPart, QueryShape
  <2>2. IsQuantum(quantum') /\ quantum'.pc = "read" /\ quantum'.left = quantum.left /\ quantum'.n = 0
    BY <1>3, <2>1 DEF IsQuantum
  <2>3. SearchedRecords' = SearchedRecords /\ Searched' = Searched /\ SearchedHits' = SearchedHits
    BY <1>1, SearchSame
  <2>4. QueryShape'
    BY <1>1, <1>3, <2>1, <2>2, <2>3 DEF QueryShape
  <2>5. CachePart' /\ RecordPart'
    BY <1>1, <1>3, <2>1, <2>3 DEF CachePart, RecordPart, IsChunk, Pending, IsPending
  <2>6. StatusPart' /\ BufferPart'
    BY <1>1, <1>3, <2>1, <2>2, <2>3 DEF StatusPart, BufferPart, InSearch, Pending
  <2>7. HitPart'
    BY <1>1, <1>3, <2>1, <2>2, <2>3
    DEF HitPart, PlacePart, Capped, Pending, HitsOf, HitsUpTo, Complete, Matching
  <2> QED
    BY <2>4, <2>5, <2>6, <2>7 DEF FoundPart
<1>4. CASE /\ ~ Pending /\ ~ session.over /\ session.s.offset = SearchSize
           /\ LET last == LastRecord
                  taken == [session EXCEPT !.over = TRUE]
              IN  IF last = <<>>
                  THEN /\ session' = [taken EXCEPT !.status = "complete"]
                       /\ quantum' = [NoQuantum EXCEPT !.pc = "validate"]
                  ELSE session' = Queued(taken, last[1]) /\ UNCHANGED quantum
  BY <1>1, <1>4, LastFound
<1>5. CASE ~ Pending /\ session.over /\ Stop("complete")
  BY <1>1, <1>5, StopFound
<1> QED
  BY <1>2, <1>3, <1>4, <1>5 DEF Loop

\* A part of a chunk is a chunk.
LEMMA ChunkOf ==
    ASSUME Searched \in Seq(Bytes), NEW bytes, NEW at \in Nat, IsChunk(bytes, at),
           NEW from \in Nat, NEW to \in Int, from < to, to <= Len(bytes)
    PROVE  LET part == SubSeq(bytes, from + 1, to)
           IN  IsChunk(part, at + from) /\ Len(part) = to - from
<1> DEFINE n == to - from
           a == from + 1
           part == SubSeq(bytes, a, to)
<1>1. bytes \in Seq(Bytes) /\ Len(bytes) \in Nat /\ at + Len(bytes) <= Len(Searched) /\ Len(Searched) \in Nat
  BY DEF IsChunk
<1>2. n \in Nat /\ from + n = to
  OBVIOUS
<1>3. /\ Len(SubSeq(bytes, from + 1, from + n)) = n
      /\ \A i \in 1 .. n : SubSeq(bytes, from + 1, from + n)[i] = bytes[from + i]
  <2> HIDE DEF n
  <2> QED
    BY <1>1, <1>2, ChunkIs
<1>4. Len(part) = n /\ \A i \in 1 .. n : part[i] = bytes[from + i]
  BY <1>2, <1>3
<1>5. part \in Seq(Bytes)
  <2>1. a \in Int /\ to \in Int /\ \A i \in a .. to : bytes[i] \in Bytes
    BY <1>1
  <2> HIDE DEF a
  <2> QED
    BY <1>1, <2>1, SubSeqProperties
<1> HIDE DEF part
<1>6. \A i \in 1 .. n : bytes[from + i] = Searched[at + from + i]
  <2> SUFFICES ASSUME NEW i \in 1 .. n PROVE bytes[from + i] = Searched[at + from + i]
    OBVIOUS
  <2>1. from + i \in 1 .. Len(bytes) /\ at + (from + i) = at + from + i
    BY <1>1, <1>2
  <2> QED
    BY <2>1 DEF IsChunk
<1>7. at + from + n <= Len(Searched)
  BY <1>1, <1>2
<1>8. IsChunk(part, at + from)
  BY <1>4, <1>5, <1>6, <1>7 DEF IsChunk
<1> QED
  BY <1>4, <1>8 DEF part

LEMMA FloorIs ==
    ASSUME NEW n \in Nat, NEW b \in Nat \ {0}
    PROVE  (n \div b) * b \in Nat /\ (n \div b) * b <= n
<1>1. n \div b \in Nat /\ (n \div b) * b <= n
  OBVIOUS
<1> QED
  BY <1>1

\* QueryReadCache::read_at
LEMMA BlockIs ==
    ASSUME QueryShape, CachePart, NEW offset \in Nat, offset <= Len(Searched),
           NEW block \in Blocks(offset)
    PROVE  /\ block.start \in Nat /\ block.start <= offset
           /\ searchDisk.rev = 0 => IsChunk(block.bytes, block.start)
<1>1. Searched \in Seq(Bytes) /\ Len(Searched) \in Nat
  BY SearchFacts
<1>2. CASE Covers(cache, offset)
  <2>1. block = cache
    BY <1>2 DEF Blocks
  <2> QED
    BY <1>2, <2>1 DEF Covers, CachePart
<1>3. CASE ~ Covers(cache, offset)
  <2> DEFINE start == (offset \div CacheBlock) * CacheBlock
             most == Least(start + CacheBlock, Len(searchDisk.bytes))
  <2>1. PICK end \in {start} \cup start + 1 .. most :
            block = [start |-> start, bytes |-> SubSeq(searchDisk.bytes, start + 1, end), loaded |-> TRUE]
    BY <1>3 DEF Blocks
  <2>2. start \in Nat /\ start <= offset
    <3>1. CacheBlock \in Nat \ {0}
      BY QueryAssumption
    <3> QED
      BY <3>1, FloorIs
  <2> HIDE DEF start
  <2>3. block.start = start /\ block.bytes = SubSeq(searchDisk.bytes, start + 1, end)
    BY <2>1
  <2>4. ASSUME searchDisk.rev = 0 PROVE IsChunk(block.bytes, block.start)
    <3>1. searchDisk.bytes = Searched
      BY <2>4 DEF QueryShape
    <3>2. CASE end = start
      <4>1. block.bytes = <<>>
        <5> DEFINE a == start + 1
        <5>1. a \in Int /\ start \in Int /\ \A i \in a .. start : Searched[i] \in Bytes
          BY <1>1, <2>2
        <5>2. start < a
          BY <2>2
        <5> HIDE DEF a
        <5>3. Len(SubSeq(Searched, a, start)) = 0 /\ SubSeq(Searched, a, start) \in Seq(Bytes)
          BY <5>1, <5>2, SubSeqProperties
        <5> QED
          BY <2>3, <3>1, <3>2, <5>3, EmptySeq DEF a
      <4>2. <<>> \in Seq(Bytes) /\ Len(<<>>) = 0 /\ start + 0 <= Len(Searched)
        BY <1>1, <2>2
      <4> QED
        BY <1>1, <2>2, <2>3, <4>1, <4>2 DEF IsChunk
    <3>3. CASE end # start
      <4>1. end \in Int /\ start < end /\ end <= Len(Searched)
        <5>1. CacheBlock \in Nat
          BY QueryAssumption
        <5>2. most \in Int /\ most <= Len(Searched)
          BY <1>1, <2>2, <3>1, <5>1 DEF Least
        <5> HIDE DEF most
        <5> QED
          BY <1>1, <2>1, <2>2, <3>3, <5>2
      <4>2. IsChunk(Searched, 0)
        BY <1>1 DEF IsChunk
      <4>3. IsChunk(SubSeq(Searched, start + 1, end), 0 + start)
        BY <1>1, <2>2, <4>1, <4>2, ChunkOf
      <4> QED
        BY <2>2, <2>3, <3>1, <4>3
    <3> QED
      BY <3>2, <3>3
  <2> QED
    BY <2>2, <2>3, <2>4
<1> QED
  BY <1>2, <1>3

\* The read finds no bytes, and the search is given up.
LEMMA EmptyRead ==
    ASSUME FoundPart, ShownPart, SearchFails, UNCHANGED <<search, searchDisk, session, store>>, CachePart'
    PROVE  FoundPart'
<1>1. find'.phase = "failed" /\ find'.demand = NoHit
  BY FindIs DEF SearchFails
<1>2. quantum' = NoQuantum
  BY DEF SearchFails
<1>3. /\ Searched' = Searched /\ SearchedRecords' = SearchedRecords
      /\ SearchedHits' = SearchedHits
  BY SearchSame
<1>4. StatusPart'
  BY <1>1, <1>2, <1>3, AtRest DEF FoundPart, StatusPart, InSearch, Pending
<1>5. QueryShape'
  BY <1>2, <1>3, AtRest DEF FoundPart, QueryShape
<1>6. RecordPart'
  BY <1>3 DEF FoundPart, RecordPart, Pending, IsPending
<1>7. BufferPart'
  BY <1>2, AtRest DEF BufferPart
<1>8. HitPart'
  BY <1>1, <1>3 DEF FoundPart, HitPart
<1> QED
  BY <1>4, <1>5, <1>6, <1>7, <1>8 DEF FoundPart

\* Where the loop reads, and how much it may use.
LEMMA WantedIs ==
    ASSUME FoundPart, quantum.pc = "read"
    PROVE  /\ Wanted.at \in Nat /\ Wanted.at <= Len(Searched) /\ Wanted.size \in Int
           /\ Pending => /\ Wanted.at = session.pending.cursor
                         /\ Wanted.at + Wanted.size <= session.pending.span.end
           /\ ~ Pending => Wanted.at = session.s.offset
<1>1. QueryShape /\ RecordPart /\ BufferPart /\ quantum.left \in Int
  BY DEF FoundPart, QueryShape
<1>2. /\ search.csv \in BOOLEAN /\ Searched \in Seq(Bytes) /\ Len(Searched) \in Nat
      /\ Len(SearchedRecords) \in Nat
  BY <1>1, SearchFacts
<1>3. SearchBuffer \in Int
  BY QueryAssumption DEF ValidConfig
<1>4. CASE Pending
  <2> DEFINE p == session.pending
  <2>1. IsPending(p, session.nextRow)
    BY <1>1, <1>4 DEF RecordPart
  <2>2. p.span.start \in Nat /\ p.span.end \in Nat /\ p.span.end <= Len(Searched)
    BY <1>2, <2>1, RecordsInFile DEF IsPending, SearchedRecords
  <2>3. p.cursor \in p.span.start .. p.span.end
    BY <2>1 DEF IsPending
  <2>4. /\ Wanted.at = p.cursor
        /\ Wanted.size = Least(Least(p.span.end - p.cursor, SearchBuffer), quantum.left)
    BY <1>4 DEF Wanted
  <2> HIDE DEF p
  <2>5. Wanted.size \in Int /\ Wanted.size <= p.span.end - p.cursor
    BY <1>1, <1>3, <2>2, <2>3, <2>4 DEF Least
  <2> QED
    BY <1>2, <1>4, <2>2, <2>3, <2>4, <2>5 DEF p
<1>5. CASE ~ Pending
  <2> DEFINE s == session.s
  <2>1. Agree(search.csv, Searched, s, session.nextRow)
    BY <1>1, <1>5 DEF RecordPart, BufferPart
  <2>2. s.offset \in Nat /\ s.offset <= Len(Searched)
    BY <1>2, <2>1, AgreeBound
  <2>3. /\ Wanted.at = s.offset
        /\ Wanted.size = Least(Least(SearchSize - s.offset, SearchBuffer), quantum.left)
    BY <1>5 DEF Wanted
  <2>4. SearchSize \in Nat
    BY <1>2 DEF SearchSize, Searched
  <2> HIDE DEF s
  <2>5. Wanted.size \in Int
    BY <1>1, <1>3, <2>2, <2>3, <2>4 DEF Least
  <2> QED
    BY <1>5, <2>2, <2>3, <2>5 DEF s
<1> QED
  BY <1>4, <1>5

\* What a read hands over.
Got(block) ==
    SubSeq(block.bytes, Wanted.at - block.start + 1,
           Least(Wanted.at - block.start + Wanted.size, Len(block.bytes)))

LEMMA GotIs ==
    ASSUME FoundPart, quantum.pc = "read", searchDisk.rev = 0, NEW block \in Blocks(Wanted.at),
           NEW got, got = Got(block), got # <<>>
    PROVE  IsChunk(got, Wanted.at) /\ Len(got) \in Nat /\ (Len(got) <= Wanted.size)
<1> DEFINE at == Wanted.at
           size == Wanted.size
           from == at - block.start
           to == Least(from + size, Len(block.bytes))
<1>1. QueryShape /\ CachePart
  BY DEF FoundPart
<1>2. Searched \in Seq(Bytes)
  BY <1>1, SearchFacts
<1>3. at \in Nat /\ at <= Len(Searched) /\ size \in Int
  BY WantedIs
<1>4. block.start \in Nat /\ block.start <= at /\ IsChunk(block.bytes, block.start)
  BY <1>1, <1>3, BlockIs
<1>5. block.bytes \in Seq(Bytes) /\ Len(block.bytes) \in Nat
  BY <1>4 DEF IsChunk
<1> HIDE DEF at, size
<1>6. from \in Nat /\ block.start + from = at
  BY <1>3, <1>4
<1> HIDE DEF from
<1>7. to \in Int /\ to <= Len(block.bytes) /\ to <= from + size
  BY <1>3, <1>5, <1>6 DEF Least
<1>8. got = SubSeq(block.bytes, from + 1, to)
  BY DEF at, size, from, to, Got
<1> HIDE DEF to
<1>9. CASE from < to
  <2>1. IsChunk(got, block.start + from) /\ Len(got) = to - from
    BY <1>2, <1>4, <1>6, <1>7, <1>8, <1>9, ChunkOf
  <2>2. Len(got) \in Nat /\ Len(got) <= size
    BY <1>3, <1>6, <1>7, <1>9, <2>1
  <2> QED
    BY <1>6, <2>1, <2>2 DEF at, size
<1>10. CASE ~ from < to
  <2> DEFINE a == from + 1
  <2>1. a \in Int /\ to \in Int /\ to < a /\ \A i \in a .. to : block.bytes[i] \in Bytes
    BY <1>6, <1>7, <1>10
  <2>2. got = SubSeq(block.bytes, a, to)
    BY <1>8
  <2> HIDE DEF a
  <2>3. got \in Seq(Bytes) /\ Len(got) = 0
    BY <2>1, <2>2, SubSeqProperties
  <2> QED
    BY <2>3, EmptySeq
<1> QED
  BY <1>9, <1>10

LEMMA ReadFound ==
    ASSUME FoundPart, ShownPart, Read
    PROVE  FoundPart'
<1>1. UNCHANGED <<search, searchDisk, session, store>> /\ quantum.pc = "read"
  BY DEF Read, searchWorld
<1>2. PICK block \in Blocks(Wanted.at) :
          LET from == Wanted.at - block.start
              got == SubSeq(block.bytes, from + 1, Least(from + Wanted.size, Len(block.bytes)))
          IN  /\ cache' = block
              /\ IF got = <<>> THEN SearchFails
                 ELSE quantum' = [quantum EXCEPT !.pc = "use", !.buf = got] /\ UNCHANGED find
  BY DEF Read
<1> DEFINE got == Got(block)
<1>3. /\ cache' = block
      /\ \/ SearchFails
         \/ got # <<>> /\ quantum' = [quantum EXCEPT !.pc = "use", !.buf = got] /\ UNCHANGED find
  BY <1>2 DEF Got
<1>4. SearchedRecords' = SearchedRecords /\ Searched' = Searched /\ SearchedHits' = SearchedHits
  BY <1>1, SearchSame
<1>5. CachePart'
  <2>1. Wanted.at \in Nat /\ Wanted.at <= Len(Searched)
    BY <1>1, WantedIs
  <2>2. block.start \in Nat /\ (searchDisk.rev = 0 => IsChunk(block.bytes, block.start))
    BY <2>1, BlockIs DEF FoundPart
  <2>3. cache'.start \in Nat /\ (searchDisk'.rev = 0 => IsChunk(cache'.bytes, cache'.start))
    BY <1>1, <1>3, <2>2
  <2>4. IsChunk(cache.bytes, cache.start)' <=> IsChunk(cache'.bytes, cache'.start)
    BY <1>4 DEF IsChunk
  <2> QED
    BY <2>3, <2>4 DEF CachePart
<1>6. CASE SearchFails
  BY <1>1, <1>5, <1>6, EmptyRead
<1>7. CASE got # <<>> /\ quantum' = [quantum EXCEPT !.pc = "use", !.buf = got] /\ UNCHANGED find
  <2>1. /\ QueryShape /\ RecordPart /\ StatusPart /\ HitPart /\ BufferPart
        /\ IsQuantum(quantum) /\ quantum.left \in Int /\ quantum.n = 0
    BY <1>1 DEF FoundPart, QueryShape
  <2>2. /\ IsQuantum(quantum') /\ quantum'.pc = "use" /\ quantum'.left = quantum.left /\ quantum'.n = 0
        /\ quantum'.buf = got
    <3> HIDE DEF got
    <3> QED
      BY <1>7, <2>1 DEF IsQuantum
  <2>3. QueryShape'
    BY <1>1, <1>4, <2>1, <2>2 DEF QueryShape
  <2>4. RecordPart' /\ StatusPart'
    BY <1>1, <1>4, <1>7, <2>1, <2>2 DEF RecordPart, StatusPart, InSearch, Pending, IsPending
  <2>5. HitPart'
    BY <1>1, <1>4, <1>7, <2>1, <2>2
    DEF HitPart, PlacePart, Capped, Pending, HitsOf, HitsUpTo, Complete, Matching
  <2>6. BufferPart'
    <3>1. ASSUME searchDisk.rev = 0
          PROVE  IsChunk(got, Wanted.at) /\ Len(got) \in Nat /\ Len(got) <= Wanted.size
      BY <1>1, <1>7, <3>1, GotIs
    <3>2. /\ Wanted.at \in Nat /\ Wanted.size \in Int
          /\ Pending => /\ Wanted.at = session.pending.cursor
                        /\ Wanted.at + Wanted.size <= session.pending.span.end
          /\ ~ Pending => Wanted.at = session.s.offset
      BY <1>1, WantedIs
    <3> HIDE DEF got
    <3>3. ASSUME searchDisk.rev = 0, Pending
          PROVE  session.pending.cursor + Len(got) <= session.pending.span.end
      <4>1. IsPending(session.pending, session.nextRow)
        BY <2>1, <3>3 DEF RecordPart
      <4>2. session.pending.span.end \in Int
        <5>1. search.csv \in BOOLEAN /\ Searched \in Seq(Bytes)
          BY <2>1, SearchFacts
        <5> QED
          BY <4>1, <5>1, RecordsInFile DEF IsPending, SearchedRecords
      <4> DEFINE end == session.pending.span.end
                 at == Wanted.at
                 size == Wanted.size
                 n == Len(got)
      <4>3. at \in Nat /\ size \in Int /\ n \in Nat /\ n <= size /\ at + size <= end /\ end \in Int
            /\ at = session.pending.cursor
        BY <3>1, <3>2, <3>3, <4>2
      <4> HIDE DEF end, at, size, n
      <4>4. at + n <= end
        BY <4>3
      <4> QED
        BY <4>3, <4>4 DEF end, n
    <3>4. ASSUME searchDisk.rev = 0
          PROVE  0 <= Len(got) /\ (Pending => IsChunk(got, session.pending.cursor))
                 /\ (~ Pending => IsChunk(got, session.s.offset))
      BY <3>1, <3>2, <3>4
    <3>6. Pending' = Pending /\ session' = session /\ searchDisk' = searchDisk /\ (Pending \/ ~ session.over)
      BY <1>1, <2>1 DEF BufferPart, Pending
    <3>8. /\ IsChunk(quantum.buf, session.pending.cursor)' <=> IsChunk(got, session.pending.cursor)
          /\ IsChunk(quantum.buf, session.s.offset)' <=> IsChunk(got, session.s.offset)
      BY <1>4, <2>2, <3>6 DEF IsChunk
    <3> QED
      BY <2>2, <3>3, <3>4, <3>6, <3>8 DEF BufferPart
  <2> QED
    BY <1>5, <2>3, <2>4, <2>5, <2>6 DEF FoundPart
<1> QED
  BY <1>3, <1>6, <1>7

\* What the scanner makes of bytes that follow it.
LEMMA FeedOneIs ==
    ASSUME QueryShape, NEW k \in Nat, Agree(search.csv, Searched, session.s, k),
           IsChunk(quantum.buf, session.s.offset), NEW n \in 0 .. Len(quantum.buf),
           NEW fed, fed = FeedOne(SubSeq(quantum.buf, 1, n))
    PROVE  /\ fed.n \in Nat
           /\ fed.out = <<>> => Agree(search.csv, Searched, fed.s, k)
           /\ fed.out # <<>> => /\ fed.stopped /\ k < Len(SearchedRecords)
                                /\ fed.out[1] = SearchedRecords[k + 1]
                                /\ Agree(search.csv, Searched, fed.s, k + 1)
<1> DEFINE s == session.s
           buf == quantum.buf
           chunk == SubSeq(buf, 1, n)
<1>1. /\ search.csv \in BOOLEAN /\ Searched \in Seq(Bytes) /\ Len(Searched) \in Nat
      /\ Len(SearchedRecords) \in Nat
  BY SearchFacts
<1>2. /\ buf \in Seq(Bytes) /\ Len(buf) \in Nat /\ s.offset + Len(buf) <= Len(Searched)
      /\ \A i \in 1 .. Len(buf) : buf[i] = Searched[s.offset + i]
  BY DEF IsChunk
<1>3. s.offset \in Nat
  BY <1>1, AgreeBound
<1>4. n \in Nat /\ n <= Len(buf) /\ s.offset + n <= Len(Searched) /\ 0 + n = n
  BY <1>1, <1>2, <1>3
<1>5. Len(chunk) = n /\ \A i \in 1 .. n : chunk[i] = buf[i]
  <2>1. /\ Len(SubSeq(buf, 0 + 1, 0 + n)) = n
        /\ \A i \in 1 .. n : SubSeq(buf, 0 + 1, 0 + n)[i] = buf[0 + i]
    <3> HIDE DEF buf
    <3> QED
      BY <1>2, <1>4, ChunkIs
  <2> HIDE DEF buf
  <2> QED
    BY <1>4, <2>1
<1>6. \A i \in 1 .. n : chunk[i] = Searched[s.offset + i]
  BY <1>2, <1>4, <1>5
<1> HIDE DEF chunk
<1>7. Held(search.csv, Searched, k, s.offset, 1, fed, n)
  <2>1. fed = Feed(search.csv, s, chunk, 1)
    BY DEF FeedOne, chunk
  <2> DEFINE stop == 1
  <2>2. stop \in Nat /\ 0 < stop
    OBVIOUS
  <2> HIDE DEF stop
  <2>3. Held(search.csv, Searched, k, s.offset, stop, Feed(search.csv, s, chunk, stop), n)
    BY <1>1, <1>4, <1>5, <1>6, <2>2, FeedAgrees
  <2> QED
    BY <2>1, <2>3 DEF stop
<1>8. /\ fed.n \in Nat /\ fed.out \in Seq(Spans) /\ fed.stopped \in BOOLEAN
      /\ Agree(search.csv, Searched, fed.s, k + Len(fed.out))
      /\ \A j \in 1 .. Len(fed.out) : Scanned(search.csv, Searched)[k + j] = fed.out[j]
      /\ fed.stopped => Len(fed.out) = 1
      /\ ~ fed.stopped => Len(fed.out) < 1
  BY <1>7 DEF Held, IsTurn
<1>9. CASE fed.out = <<>>
  <2>1. k + Len(fed.out) = k
    BY <1>9
  <2> QED
    BY <1>8, <1>9, <2>1
<1>10. CASE fed.out # <<>>
  <2>1. Len(fed.out) \in Nat /\ Len(fed.out) # 0
    BY <1>8, <1>10, EmptySeq
  <2>2. fed.stopped /\ Len(fed.out) = 1
    BY <1>8, <2>1
  <2>3. fed.out[1] = SearchedRecords[k + 1] /\ Agree(search.csv, Searched, fed.s, k + 1)
    <3>1. k + Len(fed.out) = k + 1 /\ 1 \in 1 .. Len(fed.out)
      <4> DEFINE m == Len(fed.out)
      <4>1. m = 1
        BY <2>2
      <4> HIDE DEF m
      <4>2. k + m = k + 1 /\ 1 \in 1 .. m
        BY <4>1
      <4> QED
        BY <4>2 DEF m
    <3>2. Agree(search.csv, Searched, fed.s, k + 1)
      BY <1>8, <3>1
    <3>3. Scanned(search.csv, Searched)[k + 1] = fed.out[1]
      BY <1>8, <3>1
    <3> QED
      BY <3>2, <3>3 DEF SearchedRecords
  <2>4. k + 1 <= Len(SearchedRecords)
    BY <1>1, <2>3, AgreeBound DEF SearchedRecords
  <2> QED
    BY <1>1, <1>8, <1>10, <2>2, <2>3, <2>4
<1> QED
  BY <1>9, <1>10

\* The scanner goes on behind the bytes it was given; nothing is matched.
LEMMA ScannedOn ==
    ASSUME FoundPart, UNCHANGED <<search, searchDisk, cache, store, find>>,
           quantum.pc = "use", ~ Pending, IsQuantum(quantum'), quantum'.left \in Int, quantum'.n = 0,
           quantum'.pc \in {"loop", "validate"}, NEW s, NEW status \in {"running", "cancelled"},
           quantum'.pc = "loop" => status = "running",
           Agree(search.csv, Searched, s, session.nextRow),
           SessionIs(session', s, session.over, session.pending, session.nextRow, status)
    PROVE  FoundPart'
<1>1. QueryShape /\ RecordPart /\ StatusPart /\ HitPart /\ BufferPart
  BY DEF FoundPart
<1>2. session.status = "running" /\ find.phase # "failed"
  BY <1>1 DEF StatusPart, InSearch
<1>3. SearchedRecords' = SearchedRecords /\ Searched' = Searched /\ SearchedHits' = SearchedHits
  BY SearchSame
<1>4. ~ Pending'
  BY DEF Pending, SessionIs
<1>5. store.entries = HitsOf(session'.nextRow)
  BY <1>1, <1>2 DEF HitPart, PlacePart, Capped, SessionIs
<1>6. RecordPart'
  BY <1>1, <1>3, <1>4 DEF RecordPart, SessionIs
<1> QED
  BY <1>2, <1>4, <1>5, <1>6, GoesOnFound DEF SessionIs

\* A record begins to be matched.
LEMMA ScannedRecord ==
    ASSUME FoundPart, UNCHANGED <<search, searchDisk, cache, store, find>>,
           quantum.pc = "use", ~ Pending, IsQuantum(quantum'), quantum'.left \in Int, quantum'.n = 0,
           quantum'.pc \in {"loop", "validate"}, NEW s, NEW span,
           session.nextRow < Len(SearchedRecords), span = SearchedRecords[session.nextRow + 1],
           Agree(search.csv, Searched, s, session.nextRow + 1),
           SessionIs(session', s, session.over, NewPending(session.nextRow, span),
                     session.nextRow + 1, "running")
    PROVE  FoundPart'
<1> DEFINE k == session.nextRow
           p == NewPending(k, span)
<1>1. QueryShape /\ RecordPart /\ StatusPart /\ HitPart /\ BufferPart /\ k \in Nat
  BY DEF FoundPart, RecordPart
<1>2. session.status = "running" /\ find.phase # "failed" /\ ~ session.over
  BY <1>1 DEF StatusPart, InSearch, BufferPart
<1>3. SearchedRecords' = SearchedRecords /\ Searched' = Searched /\ SearchedHits' = SearchedHits
  BY SearchSame
<1>4. store.entries = HitsOf(k)
  BY <1>1, <1>2 DEF HitPart, PlacePart, Capped
<1> HIDE DEF p
<1>5. IsPending(p, k + 1) /\ Complete(p, p.cursor, p.state) /\ p # NoPending
  BY <1>1, <1>4, Queues DEF p
<1>6. SessionIs(session', s, session.over, p, k + 1, "running")
  BY DEF p
<1>7. Pending' /\ session'.pending = p /\ session'.nextRow = k + 1 /\ ~ session'.over /\ session'.s = s
  BY <1>2, <1>5, <1>6 DEF Pending, SessionIs
<1>8. IsPending(session.pending, session.nextRow)'
  BY <1>3, <1>5, <1>7 DEF IsPending
<1>9. RecordPart'
  BY <1>1, <1>3, <1>7, <1>8 DEF RecordPart
<1> QED
  BY <1>2, <1>5, <1>6, <1>7, <1>9, GoesOnFound DEF SessionIs

LEMMA ScanFound == FoundPart /\ Scan => FoundPart'
<1> SUFFICES ASSUME FoundPart, Scan PROVE FoundPart'
  OBVIOUS
<1>1. /\ UNCHANGED <<search, searchDisk, cache, store, find>>
      /\ quantum.pc = "use" /\ ~ Pending /\ HandleSound
  BY DEF Scan, searchWorld
<1>2. PICK n \in 0 .. Len(quantum.buf) :
          LET fed == FeedOne(SubSeq(quantum.buf, 1, n))
              found == [session EXCEPT !.s = fed.s]
          IN  \/ /\ n = Len(quantum.buf)
                 /\ session' = IF fed.out = <<>> THEN found ELSE Queued(found, fed.out[1])
                 /\ quantum' = Goes("loop", quantum.left - fed.n)
              \/ /\ n < Len(quantum.buf) /\ n % SearchCheckEvery = 0 /\ ~ fed.stopped
                 /\ session' = [found EXCEPT !.status = "cancelled"]
                 /\ quantum' = [NoQuantum EXCEPT !.pc = "validate"]
  BY DEF Scan
<1> DEFINE fed == FeedOne(SubSeq(quantum.buf, 1, n))
           found == [session EXCEPT !.s = fed.s]
           k == session.nextRow
<1>3. \/ /\ session' = IF fed.out = <<>> THEN found ELSE Queued(found, fed.out[1])
         /\ quantum' = Goes("loop", quantum.left - fed.n)
      \/ /\ ~ fed.stopped
         /\ session' = [found EXCEPT !.status = "cancelled"]
         /\ quantum' = [NoQuantum EXCEPT !.pc = "validate"]
  BY <1>2
<1>4. /\ QueryShape /\ RecordPart /\ BufferPart /\ StatusPart /\ IsSession(session)
      /\ quantum.left \in Int
  BY DEF FoundPart, QueryShape
<1>5. searchDisk.rev = 0
  BY <1>1, <1>4 DEF HandleSound, QueryShape
<1>6. /\ Agree(search.csv, Searched, session.s, k) /\ k \in Nat
      /\ IsChunk(quantum.buf, session.s.offset)
  BY <1>1, <1>4, <1>5 DEF RecordPart, BufferPart
<1> HIDE DEF fed
<1>7. /\ fed.n \in Nat
      /\ fed.out = <<>> => Agree(search.csv, Searched, fed.s, k)
      /\ fed.out # <<>> => /\ fed.stopped /\ k < Len(SearchedRecords)
                           /\ fed.out[1] = SearchedRecords[k + 1]
                           /\ Agree(search.csv, Searched, fed.s, k + 1)
  BY <1>4, <1>6, FeedOneIs DEF fed
<1>8. session.status = "running"
  BY <1>1, <1>4 DEF StatusPart, InSearch
<1>9. SessionIs(found, fed.s, session.over, session.pending, k, "running")
  BY <1>4, <1>8, ScannerIs
<1> HIDE DEF found
<1>10. CASE /\ ~ fed.stopped
            /\ session' = [found EXCEPT !.status = "cancelled"]
            /\ quantum' = [NoQuantum EXCEPT !.pc = "validate"]
  <2>1. fed.out = <<>>
    BY <1>7, <1>10
  <2>2. SessionIs(session', fed.s, session.over, session.pending, k, "cancelled")
    <3>1. IsSession(found) /\ found.s = fed.s /\ found.over = session.over
          /\ found.pending = session.pending /\ found.nextRow = k
      BY <1>9 DEF SessionIs
    <3>2. SessionIs(session', found.s, found.over, found.pending, found.nextRow, "cancelled")
      BY <1>10, <3>1, StatusIs
    <3> QED
      BY <3>1, <3>2
  <2>3. IsQuantum(quantum') /\ quantum'.pc = "validate" /\ quantum'.left = 0 /\ quantum'.n = 0
    BY <1>10, OtherQuantumIs
  <2> QED
    BY <1>1, <1>7, <2>1, <2>2, <2>3, ScannedOn
<1>11. CASE /\ session' = IF fed.out = <<>> THEN found ELSE Queued(found, fed.out[1])
            /\ quantum' = Goes("loop", quantum.left - fed.n)
  <2>1. IsQuantum(quantum') /\ quantum'.pc \in {"loop", "validate"} /\ quantum'.left \in Int /\ quantum'.n = 0
    <3> DEFINE left == quantum.left - fed.n
    <3>1. left \in Int /\ quantum' = Goes("loop", left)
      BY <1>4, <1>7, <1>11
    <3> HIDE DEF left
    <3> QED
      BY <3>1, GoesIs
  <2>2. CASE fed.out = <<>>
    BY <1>1, <1>7, <1>9, <1>11, <2>1, <2>2, ScannedOn
  <2>3. CASE fed.out # <<>>
    <3> DEFINE span == fed.out[1]
    <3>1. session' = Queued(found, span) /\ IsSession(found) /\ found.s = fed.s /\ found.over = session.over
          /\ found.nextRow = k /\ found.status = "running"
      BY <1>9, <1>11, <2>3 DEF SessionIs
    <3> HIDE DEF span
    <3>2. SessionIs(session', fed.s, session.over, NewPending(k, span), k + 1, "running")
      <4>1. SessionIs(Queued(found, span), found.s, found.over, NewPending(found.nextRow, span),
                      found.nextRow + 1, found.status)
        BY <3>1, QueuedIs
      <4> QED
        BY <3>1, <4>1
    <3>3. span = SearchedRecords[k + 1] /\ k < Len(SearchedRecords) /\ Agree(search.csv, Searched, fed.s, k + 1)
      BY <1>7, <2>3 DEF span
    <3> QED
      BY <1>1, <2>1, <3>2, <3>3, ScannedRecord
  <2> QED
    BY <2>2, <2>3
<1> QED
  BY <1>3, <1>10, <1>11

LEMMA BeginMatchFound == FoundPart /\ BeginMatch => FoundPart'
<1> SUFFICES ASSUME FoundPart, BeginMatch PROVE FoundPart'
  OBVIOUS
<1>1. /\ UNCHANGED <<search, searchDisk, cache, session, store, find>>
      /\ quantum.pc = "use" /\ Pending /\ HandleSound
      /\ quantum' = [quantum EXCEPT !.pc = "match", !.state = session.pending.state]
  BY DEF BeginMatch, searchWorld
<1>2. /\ QueryShape /\ CachePart /\ RecordPart /\ StatusPart /\ BufferPart /\ HitPart
      /\ IsQuantum(quantum) /\ quantum.left \in Int /\ quantum.n = 0
  BY <1>1 DEF FoundPart, QueryShape
<1>3. searchDisk.rev = 0
  BY <1>1, <1>2 DEF HandleSound, QueryShape
<1> DEFINE state == session.pending.state
<1>4. /\ IsQuantum(quantum') /\ quantum'.pc = "match" /\ quantum'.left = quantum.left
      /\ quantum'.n = 0 /\ quantum'.buf = quantum.buf /\ quantum'.state = state
  <2> HIDE DEF state
  <2>1. quantum' = [quantum EXCEPT !.pc = "match", !.state = state]
    BY <1>1 DEF state
  <2> QED
    BY <1>2, <2>1 DEF IsQuantum
<1>5. SearchedRecords' = SearchedRecords /\ Searched' = Searched /\ SearchedHits' = SearchedHits
  BY <1>1, SearchSame
<1>6. QueryShape'
  BY <1>1, <1>2, <1>4, <1>5 DEF QueryShape
<1>7. CachePart' /\ RecordPart'
  BY <1>1, <1>2, <1>5 DEF CachePart, RecordPart, IsChunk, Pending, IsPending
<1>8. StatusPart' /\ BufferPart'
  BY <1>1, <1>2, <1>3, <1>4, <1>5 DEF StatusPart, BufferPart, InSearch, Pending, IsChunk
<1>9. HitPart'
  <2>1. find.phase # "failed"
    BY <1>1, <1>2 DEF StatusPart
  <2>2. PlacePart /\ ~ Capped
    BY <1>1, <1>2, <2>1 DEF HitPart, Capped, StatusPart, InSearch
  <2> DEFINE p == session.pending
  <2>3. Complete(p, p.cursor, p.state)
    BY <1>1, <2>2 DEF PlacePart
  <2>4. p.cursor + 0 = p.cursor
    <3>1. IsPending(p, session.nextRow)
      BY <1>1, <1>2 DEF RecordPart
    <3>2. p.span.start \in Int /\ p.span.end \in Int
      <4>1. search.csv \in BOOLEAN /\ Searched \in Seq(Bytes)
        BY <1>2, SearchFacts
      <4> QED
        BY <3>1, <4>1, RecordsInFile DEF IsPending, SearchedRecords
    <3>3. p.cursor \in Int
      BY <3>1, <3>2 DEF IsPending
    <3> HIDE DEF p
    <3> QED
      BY <3>3
  <2>5. Complete(p, p.cursor + quantum'.n, quantum'.state)
    BY <1>4, <2>3, <2>4
  <2>6. Complete(session.pending, session.pending.cursor + quantum.n, quantum.state)'
    BY <1>1, <1>5, <2>5 DEF Complete, Matching, HitsUpTo
  <2>7. ~ Capped' /\ Pending'
    BY <1>1, <1>4, <2>2 DEF Capped, Pending
  <2> QED
    BY <1>1, <1>2, <1>4, <1>5, <2>6, <2>7 DEF HitPart, PlacePart
<1> QED
  BY <1>6, <1>7, <1>8, <1>9 DEF FoundPart

\* The session, and its record that is matched, in parts.
Sess(s, over, pending, nextRow, examined, status) ==
    [s |-> s, over |-> over, pending |-> pending, nextRow |-> nextRow, examined |-> examined,
     status |-> status]
Pend(row, span, cursor, state) == [row |-> row, span |-> span, cursor |-> cursor, state |-> state]

LEMMA SetCursor ==
    ASSUME NEW s, NEW over, NEW row, NEW span, NEW cursor, NEW state, NEW nextRow, NEW examined,
           NEW status, NEW v
    PROVE  [Sess(s, over, Pend(row, span, cursor, state), nextRow, examined, status)
              EXCEPT !.pending.cursor = v]
             = Sess(s, over, Pend(row, span, v, state), nextRow, examined, status)
BY DEF Sess, Pend

LEMMA SetMatched ==
    ASSUME NEW s, NEW over, NEW row, NEW span, NEW cursor, NEW state, NEW nextRow, NEW examined,
           NEW status, NEW v
    PROVE  [Sess(s, over, Pend(row, span, cursor, state), nextRow, examined, status)
              EXCEPT !.pending.state = v]
             = Sess(s, over, Pend(row, span, cursor, v), nextRow, examined, status)
BY DEF Sess, Pend

MatchedTo(p, n, state) == [row |-> p.row, span |-> p.span, cursor |-> p.cursor + n, state |-> state]

LEMMA CursorIs ==
    ASSUME IsSession(session), NEW row, IsPending(session.pending, row)
    PROVE  SessionIs(Cursor, session.s, session.over, MatchedTo(session.pending, quantum.n, quantum.state),
                     session.nextRow, session.status)
<1> DEFINE p == session.pending
           c == session.pending.cursor + quantum.n
           e == quantum.state
<1> DEFINE s == session.s
           over == session.over
           next == session.nextRow
           examined == session.examined
           status == session.status
<1>1. session = Sess(s, over, Pend(p.row, p.span, p.cursor, p.state), next, examined, status)
  BY DEF IsSession, IsPending, Sess, Pend
<1>2. Cursor = [[session EXCEPT !.pending.cursor = c] EXCEPT !.pending.state = e]
  <2>1. Cursor = [session EXCEPT !.pending.cursor = c, !.pending.state = e]
    BY DEF Cursor
  <2> HIDE DEF c, e
  <2> QED
    BY <2>1
<1> DEFINE t == Sess(s, over, Pend(p.row, p.span, c, e), next, examined, status)
<1>3. Cursor = t
  <2> DEFINE u == [session EXCEPT !.pending.cursor = c]
             half == Sess(s, over, Pend(p.row, p.span, c, p.state), next, examined, status)
             row1 == p.row
             span1 == p.span
             cursor1 == p.cursor
             state1 == p.state
  <2>1. u = half
    <3> HIDE DEF s, over, next, examined, status, c
    <3>1. [Sess(s, over, Pend(row1, span1, cursor1, state1), next, examined, status)
              EXCEPT !.pending.cursor = c]
             = Sess(s, over, Pend(row1, span1, c, state1), next, examined, status)
      <4> HIDE DEF row1, span1, cursor1, state1
      <4> QED
        BY SetCursor
    <3> QED
      BY <1>1, <3>1
  <2>2. [half EXCEPT !.pending.state = e] = t
    <3>1. [Sess(s, over, Pend(row1, span1, c, state1), next, examined, status)
              EXCEPT !.pending.state = e]
             = Sess(s, over, Pend(row1, span1, c, e), next, examined, status)
      <4> HIDE DEF row1, span1, state1, s, over, next, examined, status, c, e
      <4> QED
        BY SetMatched
    <3> QED
      BY <3>1
  <2>3. Cursor = [u EXCEPT !.pending.state = e]
    BY <1>2
  <2> HIDE DEF u, half, t, e
  <2> QED
    BY <2>1, <2>2, <2>3
<1>4. /\ t = [s |-> t.s, over |-> t.over, pending |-> t.pending, nextRow |-> t.nextRow,
              examined |-> t.examined, status |-> t.status]
      /\ t.s = session.s /\ t.over = session.over /\ t.pending = MatchedTo(p, quantum.n, quantum.state)
      /\ t.nextRow = session.nextRow /\ t.status = session.status
  BY DEF MatchedTo, Sess, Pend
<1> HIDE DEF t
<1>5. SessionIs(t, session.s, session.over, MatchedTo(p, quantum.n, quantum.state), session.nextRow, session.status)
  BY <1>4 DEF SessionIs, IsSession
<1> QED
  BY <1>3, <1>5

\* The numbers of a record that is matched.
LEMMA PendingIs ==
    ASSUME FoundPart, Pending
    PROVE  LET p == session.pending
           IN  /\ IsPending(p, session.nextRow) /\ session.nextRow \in Nat
               /\ p.row \in Nat /\ p.row + 1 = session.nextRow /\ p.row < Len(SearchedRecords)
               /\ p.span = SearchedRecords[p.row + 1]
               /\ p.span.start \in Nat /\ p.span.end \in Nat /\ p.span.end <= Len(Searched)
               /\ p.cursor \in Nat /\ p.span.start <= p.cursor /\ p.cursor <= p.span.end
<1> DEFINE p == session.pending
<1>1. /\ search.csv \in BOOLEAN /\ Searched \in Seq(Bytes) /\ Len(Searched) \in Nat
      /\ Len(SearchedRecords) \in Nat
  BY SearchFacts DEF FoundPart
<1>2. IsPending(p, session.nextRow) /\ session.nextRow \in Nat
  BY DEF FoundPart, RecordPart
<1>3. p.span.start \in Nat /\ p.span.end \in Nat /\ p.span.end <= Len(Searched)
  BY <1>1, <1>2, RecordsInFile DEF IsPending, SearchedRecords
<1>4. p.row = session.nextRow - 1 /\ session.nextRow \in 1 .. Len(SearchedRecords)
      /\ p.span = SearchedRecords[session.nextRow] /\ p.cursor \in p.span.start .. p.span.end
  BY <1>2 DEF IsPending
<1> HIDE DEF p
<1>5. p.row \in Nat /\ p.row + 1 = session.nextRow /\ p.row < Len(SearchedRecords)
  BY <1>1, <1>4
<1>6. p.cursor \in Nat /\ p.span.start <= p.cursor /\ p.cursor <= p.span.end
  BY <1>3, <1>4
<1> QED
  BY <1>2, <1>3, <1>4, <1>5, <1>6 DEF p

\* The bytes of the record up to the place the matcher has come to.
LEMMA MatchPlace ==
    ASSUME FoundPart, quantum.pc \in {"match", "full"}
    PROVE  LET p == session.pending
               c == p.cursor + quantum.n
           IN  /\ Pending /\ c \in Nat /\ p.span.start <= c /\ c <= p.span.end
               /\ quantum.n <= Len(quantum.buf) /\ Len(quantum.buf) \in Nat /\ quantum.n \in Nat
               /\ quantum.n < Len(quantum.buf) =>
                     c < p.span.end /\ quantum.buf[quantum.n + 1] = Searched[c + 1]
<1> DEFINE p == session.pending
           n == quantum.n
           buf == quantum.buf
           end == p.span.end
           at == p.cursor
<1>1. /\ Pending /\ n <= Len(buf) /\ IsChunk(buf, at) /\ at + Len(buf) <= end /\ n \in Nat
  BY DEF FoundPart, BufferPart, QueryShape
<1>2. at \in Nat /\ end \in Nat /\ p.span.start \in Nat /\ p.span.start <= at /\ at <= end
  BY <1>1, PendingIs
<1>3. buf \in Seq(Bytes) /\ Len(buf) \in Nat /\ \A i \in 1 .. Len(buf) : buf[i] = Searched[at + i]
  BY <1>1 DEF IsChunk
<1> DEFINE start == p.span.start
           m == Len(buf)
<1>4. /\ n \in Nat /\ m \in Nat /\ at \in Nat /\ end \in Nat /\ start \in Nat
      /\ n <= m /\ at + m <= end /\ start <= at
      /\ \A i \in 1 .. m : buf[i] = Searched[at + i]
  BY <1>1, <1>2, <1>3
<1> HIDE DEF n, buf, end, at, start, m
<1>5. at + n \in Nat /\ start <= at + n /\ at + n <= end
  BY <1>4
<1>6. n < m => at + n < end /\ buf[n + 1] = Searched[at + n + 1]
  <2> SUFFICES ASSUME n < m PROVE at + n < end /\ buf[n + 1] = Searched[at + n + 1]
    OBVIOUS
  <2>1. n + 1 \in 1 .. m /\ at + (n + 1) = at + n + 1 /\ at + n < end
    BY <1>4
  <2> QED
    BY <1>4, <2>1
<1> QED
  BY <1>1, <1>4, <1>5, <1>6 DEF n, buf, end, at, start, m

LEMMA CancelMatchFound == FoundPart /\ CancelMatch => FoundPart'
<1> SUFFICES ASSUME FoundPart, CancelMatch PROVE FoundPart'
  OBVIOUS
<1> DEFINE p == session.pending
           moved == MatchedTo(p, quantum.n, quantum.state)
<1>1. /\ UNCHANGED <<search, searchDisk, cache, store, find>>
      /\ quantum.pc = "match"
      /\ session' = [Cursor EXCEPT !.status = "cancelled"]
      /\ quantum' = [NoQuantum EXCEPT !.pc = "validate"]
  BY DEF CancelMatch, searchWorld
<1>2. /\ QueryShape /\ RecordPart /\ StatusPart /\ HitPart /\ IsSession(session)
  BY DEF FoundPart, QueryShape
<1>3. Pending /\ p.cursor + quantum.n \in Nat /\ p.span.start <= p.cursor + quantum.n
      /\ p.cursor + quantum.n <= p.span.end
  BY <1>1, MatchPlace
<1>4. IsPending(p, session.nextRow) /\ p.span.start \in Nat /\ p.span.end \in Nat /\ p.row \in Nat
  BY <1>3, PendingIs
<1>5. SessionIs(session', session.s, session.over, moved, session.nextRow, "cancelled")
  <2>1. SessionIs(Cursor, session.s, session.over, moved, session.nextRow, session.status)
    BY <1>2, <1>4, CursorIs
  <2> HIDE DEF moved
  <2>2. SessionIs(session', Cursor.s, Cursor.over, Cursor.pending, Cursor.nextRow, "cancelled")
    BY <1>1, <2>1, StatusIs DEF SessionIs
  <2> QED
    BY <2>1, <2>2 DEF SessionIs
<1>6. IsQuantum(quantum') /\ quantum'.pc = "validate" /\ quantum'.left = 0 /\ quantum'.n = 0
  BY <1>1, OtherQuantumIs
<1>7. find.phase # "failed" /\ session.status = "running"
  BY <1>1, <1>2 DEF StatusPart, InSearch
<1>8. Complete(p, p.cursor + quantum.n, quantum.state)
  BY <1>1, <1>2, <1>7 DEF HitPart, PlacePart
<1>9. /\ moved.row = p.row /\ moved.span = p.span /\ moved.cursor = p.cursor + quantum.n
      /\ moved.state = quantum.state
      /\ moved = [row |-> moved.row, span |-> moved.span, cursor |-> moved.cursor, state |-> moved.state]
  BY DEF MatchedTo
<1> HIDE DEF moved
<1>10. Complete(moved, moved.cursor, moved.state)
  BY <1>8, <1>9 DEF Complete
<1>11. IsPending(moved, session.nextRow)
  <2>1. p.cursor + quantum.n \in p.span.start .. p.span.end
    BY <1>3, <1>4
  <2> QED
    BY <1>4, <1>9, <2>1 DEF IsPending
<1>12. SearchedRecords' = SearchedRecords /\ Searched' = Searched /\ SearchedHits' = SearchedHits
  BY <1>1, SearchSame
<1>13. Pending' /\ session'.pending = moved
  BY <1>4, <1>5, <1>9 DEF Pending, SessionIs, NoPending
<1>14. RecordPart'
  <2>1. IsPending(session.pending, session.nextRow)'
    BY <1>5, <1>11, <1>12, <1>13 DEF IsPending, SessionIs
  <2> QED
    BY <1>1, <1>2, <1>5, <1>12, <2>1 DEF RecordPart, SessionIs
<1> QED
  BY <1>1, <1>5, <1>6, <1>7, <1>10, <1>13, <1>14, GoesOnFound DEF SessionIs

\* The record, once its bytes so far are counted.
LEMMA MovedIs ==
    ASSUME FoundPart, quantum.pc \in {"match", "full"}, NEW moved,
           moved = MatchedTo(session.pending, quantum.n, quantum.state)
    PROVE  /\ SessionIs(Cursor, session.s, session.over, moved, session.nextRow, session.status)
           /\ IsPending(moved, session.nextRow) /\ moved # NoPending
           /\ moved.row = session.pending.row /\ moved.span = session.pending.span
           /\ moved.cursor = session.pending.cursor + quantum.n /\ moved.state = quantum.state
<1> DEFINE p == session.pending
<1>2. QueryShape /\ IsSession(session)
  BY DEF FoundPart, QueryShape
<1>3. Pending /\ p.cursor + quantum.n \in Nat /\ p.span.start <= p.cursor + quantum.n
      /\ p.cursor + quantum.n <= p.span.end
  BY MatchPlace
<1>4. IsPending(p, session.nextRow) /\ p.span.start \in Nat /\ p.span.end \in Nat /\ p.row \in Nat
  BY <1>3, PendingIs
<1>5. SessionIs(Cursor, session.s, session.over, moved, session.nextRow, session.status)
  BY <1>2, <1>4, CursorIs
<1>9. /\ moved.row = p.row /\ moved.span = p.span /\ moved.cursor = p.cursor + quantum.n
      /\ moved.state = quantum.state
      /\ moved = [row |-> moved.row, span |-> moved.span, cursor |-> moved.cursor, state |-> moved.state]
  BY DEF MatchedTo
<1>11. IsPending(moved, session.nextRow)
  <2>1. p.cursor + quantum.n \in p.span.start .. p.span.end
    BY <1>3, <1>4
  <2> QED
    BY <1>4, <1>9, <2>1 DEF IsPending
<1>12. moved # NoPending
  BY <1>4, <1>9 DEF NoPending
<1> QED
  BY <1>5, <1>9, <1>11, <1>12

LEMMA QuotaFound ==
    ASSUME FoundPart, UNCHANGED <<search, searchDisk, cache, store, find>>, quantum.pc = "full",
           session' = [Cursor EXCEPT !.status = "quota"],
           quantum' = [NoQuantum EXCEPT !.pc = "validate"]
    PROVE  FoundPart'
<1> DEFINE moved == MatchedTo(session.pending, quantum.n, quantum.state)
<1>1. /\ QueryShape /\ CachePart /\ RecordPart /\ StatusPart /\ BufferPart /\ HitPart
  BY DEF FoundPart
<1>2. /\ SessionIs(Cursor, session.s, session.over, moved, session.nextRow, session.status)
      /\ IsPending(moved, session.nextRow) /\ moved # NoPending
  BY MovedIs
<1> HIDE DEF moved
<1>3. SessionIs(session', session.s, session.over, moved, session.nextRow, "quota")
  <2>1. SessionIs(session', Cursor.s, Cursor.over, Cursor.pending, Cursor.nextRow, "quota")
    BY <1>2, StatusIs DEF SessionIs
  <2> QED
    BY <1>2, <2>1 DEF SessionIs
<1>4. IsQuantum(quantum') /\ quantum'.pc = "validate" /\ quantum'.left = 0 /\ quantum'.n = 0
  BY OtherQuantumIs
<1>5. SearchedRecords' = SearchedRecords /\ Searched' = Searched /\ SearchedHits' = SearchedHits
  BY SearchSame
<1>6. QueryShape'
  BY <1>1, <1>3, <1>4, <1>5 DEF QueryShape, SessionIs
<1>7. CachePart'
  BY <1>1, <1>5 DEF CachePart, IsChunk
<1>8. RecordPart'
  <2>1. IsPending(session.pending, session.nextRow)'
    BY <1>2, <1>3, <1>5 DEF IsPending, SessionIs
  <2> QED
    BY <1>1, <1>3, <1>5, <2>1 DEF RecordPart, SessionIs
<1>9. StatusPart' /\ BufferPart'
  BY <1>1, <1>3, <1>4 DEF StatusPart, BufferPart, InSearch, SessionIs
<1>10. HitPart'
  <2>1. find.phase # "failed" /\ Capped
    BY <1>1 DEF StatusPart, Capped
  <2>2. Capped'
    BY <1>3 DEF Capped, SessionIs
  <2>3. Len(store.entries) = Fits /\ Len(store.entries) < Len(SearchedHits)
    BY <1>1, <2>1 DEF HitPart, PlacePart
  <2> QED
    BY <1>1, <1>4, <1>5, <2>2, <2>3 DEF HitPart, PlacePart, Fits
<1> QED
  BY <1>6, <1>7, <1>8, <1>9, <1>10 DEF FoundPart

LEMMA BufferDone ==
    ASSUME FoundPart, UNCHANGED <<search, searchDisk, cache, store, find>>, quantum.pc = "match",
           session' = IF Cursor.pending.cursor = Cursor.pending.span.end THEN Examined(Cursor) ELSE Cursor,
           quantum' = Goes("loop", quantum.left - quantum.n)
    PROVE  FoundPart'
<1> DEFINE moved == MatchedTo(session.pending, quantum.n, quantum.state)
           k == session.nextRow
<1>1. /\ QueryShape /\ RecordPart /\ StatusPart /\ HitPart /\ quantum.left \in Int /\ quantum.n \in Nat
  BY DEF FoundPart, QueryShape
<1>2. /\ SessionIs(Cursor, session.s, session.over, moved, k, session.status)
      /\ IsPending(moved, k) /\ moved # NoPending
      /\ moved.row = session.pending.row /\ moved.span = session.pending.span
      /\ moved.cursor = session.pending.cursor + quantum.n /\ moved.state = quantum.state
  BY MovedIs
<1>3. find.phase # "failed" /\ session.status = "running"
  BY <1>1 DEF StatusPart, InSearch
<1>4. Complete(moved, moved.cursor, moved.state)
  <2>1. Complete(session.pending, session.pending.cursor + quantum.n, quantum.state)
    BY <1>1, <1>3 DEF HitPart, PlacePart
  <2> HIDE DEF moved
  <2> QED
    BY <1>2, <2>1 DEF Complete
<1>5. IsQuantum(quantum') /\ quantum'.pc \in {"loop", "validate"} /\ quantum'.left \in Int /\ quantum'.n = 0
  <2> DEFINE left == quantum.left - quantum.n
  <2>1. left \in Int /\ quantum' = Goes("loop", left)
    BY <1>1
  <2> HIDE DEF left
  <2> QED
    BY <2>1, GoesIs
<1>6. SearchedRecords' = SearchedRecords /\ Searched' = Searched /\ SearchedHits' = SearchedHits
  BY SearchSame
<1>7. Pending
  BY MatchPlace
<1> HIDE DEF moved
<1>8. CASE moved.cursor # moved.span.end
  <2>1. session' = Cursor
    BY <1>2, <1>8 DEF SessionIs
  <2>2. SessionIs(session', session.s, session.over, moved, k, "running")
    BY <1>2, <1>3, <2>1
  <2>3. Pending' /\ session'.pending = moved
    BY <1>2, <2>2 DEF Pending, SessionIs
  <2>4. IsPending(session.pending, session.nextRow)'
    BY <1>2, <1>6, <2>2 DEF IsPending, SessionIs
  <2>5. RecordPart'
    BY <1>1, <1>6, <2>2, <2>4 DEF RecordPart, SessionIs
  <2> QED
    BY <1>3, <1>4, <1>5, <2>2, <2>3, <2>5, GoesOnFound DEF SessionIs
<1>9. CASE moved.cursor = moved.span.end
  <2>1. session' = Examined(Cursor)
    BY <1>2, <1>9 DEF SessionIs
  <2>2. SessionIs(session', session.s, session.over, NoPending, k, "running")
    <3>1. IsSession(Cursor) /\ Cursor.s = session.s /\ Cursor.over = session.over
          /\ Cursor.nextRow = k /\ Cursor.status = "running"
      BY <1>2, <1>3 DEF SessionIs
    <3>2. SessionIs(Examined(Cursor), Cursor.s, Cursor.over, NoPending, Cursor.nextRow, Cursor.status)
      BY <3>1, ExaminedIs
    <3> QED
      BY <2>1, <3>1, <3>2
  <2>3. ~ Pending'
    BY <2>2 DEF Pending, SessionIs
  <2>4. RecordPart'
    BY <1>1, <1>6, <2>2, <2>3 DEF RecordPart, SessionIs
  <2>5. store.entries = HitsOf(k)
    <3>1. IsPending(moved, k) /\ k \in Nat /\ QueryShape
      BY <1>1, <1>2 DEF RecordPart
    <3>2. store.entries = HitsUpTo(moved.row, moved.span.end)
      BY <1>4, <1>9 DEF Complete
    <3> HIDE DEF moved, k
    <3> QED
      BY <3>1, <3>2, RecordEnds
  <2> QED
    BY <1>3, <1>5, <2>2, <2>3, <2>4, <2>5, GoesOnFound DEF SessionIs
<1> QED
  BY <1>8, <1>9

LEMMA EndMatchFound == FoundPart /\ EndMatch => FoundPart'
BY QuotaFound, BufferDone DEF EndMatch, searchWorld

-----------------------------------------------------------------------------
\* One byte of a record is matched.
LEMMA ByteIs ==
    ASSUME FoundPart, quantum.pc = "match", quantum.n < Len(quantum.buf),
           NEW c, c = session.pending.cursor + quantum.n,
           NEW step, step = Advance(TheLiteral, quantum.state, quantum.buf[quantum.n + 1]),
           NEW hit, hit = [row |-> session.pending.row, span |-> Span(c + 1 - Len(search.needle), c + 1)]
    PROVE  /\ Matching(session.pending.span.start, c + 1, step.state)
           /\ step.matched \in BOOLEAN
           /\ step.matched =>
                 hit \in Hit /\ HitsUpTo(session.pending.row, c + 1) = Append(store.entries, hit)
           /\ ~ step.matched => HitsUpTo(session.pending.row, c + 1) = store.entries
           /\ HitsUpTo(session.pending.row, c + 1) \in Seq(Hit)
           /\ Begins(HitsUpTo(session.pending.row, c + 1), SearchedHits)
<1> DEFINE p == session.pending
           r == session.pending.span
           k == session.pending.row
           byte == quantum.buf[quantum.n + 1]
           needle == search.needle
           fold == search.fold
           m == Len(search.needle)
           d == c + 1
<1>1. QueryShape /\ StatusPart /\ HitPart
  BY DEF FoundPart
<1>2. /\ search.csv \in BOOLEAN /\ Searched \in Seq(Bytes) /\ Len(Searched) \in Nat
      /\ m \in Nat /\ m > 0 /\ TheLiteral = Compiled(needle, fold)
  BY <1>1, SearchFacts
<1>3. /\ Pending /\ c \in Nat /\ r.start <= c /\ c < r.end /\ byte = Searched[c + 1]
  BY MatchPlace
<1>4. /\ k \in Nat /\ k < Len(SearchedRecords) /\ r = SearchedRecords[k + 1]
      /\ r.start \in Nat /\ r.end \in Nat /\ r.end <= Len(Searched)
  BY <1>3, PendingIs
<1>5. find.phase # "failed"
  BY <1>1 DEF StatusPart
<1>6. Matching(r.start, c, quantum.state) /\ store.entries = HitsUpTo(k, c)
  BY <1>1, <1>5 DEF HitPart, PlacePart, Complete
<1>7. d \in Nat /\ d \in 1 .. Len(Searched) /\ r.start <= d /\ d <= r.end /\ c <= r.end
  <2> DEFINE start == r.start
             end == r.end
             size == Len(Searched)
  <2>1. /\ c \in Nat /\ start \in Nat /\ end \in Nat /\ size \in Nat
        /\ start <= c /\ c < end /\ end <= size
    BY <1>2, <1>3, <1>4
  <2> HIDE DEF start, end, size
  <2>2. d \in Nat /\ d \in 1 .. size /\ start <= d /\ d <= end /\ c <= end
    BY <2>1
  <2> QED
    BY <2>2 DEF start, end, size
<1>8. Text(fold, Searched)[c + 1] = Folded(fold, byte)
  BY <1>3, <1>7 DEF Text
<1> DEFINE t == Text(fold, Searched)
           from == r.start
           state == quantum.state
           next == Advance(Compiled(needle, fold), state, byte)
<1>9. /\ next.matched = Matches(Pattern(needle, fold), t, from, m, c + 1)
      /\ Longest(Pattern(needle, fold), t, from, m - 1, next.state, c + 1)
  <2>1. from \in Int /\ c \in Int /\ from <= c /\ t[c + 1] = Folded(fold, byte)
        /\ Longest(Pattern(needle, fold), t, from, m - 1, state, c)
    BY <1>3, <1>4, <1>6, <1>8 DEF Matching
  <2> HIDE DEF needle, fold, byte, t, from, state
  <2>2. Len(needle) \in Nat /\ Len(needle) > 0 /\ m = Len(needle)
    BY <1>2 DEF needle
  <2> QED
    BY <2>1, <2>2, AdvanceIs
<1>10. step = next
  BY <1>2
<1>11. Matching(r.start, c + 1, step.state)
  BY <1>9, <1>10 DEF Matching
<1>12. step.matched = Matches(Pattern(needle, fold), t, from, m, c + 1)
  BY <1>9, <1>10
<1> DEFINE matched == step.matched
<1>13. LET before == Reached(search.csv, needle, fold, Searched, k, c)
           new == HitAt(k, m, c + 1 - m)
       IN  /\ matched => new \in Hit /\ Reached(search.csv, needle, fold, Searched, k, c + 1) = Append(before, new)
           /\ ~ matched => Reached(search.csv, needle, fold, Searched, k, c + 1) = before
  <2>1. k < Len(Scanned(search.csv, Searched)) /\ r = Scanned(search.csv, Searched)[k + 1]
    BY <1>4 DEF SearchedRecords
  <2>2. matched = Matches(Pattern(needle, fold), Text(fold, Searched), r.start, Len(needle), c + 1)
    BY <1>12
  <2>3. needle = search.needle /\ fold = search.fold
    OBVIOUS
  <2>4. /\ search.csv \in BOOLEAN /\ Searched \in Seq(Bytes) /\ Len(needle) \in Nat /\ Len(needle) > 0
        /\ k \in Nat /\ c \in Nat /\ r.start <= c /\ c < r.end
    BY <1>2, <1>3, <1>4
  <2> HIDE DEF matched, r, k, needle, fold
  <2>5. Extends(matched, Reached(search.csv, needle, fold, Searched, k, c),
                Reached(search.csv, needle, fold, Searched, k, c + 1),
                HitAt(k, Len(needle), c + 1 - Len(needle)))
    BY <2>1, <2>2, <2>4, ReachedGrows
  <2> QED
    BY <2>5, Zenon DEF needle, Extends
<1>14. hit = HitAt(k, m, c + 1 - m)
  <2>1. (c + 1 - m) + m = c + 1
    BY <1>2, <1>3
  <2> QED
    BY <2>1 DEF HitAt
<1>15. /\ HitsUpTo(k, c + 1) \in Seq(Hit)
       /\ Begins(HitsUpTo(k, c + 1), SearchedHits)
  <2>1. k < Len(Scanned(search.csv, Searched)) /\ r = Scanned(search.csv, Searched)[k + 1]
    BY <1>4 DEF SearchedRecords
  <2> HIDE DEF r, k, d
  <2>2. /\ Reached(search.csv, search.needle, search.fold, Searched, k, d) \in Seq(Hit)
        /\ Begins(Reached(search.csv, search.needle, search.fold, Searched, k, d),
                  AllHits(search.csv, search.needle, search.fold, Searched))
    BY <1>2, <1>4, <1>7, <2>1, ReachedIs DEF needle, fold
  <2> QED
    BY <2>2 DEF HitsUpTo, SearchedHits, d
<1>16. matched \in BOOLEAN
  BY <1>12 DEF Matches
<1>18. /\ matched => hit \in Hit /\ HitsUpTo(k, c + 1) = Append(store.entries, hit)
       /\ ~ matched => HitsUpTo(k, c + 1) = store.entries
  BY <1>6, <1>13, <1>14 DEF HitsUpTo
<1> QED
  BY <1>11, <1>15, <1>16, <1>18

\* The hit file was full before this hit.
LEMMA FullIs ==
    ASSUME StorePart, ~ HasRoom
    PROVE  Len(store.entries) = Fits
<1> DEFINE n == Len(store.entries)
           room == ScratchQuota - HeaderBytes
<1>1. n \in Nat
  BY DEF StorePart, Sound
<1>2. ScratchQuota \in Nat /\ ScratchQuota >= HeaderBytes
  BY QueryAssumption DEF ValidConfig
<1>3. store.used = 48 + 24 * n /\ store.used <= ScratchQuota /\ ~ store.used + 24 <= ScratchQuota
  BY DEF StorePart, HasRoom, HeaderBytes, EntryBytes
<1>4. room \in Nat /\ room = ScratchQuota - 48
  BY <1>2 DEF HeaderBytes
<1> HIDE DEF n, room
<1>5. 24 * n <= room /\ room < 24 * n + 24
  BY <1>1, <1>2, <1>3, <1>4
<1>6. room \div 24 = n
  BY <1>1, <1>4, <1>5
<1> QED
  BY <1>6 DEF Fits, EntryBytes, n, room

LEMMA MatchByteFound == FoundPart /\ StorePart /\ MatchByte => FoundPart'
<1> SUFFICES ASSUME FoundPart, StorePart, MatchByte PROVE FoundPart'
  OBVIOUS
<1> DEFINE c == session.pending.cursor + quantum.n
           step == Advance(TheLiteral, quantum.state, quantum.buf[quantum.n + 1])
           end == session.pending.cursor + quantum.n + 1
           hit == [row |-> session.pending.row, span |-> Span(end - Len(search.needle), end)]
           where == IF step.matched /\ ~ HasRoom THEN "full" ELSE "match"
           row == session.pending.row
           start == session.pending.span.start
<1>1. /\ UNCHANGED <<search, searchDisk, cache, session, find>>
      /\ quantum.pc = "match" /\ quantum.n < Len(quantum.buf)
  BY DEF MatchByte, searchWorld
<1>2. /\ quantum' = [quantum EXCEPT !.n = @ + 1, !.state = step.state, !.pc = where]
      /\ IF step.matched /\ HasRoom THEN AppendHit(hit) ELSE UNCHANGED <<page, store>>
  BY Zenon DEF MatchByte
<1>3. /\ QueryShape /\ CachePart /\ RecordPart /\ StatusPart /\ BufferPart /\ HitPart
      /\ IsQuantum(quantum) /\ quantum.left \in Int /\ quantum.n \in Nat
  BY DEF FoundPart, QueryShape
<1>4. find.phase # "failed"
  BY <1>1, <1>3 DEF StatusPart
<1>5. /\ Matching(start, c + 1, step.state)
      /\ step.matched \in BOOLEAN
      /\ step.matched => hit \in Hit /\ HitsUpTo(row, c + 1) = Append(store.entries, hit)
      /\ ~ step.matched => HitsUpTo(row, c + 1) = store.entries
      /\ HitsUpTo(row, c + 1) \in Seq(Hit)
      /\ Begins(HitsUpTo(row, c + 1), SearchedHits)
  <2>1. c = session.pending.cursor + quantum.n /\ step = Advance(TheLiteral, quantum.state, quantum.buf[quantum.n + 1])
        /\ hit = [row |-> session.pending.row, span |-> Span(end - Len(search.needle), end)]
        /\ end = c + 1
    OBVIOUS
  <2>2. c \in Nat /\ Len(search.needle) \in Nat
    BY <1>1, <1>3, MatchPlace, SearchFacts
  <2> HIDE DEF c, step, hit, end
  <2>3. end - Len(search.needle) = c + 1 - Len(search.needle)
    BY <2>1, <2>2
  <2>4. hit = [row |-> session.pending.row, span |-> Span(c + 1 - Len(search.needle), c + 1)]
    BY <2>1, <2>3
  <2> QED
    BY <1>1, <2>1, <2>4, ByteIs
<1>6. c \in Nat /\ Pending /\ quantum.n <= Len(quantum.buf) /\ Len(quantum.buf) \in Nat
  BY <1>1, MatchPlace
<1>7. session.pending.cursor + (quantum.n + 1) = c + 1 /\ quantum.n + 1 <= Len(quantum.buf)
      /\ quantum.n + 1 \in Nat
  <2> DEFINE at == session.pending.cursor
             n == quantum.n
             size == Len(quantum.buf)
  <2>1. n \in Nat /\ at \in Nat /\ size \in Nat /\ n < size
    BY <1>1, <1>3, <1>6, PendingIs
  <2> HIDE DEF at, n, size
  <2>2. at + (n + 1) = (at + n) + 1 /\ n + 1 <= size /\ n + 1 \in Nat
    BY <2>1
  <2> QED
    BY <2>2 DEF at, n, size
<1> HIDE DEF c, step, hit, where, end
<1>8. /\ IsQuantum(quantum') /\ quantum'.pc = where /\ quantum'.left = quantum.left
      /\ quantum'.n = quantum.n + 1 /\ quantum'.buf = quantum.buf /\ quantum'.state = step.state
  <2> DEFINE many == quantum.n + 1
             state == step.state
  <2>1. quantum' = [quantum EXCEPT !.n = many, !.state = state, !.pc = where]
    BY <1>2
  <2> HIDE DEF many, state
  <2>2. /\ IsQuantum(quantum') /\ quantum'.pc = where /\ quantum'.left = quantum.left
        /\ quantum'.n = many /\ quantum'.buf = quantum.buf /\ quantum'.state = state
    BY <1>3, <2>1 DEF IsQuantum
  <2> QED
    BY <2>2 DEF many, state
<1>9. where \in {"match", "full"}
  BY DEF where
<1>10. SearchedRecords' = SearchedRecords /\ Searched' = Searched /\ SearchedHits' = SearchedHits
  BY <1>1, SearchSame
<1>11. QueryShape'
  BY <1>1, <1>3, <1>7, <1>8, <1>9, <1>10 DEF QueryShape
<1>12. CachePart' /\ RecordPart'
  BY <1>1, <1>3, <1>10 DEF CachePart, RecordPart, IsChunk, Pending, IsPending
<1>13. StatusPart' /\ BufferPart'
  BY <1>1, <1>3, <1>6, <1>7, <1>8, <1>9, <1>10 DEF StatusPart, BufferPart, InSearch, Pending, IsChunk
<1>14. session.status = "running"
  BY <1>1, <1>3 DEF StatusPart, InSearch
<1>15. ASSUME where = "match", store'.entries = HitsUpTo(row, c + 1) PROVE HitPart'
  <2>1. session.pending.cursor + quantum'.n = c + 1
    BY <1>7, <1>8
  <2>2. /\ Matching(start, session.pending.cursor + quantum'.n, quantum'.state)
        /\ store'.entries = HitsUpTo(row, session.pending.cursor + quantum'.n)
    BY <1>5, <1>8, <1>15, <2>1
  <2>3. Complete(session.pending, session.pending.cursor + quantum.n, quantum.state)'
    BY <1>1, <1>10, <2>2 DEF Complete, Matching, HitsUpTo
  <2> QED
    BY <1>1, <1>5, <1>6, <1>8, <1>10, <1>14, <1>15, <2>3 DEF HitPart, PlacePart, Capped, Pending
<1>16. CASE step.matched /\ HasRoom
  <2>1. store'.entries = Append(store.entries, hit)
    BY <1>2, <1>16 DEF AppendHit
  <2>2. where = "match"
    BY <1>16 DEF where
  <2> QED
    BY <1>5, <1>11, <1>12, <1>13, <1>15, <1>16, <2>1, <2>2 DEF FoundPart
<1>17. CASE ~ step.matched
  <2>1. store' = store
    BY <1>2, <1>17
  <2>2. where = "match"
    BY <1>17 DEF where
  <2> QED
    BY <1>5, <1>11, <1>12, <1>13, <1>15, <1>17, <2>1, <2>2 DEF FoundPart
<1>18. CASE step.matched /\ ~ HasRoom
  <2>1. store' = store /\ where = "full"
    BY <1>2, <1>18 DEF where
  <2>2. Len(store.entries) = Fits
    BY <1>18, FullIs
  <2>3. Len(store.entries) < Len(SearchedHits)
    <3> DEFINE entries == store.entries
               more == Append(entries, hit)
    <3>1. entries \in Seq(Hit) /\ hit \in Hit /\ Begins(more, SearchedHits)
      BY <1>3, <1>5, <1>18 DEF HitPart
    <3>2. Len(more) = Len(entries) + 1 /\ Len(more) <= Len(SearchedHits) /\ Len(entries) \in Nat
      BY <3>1 DEF Begins
    <3>3. Len(SearchedHits) \in Nat
      BY <1>3, SearchFacts
    <3> HIDE DEF entries, more
    <3>4. Len(entries) < Len(SearchedHits)
      BY <3>2, <3>3
    <3> QED
      BY <3>4 DEF entries
  <2>4. HitPart'
    BY <1>3, <1>8, <1>10, <2>1, <2>2, <2>3 DEF HitPart, PlacePart, Capped, Fits
  <2> QED
    BY <1>11, <1>12, <1>13, <2>4 DEF FoundPart
<1> QED
  BY <1>5, <1>16, <1>17, <1>18

LEMMA FoundStep == FoundPart /\ SearchIInv /\ [SearchNext]_searchVars => FoundPart'
<1> SUFFICES ASSUME FoundPart, SearchIInv, [SearchNext]_searchVars PROVE FoundPart'
  OBVIOUS
<1>1. StorePart /\ ShownPart
  BY DEF SearchIInv
<1>2. CASE QueryPlan
  BY <1>1, <1>2, QueryPlanFound
<1>3. CASE BeginQuantum
  BY <1>3, BeginQuantumFound
<1>4. CASE SourceFails \/ IoFails
  BY <1>1, <1>4, FailuresFound
<1>5. CASE Loop \/ CancelLoop
  BY <1>5, LoopFound, CancelLoopFound
<1>6. CASE Read
  BY <1>1, <1>6, ReadFound
<1>7. CASE Scan
  BY <1>7, ScanFound
<1>8. CASE BeginMatch
  BY <1>8, BeginMatchFound
<1>9. CASE MatchByte
  BY <1>1, <1>9, MatchByteFound
<1>10. CASE CancelMatch \/ EndMatch
  BY <1>10, CancelMatchFound, EndMatchFound
<1>11. CASE Validate
  BY <1>1, <1>11, ValidateFound
<1>12. CASE NextHit \/ PreviousHit
  BY <1>1, <1>12, CommandFound
<1>13. CASE RewriteSearched \/ LoseTrack
  BY <1>13, DisturbedFound DEF RewriteSearched, LoseTrack
<1>14. CASE Idle \/ UNCHANGED searchVars
  BY <1>14, DisturbedFound DEF Idle, searchVars
<1> QED
  BY <1>2, <1>3, <1>4, <1>5, <1>6, <1>7, <1>8, <1>9, <1>10, <1>11, <1>12, <1>13, <1>14
  DEF SearchNext, Quantum

LEMMA TheHitsAre == FoundPart => TheHits = SearchedHits
<1> SUFFICES ASSUME FoundPart PROVE TheHits = SearchedHits
  OBVIOUS
<1> DEFINE q == [search EXCEPT !.windows = FALSE]
<1>1. QueryShape
  BY DEF FoundPart
<1>2. q.csv = search.csv /\ q.bytes = search.bytes /\ q.needle = search.needle /\ q.fold = search.fold
  BY <1>1 DEF QueryShape
<1>3. q \in Searches /\ TheHits = SearchTruth[q]
  BY <1>1 DEF QueryShape, TheHits
<1>4. SearchTruth[q] = AllHits(q.csv, q.needle, q.fold, q.bytes)
  BY <1>3 DEF SearchTruth
<1> HIDE DEF q
<1> QED
  BY <1>2, <1>3, <1>4 DEF SearchedHits, Searched

\* What a step may change.
LEMMA SearchActs ==
    ASSUME [SearchNext]_searchVars
    PROVE  /\ search' = search
           /\ store' = store \/ MatchByte
           /\ session' = session \/ BeginQuantum \/ quantum.pc \in InSearch
           /\ find' = find \/ quantum.pc # "rest" \/ find.phase # "failed"
<1>1. CASE QueryPlan \/ SourceFails \/ IoFails \/ Read
  BY <1>1 DEF QueryPlan, SourceFails, IoFails, Read, searchWorld
<1>2. CASE BeginQuantum
  BY <1>2 DEF BeginQuantum, searchWorld
<1>3. CASE Loop \/ CancelLoop \/ Scan \/ BeginMatch
  BY <1>3 DEF Loop, CancelLoop, Scan, BeginMatch, searchWorld, InSearch
<1>4. CASE MatchByte
  BY <1>4 DEF MatchByte, searchWorld, InSearch
<1>5. CASE CancelMatch \/ EndMatch
  BY <1>5 DEF CancelMatch, EndMatch, searchWorld, InSearch
<1>6. CASE Validate
  BY <1>6 DEF Validate, searchWorld
<1>7. CASE NextHit \/ PreviousHit
  BY <1>7 DEF NextHit, PreviousHit, Commanded, searchWorld
<1>8. CASE RewriteSearched \/ LoseTrack
  BY <1>8 DEF RewriteSearched, LoseTrack
<1>9. CASE Idle \/ UNCHANGED searchVars
  BY <1>9 DEF Idle, searchVars
<1> QED
  BY <1>1, <1>2, <1>3, <1>4, <1>5, <1>6, <1>7, <1>8, <1>9 DEF SearchNext, Quantum

\* The hit file only grows, and no more once the search has ended.
LEMMA HitsGrow ==
    ASSUME FoundPart, [SearchNext]_searchVars
    PROVE  /\ store.entries \in Seq(Hit)
           /\ store' = store \/ (Len(store'.entries) = Len(store.entries) + 1 /\ find' = find)
           /\ find.phase = "failed" => store' = store /\ find'.phase = "failed"
           /\ session.status \in {"complete", "quota"} =>
                 store' = store /\ session'.status = session.status
<1>1. /\ StatusPart /\ store.entries \in Seq(Hit)
  BY DEF FoundPart, HitPart
<1>2. ASSUME MatchByte
      PROVE  /\ store' = store \/ Len(store'.entries) = Len(store.entries) + 1
             /\ find' = find /\ quantum.pc = "match"
  <2>1. find' = find /\ quantum.pc = "match" /\ (store' = store \/ \E hit : AppendHit(hit))
    BY <1>2 DEF MatchByte
  <2>2. ASSUME NEW hit, AppendHit(hit) PROVE Len(store'.entries) = Len(store.entries) + 1
    <3>1. Sound(store.entries)
      BY <1>1, SoundSeq
    <3>2. store'.entries = Append(store.entries, hit)
      BY <2>2 DEF AppendHit
    <3> QED
      BY <3>1, <3>2, SoundAppend
  <2> QED
    BY <2>1, <2>2
<1>3. ASSUME BeginQuantum PROVE quantum.pc = "rest" /\ find.demand # NoHit
  BY <1>3 DEF BeginQuantum
<1>4. find.phase = "failed" => quantum.pc = "rest" /\ find.demand = NoHit
  BY <1>1 DEF StatusPart
<1>5. session.status \in {"complete", "quota"} => quantum.pc \notin InSearch /\ ~ BeginQuantum
  BY <1>1, <1>3 DEF StatusPart
<1>6. "match" \in InSearch /\ "rest" # "match"
  BY DEF InSearch
<1> QED
  BY <1>1, <1>2, <1>4, <1>5, <1>6, SearchActs

\* What the search has come to.
Outcome == IF find.phase = "failed" THEN "failed"
           ELSE IF session.status \in {"complete", "quota"} THEN session.status ELSE "open"

\* A search that ended well has all the hits, or as many as fit.
LEMMA OutcomeIs ==
    ASSUME FoundPart, StorePart
    PROVE  /\ SearchedHits \in Seq(Hit) /\ Len(SearchedHits) \in Nat
           /\ Len(store.entries) \in Nat /\ Len(store.entries) <= Len(SearchedHits)
           /\ store.entries = SubSeq(SearchedHits, 1, Len(store.entries))
           /\ Len(store.entries) <= Fits
           /\ Outcome = "complete" => Len(store.entries) = Len(SearchedHits)
           /\ Outcome = "quota" => Len(store.entries) = Fits /\ Len(store.entries) < Len(SearchedHits)
           /\ Outcome \in {"failed", "complete", "quota", "open"}
<1>1. QueryShape /\ StatusPart /\ HitPart
  BY DEF FoundPart
<1>2. SearchedHits \in Seq(Hit) /\ Len(SearchedHits) \in Nat
  BY <1>1, SearchFacts
<1>3. store.entries \in Seq(Hit) /\ Begins(store.entries, SearchedHits) /\ Len(store.entries) \in Nat
  BY <1>1 DEF HitPart
<1>4. store.entries = SubSeq(SearchedHits, 1, Len(store.entries))
  BY <1>2, <1>3, BeginsSub
<1>5. Len(store.entries) <= Fits
  <2> DEFINE n == Len(store.entries)
             room == ScratchQuota - HeaderBytes
  <2>1. n \in Nat /\ ScratchQuota \in Nat /\ ScratchQuota >= 48 /\ room = ScratchQuota - 48
    BY <1>3, QueryAssumption DEF ValidConfig, HeaderBytes
  <2>2. 48 + 24 * n <= ScratchQuota
    BY DEF StorePart, HeaderBytes, EntryBytes
  <2> HIDE DEF n, room
  <2>3. room \in Nat /\ 24 * n <= room
    BY <2>1, <2>2
  <2>4. n <= room \div 24
    BY <2>1, <2>3
  <2> QED
    BY <2>4 DEF Fits, EntryBytes, n, room
<1>6. ASSUME Outcome = "complete" PROVE store.entries = SearchedHits
  <2>1. session.status = "complete" /\ find.phase # "failed"
    BY <1>6 DEF Outcome
  <2>2. ~ Pending /\ session.nextRow = Len(SearchedRecords) /\ quantum.pc # "full"
    BY <1>1, <2>1 DEF StatusPart, InSearch
  <2>3. store.entries = HitsOf(Len(SearchedRecords))
    BY <1>1, <2>1, <2>2 DEF HitPart, PlacePart, Capped
  <2> QED
    BY <1>1, <2>3, SearchFacts, HitsFacts DEF HitsOf, SearchedHits, SearchedRecords
<1>7. ASSUME Outcome = "quota" PROVE Len(store.entries) = Fits /\ Len(store.entries) < Len(SearchedHits)
  <2>1. session.status = "quota" /\ find.phase # "failed"
    BY <1>7 DEF Outcome
  <2> QED
    BY <1>1, <2>1 DEF HitPart, PlacePart, Capped
<1>8. Outcome \in {"failed", "complete", "quota", "open"}
  BY DEF Outcome
<1>9. Len(store.entries) <= Len(SearchedHits)
  BY <1>3 DEF Begins
<1> QED
  BY <1>2, <1>3, <1>4, <1>5, <1>6, <1>7, <1>8, <1>9

\* A step as the promise has it.
SearchOn ==
    /\ SearchedHits' = SearchedHits
    /\ \/ store'.entries = store.entries /\ Outcome' = Outcome
       \/ Outcome # "failed" /\ Outcome' = "failed" /\ store'.entries = store.entries
       \/ /\ Outcome = "open"
          /\ \E n \in Len(store.entries) .. Len(SearchedHits) :
                /\ n <= Fits /\ store'.entries = SubSeq(SearchedHits, 1, n)
                /\ \/ Outcome' = "open"
                   \/ Outcome' = "complete" /\ n = Len(SearchedHits)
                   \/ Outcome' = "quota" /\ n = Fits /\ n < Len(SearchedHits)

\* Both ends of a step, in a form that holds before and after it.
OutcomeFacts ==
    /\ SearchedHits \in Seq(Hit) /\ Len(SearchedHits) \in Nat
    /\ Len(store.entries) \in Nat /\ Len(store.entries) <= Len(SearchedHits)
    /\ store.entries = SubSeq(SearchedHits, 1, Len(store.entries))
    /\ Len(store.entries) <= Fits
    /\ Outcome = "complete" => Len(store.entries) = Len(SearchedHits)
    /\ Outcome = "quota" => Len(store.entries) = Fits /\ Len(store.entries) < Len(SearchedHits)
    /\ Outcome \in {"failed", "complete", "quota", "open"}

LEMMA OutcomeHolds == FoundPart /\ SearchIInv => OutcomeFacts
BY OutcomeIs DEF OutcomeFacts, SearchIInv

LEMMA StepIsSearch ==
    ASSUME FoundPart, [SearchNext]_searchVars, OutcomeFacts, OutcomeFacts'
    PROVE  SearchOn
<1>1. search' = search
  BY SearchActs
<1>2. SearchedHits' = SearchedHits
  BY <1>1, SearchSame
<1>3. /\ store' = store \/ (Len(store'.entries) = Len(store.entries) + 1 /\ find' = find)
      /\ find.phase = "failed" => store' = store /\ find'.phase = "failed"
      /\ session.status \in {"complete", "quota"} => store' = store /\ session'.status = session.status
  BY HitsGrow
<1>4. CASE Outcome = "failed"
  <2>1. find.phase = "failed"
    BY <1>4 DEF Outcome, OutcomeFacts, FoundPart, StatusPart
  <2> QED
    BY <1>2, <1>3, <2>1 DEF SearchOn, Outcome
<1>5. CASE Outcome \in {"complete", "quota"}
  <2>1. find.phase # "failed" /\ session.status \in {"complete", "quota"}
    BY <1>5 DEF Outcome
  <2>2. store' = store /\ session'.status = session.status
    BY <1>3, <2>1
  <2>3. CASE find'.phase = "failed"
    BY <1>2, <1>5, <2>2, <2>3 DEF SearchOn, Outcome
  <2>4. CASE find'.phase # "failed"
    <3>1. Outcome' = Outcome
      BY <2>1, <2>2, <2>4 DEF Outcome
    <3> QED
      BY <1>2, <2>2, <3>1 DEF SearchOn
  <2> QED
    BY <2>3, <2>4
<1>6. CASE Outcome = "open"
  <2>1. find.phase # "failed"
    BY <1>6 DEF Outcome
  <2>2. CASE Outcome' = "failed"
    <3>1. find'.phase = "failed"
      BY <2>2 DEF Outcome, OutcomeFacts, FoundPart, StatusPart, SearchActs
    <3>2. store' = store
      BY <1>3, <2>1, <3>1
    <3> QED
      BY <1>2, <1>6, <2>2, <3>2 DEF SearchOn
  <2>3. CASE Outcome' # "failed"
    <3> DEFINE n == Len(store'.entries)
               many == Len(store.entries)
               all == Len(SearchedHits)
    <3>1. n \in Nat /\ many \in Nat /\ all \in Nat /\ n <= all /\ n <= Fits
      BY <1>2 DEF OutcomeFacts, Fits
    <3>2. n = many \/ n = many + 1
      BY <1>3
    <3>3. store'.entries = SubSeq(SearchedHits, 1, n)
      BY <1>2 DEF OutcomeFacts
    <3>4. \/ Outcome' = "open"
          \/ Outcome' = "complete" /\ n = all
          \/ Outcome' = "quota" /\ n = Fits /\ n < all
      BY <1>2, <2>3 DEF OutcomeFacts, Fits
    <3> HIDE DEF n, many, all
    <3>5. n \in many .. all
      BY <3>1, <3>2
    <3> QED
      BY <1>2, <1>6, <3>1, <3>3, <3>4, <3>5 DEF SearchOn, many, all
  <2> QED
    BY <2>2, <2>3
<1> QED
  BY <1>4, <1>5, <1>6 DEF OutcomeFacts

LEMMA SearchOnIs ==
    ASSUME SearchOn, TheHits = SearchedHits, TheHits' = SearchedHits'
    PROVE  [Promise!Next]_(Promise!vars)
<1>1. TheHits' = TheHits
  BY DEF SearchOn
<1>2. CASE store'.entries = store.entries /\ Outcome' = Outcome
  BY <1>1, <1>2 DEF Promise!vars, Outcome
<1>3. CASE Outcome # "failed" /\ Outcome' = "failed" /\ store'.entries = store.entries
  BY <1>1, <1>3 DEF Promise!Next, Promise!Fail, Outcome
<1>4. CASE /\ Outcome = "open"
           /\ \E n \in Len(store.entries) .. Len(SearchedHits) :
                 /\ n <= Fits /\ store'.entries = SubSeq(SearchedHits, 1, n)
                 /\ \/ Outcome' = "open"
                    \/ Outcome' = "complete" /\ n = Len(SearchedHits)
                    \/ Outcome' = "quota" /\ n = Fits /\ n < Len(SearchedHits)
  <2>1. PICK n \in Len(store.entries) .. Len(SearchedHits) :
                 /\ n <= Fits /\ store'.entries = SubSeq(SearchedHits, 1, n)
                 /\ \/ Outcome' = "open"
                    \/ Outcome' = "complete" /\ n = Len(SearchedHits)
                    \/ Outcome' = "quota" /\ n = Fits /\ n < Len(SearchedHits)
    BY <1>4
  <2>2. Promise!Search
    BY <1>1, <1>4, <2>1 DEF Promise!Search, Outcome, Fits
  <2> QED
    BY <2>2 DEF Promise!Next
<1> QED
  BY <1>2, <1>3, <1>4 DEF SearchOn

LEMMA SearchFinds == SearchSpec => [](FoundPart /\ SearchIInv)
<1>1. SearchInit => FoundPart /\ SearchIInv
  BY InitFound, InitSearch
<1>2. FoundPart /\ SearchIInv /\ [SearchNext]_searchVars => (FoundPart /\ SearchIInv)'
  BY FoundStep, SearchStep
<1> QED
  BY <1>1, <1>2, PTL DEF SearchSpec

\* However the search is cut into quanta, cancelled and resumed, and whatever other
\* programs do to its file, the hit file holds the first hits of the snapshot, in
\* order, each once; the search is complete with all of them only, and stops at its
\* quota only where the next one does not fit (query.rs: QuerySession::advance,
\* match_pending_bytes, append_hit; worker.rs: advance_query_once).
THEOREM SearchKeepsItsPromise == SearchSpec => SearchPromise
<1>1. SearchInit => Promise!Init
  BY DEF SearchInit, Promise!Init
<1>2. (FoundPart /\ SearchIInv)' => OutcomeFacts' /\ (TheHits = SearchedHits)'
  BY OutcomeHolds, TheHitsAre, PTL
<1>3. FoundPart /\ SearchIInv /\ [SearchNext]_searchVars => [Promise!Next]_(Promise!vars)
  <2> SUFFICES ASSUME FoundPart, SearchIInv, [SearchNext]_searchVars
               PROVE  [Promise!Next]_(Promise!vars)
    OBVIOUS
  <2>1. (FoundPart /\ SearchIInv)'
    BY FoundStep, SearchStep
  <2>2. OutcomeFacts /\ TheHits = SearchedHits
    BY OutcomeHolds, TheHitsAre
  <2>3. OutcomeFacts' /\ TheHits' = SearchedHits'
    BY <1>2, <2>1
  <2>4. SearchOn
    BY <2>2, <2>3, StepIsSearch
  <2> QED
    BY <2>2, <2>3, <2>4, SearchOnIs
<1> QED
  BY <1>1, <1>3, SearchFinds, PTL DEF SearchSpec, SearchPromise, Promise!Spec

\* What the user is shown as match i is the i-th hit of the snapshot, for every
\* file, needle, page size, quota and quantum (query.rs: read_hit; worker.rs:
\* activate_query_hit, navigate_to_next_hit, navigate_to_previous_hit).
THEOREM SearchedHitsAreShown == SearchSpec => []ShownIsHit
<1>1. FoundPart /\ SearchIInv => ShownIsHit
  <2> SUFFICES ASSUME FoundPart, SearchIInv, find.active # NoHit
               PROVE  find.hit = TheHits[find.active + 1]
    BY DEF ShownIsHit
  <2>1. TheHits = SearchedHits
    BY TheHitsAre
  <2>2. /\ find.active \in Nat /\ find.active < Len(store.entries)
        /\ find.hit = store.entries[find.active + 1]
    BY DEF SearchIInv, ShownPart, ShownOf
  <2>3. store.entries \in Seq(Hit) /\ Begins(store.entries, SearchedHits)
    BY DEF FoundPart, HitPart
  <2>4. find.active + 1 \in 1 .. Len(store.entries)
    BY <2>2, <2>3
  <2> QED
    BY <2>1, <2>2, <2>3, <2>4 DEF Begins
<1> QED
  BY <1>1, SearchFinds, PTL
=============================================================================
