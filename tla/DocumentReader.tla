--------------------------- MODULE DocumentReader ----------------------------
(***************************************************************************)
(* One open text document: the resumable scan of src/session.rs, the row     *)
(* reconstruction of src/viewport.rs, and the engine of document_engine.rs    *)
(* that runs both over one retained file handle while other programs rewrite *)
(* the file or replace it at its path.  One thread makes the calls; a call is *)
(* a sequence of steps because the file changes between its reads and its     *)
(* checks of the file's fingerprint.                                         *)
(***************************************************************************)
EXTENDS FieldProjection

CONSTANTS
    Documents,   \* files that are opened: their bytes and whether they are delimited
    Rewrites,    \* contents another program writes in place
    MaxWrites,   \* bound on in-place writes
    MaxEvents,   \* bound on what other programs do to one open document
    ReadBuffer,  \* bytes of the read buffer, and of a scan quantum
    CheckEvery,  \* bytes between two looks at the cancellation token
    StrongCheck, \* bytes scanned between two identity checks of the path
    RowLimit,    \* rows of a viewport
    MaxPreview,  \* bytes shown of one record
    MaxPayload,  \* bytes shown in one viewport
    FieldLimits  \* limits of the field projection

ASSUME ReaderAssumption ==
    /\ Documents \subseteq [csv : BOOLEAN, bytes : Seq(Bytes)]
    /\ Rewrites \subseteq Seq(Bytes)
    /\ ReadBuffer \in Nat \ {0} /\ CheckEvery \in Nat \ {0}
    /\ RowLimit \in Nat \ {0} /\ StrongCheck \in Nat \ {0}
    /\ {MaxWrites, MaxEvents, MaxPreview, MaxPayload} \subseteq Nat

VARIABLES
    windows,  \* which build: Windows denies in-place writers, others do not
    delimited,      \* the document is delimited (otherwise one record per line)
    disk,     \* the object behind the retained handle: its bytes and revision
    evidence, \* whether its metadata can be read
    path,     \* what the path names: the same object, a lookalike, another
    opened,   \* the object as it was when the engine captured its snapshot
    engine,   \* DocumentEngine: integrity_failed, bytes_since_strong_path_check
    scan,     \* ScanSession: snapshot, scanner, whether finalized or failed
    seen,     \* the records handed to the row index
    pc,       \* where the document thread stands
    job,      \* the locals of its current call
    shown     \* the viewport the last call returned, if it returned one

readerVars == <<windows, delimited, disk, evidence, path, opened, engine, scan, seen, pc, job, shown>>
source == <<windows, delimited, disk, evidence, path, opened>>

NoView == [kind |-> "none"]
NoJob == [kind |-> "none"]
NoSession == [snap |-> [bytes |-> <<>>, rev |-> 0], s |-> ScannerAt(0), done |-> FALSE,
              failed |-> FALSE, unterminated |-> FALSE]

ReaderInit ==
    /\ windows \in BOOLEAN
    /\ \E d \in Documents : delimited = d.csv /\ disk = [bytes |-> d.bytes, rev |-> 0]
    /\ evidence = "readable"
    /\ path = "same"
    /\ opened = disk
    /\ engine = [failed |-> FALSE, since |-> 0]
    /\ scan = NoSession
    /\ seen = <<>>
    /\ pc = "closed"
    /\ job = NoJob
    /\ shown = NoView

-----------------------------------------------------------------------------
(* The records of the snapshot, by the definition of RecordScanner.           *)
RecordsOf == [d \in Documents |-> Records(d.csv, d.bytes)]
Truth == RecordsOf[[csv |-> delimited, bytes |-> opened.bytes]]
Rows == [i \in 1..Len(Truth) |-> [row |-> i - 1, span |-> Truth[i]]]

-----------------------------------------------------------------------------
(* Other programs.  A write moves the revision; open_source_file of Windows   *)
(* shares no writing.  A replaced path leaves the handle's object alone.      *)
Events == disk.rev + (IF path = "same" THEN 0 ELSE 1)
                   + (IF evidence = "readable" THEN 0 ELSE 1)

Disturbed == pc \notin {"closed", "refused"} /\ Events < MaxEvents

Rewrite ==
    /\ Disturbed /\ ~windows /\ disk.rev < MaxWrites
    /\ disk' \in [bytes : Rewrites, rev : {disk.rev + 1}]
    /\ UNCHANGED <<windows, delimited, evidence, path, opened, engine, scan, seen, pc, job, shown>>

ReplacePath ==
    /\ Disturbed /\ path = "same"
    /\ path' \in {"lookalike", "other"}
    /\ UNCHANGED <<windows, delimited, disk, evidence, opened, engine, scan, seen, pc, job, shown>>

LoseEvidence ==
    /\ \/ Disturbed /\ evidence = "readable" /\ evidence' = "unreadable"
       \/ evidence = "unreadable" /\ evidence' = "restored"
    /\ UNCHANGED <<windows, delimited, disk, path, opened, engine, scan, seen, pc, job, shown>>

-----------------------------------------------------------------------------
(* SourceFingerprint::compare of two captures of the handle's object: its     *)
(* identity is the same, so size and then revision decide.                    *)
Compare(base, now) ==
    CASE Len(now.bytes) < Len(base.bytes) -> "shrank"
      [] Len(now.bytes) > Len(base.bytes) -> "grew"
      [] OTHER -> IF now.rev # base.rev THEN "revision_changed" ELSE "unchanged"

Capturable == evidence # "unreadable"
Changed(base) == Compare(base, disk) # "unchanged"
Unchanged(base) == Capturable /\ ~Changed(base)

(* A call returns an error; the engine of a failed open is dropped.           *)
Return == pc' = (IF job.kind = "open" THEN "refused" ELSE "idle") /\ job' = NoJob
Trust == UNCHANGED engine
Distrust == engine' = [engine EXCEPT !.failed = TRUE]

(* verify_source: the retained handle, then what the path names.  Without the *)
(* strong check Windows compares only size and times of the path's object.    *)
PathStill(strong) ==
    path = "same" \/ (path = "lookalike" /\ windows /\ ~strong)

(* Faulty: a later verification succeeds where an earlier one failed.         *)
VerifiedAgain(strong) == Unchanged(opened) /\ PathStill(strong)

Verified(strong) ==
    ~engine.failed /\ Unchanged(opened) /\ PathStill(strong)

-----------------------------------------------------------------------------
(* DocumentEngine::open_sheet: the snapshot, the scan session with a snapshot *)
(* of its own, and the first viewport.                                        *)
OpenFile ==
    /\ pc = "closed"
    /\ opened' = disk
    /\ pc' = "opening"
    /\ UNCHANGED <<windows, delimited, disk, evidence, path, engine, scan, seen, job, shown>>

Job(kind, first) ==
    [kind |-> kind, first |-> first, base |-> opened, s |-> ScannerAt(0), next |-> 0,
     spans |-> <<>>, stopped |-> FALSE, buf |-> <<>>, rows |-> <<>>, eof |-> FALSE,
     unterminated |-> FALSE, status |-> "progress", taken |-> 0]

NewSession ==
    /\ pc = "opening"
    /\ \/ /\ Capturable
          /\ scan' = [scan EXCEPT !.snap = disk]
          /\ pc' = "view" /\ job' = Job("open", 0)
       \/ /\ ~Capturable
          /\ pc' = "refused"
          /\ UNCHANGED <<scan, job>>
    /\ UNCHANGED <<source, engine, seen, shown>>

-----------------------------------------------------------------------------
(* read_at may return fewer bytes than requested.                             *)
Received(offset, request, n) ==
    /\ n \in 1..AtMost(request, Len(disk.bytes) - offset)
    /\ job' = [job EXCEPT !.buf = SubSeq(disk.bytes, offset + 1, offset + n)]

ReadsNothing(offset) == Len(disk.bytes) <= offset

(* The source answers a read with an I/O error: the call fails, nothing moves. *)
ReadFails ==
    /\ pc \in {"scan_read", "view_read", "fill_read", "rank_read"}
    /\ Return
    /\ UNCHANGED <<source, engine, scan, seen, shown>>

(* Faulty: the worker gives up on a session that once failed.                  *)
BeginScanSound ==
    /\ pc = "idle" /\ ~scan.failed
    /\ pc' = "scan" /\ job' = Job("scan", 0)
    /\ shown' = NoView /\ UNCHANGED <<source, engine, scan, seen>>

(* DocumentEngine::scan_step up to the session's step.                        *)
BeginScan ==
    /\ pc = "idle"
    /\ pc' = "scan" /\ job' = Job("scan", 0)
    /\ shown' = NoView /\ UNCHANGED <<source, engine, scan, seen>>

VerifyBeforeScan ==
    /\ pc = "scan"
    /\ \/ Verified(FALSE) /\ pc' = "scan_check" /\ Trust /\ UNCHANGED job
       \/ ~Verified(FALSE) /\ Distrust /\ Return
    /\ UNCHANGED <<source, scan, seen, shown>>

(* ScanSession::ensure_source_unchanged when it fails: the failure is sticky.  *)
(* A failed capture is an I/O error the first time and an integrity failure    *)
(* from then on.                                                              *)
SessionSound == ~scan.failed /\ Unchanged(scan.snap)

SessionFails ==
    /\ scan' = [scan EXCEPT !.failed = TRUE]
    /\ IF scan.failed \/ Capturable THEN Distrust ELSE Trust
    /\ Return

(* ScanSession::finalize.                                                     *)
Finalize(s) ==
    /\ scan' = [scan EXCEPT !.s = s, !.done = TRUE, !.unterminated = Unterminated(delimited, s)]
    /\ job' = [job EXCEPT !.status = "complete"]

CheckBeforeRead ==
    /\ pc = "scan_check"
    /\ \/ /\ ~SessionSound /\ SessionFails
          /\ UNCHANGED seen
       \/ /\ SessionSound /\ scan.done
          /\ pc' = "scan_verify" /\ job' = [job EXCEPT !.status = "complete"]
          /\ UNCHANGED <<engine, scan, seen>>
       \/ /\ SessionSound /\ ~scan.done /\ scan.s.offset = Len(scan.snap.bytes)
          /\ Finalize(scan.s) /\ seen' = seen \o Finish(scan.s)
          /\ pc' = "scan_verify" /\ Trust
       \/ /\ SessionSound /\ ~scan.done /\ scan.s.offset < Len(scan.snap.bytes)
          /\ pc' = "scan_read"
          /\ UNCHANGED <<engine, scan, seen, job>>
    /\ UNCHANGED <<source, shown>>

ScanRead ==
    /\ pc = "scan_read"
    /\ \/ /\ \E n \in 1..ReadBuffer :
                Received(scan.s.offset,
                         AtMost(ReadBuffer, Len(scan.snap.bytes) - scan.s.offset), n)
          /\ pc' = "scan_feed" /\ Trust
       \/ ReadsNothing(scan.s.offset) /\ Distrust /\ Return
    /\ UNCHANGED <<source, scan, seen, shown>>

(* Faulty: the chunk is not checked again after it was read.                   *)
ScanFeedUnchecked ==
    /\ pc = "scan_feed"
    /\ LET fed == Feed(delimited, scan.s, job.buf, Len(job.buf) + 1)
       IN  /\ scan' = [scan EXCEPT !.s = fed.s]
           /\ seen' = seen \o fed.out
           /\ job' = [job EXCEPT !.taken = Len(job.buf)]
           /\ pc' = IF fed.s.offset = Len(scan.snap.bytes) THEN "scan_eof" ELSE "scan_verify"
    /\ UNCHANGED <<source, engine, shown>>

(* The second check, then the scanner takes the chunk, or the part of it       *)
(* before the token was found cancelled.                                      *)
ScanFeed ==
    /\ pc = "scan_feed"
    /\ \/ /\ ~SessionSound /\ SessionFails
          /\ UNCHANGED seen
       \/ /\ SessionSound
          /\ \E n \in 0..Len(job.buf) :
                LET fed == Feed(delimited, scan.s, SubSeq(job.buf, 1, n), n + 1)
                    all == n = Len(job.buf)
                IN  /\ all \/ n % CheckEvery = 0
                    /\ scan' = [scan EXCEPT !.s = fed.s]
                    /\ seen' = seen \o fed.out
                    /\ job' = [job EXCEPT !.taken = n]
                    /\ pc' = IF all /\ fed.s.offset = Len(scan.snap.bytes)
                             THEN "scan_eof" ELSE "scan_verify"
          /\ Trust
    /\ UNCHANGED <<source, shown>>

ScanEof ==
    /\ pc = "scan_eof"
    /\ \/ ~SessionSound /\ SessionFails /\ UNCHANGED seen
       \/ /\ SessionSound
          /\ Finalize(scan.s) /\ seen' = seen \o Finish(scan.s)
          /\ pc' = "scan_verify" /\ Trust
    /\ UNCHANGED <<source, shown>>

(* The end of scan_step: the path's identity is checked when enough bytes      *)
(* were scanned since the last time, and always on completion.                *)
VerifyAfterScan ==
    /\ pc = "scan_verify"
    /\ LET since == AtMost(engine.since + job.taken, StrongCheck)
           strong == since >= StrongCheck \/ job.status = "complete"
       IN  IF Verified(strong)
           THEN engine' = [engine EXCEPT !.since = IF strong THEN 0 ELSE since]
           ELSE engine' = [failed |-> TRUE, since |-> since]
    /\ Return
    /\ UNCHANGED <<source, scan, seen, shown>>

-----------------------------------------------------------------------------
(* DocumentEngine::snapshot and read_viewport.                                *)
BeginView ==
    /\ pc = "idle"
    /\ \E first \in 0..Len(seen) + 1 : job' = Job("view", first)
    /\ pc' = "view"
    /\ shown' = NoView /\ UNCHANGED <<source, engine, scan, seen>>

(* The token of a viewport is looked at before every read and by the scanner. *)
CancelView ==
    /\ pc \in {"view", "view_capture", "view_loop", "view_feed", "view_fill",
              "rank_next", "rank_read"}
    /\ Return
    /\ UNCHANGED <<source, engine, scan, seen, shown>>

VerifyBeforeView ==
    /\ pc = "view"
    /\ \/ /\ Verified(TRUE) /\ Trust /\ UNCHANGED job
          /\ pc' = IF job.kind = "ranked" THEN "rank_next" ELSE "view_capture"
       \/ ~Verified(TRUE) /\ Distrust /\ Return
    /\ UNCHANGED <<source, scan, seen, shown>>

(* The index answers with a record at or before the first row, or the origin. *)
ViewCapture ==
    /\ pc = "view_capture"
    /\ \/ /\ Capturable
          /\ \E row \in 0..AtMost(job.first, Len(seen)) :
                /\ row = 0 \/ row < Len(seen)
                /\ LET offset == IF row = 0 THEN 0 ELSE seen[row + 1].start
                   IN  IF offset > Len(disk.bytes) THEN Return
                       ELSE /\ job' = [job EXCEPT !.base = disk, !.s = ScannerAt(offset),
                                                  !.next = row]
                            /\ pc' = "view_loop"
       \/ ~Capturable /\ Return
    /\ UNCHANGED <<source, engine, scan, seen, shown>>

(* ensure_source_unchanged of the viewport: a change is an integrity failure   *)
(* of the engine, a failed capture is not.                                    *)
ViewFails ==
    /\ ~Unchanged(job.base)
    /\ IF Capturable THEN Distrust ELSE Trust
    /\ Return

ViewOver ==
    \/ job.stopped \/ job.s.offset = Len(job.base.bytes) \/ Len(job.spans) = RowLimit

(* SpanCollector::accept over the records `out`, which start at row job.next.  *)
Skipped == IF job.next < job.first THEN job.first - job.next ELSE 0

Collected(out) ==
    LET rows == [i \in 1..Len(out) |-> [row |-> job.next + i - 1, span |-> out[i]]]
    IN  job.spans \o SubSeq(rows, Skipped + 1, Len(rows))

StopAfter == Skipped + RowLimit - Len(job.spans)

ViewLoop ==
    /\ pc = "view_loop"
    /\ \/ /\ ~ViewOver /\ Unchanged(job.base)
          /\ pc' = "view_read" /\ Trust /\ UNCHANGED job
       \/ ~ViewOver /\ ViewFails
       \/ /\ ViewOver
          /\ LET eof == job.s.offset = Len(job.base.bytes)
                 finish == eof /\ Len(job.spans) < RowLimit
             IN  job' = [job EXCEPT
                    !.eof = eof,
                    !.spans = IF finish THEN Collected(Finish(job.s)) ELSE @,
                    !.unterminated = finish /\ Unterminated(delimited, job.s)]
          /\ pc' = "view_fill" /\ Trust
    /\ UNCHANGED <<source, scan, seen, shown>>

ViewRead ==
    /\ pc = "view_read"
    /\ \/ /\ \E n \in 1..ReadBuffer :
                Received(job.s.offset, AtMost(ReadBuffer, Len(job.base.bytes) - job.s.offset), n)
          /\ pc' = "view_feed" /\ Trust
       \/ ReadsNothing(job.s.offset) /\ Distrust /\ Return
    /\ UNCHANGED <<source, scan, seen, shown>>

ViewFeed ==
    /\ pc = "view_feed"
    /\ \/ ViewFails
       \/ /\ Unchanged(job.base)
          /\ LET fed == Feed(delimited, job.s, job.buf, StopAfter)
             IN  job' = [job EXCEPT !.s = fed.s, !.stopped = fed.stopped, !.buf = <<>>,
                                    !.next = @ + Len(fed.out), !.spans = Collected(fed.out)]
          /\ pc' = "view_loop" /\ Trust
    /\ UNCHANGED <<source, scan, seen, shown>>

-----------------------------------------------------------------------------
(* materialize_previews: the visible prefix of each record, within the bytes   *)
(* one record and the whole viewport may show.                                *)
Length(span) == span.end - span.start

PayloadLeft(rows) ==
    MaxPayload - Len(FlattenSeq([i \in 1..Len(rows) |-> rows[i].bytes]))

Filling == job.spans[Len(job.rows) + 1]

CopySize ==
    IF job.kind = "ranked" THEN AtMost(Length(Filling.span), MaxPreview)
    ELSE AtMost(AtMost(Length(Filling.span), MaxPreview), PayloadLeft(job.rows))

PushRow ==
    job' = [job EXCEPT !.buf = <<>>,
                       !.rows = Append(@, [row |-> Filling.row, span |-> Filling.span,
                                           bytes |-> job.buf])]

ViewFill ==
    /\ pc = "view_fill"
    /\ IF Len(job.rows) = Len(job.spans)
       THEN /\ \/ Unchanged(job.base) /\ pc' = "view_verify" /\ Trust /\ UNCHANGED job
               \/ ViewFails
       ELSE IF Len(job.buf) = CopySize
       THEN PushRow /\ Trust /\ UNCHANGED pc
       ELSE \/ Unchanged(job.base) /\ pc' = "fill_read" /\ Trust /\ UNCHANGED job
            \/ ViewFails
    /\ UNCHANGED <<source, scan, seen, shown>>

FillMore(n) ==
    LET offset == Filling.span.start + Len(job.buf)
    IN  /\ n \in 1..AtMost(CopySize - Len(job.buf), Len(disk.bytes) - offset)
        /\ job' = [job EXCEPT !.buf = @ \o SubSeq(disk.bytes, offset + 1, offset + n)]

FillRead ==
    /\ pc = "fill_read"
    /\ \/ (\E n \in 1..MaxPreview : FillMore(n)) /\ pc' = "fill_check" /\ Trust
       \/ /\ ReadsNothing(Filling.span.start + Len(job.buf)) /\ Distrust /\ Return
    /\ UNCHANGED <<source, scan, seen, shown>>

FillCheck ==
    /\ pc = "fill_check"
    /\ \/ Unchanged(job.base) /\ pc' = "view_fill" /\ Trust /\ UNCHANGED job
       \/ ViewFails
    /\ UNCHANGED <<source, scan, seen, shown>>

(* Faulty: the check against the viewport's own baseline is taken to be enough. *)
VerifyAfterViewNever ==
    /\ pc = "view_verify"
    /\ shown' = [kind |-> job.kind, first |-> job.first, rows |-> job.rows,
                 eof |-> job.eof, unterminated |-> job.unterminated]
    /\ pc' = "idle" /\ job' = NoJob
    /\ UNCHANGED <<source, engine, scan, seen>>

(* The engine's last check, then the rows are handed to the interface.         *)
VerifyAfterView ==
    /\ pc = "view_verify"
    /\ \/ /\ Verified(TRUE)
          /\ shown' = [kind |-> job.kind, first |-> job.first, rows |-> job.rows,
                       eof |-> job.eof, unterminated |-> job.unterminated]
          /\ pc' = "idle" /\ job' = NoJob /\ Trust
       \/ ~Verified(TRUE) /\ Distrust /\ Return /\ UNCHANGED shown
    /\ UNCHANGED <<source, scan, seen>>

-----------------------------------------------------------------------------
(* DocumentEngine::snapshot_ordered: rows by their rank in a finished sort,     *)
(* each read by RecordPreview::read_at against a baseline of its own.          *)
Order == Reverse(Rows)

BeginRanked ==
    /\ pc = "idle"
    /\ \E first \in 0..Len(Order) :
          job' = [Job("ranked", first) EXCEPT
                     !.spans = SubSeq(Order, first + 1, AtMost(first + RowLimit, Len(Order))),
                     !.eof = first + RowLimit >= Len(Order)]
    /\ pc' = "view"
    /\ shown' = NoView /\ UNCHANGED <<source, engine, scan, seen>>

(* A failure here is no integrity failure of the engine: the next verification *)
(* finds the change itself.                                                   *)
RankNext ==
    /\ pc = "rank_next"
    /\ IF Len(job.rows) = Len(job.spans) THEN pc' = "view_verify" /\ UNCHANGED job
       ELSE IF ~Capturable \/ Filling.span.end > Len(disk.bytes) THEN Return
       ELSE pc' = "rank_read" /\ job' = [job EXCEPT !.base = disk]
    /\ UNCHANGED <<source, engine, scan, seen, shown>>

RankRead ==
    /\ pc = "rank_read"
    /\ IF Len(job.buf) = CopySize
       THEN IF Unchanged(job.base) THEN PushRow /\ pc' = "rank_next" ELSE Return
       ELSE \/ (\E n \in 1..MaxPreview : FillMore(n)) /\ UNCHANGED pc
            \/ ReadsNothing(Filling.span.start + Len(job.buf)) /\ Return
    /\ UNCHANGED <<source, engine, scan, seen, shown>>

-----------------------------------------------------------------------------
ScanSteps ==
    VerifyBeforeScan \/ CheckBeforeRead \/ ScanRead \/ ScanFeed \/ ScanEof \/ VerifyAfterScan

ViewSteps ==
    \/ VerifyBeforeView \/ ViewCapture \/ ViewLoop \/ ViewRead \/ ViewFeed \/ ViewFill
    \/ FillRead \/ FillCheck \/ VerifyAfterView \/ RankNext \/ RankRead

Environment == Rewrite \/ ReplacePath \/ LoseEvidence

ReaderNext ==
    \/ OpenFile \/ NewSession \/ BeginScan \/ ScanSteps
    \/ BeginView \/ BeginRanked \/ ViewSteps \/ CancelView \/ ReadFails
    \/ Environment
    \/ pc = "refused" /\ UNCHANGED readerVars

ReaderSpec == ReaderInit /\ [][ReaderNext]_readerVars

(* The worker goes on calling scan_step between viewports (DocumentWorker), a   *)
(* call runs to its end, and neither reads nor tokens fail for ever.            *)
ReaderFairness ==
    /\ WF_readerVars(OpenFile \/ NewSession \/ ScanSteps \/ ViewSteps)
    /\ SF_readerVars(BeginScan)
    /\ SF_readerVars(ScanRead)
    /\ SF_readerVars(ScanFeed /\ (pc' # "scan_verify" \/ job'.taken = Len(job.buf)))

ReaderFairSpec == ReaderSpec /\ ReaderFairness

-----------------------------------------------------------------------------
ReaderTypeOK ==
    /\ {windows, delimited} \subseteq BOOLEAN
    /\ disk.rev \in 0..MaxWrites
    /\ evidence \in {"readable", "unreadable", "restored"}
    /\ path \in {"same", "lookalike", "other"}
    /\ engine \in [failed : BOOLEAN, since : 0..StrongCheck]
    /\ scan.s.offset \in 0..Len(scan.snap.bytes)
    /\ scan.s.start <= scan.s.offset
    /\ job.kind \in {"none", "open", "scan", "view", "ranked"}
    /\ (job.kind = "none") <=> (pc \in {"closed", "opening", "idle", "refused"})

Stream == INSTANCE RecordStream WITH
    truth <- Truth, complete <- scan.done, broken <- scan.failed

(* Whatever the quanta, cancellations, failed reads and rewrites, the scan      *)
(* session discovers the records of the snapshot, in order and once each, and   *)
(* finalizes only with all of them (session.rs, step and finalize).             *)
StreamOfSnapshot == Stream!Spec

VisiblePrefix(span, most) ==
    SubSeq(opened.bytes, span.start + 1, span.start + AtMost(Length(span), most))

(* A viewport that reaches the interface shows the rows asked for, of the       *)
(* snapshot the document was opened with, never bytes of a file that changed    *)
(* between a check and a read (viewport.rs:186, document_engine.rs snapshot).    *)
ShownIsSnapshot ==
    shown # NoView =>
        LET all == IF shown.kind = "ranked" THEN Order ELSE Rows
            want == SubSeq(all, shown.first + 1, AtMost(shown.first + RowLimit, Len(all)))
            left(i) == IF shown.kind = "ranked" THEN MaxPreview
                       ELSE AtMost(MaxPreview, PayloadLeft(SubSeq(shown.rows, 1, i - 1)))
        IN  /\ Len(shown.rows) = Len(want)
            /\ \A i \in 1..Len(want) :
                  /\ shown.rows[i].row = want[i].row
                  /\ shown.rows[i].span = want[i].span
                  /\ shown.rows[i].bytes = VisiblePrefix(want[i].span, left(i))
            /\ shown.eof <=> shown.first + Len(want) >= Len(all)
            /\ shown.unterminated =>
                  shown.eof /\ delimited /\ Inside(opened.bytes)[Len(opened.bytes) + 1]

(* The fields and cells shown for a truncated row are prefixes of the row's,     *)
(* and one not marked as cut is whole (projection.rs, build_cached_row).         *)
CellsAreHonest ==
    shown # NoView =>
        \A i \in 1..Len(shown.rows) :
            LET span == shown.rows[i].span
                record == SubSeq(opened.bytes, span.start + 1, span.end)
                bytes == shown.rows[i].bytes
                cut == Len(bytes) < Len(record)
            IN  /\ delimited => HonestProjection(Project(bytes, cut, FieldLimits), record, FieldLimits)
                /\ HonestCells(CellsOf(delimited, bytes, cut, FieldLimits),
                               IF delimited THEN FieldValues(record) ELSE <<record>>, FieldLimits)

(* Once the engine has lost trust in its source it neither discovers a row nor  *)
(* hands out a viewport again: integrity_failed has no way back.                *)
DistrustIsFinal ==
    [][engine.failed => /\ engine'.failed /\ UNCHANGED <<seen, scan>>
                       /\ shown' \in {shown, NoView}]_readerVars

(* The scan has neither ended nor found its document changed.                   *)
Scanning == ~scan.done /\ ~engine.failed /\ pc # "refused"
=============================================================================
