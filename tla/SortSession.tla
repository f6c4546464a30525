------------------------------ MODULE SortSession -----------------------------
(***************************************************************************)
(* One external sort (src/sort/session.rs, inverse.rs, the maps of           *)
(* storage.rs): records are scanned and their keys built, full batches are    *)
(* merge-sorted and written as runs, runs are merged through a winner tree,   *)
(* pass by pass, and the last run becomes the two maps of a sorted view.  Any *)
(* of it may be cut by the work budget, a cancellation or a refusal, and      *)
(* another program may rewrite the source in between.                       *)
(***************************************************************************)
EXTENDS SortKeys

CONSTANTS
    Requests,    \* [csv, bytes, column, numeric, descending]
    Tunings,     \* [batch, fanIn, step]: SortConfig
    ScanBuffer,  \* bytes of the scan buffer
    PageRecords, \* records in a read page
    RecordCost,  \* budget taken by a record moved
    BucketRows, BufferPairs, ChunkPairs \* BUCKET_ROWS, BUCKET_BUFFER_BYTES, CHUNK_BYTES

(* SortSession::new and InverseBuilder::new refuse every other configuration.   *)
ValidTuning(t) == t.batch > 0 /\ t.fanIn >= 2 /\ t.step > 0

ASSUME SortAssumption ==
    /\ \A t \in Tunings : ValidTuning(t)
    /\ {ScanBuffer, PageRecords, RecordCost, BucketRows, BufferPairs, ChunkPairs} \subseteq Nat \ {0}

VARIABLES
    sort,     \* the request and the tuning
    sortDisk, \* the source: bytes and revision
    call,     \* pc begin, run, order or done; budget left; outcome
    phase,    \* SortPhase
    sortScan, \* the scanner, over (taken), the scan buffer and the position in it
    pending,  \* the locator or builder at work
    batch,    \* descriptors, their merge copy, and the batch merge's cursors
    compare,  \* the comparison that a budget cut
    runs,     \* run file, pass file, their flags, widths, records
    tree,     \* the winner tree of a merge group
    pages,    \* read pages of the run file
    maps      \* order and inverse maps, the pairs and buckets between them

sortVars ==
    <<sort, sortDisk, call, phase, sortScan, pending, batch, compare, runs, tree, pages, maps>>
sortWorld == <<sort, sortDisk>>
merging == <<compare, tree, pages>>

None == [kind |-> "none"]
NoPage == [base |-> -1, rows |-> <<>>]
File == [rows |-> <<>>, ready |-> FALSE]
Empty == 0

Leaves(fanIn) == CHOOSE p \in {1, 2, 4, 8} : p >= fanIn /\ p \div 2 < fanIn

NewTree(fanIn) ==
    [leaves |-> Leaves(fanIn), nodes |-> [n \in 1..2 * Leaves(fanIn) - 1 |-> Empty],
     heads |-> [r \in 1..fanIn |-> None], next |-> [r \in 1..fanIn |-> 0],
     end |-> [r \in 1..fanIn |-> 0], groupEnd |-> 0, stage |-> "idle", at |-> 0]

NewBatch ==
    [d |-> <<>>, alt |-> <<>>, width |-> 0, start |-> 0, left |-> 0, right |-> 0,
     middle |-> 0, end |-> 0, out |-> 0, writeAt |-> 0]

SortInit ==
    /\ \E r \in Requests, t \in Tunings :
          /\ sort = [request |-> r, tuning |-> t]
          /\ sortDisk = [bytes |-> r.bytes, rev |-> 0]
          /\ runs = [file |-> File, pass |-> None, passes |-> 0, width |-> t.batch,
                     groupStart |-> 0, records |-> 0]
          /\ tree = NewTree(t.fanIn)
    /\ call = [pc |-> "begin", budget |-> 0, outcome |-> "none"]
    /\ phase = "extracting"
    /\ sortScan = [s |-> ScannerAt(0), over |-> FALSE, buf |-> <<>>, at |-> 0]
    /\ pending = None /\ compare = None
    /\ batch = NewBatch
    /\ pages = <<NoPage>>
    /\ maps = None

request == sort.request
tuning == sort.tuning
SortSize == Len(request.bytes)

-----------------------------------------------------------------------------
(* The calls: SortSession::advance, and into_order once it is complete.  A        *)
(* comparison that the budget cut goes on in the next call.  Faulty: it is begun  *)
(* again.                                                                       *)
ComparedAfresh(comparison) == None

Resumed(comparison) == comparison

SortFails(outcome) == call' = [call EXCEPT !.pc = "done", !.outcome = outcome]
Spend(n) == call' = [call EXCEPT !.budget = IF @ > n THEN @ - n ELSE 0]
SortDisturbed == sortDisk.rev # 0

Begin ==
    /\ call.pc = "begin"
    /\ IF SortDisturbed THEN SortFails("source_changed")
       ELSE call' = [call EXCEPT !.pc = "run", !.budget = tuning.step]
    /\ compare' = Resumed(compare)
    /\ UNCHANGED <<sortWorld, phase, sortScan, pending, batch, tree, pages, runs, maps>>

CancelledBegin ==
    /\ call.pc = "begin"
    /\ phase' = "cancelled"
    /\ SortFails("cancelled")
    /\ UNCHANGED <<sortWorld, sortScan, pending, batch, merging, runs, maps>>

Working == call.pc = "run" /\ call.budget > 0 /\ phase \notin {"complete", "cancelled"}
At(stage) == Working /\ phase = stage

CancelSeen ==
    /\ Working
    /\ phase' = "cancelled"
    /\ UNCHANGED <<sortWorld, call, sortScan, pending, batch, merging, runs, maps>>

EndAdvance ==
    /\ call.pc = "run" /\ ~Working
    /\ CASE SortDisturbed -> SortFails("source_changed")
         [] ~SortDisturbed /\ phase = "cancelled" -> SortFails("cancelled")
         [] ~SortDisturbed /\ phase = "complete" -> call' = [call EXCEPT !.pc = "order"]
         [] OTHER -> call' = [call EXCEPT !.pc = "begin"]
    /\ UNCHANGED <<sortWorld, phase, sortScan, pending, batch, merging, runs, maps>>

IntoOrder ==
    /\ call.pc = "order"
    /\ SortFails(IF SortDisturbed THEN "source_changed" ELSE "ordered")
    /\ UNCHANGED <<sortWorld, phase, sortScan, pending, batch, merging, runs, maps>>

(* Scratch quota, memory or the disk refuse a file, an append or a page.         *)
Refused ==
    /\ call.pc \in {"run", "order"}
    /\ SortFails("refused")
    /\ UNCHANGED <<sortWorld, phase, sortScan, pending, batch, merging, runs, maps>>

(* Another program writes the file in place.                                    *)
RewriteSorted ==
    /\ ~SortDisturbed /\ call.pc # "done"
    /\ sortDisk' = [bytes |-> Reverse(request.bytes), rev |-> 1]
    /\ UNCHANGED <<sort, call, phase, sortScan, pending, batch, merging, runs, maps>>

-----------------------------------------------------------------------------
(* extract.                                                                     *)
Readable(at) == at < Len(sortDisk.bytes)
Byte(at) == sortDisk.bytes[at + 1]

(* Locator::advance, a byte at a time.                                          *)
LocateByte ==
    LET ends == pending.cursor = pending.d.end
        read == IF ends THEN pending
                ELSE LocatorByte(pending, Byte(pending.cursor), request.csv, request.column)
        found == IF read.state # "found" /\ read.cursor = read.d.end
                 THEN LocatorEnd(read, request.column) ELSE read
    IN  /\ At("extracting") /\ pending.kind = "locate"
        /\ IF ends \/ Readable(pending.cursor)
           THEN /\ pending' = IF found.state = "found" THEN NewBuilder(found.d) ELSE found
                /\ Spend(IF ends THEN 0 ELSE 1)
           ELSE SortFails("source_changed") /\ UNCHANGED pending
        /\ UNCHANGED <<sortWorld, phase, sortScan, batch, merging, runs, maps>>

BuildByte ==
    /\ At("extracting") /\ pending.kind = "build" /\ pending.c.at < pending.c.end
    /\ IF Readable(pending.c.at)
       THEN /\ pending' = BuilderByte(pending, Byte(pending.c.at), request.numeric)
            /\ Spend(1)
       ELSE SortFails("source_changed") /\ UNCHANGED pending
    /\ UNCHANGED <<sortWorld, phase, sortScan, batch, merging, runs, maps>>

BuildEnd ==
    LET d == IF request.numeric THEN NumberFinish(pending.n, pending.d) ELSE pending.d
    IN  /\ At("extracting") /\ pending.kind = "build" /\ pending.c.at = pending.c.end
        /\ IF request.numeric /\ OutOfRange(pending.n)
           THEN SortFails("numeric_range") /\ UNCHANGED <<pending, batch, runs>>
           ELSE /\ batch' = [batch EXCEPT !.d = Append(@, d)]
                /\ runs' = [runs EXCEPT !.records = @ + 1]
                /\ pending' = None
                /\ UNCHANGED call
        /\ UNCHANGED <<sortWorld, phase, sortScan, merging, maps>>

Extracting == At("extracting") /\ pending = None
BatchFull == Len(batch.d) = tuning.batch \/ sortScan.over

SortBatch ==
    /\ Extracting /\ BatchFull /\ batch.d # <<>>
    /\ batch' = [NewBatch EXCEPT !.d = batch.d, !.alt = batch.d, !.width = 1]
    /\ phase' = "sorting"
    /\ UNCHANGED <<sortWorld, call, sortScan, pending, merging, runs, maps>>

Scanned(span) ==
    pending' = IF span = <<>> THEN None ELSE NewLocator(runs.records, span[1])

ScanEnd ==
    /\ Extracting /\ ~BatchFull /\ sortScan.s.offset = SortSize
    /\ Scanned(Finish(sortScan.s))
    /\ sortScan' = [sortScan EXCEPT !.over = TRUE]
    /\ UNCHANGED <<sortWorld, call, phase, batch, merging, runs, maps>>

(* The scanner is fed a byte at a time from the buffer, which is filled first.    *)
ScanBytes ==
    LET empty == sortScan.at = Len(sortScan.buf)
        to == AtMost(AtMost(sortScan.s.offset + ScanBuffer, SortSize), Len(sortDisk.bytes))
        buf == IF empty THEN SubSeq(sortDisk.bytes, sortScan.s.offset + 1, to) ELSE sortScan.buf
        at == IF empty THEN 0 ELSE sortScan.at
        fed == Feed(request.csv, sortScan.s, <<buf[at + 1]>>, 1)
    IN  /\ Extracting /\ ~BatchFull /\ sortScan.s.offset < SortSize
        /\ IF buf = <<>>
           THEN SortFails("source_changed") /\ UNCHANGED <<sortScan, pending>>
           ELSE /\ sortScan' = [sortScan EXCEPT !.s = fed.s, !.buf = buf, !.at = at + fed.n]
                /\ Scanned(fed.out)
                /\ Spend(fed.n)
        /\ UNCHANGED <<sortWorld, phase, batch, merging, runs, maps>>

-----------------------------------------------------------------------------
(* compare: what two descriptors do not decide is read from the source, one byte *)
(* at a time; Use acts on the order in the step that finds it.                  *)
Ordering(a, b, Use(_, _), Wait) ==
    LET side == compare.sides[Reading(compare)]
        ends == SideDone(compare)
        next == IF ends THEN CompareEnd(request, compare)
                ELSE CompareByte(request, compare, Byte(side.c.at))
        cost == IF ends THEN 0 ELSE 1
    IN  IF compare = None
        THEN IF Decide(request, a, b) # Undecided
             THEN Use(Decide(request, a, b), 0) /\ UNCHANGED compare
             ELSE compare' = NewComparison(request, a, b) /\ Wait /\ UNCHANGED call
        ELSE IF ~ends /\ ~Readable(side.c.at)
        THEN SortFails("source_changed") /\ Wait /\ UNCHANGED compare
        ELSE IF next.verdict = Undecided
        THEN compare' = next /\ Wait /\ Spend(cost)
        ELSE compare' = None /\ Use(next.verdict, cost)

(* sort_batch: bottom-up merges of ever wider stretches, then the run is written. *)
Count == Len(batch.d)
Sorting == At("sorting") /\ batch.width < Count

Stretch ==
    IF batch.out # batch.end THEN batch
    ELSE LET middle == AtMost(batch.start + batch.width, Count)
         IN  [batch EXCEPT !.left = batch.start, !.right = middle, !.middle = middle,
                           !.end = AtMost(middle + batch.width, Count), !.out = batch.start]

Taken(m, left) ==
    LET index == IF left THEN m.left ELSE m.right
        out == m.out + 1
    IN  [m EXCEPT !.left = IF left THEN @ + 1 ELSE @, !.right = IF left THEN @ ELSE @ + 1,
                  !.alt[out] = m.d[index + 1], !.out = out,
                  !.start = IF out = m.end THEN m.end ELSE @]

MergeRecords ==
    LET m == Stretch
        use(order, cost) == batch' = Taken(m, order # 1) /\ Spend(cost + RecordCost)
    IN  /\ Sorting /\ batch.start < Count
        /\ IF m.left = m.middle THEN use(1, 0) /\ UNCHANGED compare
           ELSE IF m.right = m.end THEN use(-1, 0) /\ UNCHANGED compare
           ELSE Ordering(m.d[m.left + 1], m.d[m.right + 1], use, batch' = m)
        /\ UNCHANGED <<sortWorld, phase, sortScan, pending, tree, pages, runs, maps>>

CopyBack ==
    /\ Sorting /\ batch.start = Count
    /\ batch' = [batch EXCEPT !.d = batch.alt, !.width = @ * 2, !.start = 0, !.end = 0, !.out = 0]
    /\ Spend(Count * RecordCost)
    /\ UNCHANGED <<sortWorld, phase, sortScan, pending, merging, runs, maps>>

WriteRun ==
    /\ At("sorting") /\ batch.width >= Count /\ batch.writeAt < Count
    /\ runs' = [runs EXCEPT !.file.rows = Append(@, batch.d[batch.writeAt + 1])]
    /\ batch' = [batch EXCEPT !.writeAt = @ + 1]
    /\ Spend(RecordCost)
    /\ UNCHANGED <<sortWorld, phase, sortScan, pending, merging, maps>>

EndRun ==
    /\ At("sorting") /\ batch.width >= Count /\ batch.writeAt = Count
    /\ batch' = NewBatch
    /\ phase' = "extracting"
    /\ UNCHANGED <<sortWorld, call, sortScan, pending, merging, runs, maps>>

-----------------------------------------------------------------------------
(* ReadPage::record: <<page, descriptor>>, or nothing when the file holds no     *)
(* such record or a decoded one contradicts itself.                            *)
SoundDescriptor(d) ==
    d.start <= d.keyStart /\ d.keyStart <= d.keyEnd /\ d.keyEnd <= d.end

PageAt(page, index) ==
    LET base == (index \div PageRecords) * PageRecords
    IN  IF base = page.base THEN page
        ELSE [base |-> base,
              rows |-> IF runs.file.ready
                       THEN SubSeq(runs.file.rows, base + 1,
                                   AtMost(base + PageRecords, Len(runs.file.rows)))
                       ELSE <<>>]

Held(page, index) ==
    /\ index - page.base < Len(page.rows)
    /\ SoundDescriptor(page.rows[index - page.base + 1])

(* begin_disk_merge: the next pass over the runs, or the maps when one is left.   *)
(* Faulty: the pages keep what they hold of the file before.                   *)
PagesKept(held) == held

PagesReset(held) == [i \in 1..Len(held) |-> [held[i] EXCEPT !.base = -1]]

Ceil(n, d) == (n + d - 1) \div d

Buckets == Ceil(runs.records, BucketRows)

NewBuilderState ==
    [pairs |-> [at \in 1..runs.records |-> None], buf |-> [b \in 1..Buckets |-> <<>>],
     written |-> [b \in 1..Buckets |-> 0], ranks |-> <<>>, bucket |-> 0, read |-> 0]

(* begin_maps.                                                                *)
NewMaps ==
    [kind |-> "maps", order |-> File, at |-> 0,
     inverse |-> [row \in 1..runs.records |-> 0], builder |-> NewBuilderState]

BeginDiskMerge(r) ==
    LET file == [r EXCEPT !.file.ready = TRUE]
        reset == PagesReset(pages)
        wanted == AtMost(Ceil(r.records, r.width), tuning.fanIn)
    IN  IF r.records <= r.width
        THEN /\ runs' = [file EXCEPT !.pass = None]
             /\ pages' = SubSeq(reset, 1, 1)
             /\ tree' = NewTree(1)
             /\ maps' = NewMaps
             /\ phase' = "building"
        ELSE /\ runs' = [file EXCEPT !.pass = File, !.passes = @ + 1, !.groupStart = 0]
             /\ pages' = reset \o [i \in 1..(wanted - AtMost(wanted, Len(reset))) |-> NoPage]
             /\ tree' = [tree EXCEPT !.stage = "idle"]
             /\ phase' = "merging"
             /\ UNCHANGED maps

ScannedAll ==
    /\ Extracting /\ BatchFull /\ batch.d = <<>>
    /\ BeginDiskMerge(runs)
    /\ UNCHANGED <<sortWorld, call, sortScan, pending, batch, compare>>

-----------------------------------------------------------------------------
(* merge_disk.                                                                  *)
NextWidth(width) == width * tuning.fanIn

EndPass ==
    /\ At("merging") /\ tree.stage = "idle" /\ runs.groupStart = runs.records
    /\ BeginDiskMerge([runs EXCEPT !.file = runs.pass, !.width = NextWidth(@)])
    /\ UNCHANGED <<sortWorld, call, sortScan, pending, batch, compare>>

(* start_group, with load_head for every run.                                   *)
StartGroup ==
    LET from(r) == AtMost(runs.groupStart + (r - 1) * runs.width, runs.records)
        to(r) == AtMost(runs.groupStart + r * runs.width, runs.records)
        used == 1..Len(pages)
        live == {r \in used : from(r) < to(r)}
        loaded == [r \in used |-> IF r \in live THEN PageAt(pages[r], from(r)) ELSE pages[r]]
    IN  /\ At("merging") /\ tree.stage = "idle" /\ runs.groupStart < runs.records
        /\ IF \E r \in live : ~Held(loaded[r], from(r))
           THEN SortFails("invalid_scratch") /\ UNCHANGED <<tree, pages>>
           ELSE /\ pages' = loaded
                /\ tree' = [tree EXCEPT
                       !.next = [r \in DOMAIN @ |-> IF r \in used THEN from(r) ELSE @[r]],
                       !.end = [r \in DOMAIN @ |-> IF r \in used THEN to(r) ELSE @[r]],
                       !.heads = [r \in DOMAIN @ |->
                           IF r \in live THEN loaded[r].rows[from(r) - loaded[r].base + 1]
                           ELSE IF r \in used THEN None ELSE @[r]],
                       !.nodes = [n \in DOMAIN @ |->
                           IF n - tree.leaves + 1 \in live THEN n - tree.leaves + 1 ELSE Empty],
                       !.groupEnd = to(Len(pages)),
                       !.stage = IF tree.leaves > 1 THEN "build" ELSE "emit",
                       !.at = tree.leaves - 1]
                /\ UNCHANGED call
        /\ UNCHANGED <<sortWorld, phase, sortScan, pending, batch, compare, runs, maps>>

(* play, and the stage after it: nodes are built from the last up to the root, or *)
(* replayed from a leaf's parent up.                                           *)
Played(t, winner) ==
    LET n == t.at
    IN  [t EXCEPT !.nodes[n] = winner,
                  !.stage = IF n > 1 THEN @ ELSE "emit",
                  !.at = IF n = 1 THEN 0 ELSE IF t.stage = "build" THEN n - 1 ELSE n \div 2]

Play ==
    LET left == tree.nodes[2 * tree.at]
        right == tree.nodes[2 * tree.at + 1]
        use(order, cost) ==
            tree' = Played(tree, IF order = 1 THEN right ELSE left) /\ Spend(cost)
    IN  /\ At("merging") /\ tree.stage \in {"build", "replay"}
        /\ IF left = Empty THEN use(1, 0) /\ UNCHANGED compare
           ELSE IF right = Empty THEN use(-1, 0) /\ UNCHANGED compare
           ELSE Ordering(tree.heads[left], tree.heads[right], use, UNCHANGED tree)
        /\ UNCHANGED <<sortWorld, phase, sortScan, pending, batch, pages, runs, maps>>

EndGroup ==
    /\ At("merging") /\ tree.stage = "emit" /\ tree.nodes[1] = Empty
    /\ runs' = [runs EXCEPT !.groupStart = tree.groupEnd]
    /\ tree' = [tree EXCEPT !.stage = "idle"]
    /\ UNCHANGED <<sortWorld, call, phase, sortScan, pending, batch, compare, pages, maps>>

(* The root's record goes out and its run's next one comes in.                   *)
Emit ==
    LET run == tree.nodes[1]
        next == tree.next[run] + 1
        more == next < tree.end[run]
        page == IF more THEN PageAt(pages[run], next) ELSE pages[run]
        leaf == tree.leaves + run - 1
    IN  /\ At("merging") /\ tree.stage = "emit" /\ run # Empty
        /\ IF more /\ ~Held(page, next)
           THEN SortFails("invalid_scratch") /\ UNCHANGED <<tree, pages, runs>>
           ELSE /\ runs' = [runs EXCEPT !.pass.rows = Append(@, tree.heads[run])]
                /\ pages' = [pages EXCEPT ![run] = page]
                /\ tree' = [tree EXCEPT !.next[run] = next,
                       !.heads[run] = IF more THEN page.rows[next - page.base + 1] ELSE None,
                       !.nodes[leaf] = IF more THEN run ELSE Empty,
                       !.stage = "replay", !.at = leaf \div 2]
                /\ Spend(RecordCost)
        /\ UNCHANGED <<sortWorld, phase, sortScan, pending, batch, compare, maps>>

-----------------------------------------------------------------------------
(* build_maps.  The pairs file holds a region per bucket of rows; each bucket is  *)
(* collected in a buffer and flushed when that is full.                         *)
BucketStart(b) == (b - 1) * BucketRows
BucketLen(b) == AtMost(BucketRows, runs.records - BucketStart(b))
Building == At("building")

Overfull(m, b) == m.written[b] + Len(m.buf[b]) > BucketLen(b)

Flushed(m, b) ==
    LET offset == BucketStart(b) + m.written[b]
    IN  [m EXCEPT !.pairs = [at \in DOMAIN @ |->
                      IF at - offset \in 1..Len(m.buf[b]) THEN m.buf[b][at - offset] ELSE @[at]],
                  !.written[b] = @ + Len(m.buf[b]),
                  !.buf[b] = <<>>]

(* InverseBuilder::push and its refusals.                                       *)
PushRefused(m, row, rank) ==
    LET b == row \div BucketRows + 1
    IN  \/ row >= runs.records \/ rank >= runs.records
        \/ Len(m.buf[b]) + 1 = BufferPairs /\ m.written[b] + BufferPairs > BucketLen(b)

Pushed(m, row, rank) ==
    LET b == row \div BucketRows + 1
        held == [m EXCEPT !.buf[b] = Append(@, <<row, rank>>)]
    IN  IF Len(held.buf[b]) < BufferPairs THEN held ELSE Flushed(held, b)

MapRecord ==
    LET page == PageAt(pages[1], maps.at)
        d == page.rows[maps.at - page.base + 1]
    IN  /\ Building /\ maps.at < runs.records
        /\ IF ~Held(page, maps.at) \/ PushRefused(maps.builder, d.row, maps.at)
           THEN SortFails("invalid_scratch") /\ UNCHANGED <<maps, pages>>
           ELSE /\ pages' = <<page>>
                /\ maps' = [maps EXCEPT !.order.rows = Append(@, <<d.row, Span(d.start, d.end)>>),
                                        !.builder = Pushed(@, d.row, maps.at),
                                        !.at = @ + 1]
                /\ Spend(RecordCost)
        /\ UNCHANGED <<sortWorld, phase, sortScan, pending, batch, compare, tree, runs>>

(* finish_collecting.                                                           *)
AllFlushed(m) ==
    LET flushed[b \in 0..Buckets] == IF b = 0 THEN m ELSE Flushed(flushed[b - 1], b)
    IN  flushed[Buckets]

FinishCollecting ==
    /\ Building /\ maps.at = runs.records /\ runs.file # None
    /\ IF \E b \in 1..Buckets :
             Overfull(maps.builder, b) \/ AllFlushed(maps.builder).written[b] # BucketLen(b)
       THEN SortFails("invalid_scratch") /\ UNCHANGED <<maps, runs>>
       ELSE /\ maps' = [maps EXCEPT !.builder = AllFlushed(@), !.order.ready = TRUE]
            /\ runs' = [runs EXCEPT !.file = None]
            /\ UNCHANGED call
    /\ UNCHANGED <<sortWorld, phase, sortScan, pending, batch, merging>>

(* place: a chunk of the bucket's pairs, and the whole bucket when they are all in. *)
Placed(ranks, base, chunk) ==
    [slot \in DOMAIN ranks |->
        LET hits == {i \in DOMAIN chunk : chunk[i][1] - base = slot - 1}
        IN  IF hits = {} THEN ranks[slot] ELSE chunk[CHOOSE i \in hits : TRUE][2]]

Unplaced == -1
Misplaced(ranks, base, chunk) ==
    \/ \E i \in DOMAIN chunk :
          \/ chunk[i][1] - base + 1 \notin DOMAIN ranks
          \/ ranks[chunk[i][1] - base + 1] # Unplaced
    \/ \E i, j \in DOMAIN chunk : i # j /\ chunk[i][1] = chunk[j][1]

PlaceChunk ==
    LET m == maps.builder
        b == m.bucket + 1
        len == BucketLen(b)
        base == BucketStart(b)
        count == AtMost(len - m.read, ChunkPairs)
        ranks == IF m.read = 0 THEN [slot \in 1..len |-> Unplaced] ELSE m.ranks
        chunk == SubSeq(m.pairs, base + m.read + 1, base + m.read + count)
        placed == Placed(ranks, base, chunk)
        whole == m.read + count = len
    IN  /\ Building /\ runs.file = None /\ m.bucket < Buckets
        /\ IF Misplaced(ranks, base, chunk)
           THEN SortFails("invalid_scratch") /\ UNCHANGED <<maps, phase>>
           ELSE /\ maps' = [maps EXCEPT
                       !.builder = [m EXCEPT !.ranks = placed,
                                             !.read = IF whole THEN 0 ELSE @ + count,
                                             !.bucket = IF whole THEN @ + 1 ELSE @],
                       !.inverse = [row \in DOMAIN @ |->
                           IF whole /\ row - base \in 1..len THEN placed[row - base] ELSE @[row]]]
                /\ Spend(count)
                /\ phase' = IF whole /\ b = Buckets THEN "complete" ELSE phase
        /\ UNCHANGED <<sortWorld, sortScan, pending, batch, merging, runs>>

NothingToPlace ==
    /\ Building /\ runs.file = None /\ maps.builder.bucket = Buckets
    /\ phase' = "complete"
    /\ UNCHANGED <<sortWorld, call, sortScan, pending, batch, merging, runs, maps>>

(* SortedOrder::record_at and rank_of; ranks and rows count from zero.            *)
RecordAt(rank) ==
    IF maps.order.ready /\ Len(maps.order.rows) = runs.records
    THEN maps.order.rows[rank + 1] ELSE None
RankOf(row) == maps.inverse[row + 1]

-----------------------------------------------------------------------------
Extract ==
    \/ LocateByte \/ BuildByte \/ BuildEnd \/ ScanBytes \/ ScanEnd \/ SortBatch \/ ScannedAll
SortRun == MergeRecords \/ CopyBack \/ WriteRun \/ EndRun
MergeRuns == StartGroup \/ Play \/ Emit \/ EndGroup \/ EndPass
BuildMaps == MapRecord \/ FinishCollecting \/ PlaceChunk \/ NothingToPlace

AdvanceSort == Begin \/ EndAdvance \/ Extract \/ SortRun \/ MergeRuns \/ BuildMaps \/ IntoOrder

(* The session has been dropped.                                                *)
Dropped == call.pc = "done" /\ UNCHANGED sortVars

SortNext == AdvanceSort \/ CancelledBegin \/ CancelSeen \/ Refused \/ RewriteSorted \/ Dropped
SortSpec == SortInit /\ [][SortNext]_sortVars

(* The worker advances a sort whenever it has nothing more urgent.               *)
SortFairSpec == SortSpec /\ WF_sortVars(AdvanceSort)

-----------------------------------------------------------------------------
(* What is sorted, by definition.                                               *)
RowsOf == [r \in Requests |-> Records(r.csv, r.bytes)]
KeysOf ==
    [r \in Requests |->
        [i \in 1..Len(RowsOf[r]) |->
            KeyText(r.csv, r.column,
                    SubSeq(r.bytes, RowsOf[r][i].start + 1, RowsOf[r][i].end))]]
PlacesOf ==
    [r \in Requests |->
        [i \in 1..Len(RowsOf[r]) |->
            Cardinality({j \in 1..Len(RowsOf[r]) : Before(r, KeysOf[r], j, i)})]]
Place(d) == PlacesOf[request][d.row + 1]

(* Every descriptor written is one of a record, with its key inside it, no row is *)
(* written twice, and what a read page holds is what the run file holds.         *)
SortTypeOK ==
    /\ phase \in {"extracting", "sorting", "merging", "building", "complete", "cancelled"}
    /\ call.budget \in 0..tuning.step
    /\ \A f \in {runs.file, runs.pass} \ {None} :
          \A i, j \in 1..Len(f.rows) :
             /\ SoundDescriptor(f.rows[i])
             /\ f.rows[i].row \in 0..runs.records - 1
             /\ f.rows[i].row = f.rows[j].row => i = j
    /\ runs.file # None =>
          \A i \in 1..Len(pages) :
             pages[i].base # -1 =>
                pages[i].rows = SubSeq(runs.file.rows, pages[i].base + 1,
                                       AtMost(pages[i].base + PageRecords, Len(runs.file.rows)))

(* Whatever the budget cut, every run written so far is in the order asked for,    *)
(* equal keys in source order (sort_batch, merge_disk).                         *)
SortedUpTo(rows, width) ==
    \A i \in 1..Len(rows) - 1 :
        (i - 1) \div width = i \div width => Place(rows[i]) < Place(rows[i + 1])

RunsAreSorted ==
    ~SortDisturbed =>
       /\ runs.file # None => SortedUpTo(runs.file.rows, runs.width)
       /\ runs.pass # None => SortedUpTo(runs.pass.rows, NextWidth(runs.width))

(* A sort that hands its maps over sorted the document as it was when it began:    *)
(* rank by rank the records, and row by row their ranks; an exponent is refused   *)
(* only when one is out of range, and the scratch files never contradict it.     *)
MapsAreExact ==
    /\ call.outcome = "ordered" =>
          /\ runs.records = Len(RowsOf[request])
          /\ \A row \in 0..runs.records - 1 :
                LET rank == PlacesOf[request][row + 1]
                IN  RecordAt(rank) = <<row, RowsOf[request][row + 1]>> /\ RankOf(row) = rank
    /\ call.outcome = "numeric_range" =>
          SortDisturbed \/ \E i \in DOMAIN KeysOf[request] :
                         TooLarge(Trimmed(KeysOf[request][i]))
    /\ call.outcome # "invalid_scratch"

(* The sort has neither handed its maps over, nor been cancelled or refused.     *)
Unordered == call.pc # "done"
=============================================================================
