---------------------------- MODULE QuerySession ------------------------------
(***************************************************************************)
(* One literal search (src/query.rs) over the retained handle of an open      *)
(* document (document_engine.rs, DocumentQuerySource) as the worker drives     *)
(* it: a quantum per turn while a hit is demanded, next and previous hits from *)
(* the hit file.  A record is found by the scanner, then its bytes are read    *)
(* again and matched; either part may be cut by the quantum, by a              *)
(* cancellation or by the end of the read buffer, and other programs rewrite   *)
(* or replace the file between a read and its check.                          *)
(***************************************************************************)
EXTENDS LiteralMatcher

CONSTANTS
    Searches,         \* documents and needles: [csv, bytes, needle, fold]
    SearchRewrites,   \* contents another program writes in place
    SearchBuffer,     \* QUERY_READ_BYTES: the read buffer and the quantum
    SearchCheckEvery, \* QUERY_CANCELLATION_CHECK_BYTES
    CacheBlock,       \* READ_BUFFER_BYTES of the read cache
    PageHits,         \* QUERY_PAGE_HITS
    ScratchQuota,     \* query_scratch_quota_bytes
    MaxSearchEvents,  \* bound on what other programs do during one search
    MaxDemands        \* bound on the user's next and previous commands

HeaderBytes == 48
EntryBytes == 24

(* QuerySessionConfig::new refuses every other configuration.                   *)
ValidConfig ==
    /\ {SearchBuffer, SearchCheckEvery, PageHits} \subseteq Nat \ {0}
    /\ ScratchQuota \in Nat /\ ScratchQuota >= HeaderBytes

ASSUME QueryAssumption ==
    /\ ValidConfig /\ CacheBlock \in Nat \ {0} /\ {MaxSearchEvents, MaxDemands} \subseteq Nat
    /\ Searches \subseteq [csv : BOOLEAN, bytes : Seq(Bytes), needle : Seq(Bytes) \ {<<>>},
                          fold : BOOLEAN, windows : {FALSE}]

VARIABLES
    search,     \* the search and its snapshot: csv, bytes, needle, fold, windows
    searchDisk, \* the handle's object: bytes and revision
    outside,    \* readable: its metadata is; same: the path names it; events so far
    cache,      \* QueryReadCache: start, bytes, loaded
    session,    \* scanner, over (scanner taken), pending, next_row, examined, status
    store,      \* the hit file: entries and used_bytes
    page,       \* HitPageBuffer: first_hit and hits
    quantum,    \* the running advance: its step, remaining work, the bytes just read,
                \* and the bytes processed and the state of the matcher over them
    find        \* ActiveQuery: phase, demand_hit, active hit, commands so far

searchVars == <<search, searchDisk, outside, cache, session, store, page, quantum, find>>
searchWorld == <<search, searchDisk, outside>>

NoHit == -1
NoPending == [row |-> -1]
NoQuantum == [pc |-> "rest", left |-> 0, buf |-> <<>>, n |-> 0, state |-> 0]

SearchInit ==
    /\ \E q \in Searches, w \in BOOLEAN :
          /\ search = [q EXCEPT !.windows = w]
          /\ searchDisk = [bytes |-> q.bytes, rev |-> 0]
    /\ outside = [readable |-> TRUE, same |-> TRUE, events |-> 0]
    /\ cache = [start |-> 0, bytes |-> <<>>, loaded |-> FALSE]
    /\ session = [s |-> ScannerAt(0), over |-> FALSE, pending |-> NoPending,
                  nextRow |-> 0, examined |-> 0, status |-> "running"]
    /\ store = [entries |-> <<>>, used |-> HeaderBytes]
    /\ page = [first |-> 0, hits |-> <<>>]
    /\ quantum = [NoQuantum EXCEPT !.pc = "plan"]
    /\ find = [phase |-> "searching", demand |-> 0, active |-> NoHit, hit |-> NoPending,
               commands |-> 0]

SearchSize == Len(search.bytes)
Least(a, b) == IF a <= b THEN a ELSE b
Literal == [q \in Searches |-> Compiled(q.needle, q.fold)]
TheLiteral == Literal[[search EXCEPT !.windows = FALSE]]

-----------------------------------------------------------------------------
(* Other programs.  Matching reads neither the file nor its metadata, so nothing *)
(* is lost by letting them act before or after it only.                        *)
SearchDisturbed ==
    find.phase # "failed" /\ outside.events < MaxSearchEvents /\ quantum.pc \notin {"match", "full"}
Happened == outside.events + 1

RewriteSearched ==
    /\ SearchDisturbed /\ ~search.windows
    /\ searchDisk' \in [bytes : SearchRewrites, rev : {searchDisk.rev + 1}]
    /\ outside' = [outside EXCEPT !.events = Happened]
    /\ UNCHANGED <<search, cache, session, store, page, quantum, find>>

LoseTrack ==
    /\ SearchDisturbed
    /\ \/ outside' = [outside EXCEPT !.same = FALSE, !.events = Happened]
       \/ outside' = [outside EXCEPT !.readable = FALSE, !.events = Happened]
    /\ UNCHANGED <<search, searchDisk, cache, session, store, page, quantum, find>>

-----------------------------------------------------------------------------
(* DocumentQuerySource::verify_handle: on Windows the open file cannot be      *)
(* written, so the snapshot itself is the answer.                             *)
HandleSound == search.windows \/ (outside.readable /\ searchDisk.rev = 0)

(* DocumentEngine::validate_query_snapshot after every quantum.                *)
PathSound == outside.readable /\ searchDisk.rev = 0 /\ outside.same

(* fail_query: the session is dropped and with it its hit file.                *)
SearchFails ==
    /\ find' = [find EXCEPT !.phase = "failed", !.demand = NoHit]
    /\ quantum' = NoQuantum

(* The end of a call of advance; the worker looks at the source next.          *)
Stop(status) ==
    /\ session' = [session EXCEPT !.status = status]
    /\ quantum' = [NoQuantum EXCEPT !.pc = "validate"]

(* DocumentEngine::query_plan: the retained handle is cloned and proven to show   *)
(* the document's snapshot before the session and its hit file are made.         *)
QueryPlan ==
    /\ quantum.pc = "plan"
    /\ IF PathSound THEN quantum' = NoQuantum /\ UNCHANGED find ELSE SearchFails
    /\ UNCHANGED <<searchWorld, cache, session, store, page>>

-----------------------------------------------------------------------------
(* QuerySession::advance.  The worker calls it for a demanded hit only, which  *)
(* it never is once the session is complete or stopped at its quota.           *)
BeginQuantum ==
    /\ quantum.pc = "rest" /\ find.demand # NoHit
    /\ session' = [session EXCEPT !.status = "running"]
    /\ quantum' = [NoQuantum EXCEPT !.pc = "loop", !.left = SearchBuffer]
    /\ UNCHANGED <<searchWorld, cache, store, page, find>>

CancelLoop ==
    /\ quantum.pc = "loop"
    /\ Stop("cancelled")
    /\ UNCHANGED <<searchWorld, cache, store, page, find>>

SourceFails ==
    /\ quantum.pc \in {"loop", "use"} /\ ~HandleSound
    /\ SearchFails
    /\ UNCHANGED <<searchWorld, cache, session, store, page>>

(* The source, the hit file or the scratch disk answers with an I/O error.     *)
IoFails ==
    /\ quantum.pc \in {"plan", "read", "match"}
    /\ SearchFails
    /\ UNCHANGED <<searchWorld, cache, session, store, page>>

Goes(pc, left) ==
    IF left = 0 THEN [NoQuantum EXCEPT !.pc = "validate"]
    ELSE [NoQuantum EXCEPT !.pc = pc, !.left = left]

Queued(sess, span) ==
    [sess EXCEPT !.nextRow = @ + 1,
                 !.pending = [row |-> sess.nextRow, span |-> span,
                              cursor |-> span.start, state |-> 0]]

Examined(sess) == [sess EXCEPT !.pending = NoPending, !.examined = @ + 1]

Pending == session.pending # NoPending

(* QueryBoundaryScanner::feed_one: the scanner stops at the first record.        *)
FeedOne(bytes) == Feed(search.csv, session.s, bytes, 1)

(* QueryBoundaryScanner::finish.                                                *)
LastRecord == Finish(session.s)

(* Faulty: a record is only finished by the quantum that matched its last byte. *)
LoopReadsOn ==
    /\ quantum.pc = "loop" /\ HandleSound
    /\ \/ /\ Pending /\ session.pending.cursor = session.pending.span.end
          /\ UNCHANGED <<session, quantum>>
       \/ /\ \/ Pending /\ session.pending.cursor < session.pending.span.end
             \/ ~Pending /\ ~session.over /\ session.s.offset < SearchSize
          /\ quantum' = [quantum EXCEPT !.pc = "read"]
          /\ UNCHANGED session
       \/ /\ ~Pending /\ ~session.over /\ session.s.offset = SearchSize
          /\ LET last == LastRecord
                 taken == [session EXCEPT !.over = TRUE]
             IN  IF last = <<>>
                 THEN /\ session' = [taken EXCEPT !.status = "complete"]
                      /\ quantum' = [NoQuantum EXCEPT !.pc = "validate"]
                 ELSE session' = Queued(taken, last[1]) /\ UNCHANGED quantum
       \/ /\ ~Pending /\ session.over
          /\ Stop("complete")
    /\ UNCHANGED <<searchWorld, cache, store, page, find>>

(* One turn of the loop, up to the read it asks for.                           *)
Loop ==
    /\ quantum.pc = "loop" /\ HandleSound
    /\ \/ /\ Pending /\ session.pending.cursor = session.pending.span.end
          /\ session' = Examined(session)
          /\ UNCHANGED quantum
       \/ /\ \/ Pending /\ session.pending.cursor < session.pending.span.end
             \/ ~Pending /\ ~session.over /\ session.s.offset < SearchSize
          /\ quantum' = [quantum EXCEPT !.pc = "read"]
          /\ UNCHANGED session
       \/ /\ ~Pending /\ ~session.over /\ session.s.offset = SearchSize
          /\ LET last == LastRecord
                 taken == [session EXCEPT !.over = TRUE]
             IN  IF last = <<>>
                 THEN /\ session' = [taken EXCEPT !.status = "complete"]
                      /\ quantum' = [NoQuantum EXCEPT !.pc = "validate"]
                 ELSE session' = Queued(taken, last[1]) /\ UNCHANGED quantum
       \/ /\ ~Pending /\ session.over
          /\ Stop("complete")
    /\ UNCHANGED <<searchWorld, cache, store, page, find>>

(* What the loop reads next: the rest of the pending record, or of the file.   *)
Wanted ==
    IF Pending
    THEN [at |-> session.pending.cursor,
          size |-> Least(Least(session.pending.span.end - session.pending.cursor, SearchBuffer),
                         quantum.left)]
    ELSE [at |-> session.s.offset,
          size |-> Least(Least(SearchSize - session.s.offset, SearchBuffer), quantum.left)]

(* QueryReadCache::read_at: the aligned block is read anew when the offset is   *)
(* outside the bytes it holds; a read of the file may return fewer bytes.       *)
Covers(c, offset) ==
    c.loaded /\ c.start <= offset /\ offset < c.start + Len(c.bytes)

Blocks(offset) ==
    IF Covers(cache, offset) THEN {cache}
    ELSE LET start == (offset \div CacheBlock) * CacheBlock
             most == Least(start + CacheBlock, Len(searchDisk.bytes))
         IN  {[start |-> start, bytes |-> SubSeq(searchDisk.bytes, start + 1, end), loaded |-> TRUE] :
                 end \in {start} \cup start + 1..most}

Read ==
    /\ quantum.pc = "read"
    /\ \E block \in Blocks(Wanted.at) :
          LET from == Wanted.at - block.start
              got == SubSeq(block.bytes, from + 1, Least(from + Wanted.size, Len(block.bytes)))
          IN  /\ block.bytes = <<>> => Len(searchDisk.bytes) <= block.start
              /\ cache' = block
              /\ IF got = <<>> THEN SearchFails
                 ELSE quantum' = [quantum EXCEPT !.pc = "use", !.buf = got] /\ UNCHANGED find
    /\ UNCHANGED <<searchWorld, session, store, page>>

-----------------------------------------------------------------------------
(* advance_scanner: the chunk, or the part of it before the token was found       *)
(* cancelled, goes to the scanner; what follows a record is read again later.    *)
Scan ==
    /\ quantum.pc = "use" /\ ~Pending /\ HandleSound
    /\ \E n \in 0..Len(quantum.buf) :
          LET fed == FeedOne(SubSeq(quantum.buf, 1, n))
              found == [session EXCEPT !.s = fed.s]
          IN  \/ /\ n = Len(quantum.buf)
                 /\ session' = IF fed.out = <<>> THEN found ELSE Queued(found, fed.out[1])
                 /\ quantum' = Goes("loop", quantum.left - fed.n)
              \/ /\ n < Len(quantum.buf) /\ n % SearchCheckEvery = 0 /\ ~fed.stopped
                 /\ session' = [found EXCEPT !.status = "cancelled"]
                 /\ quantum' = [NoQuantum EXCEPT !.pc = "validate"]
    /\ UNCHANGED <<searchWorld, cache, store, page, find>>

(* Faulty: a page that is started anew keeps the place of the old one.            *)
PageAppendInPlace(index, hit) ==
    IF page.hits = <<>> \/ page.first + Len(page.hits) # index \/ Len(page.hits) = PageHits
    THEN [page EXCEPT !.hits = <<hit>>]
    ELSE [page EXCEPT !.hits = Append(@, hit)]

(* HitPageBuffer::append.                                                       *)
PageAppend(index, hit) ==
    IF page.hits = <<>> \/ page.first + Len(page.hits) # index \/ Len(page.hits) = PageHits
    THEN [first |-> index, hits |-> <<hit>>]
    ELSE [page EXCEPT !.hits = Append(@, hit)]

(* Faulty: the quota is compared with the bytes already used.                   *)
HasRoomLate == store.used <= ScratchQuota

(* ScratchHitStore::append: the exact entry must fit.                           *)
HasRoom == store.used + EntryBytes <= ScratchQuota

(* Faulty: the matcher starts anew with every read of a record.                 *)
CursorForgets == [session EXCEPT !.pending.cursor = @ + quantum.n, !.pending.state = 0]

(* update_pending_cursor: what a later call resumes from.                       *)
Cursor == [session EXCEPT !.pending.cursor = @ + quantum.n, !.pending.state = quantum.state]

(* match_pending_bytes: the bytes are matched once the source was found          *)
(* unchanged after the read.                                                   *)
BeginMatch ==
    /\ quantum.pc = "use" /\ Pending /\ HandleSound
    /\ quantum' = [quantum EXCEPT !.pc = "match", !.state = session.pending.state]
    /\ UNCHANGED <<searchWorld, cache, session, store, page, find>>

(* append_hit: the entry is written behind the last one and enters the page.     *)
AppendHit(hit) ==
    /\ page' = PageAppend(Len(store.entries), hit)
    /\ store' = [entries |-> Append(store.entries, hit), used |-> store.used + EntryBytes]

(* One byte of the buffer; a hit that does not fit ends the search with its last  *)
(* byte counted as processed.                                                  *)
MatchByte ==
    /\ quantum.pc = "match" /\ quantum.n < Len(quantum.buf)
    /\ LET step == Advance(TheLiteral, quantum.state, quantum.buf[quantum.n + 1])
           end == session.pending.cursor + quantum.n + 1
           hit == [row |-> session.pending.row, span |-> Span(end - Len(search.needle), end)]
       IN  /\ quantum' = [quantum EXCEPT !.n = @ + 1, !.state = step.state,
                                 !.pc = IF step.matched /\ ~HasRoom THEN "full" ELSE "match"]
           /\ IF step.matched /\ HasRoom
              THEN AppendHit(hit)
              ELSE UNCHANGED <<page, store>>
    /\ UNCHANGED <<searchWorld, cache, session, find>>

CancelMatch ==
    /\ quantum.pc = "match" /\ quantum.n < Len(quantum.buf) /\ quantum.n % SearchCheckEvery = 0
    /\ session' = [Cursor EXCEPT !.status = "cancelled"]
    /\ quantum' = [NoQuantum EXCEPT !.pc = "validate"]
    /\ UNCHANGED <<searchWorld, cache, store, page, find>>

EndMatch ==
    /\ \/ /\ quantum.pc = "full"
          /\ session' = [Cursor EXCEPT !.status = "quota"]
          /\ quantum' = [NoQuantum EXCEPT !.pc = "validate"]
       \/ /\ quantum.pc = "match" /\ quantum.n = Len(quantum.buf)
          /\ session' = IF Cursor.pending.cursor = Cursor.pending.span.end
                        THEN Examined(Cursor) ELSE Cursor
          /\ quantum' = Goes("loop", quantum.left - quantum.n)
    /\ UNCHANGED <<searchWorld, cache, store, page, find>>

-----------------------------------------------------------------------------
(* QuerySession::read_page and read_hit: the page is the only cache of hits.    *)
ReadPage(first) ==
    [first |-> first,
     hits |-> SubSeq(store.entries, first + 1, Least(first + PageHits, Len(store.entries)))]

Cached(p, index) ==
    IF p.first <= index /\ index < p.first + Len(p.hits) THEN {p.hits[index - p.first + 1]} ELSE {}

PageFor(index) ==
    IF Cached(page, index) # {} THEN page ELSE ReadPage((index \div PageHits) * PageHits)

(* activate_query_hit: reading the page may fail.                               *)
Activate(index, commands) ==
    \/ /\ page' = PageFor(index)
       /\ \E hit \in Cached(page', index) :
             find' = [phase |-> "match_ready", demand |-> NoHit, active |-> index,
                      hit |-> hit, commands |-> commands]
    \/ /\ Cached(page, index) = {}
       /\ find' = [find EXCEPT !.phase = "failed", !.demand = NoHit]
       /\ UNCHANGED page

(* The rest of advance_query_once.                                              *)
Validate ==
    /\ quantum.pc = "validate"
    /\ quantum' = NoQuantum
    /\ IF ~PathSound
       THEN find' = [find EXCEPT !.phase = "failed", !.demand = NoHit] /\ UNCHANGED page
       ELSE IF Len(store.entries) > find.demand
       THEN Activate(find.demand, find.commands)
       ELSE /\ find' = IF session.status \in {"running", "cancelled"} THEN find
                       ELSE [find EXCEPT !.phase = session.status, !.demand = NoHit]
            /\ UNCHANGED page
    /\ UNCHANGED <<searchWorld, cache, session, store>>

(* navigate_to_next_hit and navigate_to_previous_hit, between two quanta.        *)
Commanded == find.phase # "failed" /\ quantum.pc = "rest" /\ find.commands < MaxDemands

NextHit ==
    /\ Commanded
    /\ LET target == find.active + 1
           told == [find EXCEPT !.commands = @ + 1, !.demand = NoHit]
       IN  IF target < Len(store.entries) THEN Activate(target, find.commands + 1)
           ELSE /\ find' = IF session.status \in {"running", "cancelled"}
                           THEN [told EXCEPT !.demand = target, !.phase = "searching"]
                           ELSE [told EXCEPT !.phase = session.status]
                /\ UNCHANGED page
    /\ UNCHANGED <<searchWorld, cache, session, store, quantum>>

(* previous_hit_index: without an active hit the last one stored.                *)
PreviousIndex ==
    CASE find.active = 0 -> NoHit
      [] find.active \in 1..Len(store.entries) -> find.active - 1
      [] OTHER -> Len(store.entries) - 1

PreviousHit ==
    /\ Commanded
    /\ IF PreviousIndex # NoHit THEN Activate(PreviousIndex, find.commands + 1)
       ELSE /\ find' = [find EXCEPT !.commands = @ + 1, !.demand = NoHit,
                            !.phase = IF find.active # NoHit THEN "match_ready" ELSE "complete"]
            /\ UNCHANGED page
    /\ UNCHANGED <<searchWorld, cache, session, store, quantum>>

-----------------------------------------------------------------------------
Quantum == QueryPlan \/ BeginQuantum \/ SourceFails \/ Loop \/ Read \/ Scan
           \/ BeginMatch \/ MatchByte \/ EndMatch \/ Validate

Idle == quantum.pc = "rest" /\ find.demand = NoHit /\ UNCHANGED searchVars

SearchNext ==
    \/ Quantum \/ CancelLoop \/ CancelMatch \/ IoFails
    \/ NextHit \/ PreviousHit
    \/ RewriteSearched \/ LoseTrack
    \/ Idle

SearchSpec == SearchInit /\ [][SearchNext]_searchVars

(* The worker takes a turn of the search whenever a hit is demanded and a call   *)
(* runs to its end; no command cancels every quantum at the same point for ever. *)
SearchFairness ==
    /\ WF_searchVars(Quantum)
    /\ SF_searchVars(Loop)
    /\ SF_searchVars(Scan /\ session'.status # "cancelled")
    /\ SF_searchVars(MatchByte)

SearchFairSpec == SearchSpec /\ SearchFairness

-----------------------------------------------------------------------------
SearchTypeOK ==
    /\ store.used = HeaderBytes + EntryBytes * Len(store.entries)
    /\ store.used <= ScratchQuota
    /\ Len(page.hits) <= PageHits
    /\ session.status \in {"running", "cancelled", "complete", "quota"}
    /\ session.examined <= session.nextRow
    /\ Pending => /\ session.pending.span.start <= session.pending.cursor
                  /\ session.pending.cursor <= session.pending.span.end
    /\ quantum.left \in 0..SearchBuffer
    /\ find.phase \in {"searching", "match_ready", "complete", "quota", "failed"}

SearchTruth == [q \in Searches |-> AllHits(q.csv, q.needle, q.fold, q.bytes)]
TheHits == SearchTruth[[search EXCEPT !.windows = FALSE]]

Promise == INSTANCE SearchHits WITH
    Room <- (ScratchQuota - HeaderBytes) \div EntryBytes,
    truth <- TheHits, hits <- store.entries,
    outcome <- IF find.phase = "failed" THEN "failed"
               ELSE IF session.status \in {"complete", "quota"} THEN session.status ELSE "open"

(* However the search is cut into quanta, cancelled, resumed, or its file         *)
(* changed, the hit file holds the hits of the snapshot, in order, each once, and *)
(* the search ends with all of them or at its quota (query.rs:803).              *)
SearchPromise == Promise!Spec

(* The page in memory never disagrees with the hit file (query.rs:1047 read_hit). *)
PageIsStore ==
    \A i \in 1..Len(page.hits) :
        page.first + i <= Len(store.entries) /\ page.hits[i] = store.entries[page.first + i]

(* What the user is shown as match i is the i-th hit of the snapshot.             *)
ShownIsHit == find.active # NoHit => find.hit = TheHits[find.active + 1]

(* A hit is demanded and neither found nor given up.                            *)
Demanding == find.demand # NoHit
=============================================================================
