# Verification of LeanRows

LeanRows is a Windows viewer for large row-oriented files: CSV, TSV, logs, JSON
lines, workbooks. Each open file has a tab and each tab a worker thread that owns
the document; the UI thread talks to it through mailboxes that keep only the newest
value, atomic serials and cancellation tokens. Searching and sorting write scratch
files that several processes share a directory for. This directory holds TLA+
models of that program, the TLC runs that check them and proofs that TLAPS checks.

Contents

1. The system and its parts
2. The modules, and how they correspond to the code
3. What is checked
4. Bounds, and why they are enough
5. Fairness
6. What is proved
7. Where code and documents disagree
8. What is not modelled
9. What is left

Run `tlc -workers 2 -config <cfg> <module>` and `tlapm <proof module>.tla` in this
directory. `PROJECT.json` names, for each definition, the source lines it stands
for; for each property, a small change of the model under which TLC finds it
violated; and the hazards of the code line by line, with the property that covers
each.

## 1. The system and its parts

Sources are under `src/crates`; `core` is `leanrows-core/src`, `win32` is
`leanrows-win32/src`.

| part | source | state it keeps | operations |
| --- | --- | --- | --- |
| Document worker | `win32/worker.rs` | four serials, three tokens, six mailboxes; in the thread, the `ActiveDocument` | UI: open, viewport, source row, sort, cancel sort, search, navigate, poll, drop. Thread: one loop over the mailboxes, then one step of sort, search or scan |
| Sort turns, coordinator | `win32/worker/sorting.rs`, `sort_coordinator.rs` | `ActiveSort`, `WorkerSortState`; the serial that holds the process-wide permit | start, advance, complete; request, try_acquire, drop |
| Mailboxes, cancellation | `win32/mailbox.rs`, `core/cancel.rs` | one pending value and a closed flag; a generation | send, take, wait, close; snapshot, cancel |
| Checkpoint index | `core/index.rs` | checkpoints, stride, last boundary | observe, compact, nearest |
| Record scan and viewport | `core/session.rs`, `scan.rs`, `viewport.rs`, `projection.rs`, `win32/document_engine.rs` | scanner, offset, records, sticky source failure | open, scan step, finalize, reconstruct rows |
| Search session | `core/query.rs` | scanner, pending record, hit file, status | advance, read page, navigate |
| Sort session | `core/sort/session.rs`, `key.rs`, `inverse.rs` | batch, runs, winner tree, maps | advance, into_order |
| Sort ledger, scratch directories | `core/sort/storage.rs` | charges, owners, deferred deletions | reserve, grow, release, defer, retry, recover |
| Query-cache start-up | `win32/worker.rs`, `core/query.rs` | marker files, lock file, hit files | prepare, retire markers, recover |
| Single instance | `win32/native/process.rs`, `native.rs` | named mutex, pending opens | claim, forward, receive, open |
| Tabs | `win32/native.rs`, `native/tabs.rs` | the tab shown, the tabs put away, messages | open, activate, close, change sheet, apply events |
| Rows on screen | `win32/native.rs`, `model.rs` | the sliding window, the last event, reveals; the list's selection | apply events, reveal, select, scroll, copy |
| Zoom and scroll bars | `win32/zoom.rs`, `scroll.rs`, `native/scrollbar.rs`, `native.rs` | level, base widths; bar layout, drag, timer | wheel, set zoom, resize; layout, drag, page |
| Workbooks | `core/xlsx/*` | directory, styles, strings, dates; cursor and its checkpoints | open, scan, view |

How they interact. The UI thread never waits for a worker, except to join it when a
tab closes. A call stores serials, cancels older work through a token, puts its
command in a mailbox and signals. The worker drains the mailboxes in a fixed order
(opens, viewports, queries, sorts); with none pending it gives the sort one step,
then the search, then the scan. Every handler ends by sending an event into the
events mailbox; the first event into an empty mailbox posts a window message, on
which the UI polls and drops events that are no longer current. What the window
shows is the last event of the tab that is in front. Sorts of all tabs share one
permit and one ledger; searches of all processes share a directory, and so do sorts.

What is hard. The two threads interleave between any two atomic accesses; commands
and events coalesce; a newer request supersedes an older one at any moment, also in
the middle of a handler; scans, searches and sorts are cut at budgets and resumed;
other programs rewrite, replace, hide or hold files; processes crash beside each
other; an event arrives when its tab is hidden, closed or on other rows. What makes
each part correct:

- *worker*: no command or wake-up is lost, rows and order travel together, only a
  finished and still wanted sort replaces the order, every request is answered,
  closing ends, and what is shown at rest is the document as it is.
- *coordinator*: one sort at a time; the permit never leaks.
- *index*: bounded, ordered, evenly thinned; a lookup returns the floor.
- *scan, search, sort*: resuming after any cut computes what an uninterrupted run
  over one snapshot computes; a source failure is sticky.
- *ledger and scratch*: charges cover what is on disk and are given back once;
  recovery removes only what has no live owner.
- *single instance*: files that a launch was told it handed over are opened.
- *tabs and rows*: every row shown, selected or to be revealed is the row it stands
  for, of the tab, file, sheet and order it stands in.
- *workbooks*: a scan or a read resumed from any checkpoint gives the rows of the
  sheet, whatever the pieces, and a damaged file ends in an error.

## 2. The modules, and how they correspond to the code

| module | models |
| --- | --- |
| `Mailbox`, `DocumentWorker` | the worker of a tab: the UI thread's calls and the worker thread, access by access |
| `AdaptiveIndex` | the checkpoint index of a text file, in rows and in bytes |
| `RecordScanner`, `FieldProjection`, `DocumentReader` | boundaries of records; the text of cells; the scan session and viewports of a text document while other programs change the file |
| `RecordStream` | what a scan promises; `DocumentReader` implements it (`StreamOfSnapshot`) |
| `LiteralMatcher`, `QuerySession` | one literal search and its hit file |
| `SearchHits` | what a search promises; `QuerySession` implements it (`SearchPromise`) |
| `SortKeys`, `SortSession` | keys of records; one external sort, one byte or record a step |
| `SortScratch`, `QueryScratch` | scratch directories of several processes, the disk ledger, recovery |
| `SingleInstance` | launches that become the window or hand it their files |
| `Tabs`, `GridView`, `GridZoom`, `ScrollBars` | the window: tabs, the rows on screen, widths of columns, the thin scroll bars |
| `XmlTokenizer`, `XlsxPart`, `XlsxWorkbook`, `XlsxPackage`, `XlsxSheet` | a workbook: XML, decompressed parts, the package and the sheet list, the rows of a sheet |
| `ExcelDates`, `ExcelCalendar` | serial dates, and a walk through the calendar to check them by |
| `MC...` | instances for TLC: what is opened, searched, sorted and called |
| `...Proofs` | section 6 |

**DocumentWorker.** A method of `Worker` is a sequence of steps (`SubmitSteps`,
`QuerySteps`, ...), each one atomic access: a token cancelled, a serial stored, a
mailbox emptied, filled or closed. `ui.todo` holds what is left; `At(step)` guards
each step's action. `CallOpen` and its kin are the window's decisions, with the
guards `native.rs` has. A wake message starts `poll`, which takes and judges events
one by one. In the thread, `w.pc` is the place, `w.cmd` the command in hand, `w.out`
the event about to be sent, `w.next` where to continue; `doc` is the
`ActiveDocument` with its order, its cached rows and the order they were read in,
the sort, the search, the scan, and `lost`, the engine's sticky finding that the
source is another one. Handlers are split where the other thread can see or change
something. `Fault` is an error of any operation that can fail. Abstractions: a file
is a number of scan steps; a search quantum finds zero or one match; a viewport is
its first row; progress thresholds are a free choice (`told`); other tabs are one
competitor for the permit; wake messages merge, as a second one only polls an empty
mailbox.

**AdaptiveIndex.** `Observe(c)` is `observe` when it accepts a boundary: it compacts
a full index (`Compacted`, `Doubled`), then samples; `Refuse` is its early return;
`Nearest` the lookup. `cadence` chooses rows or bytes and never changes.

**DocumentReader.** A call (open, scan step, viewport, verification) is a sequence
of reads, feeds of one byte, checks of the token and of the fingerprints, because
another program may act between any two: it writes in place, replaces the file with
one that looks alike or not, or hides it. Bytes are a handful of kinds (CR, LF,
quote, delimiter, text). The source token, the sticky failure, the strong check
every so many bytes, finalization and the truncation of a preview are the code's.

**QuerySession.** The worker's turns (`Loop`), a quantum of `advance` with its
pending record, replay boundary, read buffer and cancellation checks (`Scan`,
`MatchByte`), the hit file with its byte count and quota, the page of hits and the
user's next and previous. Steps that match one byte disable the other programs'
actions: they read a buffer that was filled before, so nothing is lost. A session is
dropped on every error, so a hit stored twice after one is never seen.

**SortSession.** One action per micro-step of `advance`; cost is in abstract units
(`RecordCost`, `ChunkPairs`), and budget or token may end a call after any of them.
A file that was not flushed cannot be read. `Refused` stands for quota, memory and
disk errors. Runs, merge passes through the winner tree and the two maps of the
sorted view are kept as sequences.

**QueryScratch, SortScratch.** Markers, locks, hit files, owner directories and run
files by name, the handles that keep them, and for each process what recovery has
listed and judged. Crashes are steps of any process at any moment; a foreign
program may hold a file (`OutsiderOpens`). A deletion that is blocked moves its
charge from the file to the owner and from there to the queue of deferred ones.

**SingleInstance.** `at[l]` is how far launch `l` has come in `claim` and `forward`.
A message is received inside the sender's call and its paths are opened later, from
a message the window posts to itself; a sender may time out although the window has
taken the paths (`SendFailed`).

**Tabs.** One command of the window is one step, as they run on one thread; a
command is an operator from state to state (`Stashed`, `Restored`, `Closed`, ...)
composed as the code's calls are. Workers answer between commands, for the serial
they were last asked for, and their messages name a tab that may be gone by then.

**GridView.** The list of Windows keeps which item numbers are selected and which is
at the top; the view maps items to ranks through its sliding window, and the last
event maps ranks to rows. The worker is cut down to what its events promise. When a
call for the new columns fails (`ColumnsFail`), selection and reveal are not
promised for; ghost variables remember which row the user meant.

**GridZoom, ScrollBars.** Widths and base widths of the shown and the kept tabs over
bursts of the wheel; the bars' layout, drag, paging timer and capture. The list's
own layout is Windows' and external; bars are out of date only between a drag of the
header and the next paint. Numbers are unbounded but for the pixels of one scroll
message (`MaxPixels`), as the code computes in 64 bits and cuts there.

**Xlsx...** Symbols (a tag, an entity, a character and its width) instead of bytes;
compressed bytes appear as a ratio; the decompressor is external and gives pieces of
any of the configured sizes. A date's text is one symbol. A scan and a viewport run
the same cursor, one turn a step, and may be cancelled between two.

## 3. What is checked

| run | shows |
| --- | --- |
| `worker` | safety of the worker over fourteen mixes of calls and failures |
| `worker_live` | liveness of the worker, and what is shown at rest |
| `text_files` | reading, searching and sorting a text file that other programs change |
| `processes` | launches, query-cache start-up, sort scratch; the rows on screen |
| `documents` | the index, workbooks, dates, tabs, zoom, scroll bars |
| `search_next`, `close_search`, `scroll_sort`, `search_loss`, `sheet_cuts`, `zoom_burst`, `find_reveal` | the disagreements of section 7 |

The parts put together in `text_files`, `processes` and `documents` share no state
in the code: each activity has a handle and scratch files of its own, each protocol
its own files and each scene its own fields. A behaviour therefore exercises one and
leaves the others in their first state; nothing would be gained by interleaving
them, and what they do share (the turns of the thread) is `DocumentWorker`'s.

*worker.* `NoLostCommand`: the worker never sleeps on a pending command without a
signal pending or on its way. `NoLostWake`: an event in the mailbox has a message on
its way, or the UI is in a call that empties the mailbox or ends before one arrives.
`SleepsWhenDone`: a sleeping worker has no scan, sort or demanded search left.
`RowsMatchOrder`: a document and every event carry rows of the order they name.
`OrderChangesOnlyWhenComplete`: the order is replaced only in the step that
completes its request, by a sorted one only while the request is the newest and not
cancelled. `PermitExclusive`: the permit names the sort that runs, and nobody when
none does. `TypeOK`: types, and mailboxes of capacity one.

*worker_live.* `OpenAnswered`, `SortAnswered`, `SearchAnswered`: each request ends
with an event on show or is superseded; `DropJoins`; `QuietShowsDocument`: when
nothing moves, the last event shown equals the document. The mixes of section 7 are
left out here.

*text_files.* `ShownIsSnapshot`, `CellsAreHonest`: what a viewport shows is the
text of the snapshot's records and says where it was cut. `DistrustIsFinal`: a
source failure is never taken back. `StreamOfSnapshot`: the scan, however cut,
implements the abstract record stream. `PageIsStore`, `ShownIsHit`, `SearchPromise`:
the page is the hit file, match *i* is the *i*-th hit, and the search implements the
abstract one. `RunsAreSorted`, `MapsAreExact`: runs are stably sorted, and an order
handed over is the stable sort of the records with maps inverse to each other.
`WorkSettles`: a scan, a demanded hit and a sort end. `TextTypeOK`: the types.

*processes.* `HandedOverFilesArrive`, `LaunchesSettle`: what was accepted is opened
or waits with a message that opens it; a launch ends with a window or handed over.
`SearchKeepsItsFile`, `StartsBesideOthers`: recovery takes no file of a live search,
and workers beside it never make a start fail. `LedgerIsSound`: every charge is held
once and covers what is on disk. `LiveFilesStay`: a live sort keeps its directory.
`RowsStandForThemselves`: every row on screen, selected or to be revealed is the one
it stands for, through events, sorts, finds, reveals and tab switches.

*documents.* `TypeOK`, `Spaced`, `NearestIsFloor` of the index; `SheetRowsAreExact`:
rows scanned or read from any checkpoint are the sheet's, and damage ends in an
error; `DatesFollowTheCalendar`; `TabsStayApart`: the rows of each tab are of the
file, sheet and order the tab says; `PlacesFollowTheOrder`: a rank a tab keeps is a
rank of that order; `WidthsFollowTheZoom`; `BarsServeTheList`, `ThumbLeadsTheList`.

## 4. Bounds, and why they are enough

*worker.* `SafetyBudgets` is a set of mixes: how often each call and fault may
happen in one behaviour. What calls disturb in one another is decided by pairs and
triples, so the mixes pair each call with each one it shares state with: two opens
with a viewport, a search, a sort, a close; a sort with a second sort, with another
tab's, with scrolls, a cancel, a close; a search with navigation and failures.
`ScanSteps = 2` separates the first step of a scan, a search or a sort from its
last; `MaxHits = 1` separates no match, a match and the end after it; one key and
the source order are two orders; `MaxRow = 1` gives a row that moves with the order.
About 1.15 million states. `LiveBudgets` are smaller mixes of the same calls.

*text_files.* Files of at most a score of bytes in which a CR-LF pair, a quoted line
break, a doubled or an unterminated quote falls on every side of a read of
`ReadBuffer = 2`, of a quantum and of a truncated preview; needles with overlapping
hits, a hit across a quoted break, more hits than the quota of three entries; keys
that share a prefix, are quoted, missing, equal in other spellings or out of range,
and tunings that need no, one or two merge passes and end a call after 1, 3, 4 or 7
units. One event of another program per behaviour, at any moment: whatever it does,
the session ends or is distrusted from then on.

*processes.* Three launches, one with more files than a message holds and one with
none, one retry each; three workers that start and crash over two attempts at the
lock; two processes and two sort directories with a limit of two blocks and one slot
for deferred deletions; five rows, a list of four items, pages of two and three
commands, with a sorted order and a search over a second tab. About 293,000 states.

*documents.* Capacity four and counters to eight give two compactions, of which the
second meets entries the first has thinned. Workbooks cover both date systems,
missing styles, cells out of order or without references, shared, inline and cut
strings, rows too far apart, and fifty kinds of damage; steps of a few
symbols end anywhere, and a checkpoint capacity of two forces thinning. The books
that must pass have nothing but tags after `</sheetData>`. The calendar walk passes
the last year shown. Two tabs, two files, two serials, one order beside that of the
file, one failing call, and one close message waiting at a time; deeper mixes of
three tabs and three files were searched when the invariant of section 6 was found.
Three zoom levels with a wheel message at a time and two columns dragged, one of them
shut or back to where the zoom had put it; layouts of bars where a thumb, a
track or the whole bar does not fit, and places further than one message scrolls.
About 610,000 states.

## 5. Fairness

`FairSpec` of the worker assumes weak fairness of the worker thread, of the UI
thread's steps within a call or a posted message, and of another tab ending its
sort. The first two are threads of a preemptive scheduler, never blocked while their
action is enabled; the third holds because another tab's sort ends by the same code
(`SortAnswered`). In `processes` the steps of a launch (`ClaimStep`) are weakly
fair: one thread, with a time limit on every call. In `text_files` the worker's next
step is weakly fair, whatever the activity. Strong fairness of four kinds of step is
needed beside it, because a cancellation or a failure may send a quantum back:
`BeginScan` and `Loop` begin one, `ScanRead` and `ScanFeed`, `MatchByte` and `Scan`
go on with one. It says that no command or failure interrupts every quantum at the
same point for ever; with a user who cancels each quantum the code makes no promise.
Nothing is assumed of the user, of crashes, of other programs or of the window's
loop, and failures are never assumed to happen or to stop.

## 6. What is proved

Every theorem holds for every value of the constants that the named assumptions of
the modules allow. They ask only for types and for what the constructors of the code
check: a capacity of at least two (`IndexAssumption`), limits and counts that are
natural numbers, a message that holds at least one path (`InstanceAssumption`, where
what a launch brings is a sequence of its files), documents and rewrites of them that
are sequences of bytes (`ReaderAssumption`), and a needle that is not empty
(`QueryAssumption`, as `CompiledLiteral::new` refuses that one). An
invariant is proved by an inductive one: the initial states have it, each action
keeps it (one lemma for an action or for a group that treats the state alike), and
it implies the property. TLC checked each inductive invariant on the instance of the
runs, and those of tabs and launches also on larger ones, before it was proved.

| theorem | states | module |
| --- | --- | --- |
| `IndexTypeCorrect` | `TypeOK` | `AdaptiveIndexProofs` |
| `IndexOrderedAndSpaced` | `Spaced` | |
| `NearestBoundaryIsFloor` | `NearestIsFloor` | |
| `PermitIsExclusive` | `PermitExclusive` | `DocumentWorkerProofs` |
| `RowsTravelWithTheirOrder` | `RowsMatchOrder` | |
| `OnlyCurrentSortsReplaceTheOrder` | `OrderChangesOnlyWhenComplete` | |
| `CommandsAreHeard` | `NoLostCommand` | |
| `EventsAreFetched` | `NoLostWake` | |
| `SleepsOnlyWhenDone` | `SleepsWhenDone` | |
| `WorkerTypesHold` | `TypeOK` | |
| `ScansFindTheRecords` | the scanner's calls, and the reference definition | `ScannerProofs` |
| `BoundariesStartTheRest` | the same from any record's start | |
| `DistrustHasNoWayBack` | `DistrustIsFinal` | `TextFileProofs` |
| `ScanIsTheStream` | `StreamOfSnapshot` (refinement of `RecordStream`) | |
| `ShownRowsAreTheSnapshots` | `ShownIsSnapshot` | |
| `PagesAreTheHitFile` | `PageIsStore` | |
| `SearchKeepsItsPromise` | `SearchPromise` (refinement of `SearchHits`) | |
| `SearchedHitsAreShown` | `ShownIsHit` | |
| `RecoverySparesTheLive` | `SearchKeepsItsFile` | `ScratchProofs` |
| `StartsSucceedBesideOthers` | `StartsBesideOthers` | |
| `LiveOwnersKeepTheirFiles` | `LiveFilesStay` | |
| `LedgerStaysSound` | `LedgerIsSound` | |
| `HandedOverFilesAreKept` | `HandedOverFilesArrive` | `InstanceProofs` |
| `TabsNeverMix` | `TabsStayApart` | `TabsProofs` |
| `PlacesKeepTheirOrder` | `PlacesFollowTheOrder` | |
| `ScreenStandsForItsRows` | `RowsStandForThemselves` | `ListProofs` |
| `BarsFollow` | `BarsServeTheList` | |
| `ThumbIsTheHandle` | `ThumbLeadsTheList` | |
| `ColumnsFollowTheZoom` | `WidthsFollowTheZoom` | |

*The index.* The heart is the lemma about `Compacted`: it keeps entries 1, 3, 5, ...,
so neighbours that were a stride apart become two strides apart, which is what the
doubled, or saturated, stride asks; `Sample` appends only at a stride from the last.
The lookup is a floor because the entries start at the origin and grow, so a
greatest one at or before a row exists and is unique.

*The permit.* The property says nothing of a sort that has yet to ask, of where the
worker is, or of which serial a command carries. `IInv` adds that in two halves.
`UIPart`: what a call has left is a list of known steps in which a sort command is
sent only right after its serial was stored (`CallRule`), so the command in the
mailbox never has serial 0, which the permit keeps for nobody (`BoxRule`).
`WorkerPart`: the sort and `sort_state` carry one serial (`DocumentShape`); the
program counter says whether there is a document, a sort or the permit (`Places`);
the permit is with this sort, on its way back in `complete_sort`, with another tab,
or free (`Owners`). `Places` also says that the one event whose delivery decides
about the thread's end is never that of `complete_sort`, or a close would leak it.

*What the two threads tell one another.* Each property has a part of its own on top
of `IInv`. `RowsPart`: the document, the event in hand, in the mailbox, being judged
and on show all fit their order, and the running sort has the key its state names;
the order's action property follows from it and from where `complete_sort` is.
`SignalPart`: every command still to be sent in a call is followed by its signal
(`SignalRule`), and where the thread is past a mailbox in its round, that mailbox is
empty or a signal is pending or about to be (`Heard`). That part must speak of every
place between draining and waiting, since a command may arrive after its mailbox was
looked at. `WakePart`: an event waits with a message on its way, in the worker's
hands or a poll's. `SleepPart`: where the thread is about to sleep nothing is left.
`TypePart` follows what a command carries: that a document is in an order somebody
asked for needs the order of the call in progress, of the command in the mailbox and
of the running sort.

*The scanner.* A call of the scanner is a run of turns, one byte at most each, and
stops where its callback says so (`Turn`, `Steps`). On the other side is one pass over
the whole file. A scanner *agrees* with the pass (`Agree`) when it is the pass's
scanner at that place, or a fresh one where only a lone carriage return waits, which is
what starting from a record's boundary makes of it; `Agree` survives every chunk, stop
and resumption. Last, the pass and the reference: the pass cuts the file at exactly
the reference's terminators (`Cuts`), since its state says whether a byte lies in a
quoted section (`Reads`). These are inductions over a file's length, which the provers
take in a first-order form: `NumbersByInduction` says that a set of numbers which
has 0 and every successor has them all, and its instance is a set, not an operator.

*The reader.* `ReaderBase` is the control: where the engine's one thread stands, with
what in hand, and that whoever captured the object at its present revision captured
what it is. With `DistrustPart`, a source found changed leaves the engine failed or
the session over for good. `ScanPart` says that the scanner agrees with the records
found, and that what is fed to it is the snapshot's; each step is then a step of
`RecordStream` or none. `ViewPart` says what a viewport has collected and copied, by
its place in the call, but only as long as nobody wrote (`Calm`): after a write nothing
is known of the bytes read, and the theorem holds because the last check of a call
finds the write before anything is handed over.

*The search.* `StorePart` counts the bytes of the hit file exactly and keeps them
within the quota; `PagePart` says that a page, also one just being read, is the
stretch of the file it names; `ShownPart` that the active match is an entry, and the
one shown; `DemandPart` that a quantum runs only for a demanded hit, without which a
hit appended late could be shown under another number.

That an entry is a hit of the snapshot is the work of `FoundPart`. The matcher's state
is a number: the length of the longest part of the needle that the bytes read so far
end with (`Longest`). It stays so because the failure table lists the borders of every
prefix of the needle (`Borders`), and a match is reported exactly where the needle
stands. So the hits up to any byte of any record (`Reached`) begin the hits of the
file, and `PlacePart` says that the hit file holds precisely those of the place which
the search has come to, be that in the pending record, in the buffer between two bytes,
or where the quota stopped it. What is read again later must be what was read before:
`BufferPart` and `CachePart` claim that the buffers hold the file's bytes only while
the object has its first revision, and before bytes are used the source is looked at
again. `StatusPart` says that an ended search has no demand, so no quantum adds to it.

*Recovery.* In `QueryScratch` one start at a time holds the lock (`LockPart`), a
marker is open exactly while its worker lives (`MarkerPart`), and as long as a start
takes itself for alone every live worker's marker is still ahead of it in its
listing (`AlonePart`): so while hit files are removed nobody else is live
(`RecoverPart`). The same part says that only
the start under the lock removes hit files, so each file it has listed is there when it
comes to it: a start is refused by the lock's five seconds or by a file that another
program holds, and by nothing that workers do. In `SortScratch` a directory that
recovery has judged dead has no owner any more (`JudgedPart`), and none comes, because
names are not used twice; the queue of deferred deletions holds directories of dropped
owners only (`PendingPart`); and a directory without a lock file yet cannot be judged
(`BarePart`).

*The ledger.* That every charge is held once follows a charge from one holder to the
next (`BillPart`). That the charges cover the disk needs to say whose each block is.
While an owner lives, its own charges cover its directory: an open file is no longer
than its reservation, and what is loose in the directory was retained (`CoverPart`).
After its end the charge in the queue covers what is left (`QueuePart`). What a retry
takes out of the queue has been deleted, and what never got in is no more than the
lost part (`StrayPart`), which is a bound on a sum over directories and not on each.
The sums are the fold of the community modules, which takes the elements in an order
that `CHOOSE` picks. The lemmas about it, from the induction over the parts of a finite
set, say that any element can come first, so that sums over changed sets can be compared
(`TotalChanges`, `TotalSplits`, `TotalMonotone`, `TotalAdds`).

*Launches.* `LaunchPart` follows the count of accepted messages: after `n` of them
the files of the first `n` payloads are opened or wait at that window, unless it
dropped some and counted them; a lemma about `Payloads` shows that the payloads
together are all the files, whatever the limit. A sender that gives up starts from
none. `WakePart`: a list that is not empty has a message that opens it; a close
message in front of it ends the window, and the promise with it.

*Tabs.* `Good` is an invariant of the state that a command hands on. It says that
the strip has each tab once and no other, ids are below the next one, the tab in
front is not put away too, no file is open twice, and each tab agrees with its rows,
its places and its worker. A command that closes the tab in front passes through a
state between two tabs, where `Headless` holds in its place. `PathsOnce` is needed
though no property names it so: that an open activates the tab of the same file
depends on there being one.

*The screen.* The theorem says of the selection what the property says: it is what was
meant while the view can know that (`known`), which it can until the window moves away
under a selection, or an event with another order is refused. `GridIInv` speaks of the
tab in front, of the one behind and of what is on the way between window and worker.
`FrontOK`: the selected items are items of the list, and where the view knows what is
meant, their rows are exactly that; `BehindOK` the same of the one row that a tab
behind keeps. `WindowOK`: the window lies within the rows that the tab may show, and
is shorter than they are only at the list's limit, so a window of more rows neither
moves nor drops an item (`WindowGrows`); without that a growing index could change the
selection. `CacheOK` holds of each cache with the order beside it, also in an event on
its way (`Tells`), and `Stands` of each rank that goes with a row: in a view, in an
event, and where a match is given its rank. That a sorted order has every row once,
and so each row a rank, is `SortedIsPermutation`.

*The bars.* `BarsIInv` says that the bars follow a list that has painted, and that only
the bar with the mouse is grabbed, pages or has a timer. Where the list is scrolled to
makes no difference to the room it has (`FrameOfSettled`), so the range that a bar is
given after a message is that of the list as the message leaves it. The thumb is
arithmetic: `Nearest(a, b)` divides to the nearest number, and `ThereAndBack` says that
from a place of the thumb to a position and from there to a place again the error is
at most that of the rounding, and that a neighbouring position gains at most one pixel.
`LedThere` adds that a position the thumb asks for survives `scroll_to`, which goes
through pixels of the row's height, and the clamp to the last page, unless the pixels
are more than one message carries (section 8). `BarsNumbers` keeps
sizes and places numbers, which these steps need.

*The columns.* `WidthsIInv` says of each column that its basis is up to date at this
zoom (`Fresh`), and of one whose width is to be as chosen that it shows its basis and
the basis is what was chosen, or else a width that was chosen at this very zoom
(`Tracks`). A rescale makes the second into the first (`RescaledIsOK`). A tab that comes
back gets new bases under its old widths; where nobody resized a column the two agree,
since a column that opens is its design scaled once (`OpensAsScaled`, `RestoredIsOK`).
That a burst of the wheel ends on a level is the induction over its notches. The proof
would not go through with the first form of the property: a divider that is dragged
away and back to where a zoom put it is for `rescale` one that never moved, so the
column goes on from the basis it had, a pixel beside the width it was given. `ChosenAt`
now says so, and the run drags a column to such a width (147 at 67 %).

`ListProofs` has the constants and the assumptions of its three components; no argument
uses those of another.

What stays with TLC, and why. Liveness under fairness and `ENABLED` are out of the
prover's reach: `OpenAnswered`, `SortAnswered`, `SearchAnswered`, `DropJoins`,
`WorkSettles`, `LaunchesSettle`. Induction over data is within it in the first-order
form above, at a price: the scanner, the matcher and what rests on them are two thirds
of the proofs. It has not been done for `CellsAreHonest` (fields of a row),
`RunsAreSorted` and `MapsAreExact` (a merge is sorted), `SheetRowsAreExact` and `DatesFollowTheCalendar` (rows of symbols, years).
`QuietShowsDocument` is checked under the mixes of section 3 only, as it fails in
others. The type invariant of the text files, which is
stated over three components at once, has no proof.

## 7. Where code and documents disagree

Each is a run that expects the violation; `PROJECT.json` quotes both sides.

1. `search_next`: *a search can stay unanswered*. `navigate_query` replaces the
   pending Start command of its own search; the worker then knows no such search and
   answers nothing, and `poll` rejects every event that does not carry the search,
   viewports included, until the next search or open.
2. `close_search`: *closing a tab may hang*. The worker's inner loop never looks at
   the closed mailboxes while a search has demand, and a cancelled search keeps its
   demand, so `Drop for Worker` joins a thread that spins.
3. `scroll_sort`: *scrolling cancels a finished sort*. The last reads of a sort use
   the viewport's token.
4. `search_loss`: *a failure can be lost*. Starting a search or navigating empties
   the events mailbox, whatever is in it; a failed scan is reported once.
5. `sheet_cuts`: *a cell may end in half a character*. The tokenizer cuts text at
   its byte limit, and the cut at a character boundary comes after it.
6. `zoom_burst`: *two notches down do nothing*. The wheel's handler adds the first
   message's notches with their sign and the queued ones without.
7. `find_reveal`: *a match found ahead of the scan is never shown*. The window marks
   it as revealed before it tries, and the try fails while its row is not indexed.

Two more were met while the rows on screen were modelled and have no run. A tab that
is restored without a selected row keeps the list's selection of the tab that was
left, where docs/ARCHITECTURE.md:159-162 and CHANGELOG.md:153 say that each tab keeps
its own. Column bases that are kept through a tab switch at another zoom may be off
by a pixel, as widths are rounded twice.

## 8. What is not modelled

Layout, theme, drawing and accessibility, the settings panel, menus, the entry
point, the installer and the measuring tools: calls to Windows or pure computation
without protocol state. Memory plans: sums checked once at construction. The
memory half of the sort ledger and the estimate of free space on the volume: a
`Refused` step covers both outcomes. Path syntax and volume checks of `open`. In
the zoom, the fonts and what happens when they cannot be made. In workbooks, ZIP64
fields, number formats other than dates, and the decompressor. The window that is
moved for a reveal that is then given up leaves a selection on other rows; it takes
more rows than a list can hold (a hundred million), and the bound of `GridView`
leaves it out.

`scroll_to` cuts the pixels it scrolls by to 32 bits (`scrollbar.rs:583`). With a row
22 pixels high, a list of more than 97 million rows is longer than that, and a thumb
dragged in one move from one end to the other leaves the list short of the end until
the next move of the mouse; `ThumbLeadsTheList` promises nothing for such a place
(`InReach`), and in its run `MaxPixels` is small, so that some places are out of reach.

Of two hazards a part has no property. The row to reveal travels once, in one event
(`worker.rs:853`): a cancelled snapshot sends it later, and an event that replaces it
in the mailbox loses it; the code treats it as best effort and no text promises more.
When another program holds a run file while its directory is removed, the lock file
may be gone first, and later recovery skips a directory without a lock
(`storage.rs:266`): a leftover that stays, not a wrong deletion.

## 9. What is left

- Proofs: the types of the worker and the text files, and of the sort the sortedness of
  a merge.
