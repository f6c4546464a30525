------------------------------- MODULE GridView -------------------------------
(***************************************************************************)
(* The rows on screen: crates/leanrows-win32/src/native.rs and the sliding  *)
(* window of model.rs.                                                      *)
(*                                                                         *)
(* The list of Windows knows items by number and keeps which are selected.  *)
(* The view maps them to ranks of the order shown, and the cache of the     *)
(* last event maps ranks to rows of the file. Two tabs share the list: the  *)
(* document of the first still changes under its worker, that of the second *)
(* has come to rest. The worker is cut down to what its events promise; see *)
(* DocumentWorker.                                                          *)
(***************************************************************************)
EXTENDS Integers, FiniteSetsExt, SequencesExt

CONSTANTS
    RowCount,       \* rows of each document, from 0
    FirstKnown,     \* rows indexed when the document is shown first
    MaxNativeRows,  \* MAX_NATIVE_ROWS
    PageRows,       \* rows the list shows at once
    CachedRows,     \* rows of one viewport
    SortedRow,      \* the sorted order: its row at each rank
    HitRows,        \* rows with a match, in the order of the search
    MaxCommands     \* commands of the user, a bound

GridRows == 0 .. RowCount - 1

ASSUME GridAssumption ==
    /\ RowCount \in Nat \ {0} /\ FirstKnown \in 1 .. RowCount
    /\ {MaxNativeRows, PageRows, CachedRows} \subseteq Nat \ {0} /\ MaxCommands \in Nat
    /\ SortedRow \in [GridRows -> GridRows] /\ IsInjective(SortedRow)
    /\ HitRows \in Seq(GridRows)

VARIABLES
    front,      \* the view of the window, with the list's items, and what is meant by them
    behind,     \* BackgroundTab: the tab that is not shown
    document,   \* ActiveDocument of the first tab's worker
    posted,     \* its event on the way to the window
    asks,       \* commands on the way to it: viewport, order and find
    commands    \* commands of the user so far

viewVars == <<front, behind, document, posted, asks, commands>>

NoRank == -1
NothingPosted == [kind |-> "none"]
NoAsk == [kind |-> "none"]
NoMatch == [serial |-> 0, hit |-> 0, row |-> NoRank]
NoReveal == [serial |-> 0, hit |-> 0, rank |-> NoRank]

RowAtRank(ordering, rank) == IF ordering = "file" THEN rank ELSE SortedRow[rank]
RankOf(ordering, row) == CHOOSE rank \in GridRows : RowAtRank(ordering, rank) = row

-----------------------------------------------------------------------------
(* SlidingRowWindow.                                                        *)

NewWindow(total) == [total |-> total, first |-> 0, visible |-> Min({total, MaxNativeRows})]

Seek(w, first) == [w EXCEPT !.first = Min({first, Max({w.total - w.visible, 0})})]

CenterOn(w, row) ==
    Seek(w, Max({Min({row, Max({w.total - 1, 0})}) - w.visible \div 2, 0}))

LocalToAbsolute(w, local) ==
    IF local \in 0 .. w.visible - 1 /\ w.first + local < w.total THEN w.first + local ELSE NoRank

AbsoluteToLocal(w, row) ==
    IF row < w.total /\ row - w.first \in 0 .. w.visible - 1 THEN row - w.first ELSE NoRank

\* ImmutableRowCache: rows of the file from a rank on.
ContainsRow(c, rank) == rank - c.first \in 0 .. Len(c.sources) - 1
SourceRow(c, rank) == c.sources[rank - c.first + 1]

CacheFrom(ordering, first, known) ==
    [first |-> first,
     sources |-> [i \in 1 .. Min({CachedRows, known - first}) |-> RowAtRank(ordering, first + i - 1)]]

-----------------------------------------------------------------------------
(* The list of Windows.                                                     *)

\* set_native_item_count: items that go are no longer selected; the rest stays.
WithCount(f) ==
    [f EXCEPT !.selected = {local \in @ : local < f.window.visible},
              !.top = Max({Min({@, f.window.visible - PageRows}), 0})]

EnsureVisible(f, local) ==
    [f EXCEPT !.top = Max({Min({@, local}), local - PageRows + 1})]

\* scroll_to_top: one request brings target to the top, from below or from above.
ScrollToTop(f, target) ==
    IF target = f.top \/ f.window.visible = 0 THEN f
    ELSE EnsureVisible(f, IF target > f.top
                          THEN Min({target + PageRows - 1, f.window.visible - 1}) ELSE target)

\* mark_selected: one row, and no other.
MarkSelected(f, local) == [f EXCEPT !.selected = {local}]

TopVisibleRow(f) == LocalToAbsolute(f.window, f.top)
FirstSelectedRow(f) ==
    IF f.selected = {} THEN NoRank ELSE LocalToAbsolute(f.window, Min(f.selected))

-----------------------------------------------------------------------------
(* Reveals.                                                                 *)

\* A window that moves leaves its selected items to other rows.
Moved(f, w) ==
    [f EXCEPT !.window = w,
              !.known = @ /\ (w.first = f.window.first \/ f.selected = {})]

\* select_absolute_row, complete_pending_reveal: with the row in the cache.
CompletePending(f) ==
    IF f.pending = NoRank \/ ~ContainsRow(f.cache, f.pending) THEN f
    ELSE LET local == AbsoluteToLocal(f.window, f.pending) IN
         IF local = NoRank THEN f
         ELSE [EnsureVisible(MarkSelected(f, local), local) EXCEPT
                  !.pending = NoRank, !.meant = {f.aim} \ {NoRank},
                  !.known = (f.aim # NoRank)]

\* begin_rank_reveal: the window is centred, the rows are asked for, and a row that
\* is here already is selected. What it asks for is returned beside the view.
Centred(f, rank, row) ==
    [WithCount(Moved(f, CenterOn(f.window, rank))) EXCEPT !.pending = rank, !.aim = row]
CanReveal(f, rank) == rank < f.window.total
BeginRankReveal(f, rank, row) ==
    IF CanReveal(f, rank) THEN CompletePending(Centred(f, rank, row)) ELSE f
ViewportAt(rank) == [kind |-> "rank", row |-> rank]

-----------------------------------------------------------------------------
(* Events of the worker.                                                    *)

\* query_match_to_reveal: the match of the search that the view asked for.
MatchToReveal(e, f) ==
    IF e.match.serial # 0 /\ e.match.serial = f.find
    THEN [serial |-> e.match.serial, hit |-> e.match.hit, rank |-> e.matchRank]
    ELSE NoReveal

Reveals(e, f) == LET m == MatchToReveal(e, f) IN m.serial # 0 /\ f.revealed # m

\* Faulty: the event's sort is taken before it is compared with the view's.
ChangesOrderTooLate(f, e) == e.order # e.order

ChangesOrder(f, e) == f.order # e.order

WindowOf(f, e, changed) ==
    Seek(NewWindow(e.available), IF changed THEN 0 ELSE f.window.first)

WithRows(f, e, changed) ==
    WithCount([Moved(f, WindowOf(f, e, changed)) EXCEPT
                  !.order = e.order, !.cache = e.cache, !.failed = FALSE])

\* A changed order drops the reveal under way and the selection, and scrolls up.
WithOrder(f, changed) ==
    IF changed
    THEN ScrollToTop([f EXCEPT !.pending = NoRank, !.aim = NoRank, !.selected = {},
                               !.meant = {}, !.known = TRUE], 0)
    ELSE f

WithReveal(f, e) ==
    IF e.reveal = NoRank THEN f ELSE Centred(f, e.reveal, e.goal)

WithMatch(f, e) ==
    IF Reveals(e, f)
    THEN BeginRankReveal([f EXCEPT !.revealed = MatchToReveal(e, f)], e.matchRank, e.match.row)
    ELSE f

\* apply_document_event. A match that is new to the view asks for its rows.
ApplyToFront(f, e) ==
    CompletePending(WithMatch(WithReveal(WithOrder(WithRows(f, e, ChangesOrder(f, e)),
                                                   ChangesOrder(f, e)), e), e))

\* synchronize_data_columns may fail: the sort is noted, the rows are not taken.
ColumnsFail(f, e) ==
    [f EXCEPT !.order = e.order, !.failed = TRUE,
              !.known = @ /\ ~ChangesOrder(f, e), !.aim = IF ChangesOrder(f, e) THEN NoRank ELSE @]

\* BackgroundTab::apply_event.
ApplyBehind(b, e) ==
    LET changed == ChangesOrder(b, e)
        match == MatchToReveal(e, b)
        fresh == match.serial # 0 /\ (changed \/ b.revealed # match)
    IN  [b EXCEPT
            !.order = e.order, !.window = WindowOf(b, e, changed), !.cache = e.cache,
            !.failed = FALSE,
            !.topRow = IF changed THEN 0 ELSE @,
            !.selectedRow = IF changed THEN NoRank ELSE @,
            !.meant = IF changed THEN {} ELSE @,
            !.known = @ \/ changed,
            !.revealed = IF fresh THEN match
                         ELSE IF changed THEN NoReveal
                         ELSE @,
            !.pending = IF fresh THEN e.matchRank
                        ELSE IF e.reveal # NoRank THEN e.reveal
                        ELSE IF changed THEN NoRank ELSE @,
            !.aim = IF fresh THEN e.match.row
                    ELSE IF e.reveal # NoRank THEN e.goal
                    ELSE IF changed THEN NoRank ELSE @]

-----------------------------------------------------------------------------
(* The worker of the first tab.                                             *)

EventOf(d, reveal, goal) ==
    [kind |-> "rows", order |-> d.order, cache |-> d.cache,
     available |-> IF d.order = "file" THEN d.known ELSE RowCount,
     reveal |-> reveal, goal |-> goal,
     match |-> d.match,
     matchRank |-> IF d.match.serial = 0 THEN NoRank ELSE RankOf(d.order, d.match.row)]

EmitEvent(d, reveal, goal) ==
    /\ posted = NothingPosted
    /\ document' = d /\ posted' = EventOf(d, reveal, goal)
    /\ UNCHANGED <<front, behind, commands>>

\* scan_once: the index grows to the end of the file.
Scan ==
    /\ document.known < RowCount
    /\ EmitEvent([document EXCEPT !.known = RowCount], NoRank, NoRank)
    /\ UNCHANGED asks

\* apply_viewport_request: rows from a rank on, or from the rank of a row on; the
\* reveal goes out once, with the rows that contain it.
ServeViewport ==
    LET ask == asks.viewport
        rank == IF ask.kind = "row" THEN RankOf(document.order, ask.row) ELSE ask.row
        known == IF document.order = "file" THEN document.known ELSE RowCount
        read == [document EXCEPT !.cache = CacheFrom(document.order, rank, known)]
    IN  /\ ask # NoAsk
        /\ IF ask.kind = "row" THEN EmitEvent(read, rank, ask.row) ELSE EmitEvent(read, NoRank, NoRank)
        /\ asks' = [asks EXCEPT !.viewport = NoAsk]

\* A sort that has run to its end, or a return to the order of the file.
ServeSort ==
    /\ asks.ordering # "none" /\ document.known = RowCount
    /\ EmitEvent([document EXCEPT !.order = asks.ordering,
                             !.cache = CacheFrom(asks.ordering, 0, RowCount)], NoRank, NoRank)
    /\ asks' = [asks EXCEPT !.ordering = "none"]

\* advance_query_once: the match is found in the file, which the index may not
\* have reached.
ServeFind ==
    /\ asks.find.serial # 0
    /\ EmitEvent([document EXCEPT !.match = [serial |-> asks.find.serial, hit |-> asks.find.hit,
                                       row |-> HitRows[asks.find.hit]]], NoRank, NoRank)
    /\ asks' = [asks EXCEPT !.find = [serial |-> 0, hit |-> 0]]

-----------------------------------------------------------------------------
(* The window.                                                              *)

Command == commands < MaxCommands /\ commands' = commands + 1

\* A view without a selection.
FreshView(tab, known, cached) ==
    [tab |-> tab, order |-> "file", window |-> NewWindow(known),
     cache |-> [first |-> 0, sources |-> [i \in 1 .. Min({cached, known}) |-> i - 1]],
     pending |-> NoRank, find |-> 0, revealed |-> NoReveal,
     failed |-> FALSE, selected |-> {}, top |-> 0, topRow |-> NoRank, selectedRow |-> NoRank,
     aim |-> NoRank, meant |-> {}, known |-> TRUE]

GridInit ==
    /\ front = FreshView("changing", FirstKnown, CachedRows)
    /\ behind = FreshView("settled", RowCount, RowCount)
    /\ document = [order |-> "file", known |-> FirstKnown, cache |-> front.cache, match |-> NoMatch]
    /\ posted = NothingPosted
    /\ asks = [viewport |-> NoAsk, ordering |-> "none", find |-> [serial |-> 0, hit |-> 0]]
    /\ commands = 0

\* apply_worker_event: to the view, or to the tab behind it.
ApplyEvent ==
    /\ posted # NothingPosted
    /\ posted' = NothingPosted
    /\ \/ /\ front.tab = "changing"
          /\ front' = ApplyToFront(front, posted)
          /\ asks' = IF Reveals(posted, front) /\ posted.matchRank < posted.available
                     THEN [asks EXCEPT !.viewport = ViewportAt(posted.matchRank)] ELSE asks
          /\ UNCHANGED behind
       \/ /\ front.tab = "changing"
          /\ front' = ColumnsFail(front, posted)
          /\ UNCHANGED <<behind, asks>>
       \/ /\ behind.tab = "changing"
          /\ behind' \in {ApplyBehind(behind, posted), ColumnsFail(behind, posted)}
          /\ UNCHANGED <<front, asks>>
    /\ UNCHANGED <<document, commands>>

\* show_goto_row, parse_one_based_row, begin_reveal: in a sorted order the worker is
\* asked for the rank of the row.
RevealRow ==
    /\ Command
    /\ \E row \in GridRows :
        /\ row < front.window.total
        /\ \/ /\ front.order = "file"
              /\ front' = BeginRankReveal(front, row, row)
              /\ asks' = IF front.tab = "settled" THEN asks
                         ELSE [asks EXCEPT !.viewport = ViewportAt(row)]
           \/ /\ front.order # "file"
              /\ asks' = [asks EXCEPT !.viewport = [kind |-> "row", row |-> row]]
              /\ UNCHANGED front
    /\ UNCHANGED <<behind, document, posted>>

\* start_or_navigate_find and navigate_active_find: events that wait are dropped
\* with the answers to the older search, and so is the reveal under way.
Find ==
    /\ Command /\ front.tab = "changing"
    /\ \E hit \in DOMAIN HitRows :
        /\ front' = [front EXCEPT !.find = 1, !.pending = NoRank, !.aim = NoRank,
                         !.revealed = NoReveal]
        /\ asks' = [asks EXCEPT !.find = [serial |-> 1, hit |-> hit]]
    /\ posted' = NothingPosted
    /\ UNCHANGED <<behind, document>>

\* A click on a column title.
SortRows ==
    /\ Command /\ front.tab = "changing"
    /\ \E ordering \in {"file", "sorted"} : asks' = [asks EXCEPT !.ordering = ordering]
    /\ UNCHANGED <<front, behind, document, posted>>

\* The user selects an item with its row on screen, alone or beside others.
Visible(f) == f.top .. Min({f.top + PageRows, f.window.visible}) - 1

SelectItem ==
    /\ Command /\ ~front.failed
    /\ \E local \in Visible(front), others \in {{}, front.selected} :
        LET row == RowAtRank(front.order, LocalToAbsolute(front.window, local)) IN
        front' = [front EXCEPT !.selected = others \cup {local},
                     !.meant = IF others = {} THEN {row} ELSE @ \cup {row},
                     !.known = @ \/ others = {}]
    /\ UNCHANGED <<behind, document, posted, asks>>

\* The list scrolls, and its hint asks for rows that are not there
\* (request_viewport_for_hint).
ScrollRows ==
    /\ Command
    /\ \E top \in 0 .. Max({front.window.visible - PageRows, 0}) \ {front.top} :
        LET f == [front EXCEPT !.top = top]
            ends == {LocalToAbsolute(f.window, Min(Visible(f))),
                     LocalToAbsolute(f.window, Max(Visible(f)))}
        IN  /\ front' = f
            /\ asks' = IF \A rank \in ends : ContainsRow(f.cache, rank) THEN asks
                       ELSE [asks EXCEPT !.viewport = ViewportAt(Min(ends))]
    /\ UNCHANGED <<behind, document, posted>>

\* stash_active: what one tab keeps of the list is its top row and the first row
\* that is selected.
StashedView(f) ==
    [f EXCEPT !.topRow = TopVisibleRow(f), !.selectedRow = FirstSelectedRow(f),
              !.selected = {}, !.top = 0,
              !.meant = IF @ = {} THEN {}
                        ELSE {RowAtRank(f.order, Min({RankOf(f.order, row) : row \in @}))}]

\* restore_tab: the items that the list has selected stay so when the tab that
\* comes back had none.
WithSelection(f, selectedRow) ==
    LET local == IF selectedRow = NoRank THEN NoRank ELSE AbsoluteToLocal(f.window, selectedRow)
    IN  IF local = NoRank THEN [f EXCEPT !.known = @ /\ f.selected = {}]
        ELSE MarkSelected(f, local)
WithTop(f, topRow) ==
    LET local == IF topRow = NoRank THEN NoRank ELSE AbsoluteToLocal(f.window, topRow)
    IN  IF local = NoRank THEN f ELSE ScrollToTop(f, local)
WithPending(f, rank, row) == IF rank = NoRank THEN f ELSE BeginRankReveal(f, rank, row)

RestoredRows(b, f) ==
    WithTop(WithSelection(WithCount([b EXCEPT !.selected = f.selected, !.top = f.top,
                                              !.pending = NoRank]), b.selectedRow), b.topRow)
RestoredView(b, f) ==
    [WithPending(RestoredRows(b, f), b.pending, b.aim)
        EXCEPT !.topRow = NoRank, !.selectedRow = NoRank]

SwitchTab ==
    /\ Command
    /\ behind' = StashedView(front)
    /\ front' = RestoredView(behind, front)
    /\ asks' = LET row == IF behind.pending # NoRank THEN behind.pending ELSE behind.topRow
               IN  IF behind.tab = "changing" /\ row # NoRank
                      /\ (behind.pending # NoRank \/ ~ContainsRow(behind.cache, row))
                      /\ row < behind.window.total
                   THEN [asks EXCEPT !.viewport = ViewportAt(row)] ELSE asks
    /\ UNCHANGED <<document, posted>>

GridNext ==
    \/ Scan \/ ServeViewport \/ ServeSort \/ ServeFind \/ ApplyEvent
    \/ RevealRow \/ Find \/ SortRows \/ SelectItem \/ ScrollRows \/ SwitchTab

GridSpec == GridInit /\ [][GridNext]_viewVars

-----------------------------------------------------------------------------
(* Properties.                                                              *)

\* serve_display_text: the row of an item, or NoRank while it is loading.
Served(f, rank) == IF ContainsRow(f.cache, rank) THEN SourceRow(f.cache, rank) ELSE NoRank

\* selected_local_rows: what is copied, all of it in the cache (build_copy_text) or
\* nothing.
SelectedRows(f) == {RowAtRank(f.order, f.window.first + local) : local \in f.selected}

\* Every item shows the row that has its rank in the order shown, or that it is
\* loading; the rows selected, and copied, are those that the user chose or that a
\* reveal was asked for, whatever events, orders, finds and switches came between;
\* and a reveal under way is still for its row (apply_document_event, restore_tab,
\* complete_pending_reveal, build_copy_text).
RowsStandForThemselves ==
    LET f == front IN ~f.failed =>
        /\ \A rank \in f.window.first .. f.window.first + f.window.visible - 1 :
            Served(f, rank) \in {NoRank, RowAtRank(f.order, rank)}
        /\ f.known => SelectedRows(f) = f.meant
        /\ (f.pending # NoRank /\ f.aim # NoRank) => RowAtRank(f.order, f.pending) = f.aim

\* A match that was found is shown: once the file is indexed and nothing is on its
\* way, the row of the match is selected or about to be (README.md: Enter or F3
\* moves to the next match).
MatchesAreShown ==
    (/\ front.tab = "changing" /\ front.revealed.serial # 0 /\ ~front.failed
     /\ posted = NothingPosted /\ document.known = RowCount /\ asks.viewport = NoAsk)
    => front.pending # NoRank \/ front.selected # {}

=============================================================================
