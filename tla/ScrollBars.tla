------------------------------ MODULE ScrollBars ------------------------------
(***************************************************************************)
(* The thin scroll bars laid over the list: crates/leanrows-win32/src/      *)
(* scroll.rs and native/scrollbar.rs.                                       *)
(*                                                                         *)
(* The list keeps its own scroll range; list_proc brings the two bars up to *)
(* date after the messages that may change it. A bar answers the mouse by   *)
(* scrolling the list. The list, the capture of the mouse and timers are    *)
(* Windows', modelled as far as the bars use them.                          *)
(***************************************************************************)
EXTENDS Integers, FiniteSetsExt

CONSTANTS
    Dpi,            \* dots per inch
    StripDip, InsetDip, MinThumbDip,    \* STRIP_DIP, END_INSET_DIP, MIN_THUMB_DIP
    SystemBar,      \* thickness of the bars that Windows draws
    HeaderHeight,   \* of the column titles
    RowCounts, RowHeights, ColumnWidths, WindowSizes,   \* what the list may hold and be
    Pointers,       \* places of the mouse along a bar
    MaxPixels,      \* i32::MAX, the pixels that one message scrolls
    MaxLayouts      \* changes of the window, the columns and the row height, a bound

ASSUME ScrollAssumption ==
    /\ {StripDip, InsetDip, MinThumbDip, SystemBar, HeaderHeight, MaxPixels, MaxLayouts}
           \subseteq Nat
    /\ Dpi \in Nat \ {0} /\ RowHeights \subseteq Nat \ {0} /\ RowHeights # {}
    /\ RowCounts \cup ColumnWidths \subseteq Nat /\ Pointers \subseteq Int
    /\ WindowSizes \subseteq [width : Nat, height : Nat]

VARIABLES
    listView,   \* visible, size, rows, width of columns, height of a row (tall),
                \* and the row and the pixel at the top and left
    overlaid,   \* Overlay.enabled
    bars,       \* Overlay.bars
    capture,    \* the bar that holds the mouse, or "none"
    timer,      \* REPEAT_TIMER of each bar: set, and due (its message is in the queue)
    unpainted,  \* the list changed on its own and WM_PAINT is to come
    layouts     \* changes of layout so far

scrollVars == <<listView, overlaid, bars, capture, timer, unpainted, layouts>>

Axes == {"down", "across"}

-----------------------------------------------------------------------------
(* Geometry (scroll.rs).                                                    *)

Pixels(dip) == (dip * Max({Dpi, 96}) + 48) \div 96

SpanOf(range) == Max({range.max - range.min + 1, 0})

\* Faulty: the last page starts a unit early.
LastPosEarly(range) == Max({range.max - range.page, range.min})

LastPos(range) == Max({range.max - range.page + 1, range.min})

Scrolls(range) == range.page > 0 /\ SpanOf(range) > range.page

HasThumb(range, track) == Scrolls(range) /\ track > 0

Clamp(n, low, high) == Max({low, Min({n, high})})

ThumbLength(range, track) ==
    Min({track, Max({(track * range.page) \div SpanOf(range), Min({Pixels(MinThumbDip), track})})})
ThumbAt(range, travel, length, steps) ==
    [length |-> length,
     start |-> IF steps = 0 THEN 0
               ELSE (travel * Clamp(range.pos - range.min, 0, steps) + steps \div 2) \div steps]
ThumbAs(range, track, length) ==
    ThumbAt(range, track - length, length, LastPos(range) - range.min)
Thumb(range, track) == ThumbAs(range, track, ThumbLength(range, track))

PositionAlong(range, travel, start, steps) ==
    IF travel <= 0 \/ steps <= 0 THEN range.min
    ELSE range.min + (steps * Clamp(start, 0, travel) + travel \div 2) \div travel
PositionAt(range, track, length, start) ==
    PositionAlong(range, track - length, start, LastPos(range) - range.min)

PageDirection(thumb, at) ==
    IF at < thumb.start THEN -1 ELSE IF at >= thumb.start + thumb.length THEN 1 ELSE 0

-----------------------------------------------------------------------------
(* The list.                                                                    *)

RowsThatFit(l, height) == Max({(height - HeaderHeight) \div l.tall, 0})

\* narrow_frame: a bar of Windows takes SystemBar from the list; with the overlay
\* the list gets it back but for a strip.
ClientEdge(proposed, barred, on) ==
    Max({0, proposed - IF ~barred THEN 0 ELSE IF on THEN Pixels(StripDip) ELSE SystemBar})

\* WS_VSCROLL and WS_HSCROLL: whether rows and columns fit, each bar taking room
\* from the other direction.
TooTall(l, on, across) == l.rows > RowsThatFit(l, ClientEdge(l.size.height, across, on))
TooWide(l, on, down) == l.columns > ClientEdge(l.size.width, down, on)

FrameWith(l, on, down, across) ==
    [down |-> down, across |-> across,
     height |-> ClientEdge(l.size.height, across, on),
     width |-> ClientEdge(l.size.width, down, on)]
FrameDown(l, on, down) == FrameWith(l, on, down, TooWide(l, on, down))
Frame(l, on) == FrameDown(l, on, TooTall(l, on, TooWide(l, on, TooTall(l, on, FALSE))))

\* range_of: GetScrollInfo. Rows down, pixels across.
RangeOf(l, frame, axis) ==
    IF axis = "down"
    THEN [min |-> 0, max |-> l.rows - 1, page |-> RowsThatFit(l, frame.height), pos |-> l.top]
    ELSE [min |-> 0, max |-> l.columns - 1, page |-> frame.width, pos |-> l.left]

NoRange == [min |-> 0, max |-> 0, page |-> 0, pos |-> 0]

\* The list never scrolls past its last page.
Settled(l, frame) ==
    [l EXCEPT !.top = Clamp(@, 0, Max({l.rows - RowsThatFit(l, frame.height), 0})),
              !.left = Clamp(@, 0, Max({l.columns - frame.width, 0}))]

-----------------------------------------------------------------------------
(* sync: the bars are placed, shown and given the range of the list.        *)
BarSynced(bar, axis, l, frame, shown) ==
    [bar EXCEPT !.shown = shown[axis],
                !.length = IF axis = "across" THEN frame.width
                           ELSE frame.height + IF shown["across"] THEN Pixels(StripDip) ELSE 0,
                !.lead = IF axis = "down" THEN HeaderHeight ELSE 0,
                !.range = IF shown[axis] THEN RangeOf(l, frame, axis) ELSE NoRange]

BarsDue(l, frame, on) == [axis \in Axes |-> on /\ l.visible /\ frame[axis]]

SyncedAs(bs, l, frame, shown) ==
    [axis \in Axes |-> BarSynced(bs[axis], axis, l, frame, shown)]
Synced(bs, l, frame, on) == SyncedAs(bs, l, frame, BarsDue(l, frame, on))

\* Faulty: the count of rows is not among the messages that change a range.
IsSyncMessageButCount(message) ==
    message \in {"paint", "size", "scroll", "wheel", "key", "redraw", "ensure_visible",
                 "column_width"}

\* is_sync_message. What the header tells the list ("notify") is not one.
IsSyncMessage(message) ==
    message \in {"paint", "size", "scroll", "wheel", "key", "redraw", "ensure_visible",
                 "column_width", "item_count"}

\* list_proc: the list handles a message that makes it l, then the bars follow.
ListSettles(message, l, bs, frame, on) ==
    /\ listView' = l
    /\ bars' = IF IsSyncMessage(message) THEN Synced(bs, l, frame, on) ELSE bs
    /\ unpainted' = (message = "notify" \/ (unpainted /\ message # "paint"))
ListFramed(message, l, bs, frame, on) ==
    ListSettles(message, Settled(l, frame), bs, frame, on)
ListBecomes(message, l, bs, on) == ListFramed(message, l, bs, Frame(l, on), on)

(* track: start and length along the bar, and the thumb on it (thumb_of).     *)
TrackStart(bar) == bar.lead + Pixels(InsetDip)
TrackLength(bar) == Max({bar.length - bar.lead - 2 * Pixels(InsetDip), 0})
ThumbShown(bar) == HasThumb(bar.range, TrackLength(bar))
ThumbOf(bar) == Thumb(bar.range, TrackLength(bar))

PlacedAt(l, axis, pos) ==
    IF axis = "down" THEN [l EXCEPT !.top = pos] ELSE [l EXCEPT !.left = pos]

\* scroll_to: the pixels from the place shown to pos, of rows their height each, are
\* cut to what LVM_SCROLL carries; the list scrolls by the nearest whole row.
Away(l, axis, pos) == IF axis = "down" THEN (pos - l.top) * l.tall ELSE pos - l.left
CutPixels(pixels) == Clamp(pixels, - MaxPixels - 1, MaxPixels)

ScrolledBy(l, axis, pixels) ==
    PlacedAt(l, axis, IF axis = "down" THEN l.top + (pixels + l.tall \div 2) \div l.tall
                      ELSE l.left + pixels)
ScrolledTo(l, axis, pos) == ScrolledBy(l, axis, CutPixels(Away(l, axis, pos)))

ScrollTo(axis, pos, bs) ==
    IF pos = RangeOf(listView, Frame(listView, overlaid), axis).pos
    THEN bars' = bs /\ UNCHANGED <<listView, unpainted>>
    ELSE ListBecomes("scroll", ScrolledTo(listView, axis, pos), bs, overlaid)

\* page: WM_VSCROLL or WM_HSCROLL by a page of the list.
PagedIn(l, axis, direction, range) == PlacedAt(l, axis, range.pos + direction * range.page)
Paged(l, axis, direction) ==
    PagedIn(l, axis, direction, RangeOf(l, Frame(l, overlaid), axis))

-----------------------------------------------------------------------------
(* install, and what happens to the list.                                       *)

Bar == [shown |-> FALSE, length |-> 0, lead |-> 0, range |-> NoRange,
        grabbed |-> FALSE, grab |-> 0, paging |-> 0, heldAt |-> 0]

\* The overlay starts over a list without rows; refit makes Windows measure the
\* frame again, which the list answers with a message that brings the bars up to date.
ScrollInit ==
    /\ listView \in [visible : {TRUE}, size : WindowSizes, rows : {0}, columns : {0},
                 tall : {Min(RowHeights)}, top : {0}, left : {0}]
    /\ overlaid = TRUE
    /\ bars = Synced([axis \in Axes |-> Bar], listView, Frame(listView, TRUE), TRUE)
    /\ capture = "none"
    /\ timer = [axis \in Axes |-> [set |-> FALSE, due |-> FALSE]]
    /\ unpainted = FALSE
    /\ layouts = 0

LaidOut == layouts < MaxLayouts /\ layouts' = layouts + 1

\* Rows become known, or a narrower set is shown.
SetItemCount ==
    \E count \in RowCounts \ {listView.rows} :
        /\ ListBecomes("item_count", [listView EXCEPT !.rows = count], bars, overlaid)
        /\ UNCHANGED <<overlaid, capture, timer, layouts>>

\* The keyboard moves the list by a row or a page, the wheel of the mouse by rows:
\* over the list, or over a bar, which passes it on.
ScrollList(message, by) ==
    /\ listView.visible
    /\ ListBecomes(message, [listView EXCEPT !.top = Max({@ + by, 0})], bars, overlaid)
    /\ UNCHANGED <<overlaid, capture, timer, layouts>>

ScrollByKey == \E by \in {-1, 1, RangeOf(listView, Frame(listView, overlaid), "down").page} :
    ScrollList("key", by)

TurnWheel == \E by \in {-1, 1} : ScrollList("wheel", by)

\* A divider of the column titles is dragged: the header tells the list, which
\* scrolls and paints itself; the bars hear of it with the paint.
DragDivider ==
    /\ LaidOut
    /\ \E width \in ColumnWidths \ {listView.columns} :
        ListBecomes("notify", [listView EXCEPT !.columns = width], bars, overlaid)
    /\ UNCHANGED <<overlaid, capture, timer>>

PaintList ==
    /\ unpainted
    /\ ListBecomes("paint", listView, bars, overlaid)
    /\ UNCHANGED <<overlaid, capture, timer, layouts>>

SetColumnWidth ==
    /\ LaidOut
    /\ \E width \in ColumnWidths \ {listView.columns} :
        ListBecomes("column_width", [listView EXCEPT !.columns = width], bars, overlaid)
    /\ UNCHANGED <<overlaid, capture, timer>>

SetRowHeight ==
    /\ LaidOut
    /\ \E tall \in RowHeights \ {listView.tall} :
        ListBecomes("redraw", [listView EXCEPT !.tall = tall], bars, overlaid)
    /\ UNCHANGED <<overlaid, capture, timer>>

ResizeList ==
    /\ LaidOut
    /\ \E size \in WindowSizes \ {listView.size} :
        ListBecomes("size", [listView EXCEPT !.size = size], bars, overlaid)
    /\ UNCHANGED <<overlaid, capture, timer>>

ShowList ==
    /\ LaidOut
    /\ ListBecomes("size", [listView EXCEPT !.visible = ~@], bars, overlaid)
    /\ UNCHANGED <<overlaid, capture, timer>>

\* set_enabled: off in high contrast; refit and sync.
SetEnabled ==
    /\ LaidOut
    /\ overlaid' = ~overlaid
    /\ ListBecomes("size", listView, bars, ~overlaid)
    /\ UNCHANGED <<capture, timer>>

-----------------------------------------------------------------------------
(* bar_proc: the mouse on a bar.                                            *)

\* held_at is read only while the bar pages, so it is 0 otherwise.
Released(bs, axis) ==
    [bs EXCEPT ![axis].grabbed = FALSE, ![axis].grab = 0,
               ![axis].paging = 0, ![axis].heldAt = 0]

\* SetTimer starts a timer again; KillTimer leaves a message already posted.
TimerSet(axis) == [timer EXCEPT ![axis].set = TRUE]
TimerKilled(axis) == [timer EXCEPT ![axis].set = FALSE]

\* WM_LBUTTONDOWN: the thumb is caught, or the list pages towards the place.
Catch(axis, at, thumb) ==
    /\ PageDirection(thumb, at) = 0
    /\ bars' = [bars EXCEPT ![axis].grabbed = TRUE, ![axis].grab = at - thumb.start]
    /\ UNCHANGED <<listView, timer, unpainted>>

PageTowards(axis, at, direction) ==
    /\ direction # 0
    /\ ListBecomes("scroll", Paged(listView, axis, direction),
                   [bars EXCEPT ![axis].paging = direction, ![axis].heldAt = at], overlaid)
    /\ timer' = TimerSet(axis)

ButtonDown(axis) ==
    /\ bars[axis].shown /\ capture = "none" /\ ThumbShown(bars[axis])
    /\ capture' = axis
    /\ \E pointer \in Pointers :
        LET at == pointer - TrackStart(bars[axis])
        IN  \/ Catch(axis, at, ThumbOf(bars[axis]))
            \/ PageTowards(axis, at, PageDirection(ThumbOf(bars[axis]), at))
    /\ UNCHANGED <<overlaid, layouts>>

\* WM_MOUSEMOVE: the bar that holds the mouse gets its moves wherever it is.
Drag(axis, at) ==
    /\ bars[axis].grabbed /\ ThumbShown(bars[axis])
    /\ ScrollTo(axis, PositionAt(bars[axis].range, TrackLength(bars[axis]),
                                 ThumbOf(bars[axis]).length, at - bars[axis].grab), bars)

HoldAt(axis, at) ==
    /\ ~(bars[axis].grabbed /\ ThumbShown(bars[axis]))
    /\ bars[axis].paging # 0
    /\ bars' = [bars EXCEPT ![axis].heldAt = at]
    /\ UNCHANGED <<listView, unpainted>>

MouseMove(axis) ==
    /\ capture = axis
    /\ \E pointer \in Pointers :
        LET at == pointer - TrackStart(bars[axis]) IN Drag(axis, at) \/ HoldAt(axis, at)
    /\ UNCHANGED <<overlaid, capture, timer, layouts>>

\* Windows posts WM_TIMER.
TimerFires(axis) ==
    /\ timer[axis].set /\ ~timer[axis].due
    /\ timer' = [timer EXCEPT ![axis].due = TRUE]
    /\ UNCHANGED <<listView, overlaid, bars, capture, unpainted, layouts>>

\* WM_TIMER: the list pages on until the thumb is where the mouse is held.
PageAgain(axis) ==
    LET bar == bars[axis]
        still == /\ bar.paging # 0 /\ ThumbShown(bar)
                 /\ PageDirection(ThumbOf(bar), bar.heldAt) = bar.paging
    IN  /\ timer[axis].due
        /\ \/ /\ still
              /\ ListBecomes("scroll", Paged(listView, axis, bar.paging), bars, overlaid)
              /\ timer' = [timer EXCEPT ![axis] = [set |-> TRUE, due |-> FALSE]]
           \/ /\ ~still
              /\ timer' = [timer EXCEPT ![axis] = [set |-> FALSE, due |-> FALSE]]
              /\ UNCHANGED <<listView, bars, unpainted>>
        /\ UNCHANGED <<overlaid, capture, layouts>>

\* WM_LBUTTONUP, and WM_CAPTURECHANGED when another window takes the mouse.
ButtonUp(axis) ==
    /\ capture = axis
    /\ capture' = "none"
    /\ bars' = Released(bars, axis)
    /\ timer' = TimerKilled(axis)
    /\ UNCHANGED <<listView, overlaid, unpainted, layouts>>

ScrollNext ==
    \/ SetItemCount \/ ScrollByKey \/ TurnWheel \/ DragDivider \/ PaintList
    \/ SetColumnWidth \/ SetRowHeight \/ ResizeList \/ ShowList \/ SetEnabled
    \/ \E axis \in Axes :
        \/ ButtonDown(axis) \/ MouseMove(axis) \/ TimerFires(axis) \/ PageAgain(axis)
        \/ ButtonUp(axis)

ScrollSpec == ScrollInit /\ [][ScrollNext]_scrollVars

-----------------------------------------------------------------------------
(* Properties.                                                              *)

\* A bar is there exactly when the list has more than fits and shows the list's
\* range, whichever message changed the list, but for the moment before the list
\* paints what it did on its own; and no bar drags or pages that does not hold the
\* mouse, nor is a timer left running (sync, list_proc, bar_proc).
BarsServeTheList ==
    LET frame == Frame(listView, overlaid)
        due(axis) == overlaid /\ listView.visible /\ frame[axis]
    IN  \A axis \in Axes :
        /\ ~unpainted =>
            /\ bars[axis].shown = due(axis)
            /\ bars[axis].range =
                  IF due(axis) THEN RangeOf(listView, frame, axis) ELSE NoRange
        /\ (bars[axis].grabbed \/ bars[axis].paging # 0) => capture = axis
        /\ timer[axis].set => capture = axis

\* Wherever the thumb is dragged to, the list scrolls to a place whose thumb lies
\* there, as near as rows or pixels allow; at the ends of the track the first and
\* the last of the list are in view. So it is for every place that is within the pixels
\* of one message of where the list is (thumb, position_at, scroll_to).
Sought(bar, start, length) == PositionAt(bar.range, TrackLength(bar), length, start)
InReach(axis, pos) == CutPixels(Away(listView, axis, pos)) = Away(listView, axis, pos)
Led(axis, bar, start, length, frame) ==
    RangeOf(Settled(ScrolledTo(listView, axis, Sought(bar, start, length)), frame), frame, axis)
ThumbOff(range, track, start) ==
    LET place == Thumb(range, track).start IN Max({place - start, start - place})
NearestTo(start, there, track) ==
    \A pos \in {there.pos - 1, there.pos + 1} \cap (0 .. LastPos(there)) :
        ThumbOff(there, track, start) <= ThumbOff([there EXCEPT !.pos = pos], track, start) + 1
LeadsAt(start, travel, there, track) ==
    /\ start = 0 => there.pos = 0
    /\ start = travel => there.pos + there.page > there.max
    /\ NearestTo(start, there, track)
Leads(axis, bar, travel, length, frame) ==
    travel > 0 => \A start \in 0 .. travel : InReach(axis, Sought(bar, start, length)) =>
        LeadsAt(start, travel, Led(axis, bar, start, length, frame), TrackLength(bar))
LeadsFrom(axis, bar, length, frame) ==
    Leads(axis, bar, TrackLength(bar) - length, length, frame)
ThumbLeadsTheList ==
    \A axis \in Axes : (ThumbShown(bars[axis]) /\ ~unpainted) =>
        LeadsFrom(axis, bars[axis], ThumbOf(bars[axis]).length, Frame(listView, overlaid))

=============================================================================
