------------------------------- MODULE GridZoom -------------------------------
(***************************************************************************)
(* The zoom of the rows and the widths of their columns: crates/            *)
(* leanrows-win32/src/zoom.rs, and in native.rs set_grid_zoom, zoom_grid,   *)
(* handle_zoom_wheel, the data columns, and what stash_active and           *)
(* restore_tab do with widths.                                              *)
(*                                                                         *)
(* The list holds the widths of the document that is shown; a document in   *)
(* another tab keeps its own, and both are scaled at every change of zoom.  *)
(* Messages of the wheel wait in the queue and are handled in bursts.       *)
(***************************************************************************)
EXTENDS Integers, Sequences, SequencesExt, FiniteSetsExt

CONSTANTS
    ZoomLevels,     \* ZOOM_LEVELS, a set of percentages
    SavedZooms,     \* values of the registry that a window starts with
    Notch,          \* units of the wheel in a notch
    WheelDeltas,    \* deltas of the wheel's messages
    MaxWheel,       \* messages of the wheel that wait, a bound
    Layouts,        \* [kind, count]: columns that workers report
    UserWidths,     \* widths that the user gives a column
    MaxResizes,     \* columns resized, a bound
    MaxTabMoves     \* tabs opened, switched and closed, a bound

DefaultZoom == 100
DataColumnWidth(kind) == CASE kind = "Preview" -> 720
                           [] kind = "Fields" -> 220
                           [] kind = "Cells" -> 160
RowColumnWidth == 112

ASSUME ZoomAssumption ==
    /\ ZoomLevels \subseteq Nat \ {0} /\ DefaultZoom \in ZoomLevels
    /\ SavedZooms \subseteq Nat
    /\ Notch \in Nat \ {0} /\ WheelDeltas \subseteq Int
    /\ Layouts \subseteq [kind : {"Preview", "Fields", "Cells"}, count : Nat]
    /\ UserWidths \subseteq Nat
    /\ {MaxWheel, MaxResizes, MaxTabMoves} \subseteq Nat

VARIABLES
    gridZoom,   \* theme.zoom
    grid,       \* the columns of the list, with column_zoom of the window state
    kept,       \* those of the document in another tab, or NoGrid
    zoomWheel,  \* zoom_wheel: movement not yet a whole notch
    wheel,      \* messages of the wheel in the queue: [delta, zooms]
    resizes,    \* columns resized so far
    tabMoves    \* tabs opened, switched and closed so far

zoomVars == <<gridZoom, grid, kept, zoomWheel, wheel, resizes, tabMoves>>

-----------------------------------------------------------------------------
(* Levels.                                                                   *)

Highest == Max(ZoomLevels)
Lowest == Min(ZoomLevels)

StepZoom(current, direction) ==
    LET above == {level \in ZoomLevels : level > current}
        below == {level \in ZoomLevels : level < current}
    IN
    CASE direction > 0 -> IF above = {} THEN Highest ELSE Min(above)
      [] direction < 0 -> IF below = {} THEN Lowest ELSE Max(below)
      [] OTHER -> DefaultZoom

Apart(a, b) == IF a > b THEN a - b ELSE b - a

\* The first of the nearest levels, or actual size when far outside.
NormalizeZoom(value) ==
    IF value < Lowest - 1 \/ value > Highest + 1 THEN DefaultZoom
    ELSE LET near == Min({Apart(level, value) : level \in ZoomLevels})
         IN  Min({level \in ZoomLevels : Apart(level, value) = near})

ZoomAfterNotches(current, notches) ==
    LET after[n \in 0 .. Apart(notches, 0)] ==
            IF n = 0 THEN current ELSE StepZoom(after[n - 1], notches)
    IN  after[Apart(notches, 0)]

\* wheel_notches: division in Rust rounds towards zero.
WholeNotches(moved) == IF moved < 0 THEN -((-moved) \div Notch) ELSE moved \div Notch
LeftOver(moved) == moved - WholeNotches(moved) * Notch

(* Widths. A column keeps a basis, a width at a zoom, and the width that was  *)
(* last applied.                                                             *)

AtLeastOne(n) == IF n < 1 THEN 1 ELSE n

ScaleByZoom(size, zoom) == AtLeastOne((size * zoom + 50) \div 100)
ScaleWidth(width, from, to) == AtLeastOne((width * to + from \div 2) \div from)

Unknown == [width |-> 0, zoom |-> DefaultZoom, applied |-> -1]

Resized(bases, n) == [i \in 1 .. n |-> IF i <= Len(bases) THEN bases[i] ELSE Unknown]

\* ColumnZoom::insert, for the columns first .. last.
Inserted(bases, first, last, design, zoom) ==
    LET room == Resized(bases, Max({Len(bases), last}))
        new == [width |-> design, zoom |-> DefaultZoom,
                applied |-> ScaleByZoom(design, zoom)]
    IN  [i \in DOMAIN room |-> IF i \in first .. last THEN new ELSE room[i]]

\* Faulty variants, each a slip that one of the properties below rejects.
LastWidth(basis, width, from) == [width |-> width, zoom |-> from, applied |-> width]

\* A width other than the one applied was set by the user: a new basis.
Basis(basis, width, from) ==
    IF basis.applied = width THEN basis
    ELSE [width |-> width, zoom |-> from, applied |-> width]

\* ColumnZoom::rescale, for the list or for the widths that a tab keeps.
Rescaled(g, from, to) ==
    LET bases == Resized(g.bases, Len(g.widths))
        scaled == [i \in DOMAIN bases |->
                     LET basis == Basis(bases[i], g.widths[i], from)
                     IN  [basis EXCEPT !.applied = ScaleWidth(basis.width, basis.zoom, to)]]
    IN  [g EXCEPT !.bases = scaled,
                  !.widths = [i \in DOMAIN scaled |-> scaled[i].applied]]

(* Columns of the list. chosen is what the user last chose for a column, or   *)
(* its width as it opens; moved says that the tab was left since.             *)

Opened(design) == [width |-> design, zoom |-> DefaultZoom, moved |-> FALSE]

NoGrid == [kind |-> "none", count |-> 0, widths |-> <<>>, bases |-> <<>>, chosen |-> <<>>]

\* insert_column, for the columns up to last, each as wide as it opens.
WithColumns(g, last, design, zoom) ==
    LET bases == Inserted(g.bases, Len(g.widths) + 1, last, design, zoom)
    IN  [g EXCEPT
            !.bases = bases,
            !.widths = [i \in 1 .. last |-> IF i <= Len(@) THEN @[i] ELSE bases[i].applied],
            !.chosen = [i \in 1 .. last |-> IF i <= Len(@) THEN @[i] ELSE Opened(design)]]

\* insert_existing_data_columns, synchronize_data_columns: columns up to count.
Widened(g, kind, count, zoom) ==
    IF count <= g.count THEN [g EXCEPT !.kind = kind]
    ELSE [WithColumns(g, Len(g.widths) + count - g.count, DataColumnWidth(kind), zoom)
            EXCEPT !.kind = kind, !.count = count]

\* reset_data_columns: column_zoom keeps its entries.
WithoutData(g) ==
    [g EXCEPT !.kind = "none", !.count = 0,
              !.widths = SubSeq(@, 1, 1), !.chosen = SubSeq(@, 1, 1)]

ZoomInit ==
    /\ \E saved \in SavedZooms : gridZoom = NormalizeZoom(saved)
    /\ grid = Widened(WithColumns(NoGrid, 1, RowColumnWidth, gridZoom), "Preview", 1, gridZoom)
    /\ kept = NoGrid /\ zoomWheel = 0 /\ wheel = <<>>
    /\ resizes = 0 /\ tabMoves = 0

-----------------------------------------------------------------------------
\* set_grid_zoom, for the list and every other tab.
SetGridZoom(zoom) ==
    LET level == NormalizeZoom(zoom) IN
    IF level = gridZoom THEN UNCHANGED <<gridZoom, grid, kept>>
    ELSE /\ gridZoom' = level
         /\ grid' = Rescaled(grid, gridZoom, level)
         /\ kept' = Rescaled(kept, gridZoom, level)

\* zoom_grid: in, out and back to actual size.
ZoomGrid(direction) ==
    /\ SetGridZoom(StepZoom(gridZoom, direction))
    /\ UNCHANGED <<zoomWheel, wheel, resizes, tabMoves>>

WheelMoves(delta, zooms) ==
    /\ Len(wheel) < MaxWheel
    /\ wheel' = Append(wheel, [delta |-> delta, zooms |-> zooms])
    /\ UNCHANGED <<gridZoom, grid, kept, zoomWheel, resizes, tabMoves>>

\* Messages that one turn takes: the first, and those behind it that zoom too.
Burst == SelectInSeq(wheel, LAMBDA m : ~ m.zooms)
BurstLength == IF Burst = 0 THEN Len(wheel) ELSE Burst - 1

\* What is known after the first n messages of the burst. The notches of the
\* first are counted with their sign, those of the others without.
Reached ==
    LET next(before, delta, first) ==
            LET moved == before.left + delta
                notches == WholeNotches(moved)
            IN  [left |-> LeftOver(moved),
                 target |-> ZoomAfterNotches(before.target, notches),
                 notches |-> before.notches + IF first THEN notches ELSE Apart(notches, 0)]
        after[n \in 0 .. BurstLength] ==
            IF n = 0 THEN [left |-> zoomWheel, target |-> gridZoom, notches |-> 0]
            ELSE next(after[n - 1], wheel[n].delta, n = 1)
    IN  after[BurstLength]

\* handle_zoom_wheel
ZoomByWheel ==
    /\ wheel # <<>> /\ Head(wheel).zooms
    /\ wheel' = SubSeq(wheel, BurstLength + 1, Len(wheel))
    /\ zoomWheel' = Reached.left
    /\ IF Reached.notches = 0 THEN UNCHANGED <<gridZoom, grid, kept>>
       ELSE SetGridZoom(Reached.target)
    /\ UNCHANGED <<resizes, tabMoves>>

\* A message without Ctrl, or outside the rows, goes to its window.
ScrollByWheel ==
    /\ wheel # <<>> /\ ~ Head(wheel).zooms
    /\ wheel' = Tail(wheel)
    /\ UNCHANGED <<gridZoom, grid, kept, zoomWheel, resizes, tabMoves>>

\* What the user chose with a width: a column dragged back to where a zoom put
\* it is as wide as what it was before.
ChosenAt(basis, width) ==
    IF width = basis.applied
    THEN [width |-> basis.width, zoom |-> basis.zoom, moved |-> FALSE]
    ELSE [width |-> width, zoom |-> gridZoom, moved |-> FALSE]

\* The header control lets the user drag a divider.
ResizeColumn(i, width) ==
    /\ resizes < MaxResizes /\ i \in DOMAIN grid.widths /\ width # grid.widths[i]
    /\ resizes' = resizes + 1
    /\ grid' = [grid EXCEPT !.widths[i] = width,
                            !.chosen[i] = ChosenAt(grid.bases[i], width)]
    /\ UNCHANGED <<gridZoom, kept, zoomWheel, wheel, tabMoves>>

\* A worker reports columns: one kind in a document, and never fewer.
Fits(g, layout) == g.kind \in {"none", layout.kind}

ReportShown(layout) ==
    /\ Fits(grid, layout)
    /\ grid' = Widened(grid, layout.kind, layout.count, gridZoom)
    /\ UNCHANGED <<gridZoom, kept, zoomWheel, wheel, resizes, tabMoves>>

\* NativeColumns::grow: the widths come when the tab is shown.
ReportKept(layout) ==
    /\ kept # NoGrid /\ Fits(kept, layout)
    /\ kept' = [kept EXCEPT !.kind = layout.kind,
                            !.count = Max({@, layout.count})]
    /\ UNCHANGED <<gridZoom, grid, zoomWheel, wheel, resizes, tabMoves>>

\* restore_tab: new columns as they open, then the widths of the tab over them.
RestoredGrid(g, t) ==
    LET list == Widened(WithoutData(g), t.kind, t.count, gridZoom)
    IN  [list EXCEPT
            !.widths = [i \in DOMAIN @ |->
                          IF i <= Len(t.widths) /\ t.widths[i] > 0 THEN t.widths[i] ELSE @[i]],
            !.chosen = [i \in DOMAIN @ |->
                          IF i <= Len(t.chosen) THEN [t.chosen[i] EXCEPT !.moved = TRUE]
                          ELSE @[i]]]

\* open_document in a new tab, or in place: queue_path_sheet empties the list.
OpenGrid(inNewTab) ==
    /\ tabMoves < MaxTabMoves /\ tabMoves' = tabMoves + 1
    /\ inNewTab => kept = NoGrid
    /\ kept' = IF inNewTab THEN grid ELSE kept
    /\ grid' = WithoutData(grid)
    /\ UNCHANGED <<gridZoom, zoomWheel, wheel, resizes>>

\* activate_tab, and close_tab of the tab that is shown
ShowKept(closing) ==
    /\ kept # NoGrid
    /\ tabMoves < MaxTabMoves /\ tabMoves' = tabMoves + 1
    /\ grid' = RestoredGrid(grid, kept)
    /\ kept' = IF closing THEN NoGrid ELSE grid
    /\ UNCHANGED <<gridZoom, zoomWheel, wheel, resizes>>

ZoomNext ==
    \/ \E direction \in {-1, 0, 1} : ZoomGrid(direction)
    \/ \E delta \in WheelDeltas, zooms \in BOOLEAN : WheelMoves(delta, zooms)
    \/ ZoomByWheel \/ ScrollByWheel
    \/ \E width \in UserWidths, i \in 1 .. 4 : ResizeColumn(i, width)
    \/ \E layout \in Layouts : ReportShown(layout) \/ ReportKept(layout)
    \/ \E flag \in BOOLEAN : OpenGrid(flag) \/ ShowKept(flag)

ZoomSpec == ZoomInit /\ [][ZoomNext]_zoomVars

-----------------------------------------------------------------------------
\* Column i of a tab is as wide as what was chosen for it is at this zoom; one
\* that was dragged shut opens a pixel when it is zoomed.
AsChosen(g, i) ==
    AtLeastOne(g.widths[i]) = ScaleWidth(g.chosen[i].width, g.chosen[i].zoom, gridZoom)

Untouched(g, i) == i > 1 /\ g.chosen[i].width = DataColumnWidth(g.kind)
                         /\ g.chosen[i].zoom = DefaultZoom

\* However the rows were zoomed, tabs were opened, switched and closed and
\* columns were added meanwhile, a data column that nobody resized is as wide
\* as one that opens at this level, in the tab that is shown and in the other;
\* and while a tab is not left, a column that was resized is as wide as the width
\* it was given is at this level (zoom.rs, ColumnZoom). A tab that was left comes
\* back without the bases of its columns, whose widths may then be a pixel off.
WidthsFollowTheZoom ==
    \A g \in {grid, kept} : \A i \in DOMAIN g.widths :
        Untouched(g, i) \/ ~ g.chosen[i].moved => AsChosen(g, i)

\* A burst of the wheel ends on the level that its notches lead to one by one
\* (zoom.rs:71, native.rs:3771).
BurstsEndWhereNotchesLead ==
    [][Len(wheel') < Len(wheel) /\ Head(wheel).zooms => gridZoom' = Reached.target]_zoomVars

=============================================================================
