------------------------------ MODULE MCDocuments ------------------------------
(***************************************************************************)
(* Parts of an open document that have no state in common: the index of a   *)
(* text file, the sheet of a workbook, the dates in it, the tabs of the     *)
(* window, the zoom of its columns, and its scroll bars.                    *)
(* A behaviour exercises one of them and leaves the others as they start.   *)
(***************************************************************************)
EXTENDS AdaptiveIndex, XlsxSheet, ExcelCalendar, Tabs, GridZoom, ScrollBars, MCXlsxBooks

VARIABLE scene  \* the part that a behaviour exercises

documentVars == <<scene, indexVars, xlsxVars, dateVars, tabVars, zoomVars, scrollVars>>

\* Workbooks by number: the damaged ones after those that are sound.
Files == <<Tall, Rich, Long, From1900, From1904, Bare>> \o Damaged
MCBooks == DOMAIN Files
MCFileOf(b) == Files[b]

\* Columns of a file before and after its first rows are known.
MCLayouts == {[kind |-> "Preview", count |-> 1], [kind |-> "Fields", count |-> 2]}
MCDeltas == {-1}

\* Windows of the scroll bars: small and smaller.
SmallWindow == [width |-> 30, height |-> 22]
MCSizes == {SmallWindow, [width |-> 22, height |-> 12]}

MCInit ==
    /\ scene \in {"index", "sheet", "dates", "tabs", "zoom", "scroll"}
    /\ IndexInit /\ XlsxInit /\ DatesInit /\ TabsInit /\ ZoomInit /\ ScrollInit
    /\ scene # "sheet" => book = 1
    /\ scene # "index" => cadence = "Rows"
    /\ listView.size = SmallWindow
    /\ scene # "zoom" => gridZoom = DefaultZoom

MCIndex ==
    /\ scene = "index" /\ Next
    /\ UNCHANGED <<scene, xlsxVars, dateVars, tabVars, zoomVars, scrollVars>>

MCSheet ==
    /\ scene = "sheet" /\ XlsxNext
    /\ UNCHANGED <<scene, indexVars, dateVars, tabVars, zoomVars, scrollVars>>

MCDates ==
    /\ scene = "dates" /\ NextYear
    /\ UNCHANGED <<scene, indexVars, xlsxVars, tabVars, zoomVars, scrollVars>>

MCTabs ==
    /\ scene = "tabs" /\ TabsNext
    /\ UNCHANGED <<scene, indexVars, xlsxVars, dateVars, zoomVars, scrollVars>>

MCZoom ==
    /\ scene = "zoom" /\ ZoomNext
    /\ UNCHANGED <<scene, indexVars, xlsxVars, dateVars, tabVars, scrollVars>>

MCScroll ==
    /\ scene = "scroll" /\ ScrollNext
    /\ UNCHANGED <<scene, indexVars, xlsxVars, dateVars, tabVars, zoomVars>>

MCNext == MCIndex \/ MCSheet \/ MCDates \/ MCTabs \/ MCZoom \/ MCScroll

MCSpec == MCInit /\ [][MCNext]_documentVars

=============================================================================
