--------------------------------- MODULE Tabs ---------------------------------
(***************************************************************************)
(* The tabs of the window: open_document, stash_active, restore_tab,        *)
(* activate_tab, close_tab, queue_path_sheet, apply_worker_event and the    *)
(* reveal of a row in crates/leanrows-win32/src/native.rs.                  *)
(*                                                                         *)
(* There is one grid. The document it shows lives in fields of the window   *)
(* state and is moved out into a BackgroundTab and back when tabs change.   *)
(* Each tab has a worker thread whose events wait in a mailbox for a        *)
(* message that names the tab; by then the tab may be shown, hidden or      *)
(* closed, on another sheet, and its rows in another order.                 *)
(***************************************************************************)
EXTENDS Integers, Sequences, SequencesExt, FiniteSets, Functions

CONSTANTS
    Paths,          \* files
    MaxOpenTabs,    \* MAX_OPEN_TABS
    MaxTabId,       \* tabs ever made, a bound: ids are not used again
    MaxSerial,      \* opens and sheet changes of a tab, a bound
    MaxOrder,       \* orders of a document other than that of the file
    MaxFailures     \* calls of Windows that fail, a bound

ASSUME TabsAssumption ==
    /\ {MaxOpenTabs, MaxTabId, MaxSerial} \subseteq Nat \ {0}
    /\ {MaxOrder, MaxFailures} \subseteq Nat

VARIABLES
    tabOrder,   \* tab_order: the strip
    tabId,      \* tab_id: the tab that is shown
    nextTabId,  \* next_tab_id
    view,       \* the document fields of the window state
    back,       \* background_tabs, by id
    worker,     \* the workers that live, by the tab id they were started with
    posts,      \* messages in the queue: <<"ready", id>> and <<"close", id>>
    failures    \* failures that may still happen

tabVars == <<tabOrder, tabId, nextTabId, view, back, worker, posts, failures>>

TabIds == 1 .. MaxTabId
Orders == 0 .. MaxOrder     \* committed: 0 is source order
NoPlace == -1
NoPath == ""
NoRows == [path |-> NoPath, serial |-> 0, order |-> 0]
NoEvent == [serial |-> 0, order |-> 0, reveals |-> FALSE]

\* order is sort.committed; rows, the cache; pending, the order in which
\* pending_reveal is a rank; place, that of the saved top and selected rows.
EmptyTab == [path |-> NoPath, serial |-> 0, worker |-> 0, rows |-> NoRows,
             order |-> 0, pending |-> NoPlace, place |-> NoPlace]

NewWorker == [latest |-> 0, event |-> NoEvent]

TabsTypeOK ==
    LET rows == [path : Paths \cup {NoPath}, serial : 0 .. MaxSerial, order : Orders]
        tab == [path : Paths \cup {NoPath}, serial : 0 .. MaxSerial,
                worker : 0 .. MaxTabId, rows : rows, order : Orders,
                pending : Orders \cup {NoPlace}, place : Orders \cup {NoPlace}]
        event == [serial : 0 .. MaxSerial, order : Orders, reveals : BOOLEAN]
    IN
    /\ tabId \in TabIds /\ nextTabId \in 1 .. MaxTabId + 1
    /\ view \in tab
    /\ Range(back) \subseteq tab /\ DOMAIN back \subseteq TabIds
    /\ DOMAIN worker \subseteq TabIds
    /\ Range(worker) \subseteq [latest : 0 .. MaxSerial, event : event]
    /\ posts \subseteq {"ready", "close"} \X TabIds
    /\ failures \in 0 .. MaxFailures
    \* The strip has every tab once, and no file is open twice.
    /\ Range(tabOrder) = {tabId} \cup DOMAIN back
    /\ tabId \notin DOMAIN back
    /\ Len(tabOrder) = Cardinality(DOMAIN back) + 1 /\ Len(tabOrder) <= MaxOpenTabs

TabsInit ==
    /\ tabOrder = <<1>> /\ tabId = 1 /\ nextTabId = 2
    /\ view = EmptyTab
    /\ back = <<>> /\ worker = <<>> /\ posts = {}
    /\ failures = MaxFailures

-----------------------------------------------------------------------------
(* Moving a document out of the view and in again. The steps of a command   *)
(* pass the fields of the window state along in one record.                 *)

State == [tabOrder |-> tabOrder, tabId |-> tabId, nextTabId |-> nextTabId,
          view |-> view, back |-> back, worker |-> worker, posts |-> posts]

Becomes(s) ==
    /\ tabOrder' = s.tabOrder /\ tabId' = s.tabId /\ nextTabId' = s.nextTabId
    /\ view' = s.view /\ back' = s.back /\ worker' = s.worker /\ posts' = s.posts

\* A map with one entry more, or with the entry of k replaced.
Put(map, k, entry) ==
    [j \in DOMAIN map \cup {k} |-> IF j = k THEN entry ELSE map[j]]

\* Faulty variants, each a slip that one of the properties below rejects.
KeepsRows(v) == [EmptyTab EXCEPT !.rows = v.rows]
OldPlaces(t, e) == [t EXCEPT !.order = e.order]

\* stash_active: what is left of the view.
Emptied(v) == EmptyTab

\* stash_active: what is put away. The top row is one of the order shown.
Stashed(v) == [v EXCEPT !.place = IF v.rows = NoRows THEN NoPlace ELSE v.order]

PutAway(s) ==
    [s EXCEPT !.back = Put(@, s.tabId, Stashed(s.view)), !.view = Emptied(s.view)]

\* restore_tab: the document moves in first. When a later call fails, the rows
\* stay out and the reveal is given up; otherwise a pending row is asked for
\* again and is selected at once if the cache has it.
Restored(t) ==
    LET moved == [t EXCEPT !.rows = NoRows, !.pending = NoPlace, !.place = NoPlace]
    IN  [failed |-> moved,
         waits |-> [moved EXCEPT !.rows = t.rows, !.pending = t.pending],
         done |-> [moved EXCEPT !.rows = t.rows]]

Outcomes == {"failed", "waits", "done"}

\* Windows refuses a call, and the failure is one of those the bound allows.
Fails(failed) ==
    failures' = IF failed THEN failures - 1 ELSE failures

Possible(outcome) == outcome = "failed" => failures > 0

Shows(s, id, outcome) ==
    [s EXCEPT !.view = Restored(s.back[id])[outcome], !.tabId = id,
              !.back = Restrict(@, DOMAIN @ \ {id})]

\* activate_tab
Activated(s, id, outcome) == Shows(PutAway(s), id, outcome)

\* Dropping a tab joins its worker.
Without(s, t) == [s EXCEPT !.worker = Restrict(@, DOMAIN @ \ {t.worker})]

PositionOf(s, id) == CHOOSE i \in DOMAIN s.tabOrder : s.tabOrder[i] = id

\* close_tab of the tab that is shown: its right neighbour, or the left one.
Neighbour(s) ==
    LET i == PositionOf(s, s.tabId)
    IN  IF i < Len(s.tabOrder) THEN s.tabOrder[i + 1]
        ELSE IF i > 1 THEN s.tabOrder[i - 1] ELSE 0

ClosedActive(s, outcome) ==
    LET next == Neighbour(s)
        gone == [Without(s, s.view) EXCEPT !.view = Emptied(s.view),
                                           !.tabOrder = RemoveAt(@, PositionOf(s, s.tabId))]
    IN  IF next # 0 THEN Shows(gone, next, outcome)
        ELSE [gone EXCEPT !.tabId = s.nextTabId, !.nextTabId = @ + 1,
                          !.tabOrder = Append(@, s.nextTabId)]

Closed(s, id, outcome) ==
    IF id = s.tabId THEN ClosedActive(s, outcome)
    ELSE [Without(s, s.back[id]) EXCEPT
              !.tabOrder = RemoveAt(@, PositionOf(s, id)),
              !.back = Restrict(@, DOMAIN @ \ {id})]

-----------------------------------------------------------------------------
(* Opening.                                                                  *)

\* start_worker: the worker's wake call names the tab it is started for.
StartedFor(s) == s.tabId

Started(s) ==
    IF s.view.worker # 0 THEN s
    ELSE [s EXCEPT !.view.worker = StartedFor(s),
                   !.worker = Put(@, StartedFor(s), NewWorker)]

\* submit_path_sheet: a new serial, and the event that waits is taken.
Submitted(s) ==
    [s EXCEPT !.view = [@ EXCEPT !.rows = NoRows, !.pending = NoPlace, !.order = 0],
              !.worker[s.view.worker].latest = @ + 1,
              !.worker[s.view.worker].event = NoEvent]

\* queue_path_sheet. It may fail in start_worker, before the submission, or
\* after it; the path and the serial are set at the end.
Queued(s, path, stop) ==
    LET sent == Submitted(Started(s)) IN
    CASE stop = "start" -> s
      [] stop = "title" -> Started(s)
      [] stop = "identity" -> sent
      [] stop = "" ->
             [sent EXCEPT !.view.path = path,
                          !.view.serial = sent.worker[sent.view.worker].latest]

\* The bound on opens is the worker's serial.
MaySubmit(s) ==
    s.view.worker \in DOMAIN s.worker => s.worker[s.view.worker].latest < MaxSerial

\* open_document, with a new tab to the right of the one that is shown.
NewTab(s) ==
    LET i == PositionOf(s, s.tabId) IN
    [PutAway(s) EXCEPT !.tabOrder = InsertAt(@, i + 1, s.nextTabId),
                       !.tabId = s.nextTabId, !.nextTabId = @ + 1]

\* A failed open of a new tab closes it again, and restores a neighbour.
OpenInNewTab(path, stop, outcome) ==
    LET s == NewTab(State) IN
    /\ view.path # NoPath /\ Len(tabOrder) < MaxOpenTabs
    /\ nextTabId <= MaxTabId
    /\ stop = "" => outcome = "done"
    /\ Becomes(IF stop = "" THEN Queued(s, path, stop)
               ELSE ClosedActive(Queued(s, path, stop), outcome))

OpenHere(path, stop, outcome) ==
    /\ view.path = NoPath /\ MaySubmit(State) /\ outcome = "done"
    /\ Becomes(Queued(State, path, stop))

PathsOpen == {view.path} \cup {back[id].path : id \in DOMAIN back}

OpenDocument(path, stop, outcome) ==
    /\ path \notin PathsOpen
    /\ stop # "" => failures > 0
    /\ outcome # "failed"       \* bound: one failure in a command
    /\ OpenInNewTab(path, stop, outcome) \/ OpenHere(path, stop, outcome)
    /\ Fails(stop # "")

\* A file that is open is shown in its tab; so is a tab the user picks.
ActivateTab(id, outcome) ==
    /\ id \in DOMAIN back /\ Possible(outcome)
    /\ Becomes(Activated(State, id, outcome))
    /\ Fails(outcome = "failed")

\* Reload and switch_sheet.
QueueAgain(stop) ==
    /\ view.path # NoPath /\ MaySubmit(State)
    /\ stop # "" => failures > 0
    /\ Becomes(Queued(State, view.path, stop))
    /\ Fails(stop # "")

\* request_close posts the id that the strip has at the click. Bound: one such
\* message waits at a time.
RequestClose(id) ==
    /\ id \in Range(tabOrder) /\ \A post \in posts : post[1] # "close"
    /\ posts' = posts \cup {<<"close", id>>}
    /\ UNCHANGED <<tabOrder, tabId, nextTabId, view, back, worker, failures>>

\* WM_APP_CLOSE_TAB and Ctrl+W.
CloseTab(id, outcome) ==
    LET s == [State EXCEPT !.posts = @ \ {<<"close", id>>}] IN
    /\ <<"close", id>> \in posts \/ (id = tabId /\ (view.path # NoPath \/ Len(tabOrder) > 1))
    /\ id = tabId /\ Len(tabOrder) = 1 => nextTabId <= MaxTabId
    /\ Possible(outcome)
    /\ (id # tabId \/ Len(tabOrder) = 1) => outcome = "done"
    /\ Becomes(IF id \in Range(tabOrder) THEN Closed(s, id, outcome) ELSE s)
    /\ Fails(outcome = "failed")

-----------------------------------------------------------------------------
(* Events of the workers.                                                    *)

\* emit_event compares the serial with latest_serial before it sends, so an
\* event may be one serial behind; what it holds does not matter then.
Late(k) == [NoEvent EXCEPT !.serial = worker[k].latest - 1]

\* Any order may be the committed one. reveals stands for a reveal_rank and
\* for a match that is new to the find of the tab.
Timely(k) == [serial : {worker[k].latest}, order : Orders, reveals : BOOLEAN]

Emit(k) ==
    /\ k \in DOMAIN worker /\ worker[k].latest # 0
    /\ \E event \in Timely(k) \cup {Late(k)} :
          event.serial # 0 /\ worker' = [worker EXCEPT ![k].event = event]
    /\ posts' = IF worker[k].event = NoEvent THEN posts \cup {<<"ready", k>>} ELSE posts
    /\ UNCHANGED <<tabOrder, tabId, nextTabId, view, back, failures>>

\* Worker::poll of the worker of tab t
Polled(t) ==
    IF t.worker \notin DOMAIN worker THEN NoEvent
    ELSE IF worker[t.worker].event.serial = worker[t.worker].latest
         THEN worker[t.worker].event ELSE NoEvent

\* With a new order the reveal is given up, and the first row is shown.
Reordered(t, e) ==
    IF t.order = e.order THEN t
    ELSE [t EXCEPT !.order = e.order, !.pending = NoPlace, !.place = e.order]

\* apply_document_event and BackgroundTab::apply_event, except for what they
\* do about a reveal.
Applied(t, e) ==
    [Reordered(t, e) EXCEPT
        !.rows = [path |-> t.path, serial |-> e.serial, order |-> e.order],
        !.pending = IF e.reveals THEN e.order ELSE @]

Current(t, e) == e # NoEvent /\ t.serial = e.serial

\* A reveal is complete as soon as the cache of the view has the row.
ApplyToView(e, done) ==
    LET t == Applied(view, e) IN
    /\ view' = [t EXCEPT !.pending = IF done THEN NoPlace ELSE @, !.place = NoPlace]
    /\ UNCHANGED back

ApplyToBack(id, e) ==
    /\ back' = [back EXCEPT ![id] = Applied(@, e)]
    /\ UNCHANGED view

\* WM_APP_WORKER_READY
WorkerReady(id) ==
    LET t == IF id = tabId THEN view
             ELSE IF id \in DOMAIN back THEN back[id] ELSE EmptyTab
        e == Polled(t)
    IN
    /\ <<"ready", id>> \in posts
    /\ posts' = posts \ {<<"ready", id>>}
    /\ worker' = IF t.worker \in DOMAIN worker
                 THEN [worker EXCEPT ![t.worker].event = NoEvent] ELSE worker
    /\ IF ~ Current(t, e) THEN UNCHANGED <<view, back>>
       ELSE IF id = tabId THEN \E done \in BOOLEAN : ApplyToView(e, done)
       ELSE ApplyToBack(id, e)
    /\ UNCHANGED <<tabOrder, tabId, nextTabId, failures>>

\* begin_rank_reveal of a row of the order shown; the rows may be elsewhere.
\* With a sorted order, begin_reveal asks the worker, which answers by Emit.
GoToRow ==
    /\ view.rows # NoRows /\ view.order = 0 /\ view.pending = NoPlace
    /\ view' = [view EXCEPT !.pending = view.order]
    /\ UNCHANGED <<tabOrder, tabId, nextTabId, back, worker, posts, failures>>

Stops == {"", "start", "title", "identity"}

TabsNext ==
    \/ \E p \in Paths, stop \in Stops, outcome \in Outcomes : OpenDocument(p, stop, outcome)
    \/ \E stop \in Stops : QueueAgain(stop)
    \/ \E id \in TabIds : RequestClose(id) \/ Emit(id) \/ WorkerReady(id)
    \/ \E id \in TabIds, outcome \in Outcomes : ActivateTab(id, outcome) \/ CloseTab(id, outcome)
    \/ GoToRow

TabsSpec == TabsInit /\ [][TabsNext]_tabVars

-----------------------------------------------------------------------------
\* The tabs with the ids they go by, the one that is shown included.
OpenTabs == [id \in Range(tabOrder) |-> IF id = tabId THEN view ELSE back[id]]

\* The rows of a tab, shown or kept, are those of the file, the sheet and the
\* order that the tab says it has, whatever was switched, closed, reloaded or
\* half restored while events of its worker were on their way; and an event
\* that waits has a message that finds the tab it belongs to.
TabsStayApart ==
    \A id \in DOMAIN OpenTabs :
        LET t == OpenTabs[id] IN
        /\ t.rows # NoRows =>
              t.rows = [path |-> t.path, serial |-> t.serial, order |-> t.order]
        /\ t.worker # 0 =>
              /\ t.worker \in DOMAIN worker
              /\ worker[t.worker].event # NoEvent => <<"ready", id>> \in posts
        /\ \A other \in DOMAIN OpenTabs \ {id} :
              t.path # NoPath => OpenTabs[other].path # t.path

\* A rank that a tab keeps, to reveal it or to return to it, is a rank of the
\* order that its rows are in: a sort that commits meanwhile never makes the
\* window select or scroll to an unrelated row.
PlacesFollowTheOrder ==
    \A id \in DOMAIN OpenTabs :
        LET t == OpenTabs[id] IN {t.pending, t.place} \subseteq {NoPlace, t.order}

=============================================================================
