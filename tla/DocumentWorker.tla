--------------------------- MODULE DocumentWorker ---------------------------
(***************************************************************************)
(* One tab's document worker (crates/leanrows-win32/src/worker.rs and      *)
(* worker/sorting.rs): the UI thread calls the methods of Worker, the      *)
(* worker thread runs run_worker, and the two share six capacity-one       *)
(* mailboxes, four atomic serials and three cancellation tokens.           *)
(*                                                                         *)
(* A method of Worker is a list of steps, in the order of the code, each   *)
(* one atomic access to what is shared; the worker thread may run between  *)
(* any two of them.  The worker thread is a program counter and the        *)
(* document it owns.  Other tabs appear as one competitor for the          *)
(* process-wide sort permit.                                               *)
(***************************************************************************)
EXTENDS Mailbox, Integers, FiniteSets

CONSTANTS
    Budgets,    \* how often each call and fault may happen (bounds of the model)
    ScanSteps,  \* scan steps to the end of a file
    MaxHits,    \* matches a search can find in a file
    Key,        \* sort requests
    MaxRow      \* the last row a viewport can start at

Calls == {"open", "viewport", "source_row", "sort", "cancel_sort", "query",
          "navigate", "drop", "other_tab", "fault"}

ASSUME WorkerAssumption ==
    /\ Budgets \subseteq [Calls -> Nat]
    /\ ScanSteps \in Nat \ {0} /\ MaxHits \in Nat
    /\ "source_order" \notin Key
    /\ MaxRow \in Nat

VARIABLES
    latest,         \* latest_serial: the document the UI wants
    active,         \* active_serial: the document queries may use
    latestQuery,    \* latest_query_serial, 0 for none
    latestSort,     \* latest_sort_serial, 0 for none
    gen,            \* the generations of the three cancellation tokens
    box,            \* the mailboxes
    nextSort,       \* SortCoordinator.next
    permit,         \* SortCoordinator.active: serial of the sort that runs
    otherSort,      \* the sort another tab runs, 0 for none
    wake,           \* a WM_APP_WORKER_READY message is queued
    querySeq,       \* query_sequence, also the query the UI knows
    ui,             \* what is left of the call the UI thread is in
    shown,          \* the event the UI applied last
    doc,            \* ActiveDocument of the worker thread
    w,              \* the worker thread's program counter and locals
    budget          \* calls and budget that may still happen

shared == <<latest, active, latestQuery, latestSort, gen, box>>
sorting == <<nextSort, permit, otherSort>>
uiVars == <<querySeq, ui, shown>>
vars == <<shared, sorting, wake, uiVars, doc, w, budget>>

Tokens == {"view", "query", "sort"}
Boxes == {"opens", "viewports", "queries", "sorts", "signals", "events"}
SourceOrder == "source_order"
Order == Key \cup {SourceOrder}

None == [serial |-> 0]      \* a None of the optional parts below

Cancel(t) == gen' = [gen EXCEPT ![t] = @ + 1]
Cancelled(t, g) == gen[t] # g

-----------------------------------------------------------------------------
(* The UI thread: the methods of Worker.                                   *)

\* Faulty: the open is sent before older work is cancelled.
SubmitStepsSendFirst ==
    <<"cancel_sort", "forget_sort", "take_sorts", "bump_serial", "send_open",
      "cancel_view", "forget_active", "cancel_query", "forget_query",
      "take_viewports", "take_queries", "take_events", "signal">>

\* submit_path_sheet
SubmitSteps ==
    <<"cancel_sort", "forget_sort", "take_sorts", "bump_serial", "cancel_view",
      "forget_active", "cancel_query", "forget_query", "take_viewports",
      "take_queries", "take_events", "send_open", "signal">>

\* Faulty: signalled before there is anything to take.
ViewportStepsSignalFirst == <<"cancel_view", "signal", "send_viewport">>

\* request_viewport and request_source_row
ViewportSteps == <<"cancel_view", "send_viewport", "signal">>

\* request_sort
SortSteps == <<"cancel_sort", "store_sort", "send_sort", "signal">>

CancelSortSteps == <<"cancel_sort", "signal">>

\* start_query
QuerySteps ==
    <<"check_active", "cancel_query", "store_query", "take_events",
      "send_query", "signal">>

NavigateSteps ==
    <<"check_query", "cancel_query", "take_events", "send_navigate", "signal">>

\* Faulty: the worker thread is left asleep.
DropStepsNoSignal ==
    <<"cancel_sort", "close_sorts", "cancel_view", "cancel_query",
      "close_opens", "close_viewports", "close_queries", "close_events", "join">>

\* Drop for Worker
DropSteps ==
    <<"cancel_sort", "close_sorts", "cancel_view", "cancel_query",
      "close_opens", "close_viewports", "close_queries", "close_signals",
      "close_events", "join">>

Spend(what) ==
    /\ budget[what] > 0
    /\ budget' = [budget EXCEPT ![what] = @ - 1]

Begin(call, steps, arg) ==
    /\ ui.todo = <<>> /\ ~ ui.dropped
    /\ Spend(call)
    /\ ui' = [ui EXCEPT !.todo = steps, !.arg = arg]
    /\ UNCHANGED <<shared, sorting, wake, querySeq, shown, doc, w>>

NoArg == [row |-> 0, sourceRow |-> FALSE, key |-> SourceOrder, next |-> TRUE]

CallOpen == Begin("open", SubmitSteps, NoArg)

\* queue_path_sheet empties the grid, and every caller of request_viewport
\* asks for a row of a grid that has rows again.
ShowsRows == shown # None /\ shown.serial = latest /\ shown.rows # None

CallViewport ==
    /\ ShowsRows
    /\ \E r \in 0 .. MaxRow :
          Begin("viewport", ViewportSteps, [NoArg EXCEPT !.row = r])

\* begin_reveal asks for a source row only while a sorted order is shown.
CallSourceRow ==
    /\ ShowsRows /\ shown.committed # SourceOrder
    /\ \E r \in 0 .. MaxRow :
          Begin("source_row", ViewportSteps,
                [NoArg EXCEPT !.row = r, !.sourceRow = TRUE])

\* coordinator.request takes the serial; nothing else reads it before
\* "store_sort".
CallSort ==
    /\ latest # 0
    /\ \E k \in Order :
          /\ k # SourceOrder => ShowsRows       \* a column the grid has
          /\ Begin("sort", SortSteps, [NoArg EXCEPT !.key = k])

CallCancelSort == latestSort # 0 /\ Begin("cancel_sort", CancelSortSteps, NoArg)

CallQuery == latest # 0 /\ Begin("query", QuerySteps, NoArg)

CallNavigate ==
    /\ querySeq # 0
    /\ \E n \in BOOLEAN :
          Begin("navigate", NavigateSteps, [NoArg EXCEPT !.next = n])

CallDrop == Begin("drop", DropSteps, NoArg)

\* The UI thread is at this step of a call.
At(step) == ui.todo # <<>> /\ Head(ui.todo) = step

NoGen == [t \in Tokens |-> 0]

\* The call returns when it has no step left.
Returned == [ui EXCEPT !.todo = <<>>, !.arg = NoArg, !.gen = NoGen, !.event = None]

Advance ==
    ui' = IF Len(ui.todo) = 1 THEN Returned ELSE [ui EXCEPT !.todo = Tail(@)]

CancelStep(step, t) ==
    /\ At(step)
    /\ Cancel(t)
    /\ ui' = [ui EXCEPT !.todo = Tail(@), !.gen[t] = gen[t] + 1]
    /\ UNCHANGED <<latest, active, latestQuery, latestSort, box, querySeq>>

BumpSerial ==
    /\ At("bump_serial") /\ Advance
    /\ latest' = latest + 1
    /\ UNCHANGED <<active, latestQuery, latestSort, gen, box, querySeq>>

ForgetActive ==
    /\ At("forget_active") /\ Advance
    /\ active' = 0
    /\ UNCHANGED <<latest, latestQuery, latestSort, gen, box, querySeq>>

ForgetQuery ==
    /\ At("forget_query") /\ Advance
    /\ latestQuery' = 0
    /\ UNCHANGED <<latest, active, latestSort, gen, box, querySeq>>

ForgetSort ==
    /\ At("forget_sort") /\ Advance
    /\ latestSort' = 0
    /\ UNCHANGED <<latest, active, latestQuery, gen, box, querySeq>>

StoreSort ==
    /\ At("store_sort")
    /\ nextSort' = nextSort + 1
    /\ latestSort' = nextSort + 1
    /\ Advance
    /\ UNCHANGED <<latest, active, latestQuery, gen, box, querySeq>>

\* next_nonzero_serial and the store of the new serial; the cancellation in
\* between is the step before this one.
StoreQuery ==
    /\ At("store_query") /\ Advance
    /\ querySeq' = querySeq + 1
    /\ latestQuery' = querySeq + 1
    /\ UNCHANGED <<latest, active, latestSort, gen, box>>

\* The early returns of start_query and navigate_query.
CheckActive ==
    /\ At("check_active")
    /\ IF active = latest THEN Advance ELSE ui' = Returned
    /\ UNCHANGED <<shared, querySeq>>

CheckQuery ==
    /\ At("check_query")
    /\ IF latestQuery = querySeq THEN Advance ELSE ui' = Returned
    /\ UNCHANGED <<shared, querySeq>>

TakeStep(step, b) ==
    /\ At(step) /\ Advance
    /\ box' = [box EXCEPT ![b] = Take(@)]
    /\ UNCHANGED <<latest, active, latestQuery, latestSort, gen, querySeq>>

SendStep(step, b, v) ==
    /\ At(step) /\ Advance
    /\ box' = [box EXCEPT ![b] = Send(@, v)]
    /\ UNCHANGED <<latest, active, latestQuery, latestSort, gen, querySeq>>

CloseStep(step, b) ==
    /\ At(step) /\ Advance
    /\ box' = [box EXCEPT ![b] = Close(@)]
    /\ UNCHANGED <<latest, active, latestQuery, latestSort, gen, querySeq>>

\* Each with the generation its own cancellation returned.
OpenCommand == [serial |-> latest, gen |-> ui.gen["view"]]
ViewportCommand ==
    [serial |-> latest, gen |-> ui.gen["view"], row |-> ui.arg.row,
     sourceRow |-> ui.arg.sourceRow]
SortCommand ==
    [document |-> latest, serial |-> latestSort, gen |-> ui.gen["sort"],
     key |-> ui.arg.key]
QueryCommand(start) ==
    [document |-> latest, serial |-> querySeq, gen |-> ui.gen["query"],
     start |-> start, next |-> ui.arg.next]

\* One step of a call that only touches what the two threads share.
SharedStep ==
    \/ CancelStep("cancel_sort", "sort")
    \/ CancelStep("cancel_view", "view")
    \/ CancelStep("cancel_query", "query")
    \/ BumpSerial \/ ForgetActive \/ ForgetQuery \/ ForgetSort
    \/ StoreQuery \/ CheckActive \/ CheckQuery
    \/ TakeStep("take_sorts", "sorts")
    \/ TakeStep("take_viewports", "viewports")
    \/ TakeStep("take_queries", "queries")
    \/ TakeStep("take_events", "events")
    \/ SendStep("send_open", "opens", OpenCommand)
    \/ SendStep("send_viewport", "viewports", ViewportCommand)
    \/ SendStep("send_sort", "sorts", SortCommand)
    \/ SendStep("send_query", "queries", QueryCommand(TRUE))
    \/ SendStep("send_navigate", "queries", QueryCommand(FALSE))
    \/ SendStep("signal", "signals", TRUE)
    \/ CloseStep("close_sorts", "sorts")
    \/ CloseStep("close_opens", "opens")
    \/ CloseStep("close_viewports", "viewports")
    \/ CloseStep("close_queries", "queries")
    \/ CloseStep("close_signals", "signals")
    \/ CloseStep("close_events", "events")

\* The wake message is handled: poll, until an event that is still current.
CallPoll ==
    /\ ui.todo = <<>> /\ ~ ui.dropped
    /\ wake
    /\ wake' = FALSE
    /\ ui' = [ui EXCEPT !.todo = <<"poll">>]
    /\ UNCHANGED <<shared, querySeq, shown>>

PollTake ==
    /\ At("poll")
    /\ IF IsEmpty(box.events)
       THEN ui' = Returned /\ UNCHANGED box
       ELSE /\ ui' = [ui EXCEPT !.todo = <<"judge">>, !.event = Taken(box.events)]
            /\ box' = [box EXCEPT !.events = Take(@)]
    /\ UNCHANGED <<latest, active, latestQuery, latestSort, gen, wake,
                   querySeq, shown>>

\* An event of an older document, search or sort is dropped.
IsCurrent(e) ==
    /\ e.serial = latest
    /\ e.query.serial = latestQuery
    /\ e.sort # None => e.sort.serial = latestSort

PollJudge ==
    /\ At("judge")
    /\ IF IsCurrent(ui.event)
       THEN /\ shown' = ui.event
            /\ ui' = Returned
       ELSE /\ ui' = [ui EXCEPT !.todo = <<"poll">>, !.event = None]
            /\ UNCHANGED shown
    /\ UNCHANGED <<shared, wake, querySeq>>

\* thread.join
Join ==
    /\ At("join")
    /\ w.pc = "exited"
    /\ ui' = [Returned EXCEPT !.dropped = TRUE]
    /\ UNCHANGED <<shared, wake, querySeq, shown>>

\* The user's decisions.
UICall ==
    \/ CallOpen \/ CallViewport \/ CallSourceRow \/ CallSort \/ CallCancelSort
    \/ CallQuery \/ CallNavigate \/ CallDrop

\* What the UI thread does on its own once a call or a message has come.
UIStep ==
    /\ \/ SharedStep /\ UNCHANGED <<sorting, wake, shown>>
       \/ StoreSort /\ UNCHANGED <<permit, otherSort, wake, shown>>
       \/ CallPoll /\ UNCHANGED sorting
       \/ PollTake /\ UNCHANGED sorting
       \/ PollJudge /\ UNCHANGED sorting
       \/ Join /\ UNCHANGED sorting
    /\ UNCHANGED <<doc, w, budget>>

-----------------------------------------------------------------------------
(* Other tabs: one of them may hold the permit for a while.                *)

OtherAcquires ==
    /\ Spend("other_tab")
    /\ permit = 0
    /\ nextSort' = nextSort + 1
    /\ permit' = nextSort + 1
    /\ otherSort' = nextSort + 1
    /\ UNCHANGED <<shared, wake, querySeq, ui, shown, doc, w>>

OtherReleases ==
    /\ otherSort # 0
    /\ permit' = IF permit = otherSort THEN 0 ELSE permit
    /\ otherSort' = 0
    /\ UNCHANGED <<shared, nextSort, wake, uiVars, doc, w, budget>>

-----------------------------------------------------------------------------
(* The worker thread: run_worker and the handlers it calls.                *)

NoRow == -1

\* rank_of: where a source row is in the order on show.
RankOf(order, row) == IF order = SourceOrder THEN row ELSE MaxRow - row

Phase(d) == IF d.scanDone THEN "Complete" ELSE "Scanning"

\* emit_active: what the UI is told of a document.
EventOf(d, phase, failed) ==
    [serial    |-> d.serial,
     failed    |-> failed,
     phase     |-> IF failed THEN "Failed" ELSE phase,
     scanned   |-> d.scanned,
     rows      |-> d.rows,
     committed |-> d.order,
     sort      |-> d.sortState,
     reveal    |-> d.reveal,
     query     |-> IF d.query = None THEN None
                   ELSE [serial |-> d.query.serial, phase |-> d.query.phase,
                         hits |-> d.query.hits, hit |-> d.query.hit]]

\* emit_failed_open
FailedOpen(serial) ==
    [serial |-> serial, failed |-> TRUE, phase |-> "Failed", scanned |-> 0,
     rows |-> None, committed |-> SourceOrder, sort |-> None,
     reveal |-> NoRow, query |-> None]

\* A document just opened.
Opened(serial) ==
    [serial |-> serial, order |-> SourceOrder,
     rows |-> [order |-> SourceOrder, first |-> 0],
     sortState |-> None, sort |-> None, reveal |-> NoRow,
     scanned |-> 0, scanDone |-> FALSE, query |-> None, lost |-> FALSE]

Holds(d) == d # None /\ d.sort # None /\ d.sort.permit

\* Faulty: a dropped permit is never given back.
ReleaseNothing(d) == UNCHANGED permit

\* Drop for SortPermit, when d is dropped or its sort is.
Release(d) ==
    permit' = IF Holds(d) /\ permit = d.sort.serial THEN 0 ELSE permit

Idle == [pc |-> "wait", cmd |-> None, out |-> None, next |-> "drain",
         strict |-> TRUE]

\* The end of a handler: its locals go.
Goto(pc) == w' = [Idle EXCEPT !.pc = pc]

\* On to the next step of a handler.
Then(pc) == w' = [w EXCEPT !.pc = pc]

\* The end of a handler: emit e, then continue at next; strict when the
\* handler returns emit_event's result, so that a closed mailbox ends the
\* thread.
Emit(e, next, strict) ==
    w' = [Idle EXCEPT !.pc = "emit", !.out = e, !.next = next, !.strict = strict]

\* invalidate_query and the head of emit_failed_open, then emit e.
Invalidate(e) ==
    w' = [Idle EXCEPT !.pc = "forget_active", !.out = e]

WorkerAt(pc) == w.pc = pc

\* A failure of the file system or of the source's integrity; the second is
\* remembered by the engine.
Fault(lost) ==
    /\ Spend("fault")
    /\ lost \in BOOLEAN

Wait ==
    /\ WorkerAt("wait")
    /\ CanReturn(box.signals)
    /\ IF IsEmpty(box.signals)
       THEN Goto("exited") /\ doc' = None /\ Release(doc) /\ UNCHANGED box
       ELSE /\ Goto("drain")
            /\ box' = [box EXCEPT !.signals = Take(@)]
            /\ UNCHANGED <<doc, permit>>
    /\ UNCHANGED <<latest, active, latestQuery, latestSort, gen, wake, budget>>

Drain ==
    /\ WorkerAt("drain")
    /\ Goto("opens")
    /\ box' = [box EXCEPT !.signals = Take(@)]
    /\ UNCHANGED <<latest, active, latestQuery, latestSort, gen, permit, wake,
                   doc, budget>>

HasDemand(d) == d.query # None /\ d.query.demand > 0

\* Faulty: goes to sleep on a sort that waits for the permit.
AfterSortAsleep(d) ==
    IF HasDemand(d) THEN "query" ELSE IF ~ d.scanDone THEN "scan" ELSE "wait"

\* After the sort's turn: a search that is asked for a match, then the scan;
\* with neither, round again for the sort, or sleep.
AfterSort(d) ==
    IF HasDemand(d) THEN "query"
    ELSE IF ~ d.scanDone THEN "scan"
    ELSE IF d.sort # None THEN "drain"
    ELSE "wait"

\* No command is waiting: whose turn it is.
Turn(d) ==
    IF d = None THEN "wait"
    ELSE IF d.sort # None THEN "sort"
    ELSE AfterSort(d)

\* try_take of mailbox b found nothing.
NothingIn(b, next) ==
    /\ WorkerAt(b) /\ IsEmpty(box[b])
    /\ Goto(next)
    /\ UNCHANGED <<shared, permit, wake, doc, budget>>

TakeCommand(b) ==
    /\ WorkerAt(b) /\ ~ IsEmpty(box[b])
    /\ box' = [box EXCEPT ![b] = Take(@)]
    /\ UNCHANGED <<latest, active, latestQuery, latestSort, gen, wake>>

\* The serial replace_document publishes in active_serial.
Serves(command) == command.serial

\* replace_document drops the old document before it opens the new one.
TakeOpen ==
    /\ TakeCommand("opens")
    /\ w' = [w EXCEPT !.pc = "open", !.cmd = Taken(box.opens)]
    /\ doc' = None
    /\ Release(doc)
    /\ UNCHANGED budget

Open ==
    /\ WorkerAt("open")
    /\ \/ /\ Cancelled("view", w.cmd.gen)
          /\ Goto("drain")
          /\ UNCHANGED <<active, doc, budget>>
       \/ /\ ~ Cancelled("view", w.cmd.gen)
          /\ doc' = Opened(w.cmd.serial)
          /\ active' = Serves(w.cmd)
          /\ Emit(EventOf(doc', "ViewportReady", FALSE), "drain", TRUE)
          /\ UNCHANGED budget
       \/ /\ Fault(FALSE)
          /\ Invalidate(FailedOpen(w.cmd.serial))
          /\ UNCHANGED <<active, doc>>
    /\ UNCHANGED <<latest, latestQuery, latestSort, gen, box, permit, wake>>

\* apply_viewport_request up to the snapshot.
TakeViewport ==
    /\ TakeCommand("viewports")
    /\ LET request == Taken(box.viewports)
           rank == IF request.sourceRow THEN RankOf(doc.order, request.row)
                                        ELSE request.row
           current == /\ doc # None /\ doc.serial = request.serial
                      /\ latest = request.serial
       IN  \/ /\ ~ current
              /\ Goto("drain")
              /\ UNCHANGED <<doc, budget>>
           \/ /\ current
              /\ doc' = [doc EXCEPT !.reveal =
                            IF request.sourceRow THEN rank ELSE NoRow]
              /\ w' = [w EXCEPT !.pc = "viewport",
                                !.cmd = [request EXCEPT !.row = rank]]
              /\ UNCHANGED budget
           \/ /\ current /\ request.sourceRow /\ doc.order # SourceOrder
              /\ Fault(FALSE)
              /\ doc' = [doc EXCEPT !.reveal = NoRow]
              /\ Emit(EventOf(doc', "Failed", TRUE), "drain", TRUE)
    /\ UNCHANGED permit

\* The snapshot of apply_viewport_request and what follows it.
Viewport ==
    /\ WorkerAt("viewport")
    /\ \/ /\ Cancelled("view", w.cmd.gen)
          /\ Goto("drain")
          /\ UNCHANGED <<doc, budget>>
       \/ /\ ~ Cancelled("view", w.cmd.gen) /\ ~ doc.lost
          /\ LET read == [doc EXCEPT !.rows =
                             [order |-> doc.order, first |-> w.cmd.row]]
             IN  /\ Emit(EventOf(read, "ViewportReady", FALSE), "drain", TRUE)
                 /\ doc' = [read EXCEPT !.reveal = NoRow]
          /\ UNCHANGED budget
       \/ \E lost \in BOOLEAN :
             /\ \/ Fault(lost)
                \/ doc.lost /\ lost /\ UNCHANGED budget
             /\ doc' = [doc EXCEPT !.query = None, !.lost = @ \/ lost]
             /\ Invalidate(EventOf(doc', "Failed", TRUE))
    /\ UNCHANGED <<shared, permit, wake>>

\* The steps of invalidate_query that other threads can see.
ForgetActiveDocument ==
    /\ WorkerAt("forget_active")
    /\ active' = 0
    /\ Then("cancel_query")
    /\ UNCHANGED <<latest, latestQuery, latestSort, gen, box, permit, wake,
                   doc, budget>>

CancelDocumentQuery ==
    /\ WorkerAt("cancel_query")
    /\ Cancel("query")
    /\ Then("forget_query")
    /\ UNCHANGED <<latest, active, latestQuery, latestSort, box, permit, wake,
                   doc, budget>>

ForgetDocumentQuery ==
    /\ WorkerAt("forget_query")
    /\ latestQuery' = 0
    /\ Then("take_queries")
    /\ UNCHANGED <<latest, active, latestSort, gen, box, permit, wake, doc,
                   budget>>

TakeDocumentQuery ==
    /\ WorkerAt("take_queries")
    /\ box' = [box EXCEPT !.queries = Take(@)]
    /\ Then("emit")
    /\ UNCHANGED <<latest, active, latestQuery, latestSort, gen, permit, wake,
                   doc, budget>>

-----------------------------------------------------------------------------
\* A search of the open document; serial 0 fields never occur in one.
NewQuery(command) ==
    [serial |-> command.serial, gen |-> command.gen, session |-> TRUE,
     demand |-> 1, left |-> ScanSteps, hits |-> 0, hit |-> 0,
     status |-> "Running", phase |-> "Searching"]

\* fail_query
FailQuery(q) == [q EXCEPT !.demand = 0, !.session = FALSE, !.phase = "Failed"]

\* activate_query_hit
Activate(q, n) == [q EXCEPT !.demand = 0, !.hit = n, !.phase = "MatchReady"]

\* Faulty: the search ends without saying so.
EndedSilently(q) == [q EXCEPT !.demand = 0]

\* set_query_complete and set_query_quota_exceeded
Ended(q) == [q EXCEPT !.demand = 0, !.phase = q.status]

\* navigate_to_previous_hit and navigate_to_next_hit, on a query whose demand
\* has been cleared; hits are numbered from 1, and 0 is none.
NavigatePrevious(q) ==
    IF q.hit > 1 THEN Activate(q, q.hit - 1)
    ELSE IF q.hit = 1 THEN [q EXCEPT !.phase = "MatchReady"]
    ELSE IF q.hits > 0 THEN Activate(q, q.hits)
    ELSE [q EXCEPT !.phase = "Complete"]

NavigateNext(q) ==
    IF q.hit < q.hits THEN Activate(q, q.hit + 1)
    ELSE IF q.status = "Running"
         THEN [q EXCEPT !.demand = q.hit + 1, !.phase = "Searching"]
    ELSE Ended(q)

\* apply_query_command, start_document_query and navigate_document_query.
TakeQuery ==
    /\ TakeCommand("queries")
    /\ LET command == Taken(box.queries)
           current == /\ doc # None /\ doc.serial = command.document
                      /\ latest = command.document
                      /\ latestQuery = command.serial
           Answer(q) ==
               /\ doc' = [doc EXCEPT !.query = q]
               /\ Emit(EventOf(doc', Phase(doc), FALSE), "drain", TRUE)
           asked == [doc.query EXCEPT !.gen = command.gen, !.demand = 0]
       IN  \/ /\ \/ ~ current
                 \/ ~ command.start /\ doc.query.serial # command.serial
              /\ Goto("drain")
              /\ UNCHANGED <<doc, budget>>
           \/ /\ current /\ command.start /\ ~ doc.lost
              /\ Answer(NewQuery(command))
              /\ UNCHANGED budget
           \/ /\ current /\ command.start
              /\ \/ doc.lost /\ UNCHANGED budget
                 \/ Fault(FALSE)
              /\ Answer(FailQuery(NewQuery(command)))
           \/ /\ current /\ ~ command.start
              /\ doc.query.serial = command.serial
              /\ Answer(IF ~ asked.session THEN asked
                        ELSE IF command.next THEN NavigateNext(asked)
                        ELSE NavigatePrevious(asked))
              /\ UNCHANGED budget
           \/ /\ current /\ ~ command.start      \* read_hit fails
              /\ doc.query.serial = command.serial
              /\ asked.session /\ asked.hits > 0
              /\ Fault(FALSE)
              /\ Answer(FailQuery(asked))
    /\ UNCHANGED permit

\* start_sort
TakeSort ==
    /\ TakeCommand("sorts")
    /\ LET command == Taken(box.sorts)
       IN  IF \/ doc = None \/ doc.serial # command.document
              \/ latestSort # command.serial
           THEN /\ Goto("drain")
                /\ UNCHANGED <<doc, permit>>
           ELSE /\ Release(doc)
                /\ doc' = [doc EXCEPT
                     !.reveal = NoRow,
                     !.sortState = [serial |-> command.serial,
                                    key |-> command.key,
                                    phase |-> "Extracting"],
                     !.sort = IF command.key = SourceOrder THEN None
                              ELSE [serial |-> command.serial,
                                    key |-> command.key,
                                    gen |-> command.gen,
                                    permit |-> FALSE, session |-> FALSE,
                                    left |-> ScanSteps]]
                /\ IF command.key = SourceOrder
                   THEN w' = [w EXCEPT !.pc = "restore",
                                       !.cmd = [gen |-> gen["view"]]]
                   ELSE Emit(EventOf(doc', Phase(doc), FALSE), "drain", FALSE)
    /\ UNCHANGED budget

\* Faulty: the sort is dropped, its phase stays.
SortForgotten(d, phase) == [d EXCEPT !.sort = None]

\* sort_failed, and the Cancelled state of a superseded sort.
SortEnds(d, phase) == [d EXCEPT !.sort = None, !.sortState.phase = phase]

\* The end of every sort handler: the event, whose delivery is not checked.
TellSort(d, next) ==
    /\ doc' = d
    /\ Emit(EventOf(d, Phase(d), FALSE), next, FALSE)

ReportSort(d) == TellSort(d, AfterSort(d))

\* Faulty: the old rows stay in the cache.
OrderWithoutRows(d, order) ==
    [SortEnds(d, "Complete") EXCEPT !.order = order, !.reveal = NoRow]

\* The order and its rows replace the old ones together.
Ordered(d, order) ==
    [SortEnds(d, "Complete") EXCEPT
        !.order = order, !.reveal = NoRow,
        !.rows = [order |-> order, first |-> 0]]

\* start_sort back to source order: the rows are read before the order goes.
Restore ==
    /\ WorkerAt("restore")
    /\ \/ /\ ~ Cancelled("view", w.cmd.gen) /\ ~ doc.lost
          /\ TellSort(Ordered(doc, SourceOrder), "drain")
          /\ UNCHANGED budget
       \/ /\ Cancelled("view", w.cmd.gen) \/ doc.lost
          /\ TellSort(SortEnds(doc, "Cancelled"), "drain")
          /\ UNCHANGED budget
       \/ \E lost \in BOOLEAN :
             /\ Fault(lost)
             /\ TellSort([SortEnds(doc, "Cancelled") EXCEPT !.lost = @ \/ lost],
                           "drain")
    /\ UNCHANGED <<shared, permit, wake>>

-----------------------------------------------------------------------------
\* is_latest and the sort's own cancellation token.
SortIsCurrent(s) == latestSort = s.serial /\ ~ Cancelled("sort", s.gen)

\* advance_sort up to the permit.
AdvanceSort ==
    /\ WorkerAt("sort")
    /\ \/ /\ ~ SortIsCurrent(doc.sort)
          /\ Release(doc)
          /\ ReportSort(SortEnds(doc, "Cancelled"))
       \/ /\ SortIsCurrent(doc.sort)
          /\ ~ doc.sort.permit /\ permit # 0      \* sleeps, asks again
          /\ Goto(AfterSort(doc))
          /\ UNCHANGED <<doc, permit>>
       \/ /\ SortIsCurrent(doc.sort)
          /\ doc.sort.permit \/ permit = 0
          /\ permit' = IF doc.sort.permit THEN permit ELSE doc.sort.serial
          /\ doc' = [doc EXCEPT !.sort.permit = TRUE]
          /\ Goto("sort_step")
    /\ UNCHANGED <<shared, wake, budget>>

\* advance_sort with the permit: make the session, then one step of it.
SortStep ==
    /\ WorkerAt("sort_step")
    /\ LET s == doc.sort
           last == s.left = 1
           Stepped(phase) ==
               [doc EXCEPT !.sort.session = TRUE, !.sort.left = s.left - 1,
                           !.sortState.phase = phase]
       IN  \/ /\ Cancelled("sort", s.gen) /\ ~ (doc.lost /\ ~ s.session)
              /\ \E told \in BOOLEAN :
                    LET d == [doc EXCEPT !.sort.session = TRUE,
                                         !.sortState.phase = "Cancelled"]
                    IN  IF told THEN ReportSort(d)
                                ELSE doc' = d /\ Goto(AfterSort(d))
              /\ UNCHANGED <<permit, budget>>
           \/ /\ ~ Cancelled("sort", s.gen) /\ last /\ ~ doc.lost
              /\ doc' = Stepped("Complete")
              /\ Goto("finish_sort")
              /\ UNCHANGED <<permit, budget>>
           \/ /\ ~ Cancelled("sort", s.gen) /\ ~ last
              /\ ~ doc.lost \/ s.session
              /\ \E told \in BOOLEAN :
                    LET d == Stepped("Extracting")
                    IN  IF told THEN ReportSort(d)
                                ELSE doc' = d /\ Goto(AfterSort(d))
              /\ UNCHANGED <<permit, budget>>
           \/ \E lost \in BOOLEAN :
              /\ \/ Fault(lost)
                 \/ /\ doc.lost /\ (~ s.session \/ last) /\ lost
                    /\ UNCHANGED budget
              /\ ReportSort([SortEnds(doc, "Cancelled") EXCEPT !.lost = @ \/ lost])
              /\ Release(doc)
    /\ UNCHANGED <<shared, wake>>

\* complete_sort takes the sort out of the document; the permit is dropped
\* when it returns, after the event.
EndSort(d) == TellSort(d, "return_sort")

\* complete_sort: the checks before the final order is prepared.
FinishSort ==
    /\ WorkerAt("finish_sort")
    /\ IF SortIsCurrent(doc.sort)
       THEN /\ w' = [w EXCEPT !.pc = "prepare", !.cmd = [gen |-> gen["view"]]]
            /\ UNCHANGED doc
       ELSE EndSort(SortEnds(doc, "Cancelled"))
    /\ UNCHANGED <<shared, permit, wake, budget>>

\* The order and its first rows are read, under the viewport's token.
PrepareSort ==
    /\ WorkerAt("prepare")
    /\ \/ /\ ~ Cancelled("view", w.cmd.gen) /\ ~ doc.lost
          /\ Then("commit")
          /\ UNCHANGED <<doc, budget>>
       \/ /\ Cancelled("view", w.cmd.gen)
          /\ EndSort(SortEnds(doc, "Cancelled"))
          /\ UNCHANGED budget
       \/ \E lost \in BOOLEAN :
             /\ Fault(lost)
             /\ EndSort([SortEnds(doc, "Cancelled") EXCEPT !.lost = @ \/ lost])
    /\ UNCHANGED <<shared, permit, wake>>

\* Faulty: what was prepared is committed, superseded or not.
CommitsAnyway(s) == TRUE

\* prepare_sort_if_current looks once more.
StillCurrent(s) == SortIsCurrent(s)

CommitSort ==
    /\ WorkerAt("commit")
    /\ EndSort(IF StillCurrent(doc.sort)
               THEN Ordered(doc, doc.sort.key)
               ELSE SortEnds(doc, "Cancelled"))
    /\ UNCHANGED <<shared, permit, wake, budget>>

\* complete_sort returns; its sort was the one of sort_state.
ReturnSort ==
    /\ WorkerAt("return_sort")
    /\ permit' = IF permit = doc.sortState.serial THEN 0 ELSE permit
    /\ Goto(AfterSort(doc))
    /\ UNCHANGED <<shared, wake, doc, budget>>

-----------------------------------------------------------------------------
\* advance_query_once: one quantum of the search, then the source is checked
\* again before any match is published.
AdvanceQuery ==
    /\ WorkerAt("query")
    /\ LET q == doc.query
           Answer(r) ==
               /\ doc' = [doc EXCEPT !.query = r]
               /\ Emit(EventOf(doc', Phase(doc), FALSE), "drain", TRUE)
           Searched(found, status) ==
               [q EXCEPT !.hits = @ + found, !.left = @ - 1, !.status = status]
       IN  \/ /\ Cancelled("query", q.gen) /\ ~ doc.lost
              /\ \E found \in {0, 1} :            \* before it was cut short
                    LET r == [q EXCEPT !.hits = @ + found]
                    IN  /\ r.hits <= MaxHits
                        /\ IF r.hits >= r.demand
                           THEN Answer(Activate(r, r.demand))
                           ELSE doc' = [doc EXCEPT !.query = r] /\ Goto("drain")
              /\ UNCHANGED <<active, budget>>
           \/ /\ ~ Cancelled("query", q.gen) /\ ~ doc.lost
              /\ \E found \in {0, 1}, quota \in BOOLEAN, told \in BOOLEAN :
                    /\ q.hits + found <= MaxHits
                    /\ quota => found = 0
                    /\ LET status == IF quota THEN "QuotaExceeded"
                                     ELSE IF q.left = 1 THEN "Complete"
                                     ELSE "Running"
                           r == Searched(found, status)
                       IN  IF r.hits >= r.demand
                           THEN told /\ Answer(Activate(r, r.demand))
                           ELSE IF status = "Running" /\ ~ told
                           THEN doc' = [doc EXCEPT !.query = r] /\ Goto("drain")
                           ELSE /\ told
                                /\ Answer(IF status = "Running" THEN r
                                          ELSE Ended(r))
              /\ UNCHANGED <<active, budget>>
           \/ /\ Fault(FALSE) /\ ~ doc.lost            \* the search itself
              /\ Answer(FailQuery(q))
              /\ UNCHANGED active
           \/ /\ \/ doc.lost /\ UNCHANGED budget       \* the source check
                 \/ Fault(TRUE)
              /\ active' = 0
              /\ doc' = [doc EXCEPT !.query = FailQuery(q), !.lost = TRUE]
              /\ Emit(EventOf(doc', Phase(doc), FALSE), "drain", TRUE)
    /\ UNCHANGED <<latest, latestQuery, latestSort, gen, box, permit, wake>>

\* scan_once.  A step cut short by a cancellation leaves nothing behind that
\* the next one does not redo, so only finished steps are taken.
Scan ==
    /\ WorkerAt("scan")
    /\ \/ /\ ~ doc.lost
          /\ \E told \in BOOLEAN :
                LET d == [doc EXCEPT !.scanned = @ + 1,
                                     !.scanDone = doc.scanned + 1 = ScanSteps]
                IN  /\ doc' = d
                    /\ d.scanDone => told
                    /\ IF told THEN Emit(EventOf(d, Phase(d), FALSE), "drain", TRUE)
                               ELSE Goto("drain")
          /\ UNCHANGED budget
       \/ \E lost \in BOOLEAN :
             /\ \/ Fault(lost)
                \/ doc.lost /\ lost /\ UNCHANGED budget
             /\ doc' = [doc EXCEPT !.scanDone = TRUE, !.query = None,
                                   !.lost = @ \/ lost]
             /\ Invalidate(EventOf(doc', "Failed", TRUE))
    /\ UNCHANGED <<shared, permit, wake>>

-----------------------------------------------------------------------------
(* emit_event                                                              *)

\* emit_active turns an event into a failure when the inverse map of the
\* order cannot be read to place the active match.
EventRankFails ==
    /\ WorkerAt("emit")
    /\ ~ w.out.failed
    /\ w.out.committed # SourceOrder
    /\ w.out.query # None /\ w.out.query.hit # 0
    /\ Fault(FALSE)
    /\ w' = [w EXCEPT !.out.failed = TRUE, !.out.phase = "Failed"]
    /\ UNCHANGED <<shared, permit, wake, doc>>

\* An event of a superseded document is not sent.
EmitCheck ==
    /\ WorkerAt("emit")
    /\ IF latest = w.out.serial
       THEN Then("send")
       ELSE Goto(w.next)
    /\ UNCHANGED <<shared, permit, wake, doc, budget>>

\* Faulty: the message is posted only when an event was replaced.
WakesLate(m) == ~ IsEmpty(m)

\* emit_event wakes the UI for the first event into an empty mailbox.
Wakes(m) == IsEmpty(m)

SendEvent ==
    /\ WorkerAt("send")
    /\ IF box.events.closed
       THEN IF w.strict
            THEN /\ Goto("exited")
                 /\ doc' = None
                 /\ Release(doc)
                 /\ UNCHANGED box
            ELSE /\ Goto(w.next)
                 /\ UNCHANGED <<box, doc, permit>>
       ELSE /\ IF Wakes(box.events)
               THEN w' = [w EXCEPT !.pc = "wake_ui", !.out = None]
               ELSE Goto(w.next)
            /\ box' = [box EXCEPT !.events = Send(@, w.out)]
            /\ UNCHANGED <<doc, permit>>
    /\ UNCHANGED <<latest, active, latestQuery, latestSort, gen, wake, budget>>

WakeUI ==
    /\ WorkerAt("wake_ui")
    /\ wake' = TRUE
    /\ Goto(w.next)
    /\ UNCHANGED <<shared, permit, doc, budget>>

-----------------------------------------------------------------------------
WorkerStep ==
    /\ \/ Wait \/ Drain
       \/ NothingIn("opens", "viewports")
       \/ NothingIn("viewports", "queries")
       \/ NothingIn("queries", "sorts")
       \/ NothingIn("sorts", Turn(doc))
       \/ TakeOpen \/ Open \/ TakeViewport \/ Viewport \/ TakeQuery
       \/ TakeSort \/ Restore
       \/ ForgetActiveDocument \/ CancelDocumentQuery \/ ForgetDocumentQuery
       \/ TakeDocumentQuery
       \/ AdvanceSort \/ SortStep \/ FinishSort \/ PrepareSort
       \/ CommitSort \/ ReturnSort
       \/ AdvanceQuery \/ Scan
       \/ EventRankFails \/ EmitCheck \/ SendEvent \/ WakeUI
    /\ UNCHANGED <<nextSort, otherSort, uiVars>>

Init ==
    /\ latest = 0 /\ active = 0 /\ latestQuery = 0 /\ latestSort = 0
    /\ gen = [t \in Tokens |-> 0]
    /\ box = [b \in Boxes |-> NewMailbox]
    /\ nextSort = 0 /\ permit = 0 /\ otherSort = 0
    /\ wake = FALSE
    /\ querySeq = 0
    /\ ui = [todo |-> <<>>, arg |-> NoArg, gen |-> NoGen, event |-> None,
             dropped |-> FALSE]
    /\ shown = None
    /\ doc = None
    /\ w = Idle
    /\ budget \in Budgets

Next == UICall \/ UIStep \/ OtherAcquires \/ OtherReleases \/ WorkerStep

Spec == Init /\ [][Next]_vars

\* The worker thread and a call in progress run on; the user need not call,
\* and another tab's sort ends.
FairSpec ==
    Spec /\ WF_vars(WorkerStep) /\ WF_vars(UIStep) /\ WF_vars(OtherReleases)

-----------------------------------------------------------------------------
\* The state types: what each thread owns and what the two share.
StepNames ==
    {"cancel_sort", "cancel_view", "cancel_query", "bump_serial",
     "forget_active", "forget_query", "forget_sort", "store_sort",
     "store_query", "check_active", "check_query", "take_sorts",
     "take_viewports", "take_queries", "take_events", "send_open",
     "send_viewport", "send_sort", "send_query", "send_navigate", "signal",
     "close_sorts", "close_opens", "close_viewports", "close_queries",
     "close_signals", "close_events", "join", "poll", "judge"}

WorkerPlaces ==
    {"wait", "drain", "opens", "viewports", "queries", "sorts", "exited",
     "open", "viewport", "query", "scan", "restore", "sort", "sort_step",
     "finish_sort", "prepare", "commit", "return_sort", "forget_active",
     "cancel_query", "forget_query", "take_queries", "emit", "send", "wake_ui"}

TypeOK ==
    /\ {latest, active, latestQuery, latestSort, nextSort, permit, otherSort,
        querySeq} \subseteq Nat
    /\ gen \in [Tokens -> Nat]
    /\ DOMAIN box = Boxes
    /\ \A b \in Boxes : Len(box[b].pending) <= 1 /\ box[b].closed \in BOOLEAN
    /\ wake \in BOOLEAN
    /\ ui.todo \in Seq(StepNames) /\ ui.dropped \in BOOLEAN
    /\ budget \in [Calls -> Nat]
    /\ doc = None \/ doc.order \in Order
    /\ w.pc \in WorkerPlaces

\* Every event that is on its way to the UI or was applied by it.
Events ==
    ({box.events.pending[i] : i \in DOMAIN box.events.pending}
        \cup {w.out, ui.event, shown}) \ {None}

\* Rows never travel apart from their order: complete_sort, start_sort and
\* apply_viewport_request replace rows and order so that no event, however
\* commands and cancellations interleave, shows rows of one order under the
\* header of another.
RowsMatchOrder ==
    /\ doc # None => doc.rows.order = doc.order
    /\ \A e \in Events : e.rows # None => e.rows.order = e.committed

\* One sort at a time in the process, and no permit is leaked: the permit
\* names the sort of this tab, from its start to the return of complete_sort,
\* or that of another tab, or nobody (SortCoordinator).
ReturnsSort == "return_sort" \in {w.pc, w.next}

PermitExclusive ==
    /\ Holds(doc) => permit = doc.sort.serial
    /\ ReturnsSort => permit = doc.sortState.serial
    /\ otherSort # 0 => permit = otherSort
    /\ permit # 0 => Holds(doc) \/ ReturnsSort \/ permit = otherSort

\* No lost command: the worker never sleeps while a command is pending,
\* unless the signal for it is pending too or the call is about to send it.
NoLostCommand ==
    w.pc = "wait" =>
        \A b \in {"opens", "viewports", "queries", "sorts"} :
            IsEmpty(box[b]) \/ ~ IsEmpty(box.signals) \/ ui.todo # <<>>

\* No lost wake-up: only the first event into an empty mailbox posts a
\* message, and that is enough.
NoLostWake ==
    ~ IsEmpty(box.events) =>
        \/ wake \/ w.pc = "wake_ui"
        \/ ui.todo # <<>>

\* Everything has come to rest.
Quiet == w.pc = "wait" /\ ui.todo = <<>> /\ ~ wake /\ IsEmpty(box.signals)

\* However events are coalesced, superseded and thrown away by the calls that
\* follow, what the UI shows in the end is the document as it is.
QuietShowsDocument ==
    Quiet /\ doc # None /\ latestQuery = doc.query.serial =>
        /\ shown # None
        /\ shown = EventOf([doc EXCEPT !.reveal = shown.reveal], shown.phase,
                           shown.failed)

\* The worker sleeps only when it has nothing left to do.
SleepsWhenDone ==
    w.pc = "wait" /\ doc # None =>
        doc.scanDone /\ doc.sort = None /\ ~ HasDemand(doc)

\* Failures and cancellations keep the previous view, and a superseded sort
\* never replaces it, whenever the new request comes: the order on show
\* changes only in the step that completes the request of that order, and to
\* a sorted order only while this request is the newest and not cancelled.
OrderChangesOnlyWhenComplete ==
    [][doc # None /\ doc' # None /\ doc'.order # doc.order =>
          /\ doc'.sortState.phase = "Complete"
          /\ doc'.sortState.serial = doc.sortState.serial
          /\ doc'.sortState.key = doc'.order
          /\ doc'.order # SourceOrder => SortIsCurrent(doc.sort)]_vars

-----------------------------------------------------------------------------
\* An open ends: with the document or its failure on show, unless the user
\* opens another or closes the tab.
OpenAnswered == latest # shown.serial ~> latest = shown.serial \/ ui.dropped

\* A sort request ends: Complete or Cancelled is shown for it, however often
\* it is superseded and however long another tab keeps the permit.
SortAnswered ==
    latestSort # 0 ~>
        \/ latestSort = 0 \/ ui.dropped
        \/ /\ shown # None /\ shown.sort.serial = latestSort
           /\ shown.sort.phase \in {"Complete", "Cancelled"}

\* A search that the UI waits for ends: with a match, at the end of the file,
\* at its quota or with a failure.
SearchAnswered ==
    latestQuery # 0 ~>
        \/ latestQuery = 0 \/ ui.dropped
        \/ /\ shown # None /\ shown.query.serial = latestQuery
           /\ shown.query.phase # "Searching"

\* Closing a tab joins its worker thread.
DropJoins == At("join") ~> ui.dropped
-----------------------------------------------------------------------------
(* What the documents say and the code does not do.                        *)

\* "each tab cancels only its own older sort requests" (ARCHITECTURE.md): a
\* sort of a readable file is cancelled by another request or by the user.
OnlyRequestsCancelSorts ==
    [][doc # None /\ doc' # None /\ doc.sort # None /\ doc'.sort = None
          /\ doc'.sortState.phase = "Cancelled" =>
              ~ SortIsCurrent(doc.sort)]_vars

\* "LeanRows detects the changed path identity and requires a reload"
\* (README.md): once the worker has found that the file is another one, the
\* failure reaches the UI.
LossIsShown ==
    Quiet /\ doc # None /\ doc.lost =>
        shown # None /\ (shown.failed \/ shown.query.phase = "Failed")
=============================================================================
