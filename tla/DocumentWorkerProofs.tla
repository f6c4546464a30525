------------------------ MODULE DocumentWorkerProofs ------------------------
(***************************************************************************)
(* Proofs about DocumentWorker, for every value of the constants: the sort *)
(* permit of the process is exclusive and never leaks; rows and their      *)
(* order travel together, an order changes only for the request it was     *)
(* sorted for, no command is slept on, no event waits for a message that   *)
(* never comes, and the thread never sleeps with work left.                *)
(*                                                                         *)
(* PermitExclusive is not inductive.  Its strengthening has two halves.    *)
(* UIPart is about what the UI thread owns and sends: a sort command       *)
(* carries the serial stored one step before, never 0, which the permit    *)
(* reserves for "nobody".  WorkerPart is about what the worker thread owns *)
(* at each place of its program.  Each of the other properties has an      *)
(* inductive part of its own, on top of these two (IInv).                  *)
(***************************************************************************)
EXTENDS DocumentWorker, TLAPS

\* A sort command is sent only right after its serial was stored.
SendsStored(todo, stored) ==
    \A i \in 1 .. Len(todo) :
        todo[i] = "send_sort" =>
            IF i = 1 THEN stored # 0 ELSE todo[i - 1] = "store_sort"

\* The rule for the call in progress, and for the command in the mailbox.
CallRule ==
    /\ "todo" \in DOMAIN ui /\ ui.todo \in Seq(StepNames)
    /\ SendsStored(ui.todo, latestSort)

BoxRule ==
    /\ "sorts" \in DOMAIN box /\ "pending" \in DOMAIN box["sorts"]
    /\ ~ IsEmpty(box["sorts"]) => Taken(box["sorts"]).serial # 0

UIPart == nextSort \in Nat /\ CallRule /\ BoxRule

\* The fields the argument looks at, and a sort's two copies of its serial.
DocumentShape ==
    doc # None =>
        /\ {"sort", "sortState"} \subseteq DOMAIN doc
        /\ "serial" \in DOMAIN doc.sortState
        /\ doc.sort # None =>
              /\ {"serial", "permit"} \subseteq DOMAIN doc.sort
              /\ doc.sort.serial # 0
              /\ doc.sortState.serial = doc.sort.serial

\* What the worker thread owns at each place of its program.
Places ==
    /\ {"pc", "cmd", "out", "next", "strict"} \subseteq DOMAIN w
    /\ w.next \in {"drain", "query", "scan", "wait", "return_sort"}
    /\ w.next # "drain" => w.pc \in {"emit", "send", "wake_ui"}
    /\ w.next = "return_sort" => w.strict = FALSE
    /\ w.next \in {"query", "scan"} => doc # None
    /\ w.pc \in {"viewport", "query", "scan", "sort", "restore"} => doc # None
    /\ w.pc = "sort" => doc.sort # None
    /\ w.pc = "restore" => doc.sort = None
    /\ w.pc = "open" => doc = None
    /\ w.pc \in {"sort_step", "finish_sort", "prepare", "commit"} => Holds(doc)

\* Who has the permit.
Owners ==
    /\ Holds(doc) => permit = doc.sort.serial /\ otherSort = 0
    /\ ReturnsSort =>
          /\ doc # None /\ doc.sort = None
          /\ permit = doc.sortState.serial /\ permit # 0 /\ otherSort = 0
    /\ otherSort # 0 => permit = otherSort
    /\ permit # 0 => Holds(doc) \/ ReturnsSort \/ permit = otherSort

WorkerPart == DocumentShape /\ Places /\ Owners

IInv == UIPart /\ WorkerPart

-----------------------------------------------------------------------------
(* Lists of steps.                                                         *)

\* A list without "send_sort" keeps the rule.
LEMMA NoSendSendsStored ==
    ASSUME NEW stored, NEW steps \in Seq(StepNames \ {"send_sort"})
    PROVE  steps \in Seq(StepNames) /\ SendsStored(steps, stored)
<1>1. \A i \in 1 .. Len(steps) : steps[i] # "send_sort"
  OBVIOUS
<1>2. steps \in Seq(StepNames)
  OBVIOUS
<1> QED
  BY <1>1, <1>2 DEF SendsStored

\* So does the list of request_sort, which stores the serial just before.
LEMMA SortStepsSendStored ==
    ASSUME NEW stored
    PROVE  SortSteps \in Seq(StepNames) /\ SendsStored(SortSteps, stored)
<1>1. SortSteps \in Seq(StepNames) /\ Len(SortSteps) = 4
  BY DEF SortSteps, StepNames
<1>2. /\ SortSteps[1] # "send_sort" /\ SortSteps[2] # "send_sort"
      /\ SortSteps[4] # "send_sort" /\ SortSteps[2] = "store_sort"
  BY DEF SortSteps
<1>3. \A i \in 1 .. 4 : i = 1 \/ i = 2 \/ i = 3 \/ i = 4
  OBVIOUS
<1>4. \A i \in 1 .. Len(SortSteps) : SortSteps[i] = "send_sort" => i = 3
  BY <1>1, <1>2, <1>3
<1> QED
  BY <1>1, <1>2, <1>4 DEF SendsStored

\* Every call starts with a list that keeps the rule.
LEMMA CallsSendStored ==
    ASSUME NEW stored,
           NEW steps \in {SubmitSteps, ViewportSteps, SortSteps, CancelSortSteps,
                          QuerySteps, NavigateSteps, DropSteps}
    PROVE  steps \in Seq(StepNames) /\ SendsStored(steps, stored)
<1>1. CASE steps = SortSteps
  BY <1>1, SortStepsSendStored
<1>2. SubmitSteps \in Seq(StepNames \ {"send_sort"})
  BY DEF SubmitSteps, StepNames
<1>3. DropSteps \in Seq(StepNames \ {"send_sort"})
  BY DEF DropSteps, StepNames
<1>4. QuerySteps \in Seq(StepNames \ {"send_sort"})
  BY DEF QuerySteps, StepNames
<1>5. NavigateSteps \in Seq(StepNames \ {"send_sort"})
  BY DEF NavigateSteps, StepNames
<1>6. ViewportSteps \in Seq(StepNames \ {"send_sort"})
  BY DEF ViewportSteps, StepNames
<1>7. CancelSortSteps \in Seq(StepNames \ {"send_sort"})
  BY DEF CancelSortSteps, StepNames
<1>8. CASE steps # SortSteps
  <2>1. steps \in Seq(StepNames \ {"send_sort"})
    BY <1>2, <1>3, <1>4, <1>5, <1>6, <1>7, <1>8
  <2> QED
    BY <2>1, NoSendSendsStored
<1> QED
  BY <1>1, <1>8

\* The rest of a list keeps the rule once its first step is done.
LEMMA TailSendsStored ==
    ASSUME NEW todo \in Seq(StepNames), todo # <<>>, NEW stored, NEW storedNext,
           SendsStored(todo, stored),
           Head(todo) = "store_sort" => storedNext # 0
    PROVE  Tail(todo) \in Seq(StepNames) /\ SendsStored(Tail(todo), storedNext)
<1>1. /\ Tail(todo) \in Seq(StepNames) /\ Len(Tail(todo)) = Len(todo) - 1
      /\ \A i \in 1 .. Len(todo) - 1 : Tail(todo)[i] = todo[i + 1]
      /\ Head(todo) = todo[1]
  OBVIOUS
<1>2. ASSUME NEW i \in 1 .. Len(Tail(todo)), Tail(todo)[i] = "send_sort"
      PROVE  IF i = 1 THEN storedNext # 0 ELSE Tail(todo)[i - 1] = "store_sort"
  <2>1. todo[i + 1] = "send_sort" /\ i + 1 \in 1 .. Len(todo)
    BY <1>1, <1>2
  <2>2. todo[i] = "store_sort"
    BY <2>1 DEF SendsStored
  <2>3. CASE i = 1
    BY <1>1, <2>2, <2>3
  <2>4. CASE i # 1
    BY <1>1, <2>2, <2>4
  <2> QED
    BY <2>3, <2>4
<1> QED
  BY <1>1, <1>2 DEF SendsStored

\* The empty list, and those of poll, which send nothing.
LEMMA ShortSendsStored ==
    ASSUME NEW stored,
           NEW steps \in {<<>>, <<"poll">>, <<"judge">>}
    PROVE  steps \in Seq(StepNames) /\ SendsStored(steps, stored)
<1>1. <<>> \in Seq(StepNames \ {"send_sort"})
  OBVIOUS
<1>2. <<"poll">> \in Seq(StepNames \ {"send_sort"})
  BY DEF StepNames
<1>3. <<"judge">> \in Seq(StepNames \ {"send_sort"})
  BY DEF StepNames
<1> QED
  BY <1>1, <1>2, <1>3, NoSendSendsStored

-----------------------------------------------------------------------------
(* The invariant holds at the start, and implies the property.             *)

\* A worker just started: no document, no permit, nothing to send.
LEMMA InitIInv == Init => IInv
<1> SUFFICES ASSUME Init PROVE IInv
  OBVIOUS
<1>1. ui.todo = <<>> /\ "todo" \in DOMAIN ui
  BY DEF Init
<1>2. ui.todo \in Seq(StepNames) /\ SendsStored(ui.todo, latestSort)
  BY <1>1, ShortSendsStored
<1>3. box["sorts"] = NewMailbox /\ "sorts" \in DOMAIN box
  BY DEF Init, Boxes
<1>4. UIPart
  BY <1>1, <1>2, <1>3 DEF Init, UIPart, CallRule, BoxRule, NewMailbox, IsEmpty
<1>5. DocumentShape /\ ~ Holds(doc)
  BY DEF Init, DocumentShape, Holds
<1>6. Places /\ ~ ReturnsSort
  BY <1>5 DEF Init, Places, Idle, ReturnsSort
<1>7. Owners
  BY <1>5, <1>6 DEF Init, Owners
<1> QED
  BY <1>4, <1>5, <1>6, <1>7 DEF IInv, WorkerPart

\* The property is a weakening of Owners.
LEMMA IInvPermitExclusive == IInv => PermitExclusive
BY DEF IInv, WorkerPart, Owners, PermitExclusive

-----------------------------------------------------------------------------
(* The steps of the UI thread and of other tabs.                           *)

\* They leave the worker thread's half alone.
LEMMA WorkerPartUnchanged ==
    ASSUME WorkerPart, UNCHANGED <<doc, w, permit, otherSort>>
    PROVE  WorkerPart'
BY DEF WorkerPart, DocumentShape, Places, Owners, Holds, ReturnsSort

\* A call whose step is done goes on with the next one, or is over.
LEMMA StepDone ==
    ASSUME UIPart, ui.todo # <<>>,
           Head(ui.todo) = "store_sort" => latestSort' # 0,
           \/ Advance \/ ui' = Returned
           \/ "todo" \in DOMAIN ui' /\ ui'.todo = Tail(ui.todo)
    PROVE  CallRule'
<1>1. "todo" \in DOMAIN ui' /\ (ui'.todo = <<>> \/ ui'.todo = Tail(ui.todo))
  BY DEF UIPart, CallRule, Advance, Returned
<1>2. CASE ui'.todo = <<>>
  BY <1>1, <1>2, ShortSendsStored DEF CallRule
<1>3. CASE ui'.todo = Tail(ui.todo)
  BY <1>1, <1>3, TailSendsStored DEF UIPart, CallRule
<1> QED
  BY <1>1, <1>2, <1>3

\* A mailbox that is emptied or closed, or sent a command with a serial.
LEMMA BoxEmptied ==
    ASSUME BoxRule, NEW b,
           \/ box' = box
           \/ box' = [box EXCEPT ![b] = Take(@)]
           \/ box' = [box EXCEPT ![b] = Close(@)]
    PROVE  BoxRule'
BY DEF BoxRule, Take, Close, IsEmpty, Taken

\* A command that is sent, with a serial if it is a sort command.
LEMMA BoxSent ==
    ASSUME BoxRule, NEW b, NEW v, b = "sorts" => v.serial # 0,
           box' = [box EXCEPT ![b] = Send(@, v)]
    PROVE  BoxRule'
BY DEF BoxRule, Send, IsEmpty, Taken

\* Every step of a method of Worker but the store of a sort's serial.
LEMMA SharedStepUIPart ==
    ASSUME UIPart, SharedStep, UNCHANGED nextSort
    PROVE  UIPart'
<1>1. CallRule /\ BoxRule
  BY DEF UIPart
<1>2. SUFFICES CallRule' /\ BoxRule'
  BY DEF UIPart
<1>3. ASSUME NEW step, step # "store_sort", NEW t, CancelStep(step, t)
      PROVE  CallRule' /\ BoxRule'
  <2>1. CallRule'
    BY <1>3, StepDone DEF CancelStep, At, UIPart, CallRule
  <2>2. BoxRule'
    BY <1>1, <1>3 DEF CancelStep, BoxRule
  <2> QED
    BY <2>1, <2>2
<1>4. ASSUME NEW step, step # "store_sort", NEW b,
             TakeStep(step, b) \/ CloseStep(step, b)
      PROVE  CallRule' /\ BoxRule'
  <2>1. CallRule'
    BY <1>4, StepDone DEF TakeStep, CloseStep, At
  <2>2. BoxRule'
    BY <1>1, <1>4, BoxEmptied DEF TakeStep, CloseStep
  <2> QED
    BY <2>1, <2>2
<1>5. ASSUME NEW step, step # "store_sort", NEW b, NEW v, SendStep(step, b, v),
             b = "sorts" => v.serial # 0
      PROVE  CallRule' /\ BoxRule'
  <2>1. CallRule'
    BY <1>5, StepDone DEF SendStep, At
  <2>2. BoxRule'
    BY <1>1, <1>5, BoxSent DEF SendStep
  <2> QED
    BY <2>1, <2>2
<1>6. ASSUME \/ BumpSerial \/ ForgetActive \/ ForgetQuery \/ ForgetSort
             \/ StoreQuery \/ CheckActive \/ CheckQuery
      PROVE  CallRule' /\ BoxRule'
  <2>1. CallRule'
    BY <1>6, StepDone
    DEF BumpSerial, ForgetActive, ForgetQuery, ForgetSort, StoreQuery,
        CheckActive, CheckQuery, At
  <2>2. BoxRule'
    BY <1>1, <1>6
    DEF BumpSerial, ForgetActive, ForgetQuery, ForgetSort, StoreQuery,
        CheckActive, CheckQuery, BoxRule, shared
  <2> QED
    BY <2>1, <2>2
<1>7. CASE SendStep("send_sort", "sorts", SortCommand)
  <2>1. ui.todo # <<>> /\ ui.todo[1] = "send_sort"
    BY <1>7 DEF SendStep, At, UIPart, CallRule
  <2>2. latestSort # 0
    BY <2>1 DEF UIPart, CallRule, SendsStored
  <2> QED
    BY <1>5, <1>7, <2>2 DEF SortCommand
<1> QED
  BY <1>3, <1>4, <1>5, <1>6, <1>7 DEF SharedStep

\* The steps the UI thread takes on its own.
LEMMA UIStepIInv ==
    ASSUME IInv, UIStep
    PROVE  IInv'
<1>1. UIPart /\ WorkerPart /\ CallRule /\ BoxRule
  BY DEF IInv, UIPart
<1>2. UNCHANGED <<doc, w, permit, otherSort>>
  BY DEF UIStep, sorting
<1>3. WorkerPart'
  BY <1>1, <1>2, WorkerPartUnchanged
<1>4. CASE SharedStep /\ UNCHANGED sorting
  BY <1>1, <1>3, <1>4, SharedStepUIPart DEF IInv, sorting
<1>5. CASE StoreSort
  <2>1. ui.todo # <<>> /\ Advance /\ box' = box
    BY <1>5 DEF StoreSort, At
  <2>2. nextSort' \in Nat /\ latestSort' # 0
    BY <1>1, <1>5 DEF StoreSort, UIPart
  <2>3. CallRule' /\ BoxRule'
    BY <1>1, <2>1, <2>2, StepDone, BoxEmptied
  <2> QED
    BY <1>3, <2>2, <2>3 DEF IInv, UIPart
<1>6. CASE (CallPoll \/ PollTake \/ PollJudge \/ Join) /\ UNCHANGED sorting
  <2>1. /\ "todo" \in DOMAIN ui'
        /\ ui'.todo \in {<<>>, <<"poll">>, <<"judge">>}
    BY <1>1, <1>6
    DEF CallPoll, PollTake, PollJudge, Join, Returned, CallRule
  <2>2. box' = box \/ box' = [box EXCEPT !["events"] = Take(@)]
    BY <1>6 DEF CallPoll, PollTake, PollJudge, Join, shared
  <2>3. CallRule' /\ BoxRule'
    BY <1>1, <2>1, <2>2, ShortSendsStored, BoxEmptied DEF CallRule
  <2> QED
    BY <1>1, <1>3, <1>6, <2>3 DEF IInv, UIPart, sorting
<1> QED
  BY <1>4, <1>5, <1>6 DEF UIStep

\* A call starts with one of the lists above.
CallSteps ==
    {SubmitSteps, ViewportSteps, SortSteps, CancelSortSteps, QuerySteps,
     NavigateSteps, DropSteps}

\* A call that starts has only its list of steps set.
LEMMA BeginIInv ==
    ASSUME IInv, NEW call, NEW steps \in CallSteps, NEW arg,
           Begin(call, steps, arg)
    PROVE  IInv'
<1>1. UIPart /\ WorkerPart /\ CallRule
  BY DEF IInv, UIPart
<1>2. WorkerPart'
  BY <1>1, WorkerPartUnchanged DEF Begin, sorting
<1>3. /\ "todo" \in DOMAIN ui' /\ ui'.todo = steps
      /\ UNCHANGED <<nextSort, latestSort, box>>
  BY <1>1 DEF Begin, sorting, shared, CallRule
<1>4. CallRule'
  BY <1>3, CallsSendStored DEF CallRule, CallSteps
<1> QED
  BY <1>1, <1>2, <1>3, <1>4 DEF IInv, UIPart, BoxRule

\* The calls of the user.
LEMMA UICallIInv ==
    ASSUME IInv, UICall
    PROVE  IInv'
<1>1. /\ SubmitSteps \in CallSteps /\ ViewportSteps \in CallSteps
      /\ SortSteps \in CallSteps /\ CancelSortSteps \in CallSteps
      /\ QuerySteps \in CallSteps /\ NavigateSteps \in CallSteps
      /\ DropSteps \in CallSteps
  BY DEF CallSteps
<1>2. CASE CallOpen
  BY <1>1, <1>2, BeginIInv DEF CallOpen
<1>3. CASE CallViewport
  BY <1>1, <1>3, BeginIInv DEF CallViewport
<1>4. CASE CallSourceRow
  BY <1>1, <1>4, BeginIInv DEF CallSourceRow
<1>5. CASE CallSort
  BY <1>1, <1>5, BeginIInv DEF CallSort
<1>6. CASE CallCancelSort
  BY <1>1, <1>6, BeginIInv DEF CallCancelSort
<1>7. CASE CallQuery
  BY <1>1, <1>7, BeginIInv DEF CallQuery
<1>8. CASE CallNavigate
  BY <1>1, <1>8, BeginIInv DEF CallNavigate
<1>9. CASE CallDrop
  BY <1>1, <1>9, BeginIInv DEF CallDrop
<1> QED
  BY <1>2, <1>3, <1>4, <1>5, <1>6, <1>7, <1>8, <1>9 DEF UICall

\* Another tab takes the permit only when nobody has it, and gives back only
\* its own.
LEMMA OtherTabsIInv ==
    ASSUME IInv, OtherAcquires \/ OtherReleases
    PROVE  IInv'
<1>1. UNCHANGED <<doc, w, ui, latestSort, box>>
  BY DEF OtherAcquires, OtherReleases, shared, uiVars
<1>2. nextSort' \in Nat
  BY DEF IInv, UIPart, OtherAcquires, OtherReleases
<1>3. UIPart'
  BY <1>1, <1>2 DEF IInv, UIPart, CallRule, BoxRule
<1>4. DocumentShape' /\ Places'
  BY <1>1 DEF IInv, WorkerPart, DocumentShape, Places, Holds
<1>5. Owners'
  <2>1. /\ (Holds(doc)' <=> Holds(doc)) /\ (ReturnsSort' <=> ReturnsSort)
        /\ Holds(doc) => doc.sort.serial # 0
    BY <1>1 DEF Holds, ReturnsSort, IInv, WorkerPart, DocumentShape
  <2>2. CASE OtherAcquires
    BY <1>1, <2>1, <2>2 DEF OtherAcquires, IInv, WorkerPart, UIPart, Owners
  <2>3. CASE OtherReleases
    BY <1>1, <2>1, <2>3 DEF OtherReleases, IInv, WorkerPart, Owners
  <2> QED
    BY <2>2, <2>3
<1> QED
  BY <1>3, <1>4, <1>5 DEF IInv, WorkerPart

-----------------------------------------------------------------------------
(* The steps of the worker thread.                                         *)

\* The worker thread takes commands and sends events, nothing else, and it
\* never stores the serial of a sort.
LEMMA WorkerUIPart ==
    ASSUME IInv, WorkerStep
    PROVE  UIPart'
<1>1. UIPart /\ CallRule /\ BoxRule
  BY DEF IInv, UIPart
<1>2. UNCHANGED <<nextSort, ui>>
  BY DEF WorkerStep, uiVars
<1>3. SUFFICES latestSort' = latestSort /\ BoxRule'
  BY <1>1, <1>2 DEF UIPart, CallRule
<1>4. CASE \/ Wait \/ Drain \/ TakeDocumentQuery \/ TakeOpen \/ TakeViewport
           \/ TakeQuery \/ TakeSort
  <2>1. latestSort' = latestSort
    BY <1>4 DEF Wait, Drain, TakeDocumentQuery, TakeOpen, TakeViewport,
                TakeQuery, TakeSort, TakeCommand
  <2>2. \/ box' = box
        \/ box' = [box EXCEPT !["signals"] = Take(@)]
        \/ box' = [box EXCEPT !["opens"] = Take(@)]
        \/ box' = [box EXCEPT !["viewports"] = Take(@)]
        \/ box' = [box EXCEPT !["queries"] = Take(@)]
        \/ box' = [box EXCEPT !["sorts"] = Take(@)]
    BY <1>4 DEF Wait, Drain, TakeDocumentQuery, TakeOpen, TakeViewport,
                TakeQuery, TakeSort, TakeCommand
  <2> QED
    BY <1>1, <2>1, <2>2, BoxEmptied
<1>5. CASE SendEvent
  <2>1. box' = box \/ box' = [box EXCEPT !["events"] = Send(@, w.out)]
    BY <1>5 DEF SendEvent
  <2> QED
    BY <1>1, <1>5, <2>1, BoxEmptied, BoxSent DEF SendEvent
<1>6. CASE \/ NothingIn("opens", "viewports") \/ NothingIn("viewports", "queries")
           \/ NothingIn("queries", "sorts") \/ NothingIn("sorts", Turn(doc))
           \/ Open \/ Viewport \/ Restore \/ ForgetActiveDocument
           \/ CancelDocumentQuery \/ ForgetDocumentQuery \/ AdvanceSort
           \/ SortStep \/ FinishSort \/ PrepareSort \/ CommitSort
           \/ ReturnSort \/ AdvanceQuery \/ Scan \/ EventRankFails
           \/ EmitCheck \/ WakeUI
  <2>1. latestSort' = latestSort /\ box' = box
    BY <1>6
    DEF NothingIn, Open, Viewport, Restore, ForgetActiveDocument,
        CancelDocumentQuery, ForgetDocumentQuery, AdvanceSort, SortStep,
        FinishSort, PrepareSort, CommitSort, ReturnSort, AdvanceQuery, Scan,
        EventRankFails, EmitCheck, WakeUI, shared
  <2> QED
    BY <1>1, <2>1 DEF BoxRule
<1> QED
  BY <1>4, <1>5, <1>6 DEF WorkerStep

\* A step that leaves the permit, the sort and its state as they are.
SameSort ==
    doc # None =>
        /\ {"sort", "sortState"} \subseteq DOMAIN doc'
        /\ doc'.sort = doc.sort /\ doc'.sortState = doc.sortState

\* Such a step keeps what is known of the document and of the permit.
LEMMA SameSortKeeps ==
    ASSUME DocumentShape, Owners, ~ ReturnsSort, ~ ReturnsSort',
           UNCHANGED <<permit, otherSort>>,
           doc' = doc \/ (doc # None /\ SameSort)
    PROVE  /\ DocumentShape' /\ Owners'
           /\ doc' # None <=> doc # None
           /\ doc # None => doc'.sort = doc.sort
           /\ Holds(doc)' <=> Holds(doc)
<1>1. CASE doc' = doc
  BY <1>1 DEF DocumentShape, Owners, Holds
<1>2. CASE doc # None /\ SameSort
  <2>1. doc' # None
    BY <1>2 DEF SameSort, None
  <2> QED
    BY <1>2, <2>1 DEF SameSort, DocumentShape, Owners, Holds
<1> QED
  BY <1>1, <1>2

\* A step that ends the sort, if there is one, and gives its permit back.
LEMMA ReleaseKeeps ==
    ASSUME DocumentShape, Owners, ~ ReturnsSort, ~ ReturnsSort',
           Release(doc), UNCHANGED otherSort, ~ Holds(doc)'
    PROVE  Owners'
BY DEF DocumentShape, Owners, Release, Holds

\* Steps that only move the program counter, and those that send an event:
\* the event of complete_sort is on its way while its permit is held.
LEMMA MovesKeep ==
    ASSUME WorkerPart, UNCHANGED <<doc, permit, otherSort>>,
           ReturnsSort' <=> ReturnsSort, Places'
    PROVE  WorkerPart'
BY DEF WorkerPart, DocumentShape, Owners, Holds

\* The steps of MovesKeep, but for the sending of an event.
LEMMA MoveWorkerPart ==
    ASSUME WorkerPart, UNCHANGED otherSort,
           \/ Drain \/ NothingIn("opens", "viewports")
           \/ NothingIn("viewports", "queries") \/ NothingIn("queries", "sorts")
           \/ NothingIn("sorts", Turn(doc)) \/ ForgetActiveDocument
           \/ CancelDocumentQuery \/ ForgetDocumentQuery \/ TakeDocumentQuery
           \/ EventRankFails \/ EmitCheck \/ WakeUI
    PROVE  WorkerPart'
<1>1. UNCHANGED <<doc, permit, otherSort>>
  BY DEF Drain, NothingIn, ForgetActiveDocument, CancelDocumentQuery,
         ForgetDocumentQuery, TakeDocumentQuery, EventRankFails, EmitCheck,
         WakeUI
<1>2. Places
  BY DEF WorkerPart
<1>3. SUFFICES (ReturnsSort' <=> ReturnsSort) /\ Places'
  BY <1>1, MovesKeep
<1>4. Holds(doc)' <=> Holds(doc)
  BY <1>1 DEF Holds
<1>5. CASE Drain \/ NothingIn("opens", "viewports")
           \/ NothingIn("viewports", "queries") \/ NothingIn("queries", "sorts")
  BY <1>1, <1>2, <1>5 DEF Drain, NothingIn, WorkerAt, Goto, Idle, Places, ReturnsSort
<1>6. CASE NothingIn("sorts", Turn(doc))
  BY <1>1, <1>2, <1>6
  DEF NothingIn, WorkerAt, Goto, Idle, Turn, AfterSort, Places, ReturnsSort
<1>7. CASE ForgetActiveDocument \/ CancelDocumentQuery \/ ForgetDocumentQuery
           \/ TakeDocumentQuery
  BY <1>1, <1>2, <1>7
  DEF ForgetActiveDocument, CancelDocumentQuery, ForgetDocumentQuery,
      TakeDocumentQuery, WorkerAt, Then, Places, ReturnsSort
<1>8. CASE EventRankFails
  BY <1>1, <1>2, <1>4, <1>8 DEF EventRankFails, WorkerAt, Places, ReturnsSort
<1>9. CASE EmitCheck \/ WakeUI
  BY <1>1, <1>2, <1>9
  DEF EmitCheck, WakeUI, WorkerAt, Then, Goto, Idle, Places, ReturnsSort
<1> QED
  BY <1>5, <1>6, <1>7, <1>8, <1>9

\* The thread ends while it sleeps, or at a closed mailbox; it ends at no
\* event of complete_sort, whose delivery is not checked.
LEMMA EndWorkerPart ==
    ASSUME WorkerPart, UNCHANGED otherSort, Wait \/ SendEvent
    PROVE  WorkerPart'
<1>1. DocumentShape /\ Places /\ Owners
  BY DEF WorkerPart
<1>2. CASE w' = [Idle EXCEPT !.pc = "exited"] /\ doc' = None /\ Release(doc)
           /\ ~ ReturnsSort
  <2>1. Places' /\ DocumentShape' /\ ~ ReturnsSort' /\ ~ Holds(doc)'
    BY <1>2 DEF Places, DocumentShape, Idle, ReturnsSort, Holds
  <2> QED
    BY <1>1, <1>2, <2>1, ReleaseKeeps DEF WorkerPart
<1>3. CASE Wait
  <2>1. ~ ReturnsSort
    BY <1>1, <1>3 DEF Wait, WorkerAt, Places, ReturnsSort
  <2>2. CASE IsEmpty(box.signals)
    BY <1>2, <1>3, <2>1, <2>2 DEF Wait, Goto
  <2>3. CASE ~ IsEmpty(box.signals)
    <3>1. UNCHANGED <<doc, permit>> /\ w' = [Idle EXCEPT !.pc = "drain"]
      BY <1>3, <2>3 DEF Wait, Goto
    <3>2. Places' /\ ~ ReturnsSort'
      BY <3>1 DEF Places, Idle, ReturnsSort
    <3> QED
      BY <2>1, <3>1, <3>2, MovesKeep
  <2> QED
    BY <2>2, <2>3
<1>4. CASE SendEvent
  <2>1. CASE box.events.closed /\ w.strict
    <3>1. ~ ReturnsSort
      BY <1>1, <1>4, <2>1 DEF SendEvent, WorkerAt, Places, ReturnsSort
    <3> QED
      BY <1>2, <1>4, <2>1, <3>1 DEF SendEvent, Goto
  <2>2. CASE ~ (box.events.closed /\ w.strict)
    <3>1. UNCHANGED <<doc, permit>>
      BY <1>4, <2>2 DEF SendEvent
    <3>2. /\ w.pc = "send"
          /\ \/ w' = [Idle EXCEPT !.pc = w.next]
             \/ w' = [w EXCEPT !.pc = "wake_ui", !.out = None]
      BY <1>4, <2>2 DEF SendEvent, WorkerAt, Goto
    <3>3. Places' /\ (ReturnsSort' <=> ReturnsSort)
      BY <1>1, <3>1, <3>2 DEF Places, Idle, ReturnsSort
    <3> QED
      BY <3>1, <3>3, MovesKeep
  <2> QED
    BY <2>1, <2>2
<1> QED
  BY <1>3, <1>4

\* Handlers of viewports, searches and the scan do not touch the sort.
LEMMA DocumentWorkerPart ==
    ASSUME WorkerPart, UNCHANGED otherSort,
           TakeViewport \/ Viewport \/ TakeQuery \/ AdvanceQuery \/ Scan
    PROVE  WorkerPart'
<1>1. DocumentShape /\ Places /\ Owners
  BY DEF WorkerPart
<1>2. permit' = permit
  BY DEF TakeViewport, Viewport, TakeQuery, AdvanceQuery, Scan
<1>3. w.pc \in {"viewports", "viewport", "queries", "query", "scan"}
  BY DEF TakeViewport, Viewport, TakeQuery, AdvanceQuery, Scan, TakeCommand,
         WorkerAt
<1>4. doc' = doc \/ (doc # None /\ SameSort)
  <2>1. CASE TakeViewport
    BY <1>1, <2>1 DEF TakeViewport, SameSort, DocumentShape
  <2>2. CASE Viewport
    BY <1>1, <2>2 DEF Viewport, WorkerAt, SameSort, DocumentShape, Places
  <2>3. CASE TakeQuery
    BY <1>1, <2>3 DEF TakeQuery, SameSort, DocumentShape
  <2>4. CASE AdvanceQuery
    <3>1. \E r : \/ doc' = [doc EXCEPT !.query = r]
                 \/ doc' = [doc EXCEPT !.query = r, !.lost = TRUE]
      BY <2>4 DEF AdvanceQuery
    <3> QED
      BY <1>1, <2>4, <3>1
      DEF AdvanceQuery, WorkerAt, SameSort, DocumentShape, Places
  <2>5. CASE Scan
    BY <1>1, <2>5 DEF Scan, WorkerAt, SameSort, DocumentShape, Places
  <2> QED
    BY <2>1, <2>2, <2>3, <2>4, <2>5
<1>5. /\ {"pc", "cmd", "out", "next", "strict"} \subseteq DOMAIN w'
      /\ w'.next \in {"drain", w.next}
      /\ \/ w'.pc \in {"drain", "emit", "forget_active"}
         \/ w'.pc = "viewport" /\ doc # None
  <2>1. CASE TakeViewport
    BY <1>1, <2>1 DEF TakeViewport, Goto, Emit, Idle, Places
  <2>2. CASE Viewport
    BY <2>2 DEF Viewport, Goto, Emit, Invalidate, Idle
  <2>3. CASE TakeQuery
    BY <2>3 DEF TakeQuery, Goto, Emit, Idle
  <2>4. CASE AdvanceQuery
    <3>1. \E e : Goto("drain") \/ Emit(e, "drain", TRUE)
      BY <2>4 DEF AdvanceQuery
    <3> QED
      BY <3>1 DEF Goto, Emit, Idle
  <2>5. CASE Scan
    BY <2>5 DEF Scan, Goto, Emit, Invalidate, Idle
  <2> QED
    BY <2>1, <2>2, <2>3, <2>4, <2>5
<1>6. ~ ReturnsSort /\ ~ ReturnsSort'
  BY <1>1, <1>3, <1>5 DEF Places, ReturnsSort
<1>7. DocumentShape' /\ Owners' /\ (doc' # None <=> doc # None)
  BY <1>1, <1>2, <1>4, <1>6, SameSortKeeps
<1>8. Places'
  BY <1>1, <1>3, <1>5, <1>7 DEF Places
<1> QED
  BY <1>7, <1>8 DEF WorkerPart

\* An open drops the old document, and its sort gives the permit back.
LEMMA OpenWorkerPart ==
    ASSUME WorkerPart, UNCHANGED otherSort, TakeOpen \/ Open
    PROVE  WorkerPart'
<1>1. DocumentShape /\ Places /\ Owners
  BY DEF WorkerPart
<1>2. ~ ReturnsSort
  BY <1>1 DEF TakeOpen, Open, TakeCommand, WorkerAt, Places, ReturnsSort
<1>3. CASE TakeOpen
  <2>1. /\ doc' = None /\ Release(doc) /\ w.pc = "opens"
        /\ w' = [w EXCEPT !.pc = "open", !.cmd = Taken(box.opens)]
    BY <1>3 DEF TakeOpen, TakeCommand, WorkerAt
  <2>2. DocumentShape' /\ Places' /\ ~ Holds(doc)' /\ ~ ReturnsSort'
    BY <1>1, <2>1 DEF DocumentShape, Places, Holds, ReturnsSort
  <2>3. Owners'
    BY <1>1, <1>2, <2>1, <2>2, ReleaseKeeps
  <2> QED
    BY <2>2, <2>3 DEF WorkerPart
<1>4. CASE Open
  <2>1. doc = None /\ permit' = permit /\ w.pc = "open"
    BY <1>1, <1>4 DEF Open, WorkerAt, Places
  <2>2. /\ doc' = None \/ doc' = Opened(w.cmd.serial)
        /\ \/ Goto("drain")
           \/ \E e : Emit(e, "drain", TRUE)
           \/ \E e : Invalidate(e)
    BY <1>4, <2>1 DEF Open
  <2>3. DocumentShape' /\ ~ Holds(doc) /\ ~ Holds(doc)'
    BY <2>1, <2>2 DEF Opened, DocumentShape, Holds, None
  <2>4. Places' /\ ~ ReturnsSort'
    <3>1. /\ {"pc", "cmd", "out", "next", "strict"} \subseteq DOMAIN w'
          /\ w'.next = "drain" /\ w'.pc \in {"drain", "emit", "forget_active"}
      BY <2>2 DEF Goto, Emit, Invalidate, Idle
    <3> QED
      BY <3>1 DEF Places, ReturnsSort
  <2>5. Owners'
    BY <1>1, <1>2, <2>1, <2>3, <2>4 DEF Owners
  <2> QED
    BY <2>3, <2>4, <2>5 DEF WorkerPart
<1> QED
  BY <1>3, <1>4

\* The document once its sort has ended.
SortOver ==
    /\ {"sort", "sortState"} \subseteq DOMAIN doc' /\ doc'.sort = None
    /\ "serial" \in DOMAIN doc'.sortState
    /\ doc'.sortState.serial = doc.sortState.serial

\* The ways a handler ends the sort: cancelled, failed, or its order committed.
LEMMA EndsSort ==
    ASSUME DocumentShape, doc # None, NEW phase, NEW order, NEW lost,
           \/ doc' = SortEnds(doc, phase)
           \/ doc' = [SortEnds(doc, phase) EXCEPT !.lost = lost]
           \/ doc' = Ordered(doc, order)
    PROVE  SortOver
<1>1. {"sort", "sortState"} \subseteq DOMAIN doc /\ "serial" \in DOMAIN doc.sortState
  BY DEF DocumentShape
<1> DEFINE ended == SortEnds(doc, phase)
           ordered == SortEnds(doc, "Complete")
<1>2. /\ {"sort", "sortState"} \subseteq DOMAIN ended /\ ended.sort = None
      /\ "serial" \in DOMAIN ended.sortState
      /\ ended.sortState.serial = doc.sortState.serial
  BY <1>1 DEF SortEnds
<1>3. /\ {"sort", "sortState"} \subseteq DOMAIN ordered /\ ordered.sort = None
      /\ "serial" \in DOMAIN ordered.sortState
      /\ ordered.sortState.serial = doc.sortState.serial
  BY <1>1 DEF SortEnds
<1> HIDE DEF ended, ordered
<1>4. CASE doc' = ended
  BY <1>2, <1>4 DEF SortOver
<1>5. CASE doc' = [ended EXCEPT !.lost = lost]
  BY <1>2, <1>5 DEF SortOver
<1>6. CASE doc' = [ordered EXCEPT !.order = order, !.reveal = NoRow,
                                  !.rows = [order |-> order, first |-> 0]]
  BY <1>3, <1>6 DEF SortOver
<1> QED
  BY <1>4, <1>5, <1>6 DEF ended, ordered, Ordered

\* A document whose sort has ended has no permit.
LEMMA SortOverFacts ==
    ASSUME SortOver
    PROVE  DocumentShape' /\ doc' # None /\ ~ Holds(doc)'
BY DEF SortOver, DocumentShape, Holds, None

\* Where the handlers of a sort continue.
LEMMA AfterSortNext ==
    ASSUME NEW d
    PROVE  AfterSort(d) \in {"drain", "query", "scan", "wait"}
BY DEF AfterSort

\* Where the thread is once a handler has an event to send.
LEMMA EmitShape ==
    ASSUME NEW e, NEW next, NEW strict, Emit(e, next, strict)
    PROVE  /\ {"pc", "cmd", "out", "next", "strict"} \subseteq DOMAIN w'
           /\ w'.pc = "emit" /\ w'.next = next /\ w'.strict = strict
BY DEF Emit, Idle

\* A new request replaces the sort: its serial comes from the mailbox.
LEMMA TakeSortWorkerPart ==
    ASSUME WorkerPart, BoxRule, UNCHANGED otherSort, TakeSort
    PROVE  WorkerPart'
<1>1. DocumentShape /\ Places /\ Owners /\ w.pc = "sorts" /\ ~ ReturnsSort
  BY DEF WorkerPart, TakeSort, TakeCommand, WorkerAt, Places, ReturnsSort
<1> DEFINE command == Taken(box.sorts)
           stale == \/ doc = None \/ doc.serial # command.document
                    \/ latestSort # command.serial
<1>2. CASE stale
  <2>1. UNCHANGED <<doc, permit>> /\ Goto("drain")
    BY <1>2 DEF TakeSort
  <2>2. Places' /\ ~ ReturnsSort'
    BY <2>1 DEF Goto, Idle, Places, ReturnsSort
  <2> QED
    BY <1>1, <2>1, <2>2, MovesKeep
<1>3. CASE ~ stale
  <2>1. doc # None /\ Release(doc) /\ command.serial # 0
    BY <1>3 DEF TakeSort, TakeCommand, BoxRule
  <2> DEFINE state == [serial |-> command.serial, key |-> command.key,
                       phase |-> "Extracting"]
             new == [serial |-> command.serial, key |-> command.key,
                     gen |-> command.gen, permit |-> FALSE, session |-> FALSE,
                     left |-> ScanSteps]
             sort == IF command.key = SourceOrder THEN None ELSE new
  <2>2. /\ doc' = [doc EXCEPT !.reveal = NoRow, !.sortState = state, !.sort = sort]
        /\ IF command.key = SourceOrder
           THEN w' = [w EXCEPT !.pc = "restore", !.cmd = [gen |-> gen["view"]]]
           ELSE \E e : Emit(e, "drain", FALSE)
    BY <1>3 DEF TakeSort
  <2>3. {"sort", "sortState"} \subseteq DOMAIN doc
    BY <1>1, <2>1 DEF DocumentShape
  <2> HIDE DEF command
  <2>4. /\ {"sort", "sortState"} \subseteq DOMAIN doc'
        /\ "serial" \in DOMAIN doc'.sortState
        /\ doc'.sortState.serial = command.serial
        /\ \/ doc'.sort = None
           \/ /\ {"serial", "permit"} \subseteq DOMAIN doc'.sort
              /\ doc'.sort.serial = command.serial
              /\ doc'.sort.permit = FALSE
        /\ command.key = SourceOrder => doc'.sort = None
    BY <2>2, <2>3
  <2>5. DocumentShape' /\ doc' # None /\ ~ Holds(doc)'
    BY <2>1, <2>4 DEF DocumentShape, Holds, None
  <2>6. /\ {"pc", "cmd", "out", "next", "strict"} \subseteq DOMAIN w'
        /\ w'.next = w.next \/ w'.next = "drain"
        /\ w'.pc = "emit" \/ (w'.pc = "restore" /\ doc'.sort = None)
    <3>1. {"pc", "cmd", "out", "next", "strict"} \subseteq DOMAIN w
      BY <1>1 DEF Places
    <3>2. CASE command.key = SourceOrder
      BY <2>2, <2>4, <3>1, <3>2
    <3>3. CASE command.key # SourceOrder
      <4>1. PICK e : Emit(e, "drain", FALSE)
        BY <2>2, <3>3
      <4> QED
        BY <4>1, EmitShape
    <3> QED
      BY <3>2, <3>3
  <2>7. Places' /\ ~ ReturnsSort'
    BY <1>1, <2>5, <2>6 DEF Places, ReturnsSort
  <2>8. Owners'
    BY <1>1, <2>1, <2>5, <2>7, ReleaseKeeps
  <2> QED
    BY <2>5, <2>7, <2>8 DEF WorkerPart
<1> QED
  BY <1>2, <1>3

\* Back to source order: no sort, no permit.
LEMMA RestoreWorkerPart ==
    ASSUME WorkerPart, UNCHANGED otherSort, Restore
    PROVE  WorkerPart'
<1>1. /\ DocumentShape /\ Places /\ Owners /\ w.pc = "restore" /\ ~ ReturnsSort
      /\ doc # None /\ doc.sort = None /\ ~ Holds(doc) /\ permit' = permit
  BY DEF WorkerPart, Restore, WorkerAt, Places, ReturnsSort, Holds
<1>2. SortOver
  <2>1. \/ doc' = Ordered(doc, SourceOrder)
        \/ doc' = SortEnds(doc, "Cancelled")
        \/ \E lost : doc' = [SortEnds(doc, "Cancelled") EXCEPT !.lost = lost]
    BY DEF Restore, TellSort, SortEnds
  <2> QED
    BY <1>1, <2>1, EndsSort
<1>3. \E e : Emit(e, "drain", FALSE)
  BY DEF Restore, TellSort
<1>4. Places' /\ ~ ReturnsSort'
  BY <1>3 DEF Emit, Idle, Places, ReturnsSort
<1>5. DocumentShape' /\ ~ Holds(doc)'
  BY <1>2, SortOverFacts
<1>6. Owners'
  BY <1>1, <1>4, <1>5 DEF Owners
<1> QED
  BY <1>4, <1>5, <1>6 DEF WorkerPart

\* The permit is taken when nobody has it, and kept with the sort.
LEMMA AdvanceSortWorkerPart ==
    ASSUME WorkerPart, UNCHANGED otherSort, AdvanceSort
    PROVE  WorkerPart'
<1>1. /\ DocumentShape /\ Places /\ Owners /\ w.pc = "sort" /\ ~ ReturnsSort
      /\ doc # None /\ doc.sort # None
  BY DEF WorkerPart, AdvanceSort, WorkerAt, Places, ReturnsSort
<1>2. CASE Release(doc) /\ ReportSort(SortEnds(doc, "Cancelled"))
  <2>1. SortOver
    BY <1>1, <1>2 DEF ReportSort, TellSort, SortEnds, SortOver, DocumentShape
  <2>2. \E e, d : Emit(e, AfterSort(d), FALSE)
    BY <1>2 DEF ReportSort, TellSort
  <2>3. DocumentShape' /\ doc' # None /\ ~ Holds(doc)'
    BY <2>1, SortOverFacts
  <2>4. Places' /\ ~ ReturnsSort'
    BY <2>2, <2>3, AfterSortNext DEF Emit, Idle, Places, ReturnsSort
  <2>5. Owners'
    BY <1>1, <1>2, <2>3, <2>4, ReleaseKeeps
  <2> QED
    BY <2>3, <2>4, <2>5 DEF WorkerPart
<1>3. CASE Goto(AfterSort(doc)) /\ UNCHANGED <<doc, permit>>
  <2>1. Places' /\ ~ ReturnsSort'
    BY <1>1, <1>3, AfterSortNext DEF Goto, Idle, Places, ReturnsSort
  <2> QED
    BY <1>1, <1>3, <2>1, MovesKeep
<1>4. CASE /\ doc.sort.permit \/ permit = 0
           /\ permit' = IF doc.sort.permit THEN permit ELSE doc.sort.serial
           /\ doc' = [doc EXCEPT !.sort.permit = TRUE]
           /\ Goto("sort_step")
  <2>1. /\ {"sort", "sortState"} \subseteq DOMAIN doc'
        /\ doc'.sortState = doc.sortState
        /\ {"serial", "permit"} \subseteq DOMAIN doc'.sort
        /\ doc'.sort.serial = doc.sort.serial /\ doc'.sort.permit = TRUE
    BY <1>1, <1>4 DEF DocumentShape
  <2>2. DocumentShape' /\ Holds(doc)'
    BY <1>1, <2>1 DEF DocumentShape, Holds, None
  <2>3. Places' /\ ~ ReturnsSort'
    BY <1>4, <2>2 DEF Goto, Idle, Places, ReturnsSort
  <2>4. permit' = doc.sort.serial /\ otherSort = 0
    BY <1>1, <1>4 DEF Owners, Holds
  <2>5. Owners'
    BY <2>1, <2>2, <2>3, <2>4 DEF Owners
  <2> QED
    BY <2>2, <2>3, <2>5 DEF WorkerPart
<1> QED
  BY <1>2, <1>3, <1>4 DEF AdvanceSort

\* The document while its sort goes on with the permit.
SortHeld ==
    /\ {"sort", "sortState"} \subseteq DOMAIN doc'
    /\ "serial" \in DOMAIN doc'.sortState
    /\ doc'.sortState.serial = doc.sortState.serial
    /\ {"serial", "permit"} \subseteq DOMAIN doc'.sort
    /\ doc'.sort.serial = doc.sort.serial /\ doc'.sort.permit = TRUE

\* Such a document keeps the permit.
LEMMA SortHeldFacts ==
    ASSUME DocumentShape, Owners, Holds(doc), SortHeld, ~ ReturnsSort',
           UNCHANGED <<permit, otherSort>>
    PROVE  DocumentShape' /\ doc' # None /\ Holds(doc)' /\ Owners'
<1>1. doc' # None /\ doc'.sort # None
  BY DEF SortHeld, None
<1>2. DocumentShape' /\ Holds(doc)'
  BY <1>1 DEF SortHeld, DocumentShape, Holds
<1> QED
  BY <1>1, <1>2 DEF SortHeld, Owners, Holds

\* The ways a step of the sort leaves it running.
LEMMA SortProgress ==
    ASSUME DocumentShape, Holds(doc), NEW left, NEW phase,
           \/ doc' = [doc EXCEPT !.sort.session = TRUE,
                                 !.sortState.phase = phase]
           \/ doc' = [doc EXCEPT !.sort.session = TRUE, !.sort.left = left,
                                 !.sortState.phase = phase]
    PROVE  SortHeld
<1>1. /\ {"sort", "sortState"} \subseteq DOMAIN doc
      /\ "serial" \in DOMAIN doc.sortState
      /\ {"serial", "permit"} \subseteq DOMAIN doc.sort /\ doc.sort.permit = TRUE
  BY DEF DocumentShape, Holds
<1>2. CASE doc' = [doc EXCEPT !.sort.session = TRUE, !.sortState.phase = phase]
  BY <1>1, <1>2 DEF SortHeld
<1>3. CASE doc' = [doc EXCEPT !.sort.session = TRUE, !.sort.left = left,
                              !.sortState.phase = phase]
  BY <1>1, <1>3 DEF SortHeld
<1> QED
  BY <1>2, <1>3

\* A step of the sort keeps the permit; a failure gives it back.
LEMMA SortStepWorkerPart ==
    ASSUME WorkerPart, UNCHANGED otherSort, SortStep
    PROVE  WorkerPart'
<1>1. /\ DocumentShape /\ Places /\ Owners /\ w.pc = "sort_step" /\ ~ ReturnsSort
      /\ Holds(doc) /\ doc # None
  BY DEF WorkerPart, SortStep, WorkerAt, Places, ReturnsSort, Holds
<1>2. \/ /\ SortHeld /\ permit' = permit
         /\ \/ Goto("finish_sort")
            \/ \E d : Goto(AfterSort(d))
            \/ \E d, e : Emit(e, AfterSort(d), FALSE)
      \/ /\ SortOver /\ Release(doc)
         /\ \E d, e : Emit(e, AfterSort(d), FALSE)
  BY <1>1, SortProgress, EndsSort DEF SortStep, ReportSort, TellSort
<1>3. CASE /\ SortHeld /\ permit' = permit
           /\ \/ Goto("finish_sort")
              \/ \E d : Goto(AfterSort(d))
              \/ \E d, e : Emit(e, AfterSort(d), FALSE)
  <2>1. /\ {"pc", "cmd", "out", "next", "strict"} \subseteq DOMAIN w'
        /\ \/ w'.pc = "emit" /\ w'.next \in {"drain", "query", "scan", "wait"}
           \/ /\ w'.next = "drain"
              /\ w'.pc \in {"finish_sort", "drain", "query", "scan", "wait"}
    BY <1>3, EmitShape, AfterSortNext DEF Goto, Idle
  <2>2. ~ ReturnsSort'
    BY <2>1 DEF ReturnsSort
  <2>3. DocumentShape' /\ doc' # None /\ Holds(doc)' /\ Owners'
    BY <1>1, <1>3, <2>2, SortHeldFacts
  <2>4. Places'
    BY <2>1, <2>3 DEF Places
  <2> QED
    BY <2>3, <2>4 DEF WorkerPart
<1>4. CASE /\ SortOver /\ Release(doc)
           /\ \E d, e : Emit(e, AfterSort(d), FALSE)
  <2>1. /\ {"pc", "cmd", "out", "next", "strict"} \subseteq DOMAIN w'
        /\ w'.pc = "emit" /\ w'.next \in {"drain", "query", "scan", "wait"}
    BY <1>4, EmitShape, AfterSortNext
  <2>2. DocumentShape' /\ doc' # None /\ ~ Holds(doc)'
    BY <1>4, SortOverFacts
  <2>3. Places' /\ ~ ReturnsSort'
    BY <2>1, <2>2 DEF Places, ReturnsSort
  <2>4. Owners'
    BY <1>1, <1>4, <2>2, <2>3, ReleaseKeeps
  <2> QED
    BY <2>2, <2>3, <2>4 DEF WorkerPart
<1> QED
  BY <1>2, <1>3, <1>4

\* complete_sort: the permit outlives the sort, until the function returns.
LEMMA EndSortWorkerPart ==
    ASSUME DocumentShape, Places, Owners, ~ ReturnsSort, Holds(doc), SortOver,
           UNCHANGED <<permit, otherSort>>, NEW e, Emit(e, "return_sort", FALSE)
    PROVE  WorkerPart'
<1>1. /\ {"pc", "cmd", "out", "next", "strict"} \subseteq DOMAIN w'
      /\ w'.pc = "emit" /\ w'.next = "return_sort" /\ w'.strict = FALSE
  BY EmitShape
<1>2. DocumentShape' /\ doc' # None /\ ~ Holds(doc)'
  BY SortOverFacts
<1>3. /\ permit = doc.sort.serial /\ otherSort = 0 /\ doc.sort.serial # 0
      /\ doc.sortState.serial = doc.sort.serial
  BY DEF Owners, DocumentShape, Holds
<1>4. doc'.sort = None /\ doc'.sortState.serial = doc.sortState.serial
  BY DEF SortOver
<1>5. Places' /\ ReturnsSort'
  BY <1>1, <1>2 DEF Places, ReturnsSort
<1>6. Owners'
  BY <1>2, <1>3, <1>4, <1>5 DEF Owners
<1> QED
  BY <1>2, <1>5, <1>6 DEF WorkerPart

\* complete_sort up to its event: a step further with the permit, or the end.
LEMMA CompleteSortWorkerPart ==
    ASSUME WorkerPart, UNCHANGED otherSort,
           FinishSort \/ PrepareSort \/ CommitSort
    PROVE  WorkerPart'
<1>1. /\ DocumentShape /\ Places /\ Owners /\ ~ ReturnsSort
      /\ w.pc \in {"finish_sort", "prepare", "commit"} /\ permit' = permit
  BY DEF WorkerPart, FinishSort, PrepareSort, CommitSort, WorkerAt, Places,
         ReturnsSort
<1>2. Holds(doc) /\ doc # None
  BY <1>1 DEF Places, Holds
<1>3. CASE doc' = doc /\ \E c : w' = [w EXCEPT !.pc = "prepare", !.cmd = c]
  <2>1. Places' /\ ~ ReturnsSort'
    BY <1>1, <1>2, <1>3 DEF Places, ReturnsSort, Holds
  <2> QED
    BY <1>1, <1>3, <2>1, MovesKeep
<1>4. CASE doc' = doc /\ w' = [w EXCEPT !.pc = "commit"]
  <2>1. Places' /\ ~ ReturnsSort'
    BY <1>1, <1>2, <1>4 DEF Places, ReturnsSort, Holds
  <2> QED
    BY <1>1, <1>4, <2>1, MovesKeep
<1>5. ASSUME NEW order, NEW lost, NEW d, EndSort(d),
             \/ d = SortEnds(doc, "Cancelled")
             \/ d = [SortEnds(doc, "Cancelled") EXCEPT !.lost = lost]
             \/ d = Ordered(doc, order)
      PROVE  WorkerPart'
  <2>1. doc' = d /\ \E e : Emit(e, "return_sort", FALSE)
    BY <1>5 DEF EndSort, TellSort
  <2>2. SortOver
    BY <1>1, <1>2, <1>5, <2>1, EndsSort
  <2> QED
    BY <1>1, <1>2, <2>1, <2>2, EndSortWorkerPart
<1>6. CASE FinishSort
  BY <1>3, <1>5, <1>6 DEF FinishSort
<1>7. CASE PrepareSort
  BY <1>4, <1>5, <1>7 DEF PrepareSort, Then
<1>8. CASE CommitSort
  BY <1>5, <1>8 DEF CommitSort
<1> QED
  BY <1>6, <1>7, <1>8

\* complete_sort returns: the permit it held is dropped.
LEMMA ReturnSortWorkerPart ==
    ASSUME WorkerPart, UNCHANGED otherSort, ReturnSort
    PROVE  WorkerPart'
<1>1. DocumentShape /\ Places /\ Owners /\ ReturnsSort /\ doc' = doc
  BY DEF WorkerPart, ReturnSort, WorkerAt, ReturnsSort
<1>2. permit' = 0 /\ otherSort = 0 /\ doc # None /\ doc.sort = None
  BY <1>1 DEF ReturnSort, Owners
<1>3. Places' /\ ~ ReturnsSort'
  BY <1>1, <1>2, AfterSortNext DEF ReturnSort, Goto, Idle, Places, ReturnsSort
<1>4. DocumentShape' /\ Owners'
  BY <1>1, <1>2, <1>3 DEF DocumentShape, Owners, Holds
<1> QED
  BY <1>3, <1>4 DEF WorkerPart

-----------------------------------------------------------------------------
(* Every step preserves the invariant, and the theorem.                    *)

\* Every step of the worker thread preserves the invariant.
LEMMA WorkerStepIInv ==
    ASSUME IInv, WorkerStep
    PROVE  IInv'
<1>1. WorkerPart /\ BoxRule /\ UNCHANGED otherSort
  BY DEF IInv, UIPart, WorkerStep
<1>2. CASE \/ Drain \/ NothingIn("opens", "viewports")
           \/ NothingIn("viewports", "queries") \/ NothingIn("queries", "sorts")
           \/ NothingIn("sorts", Turn(doc)) \/ ForgetActiveDocument
           \/ CancelDocumentQuery \/ ForgetDocumentQuery \/ TakeDocumentQuery
           \/ EventRankFails \/ EmitCheck \/ WakeUI
  BY <1>1, <1>2, MoveWorkerPart, WorkerUIPart DEF IInv
<1>3. CASE Wait \/ SendEvent
  BY <1>1, <1>3, EndWorkerPart, WorkerUIPart DEF IInv
<1>4. CASE TakeViewport \/ Viewport \/ TakeQuery \/ AdvanceQuery \/ Scan
  BY <1>1, <1>4, DocumentWorkerPart, WorkerUIPart DEF IInv
<1>5. CASE TakeOpen \/ Open
  BY <1>1, <1>5, OpenWorkerPart, WorkerUIPart DEF IInv
<1>6. CASE TakeSort
  BY <1>1, <1>6, TakeSortWorkerPart, WorkerUIPart DEF IInv
<1>7. CASE Restore
  BY <1>1, <1>7, RestoreWorkerPart, WorkerUIPart DEF IInv
<1>8. CASE AdvanceSort
  BY <1>1, <1>8, AdvanceSortWorkerPart, WorkerUIPart DEF IInv
<1>9. CASE SortStep
  BY <1>1, <1>9, SortStepWorkerPart, WorkerUIPart DEF IInv
<1>10. CASE FinishSort \/ PrepareSort \/ CommitSort
  BY <1>1, <1>10, CompleteSortWorkerPart, WorkerUIPart DEF IInv
<1>11. CASE ReturnSort
  BY <1>1, <1>11, ReturnSortWorkerPart, WorkerUIPart DEF IInv
<1> QED
  BY <1>2, <1>3, <1>4, <1>5, <1>6, <1>7, <1>8, <1>9, <1>10, <1>11 DEF WorkerStep

\* Nothing changes: so does the invariant.
LEMMA StutterIInv ==
    ASSUME IInv, UNCHANGED vars
    PROVE  IInv'
<1>1. /\ UNCHANGED <<doc, w, permit, otherSort>>
      /\ UNCHANGED <<nextSort, ui, latestSort, box>>
  BY DEF vars, shared, sorting, uiVars
<1>2. WorkerPart'
  BY <1>1, WorkerPartUnchanged DEF IInv
<1> QED
  BY <1>1, <1>2 DEF IInv, UIPart, CallRule, BoxRule

\* Every step does.
LEMMA StepIInv == IInv /\ [Next]_vars => IInv'
BY UICallIInv, UIStepIInv, OtherTabsIInv, WorkerStepIInv, StutterIInv DEF Next

\* One sort at a time in the process, and no permit is leaked: however calls,
\* cancellations, failures, closed mailboxes and other tabs interleave, the
\* permit of SortCoordinator names the sort that holds it, or nobody.
THEOREM PermitIsExclusive == Spec => []PermitExclusive
BY InitIInv, StepIInv, IInvPermitExclusive, PTL DEF Spec

-----------------------------------------------------------------------------
(* What the two threads tell one another.                                   *)

\* A mailbox holds one value at most.
BoxShape ==
    /\ DOMAIN box = Boxes
    /\ \A b \in Boxes :
          /\ {"pending", "closed"} \subseteq DOMAIN box[b]
          /\ IsEmpty(box[b]) \/ DOMAIN box[b].pending = {1}

-----------------------------------------------------------------------------
(* Rows and orders.                                                        *)

DocumentFields ==
    {"serial", "order", "rows", "sortState", "sort", "reveal", "scanned",
     "scanDone", "query", "lost"}

\* The rows a document has in its cache are rows of its order, and the sort
\* that runs is the one its sort state shows.
Fits(d) ==
    /\ DocumentFields \subseteq DOMAIN d
    /\ "order" \in DOMAIN d.rows /\ d.rows.order = d.order
    /\ d.sort # None =>
          /\ {"phase", "key"} \subseteq DOMAIN d.sortState
          /\ "key" \in DOMAIN d.sort
          /\ d.sortState.key = d.sort.key

\* An event carries rows of the order it names.
EventFits(e) ==
    e # None =>
        /\ {"rows", "committed", "failed", "phase"} \subseteq DOMAIN e
        /\ e.rows # None => e.rows.order = e.committed

DocPart ==
    /\ doc # None => Fits(doc)
    /\ w.pc = "restore" =>
          /\ {"phase", "key"} \subseteq DOMAIN doc.sortState
          /\ doc.sortState.key = SourceOrder

EventPart ==
    /\ \A i \in DOMAIN box["events"].pending :
          EventFits(box["events"].pending[i])
    /\ EventFits(w.out) /\ EventFits(shown)
    /\ "event" \in DOMAIN ui /\ EventFits(ui.event)

RowsPart == BoxShape /\ DocPart /\ EventPart

-----------------------------------------------------------------------------
(* Commands and signals.                                                   *)

CommandBoxes == {"opens", "viewports", "queries", "sorts"}

SendSteps ==
    {"send_open", "send_viewport", "send_sort", "send_query", "send_navigate"}

\* Steps after which a call may return early, or that are no call at all.
EarlyReturns == {"check_active", "check_query", "poll", "judge"}

\* Every command is followed by its signal, and the signals are closed on the
\* way to the join.
SignalRule(todo) ==
    \A i \in 1 .. Len(todo) :
        /\ todo[i] \in SendSteps =>
              i + 1 \in 1 .. Len(todo) /\ todo[i + 1] = "signal"
        /\ todo[i] = "close_signals" =>
              i + 2 \in 1 .. Len(todo) /\ todo[i + 2] = "join"
        /\ todo[i] \in EarlyReturns =>
              \A j \in 1 .. Len(todo) : todo[j] # "join"

\* The tab is closing, or closed.
Dropping == ui.dropped \/ \E i \in 1 .. Len(ui.todo) : ui.todo[i] = "join"

\* The mailboxes the thread has found empty since it last took a signal.
PassedAt(pc) ==
    CASE pc = "viewports" -> {"opens"}
      [] pc = "queries" -> {"opens", "viewports"}
      [] pc = "sorts" -> {"opens", "viewports", "queries"}
      [] pc \in {"wait", "sort", "sort_step", "finish_sort", "prepare",
                 "commit", "return_sort"} -> CommandBoxes
      [] OTHER -> {}

Passed == PassedAt(w.pc) \cup PassedAt(w.next)

\* A command the thread will come back for.
Heard(b) ==
    IsEmpty(box[b]) \/ ~ IsEmpty(box["signals"]) \/ At("signal") \/ Dropping

SignalPart ==
    /\ {"todo", "dropped"} \subseteq DOMAIN ui
    /\ ui.todo \in Seq(StepNames) /\ SignalRule(ui.todo)
    /\ ui.dropped => ui.todo = <<>> /\ w.pc = "exited"
    /\ box["signals"].closed => Dropping
    /\ \A b \in Passed : Heard(b)

\* An event in the mailbox has a message on its way, or a poll under way.
WakePart ==
    ~ IsEmpty(box["events"]) => wake \/ w.pc = "wake_ui" \/ At("poll")

\* Where the thread is about to sleep, it has nothing left to do.
SleepPart ==
    (w.pc = "wait" \/ w.next = "wait") /\ doc # None =>
        doc.scanDone /\ doc.sort = None /\ ~ HasDemand(doc)

MailInv == RowsPart /\ SignalPart /\ WakePart /\ SleepPart

-----------------------------------------------------------------------------
(* Mailboxes.                                                              *)

\* Every call on a mailbox leaves one value at most.
LEMMA CallsKeepBoxShape ==
    ASSUME BoxShape, NEW b \in Boxes, NEW v,
           \/ box' = [box EXCEPT ![b] = Take(@)]
           \/ box' = [box EXCEPT ![b] = Close(@)]
           \/ box' = [box EXCEPT ![b] = Send(@, v)]
    PROVE  BoxShape'
<1>1. DOMAIN <<v>> = {1}
  OBVIOUS
<1>2. DOMAIN box' = Boxes
  BY DEF BoxShape
<1>3. /\ {"pending", "closed"} \subseteq DOMAIN box'[b]
      /\ IsEmpty(box'[b]) \/ DOMAIN box'[b].pending = {1}
  BY <1>1 DEF BoxShape, Take, Close, Send, IsEmpty
<1>4. \A c \in Boxes : c # b => box'[c] = box[c]
  BY DEF BoxShape
<1> QED
  BY <1>2, <1>3, <1>4 DEF BoxShape, IsEmpty

\* What a step of the UI thread does to the mailboxes.
LEMMA UIStepBoxes ==
    ASSUME UIStep
    PROVE  \/ box' = box
           \/ \E b \in Boxes : \E v :
                 \/ box' = [box EXCEPT ![b] = Take(@)]
                 \/ box' = [box EXCEPT ![b] = Close(@)]
                 \/ box' = [box EXCEPT ![b] = Send(@, v)]
<1>1. CASE SharedStep
  BY <1>1
  DEF SharedStep, CancelStep, BumpSerial, ForgetActive, ForgetQuery,
      ForgetSort, StoreQuery, CheckActive, CheckQuery, TakeStep, SendStep,
      CloseStep, shared, Boxes
<1>2. CASE StoreSort \/ CallPoll \/ PollTake \/ PollJudge \/ Join
  BY <1>2 DEF StoreSort, CallPoll, PollTake, PollJudge, Join, shared, Boxes
<1> QED
  BY <1>1, <1>2 DEF UIStep

\* What a step of the worker thread does to the mailboxes.
LEMMA WorkerStepBoxes ==
    ASSUME WorkerStep
    PROVE  \/ box' = box
           \/ \E b \in Boxes : box' = [box EXCEPT ![b] = Take(@)]
           \/ /\ SendEvent /\ ~ box["events"].closed
              /\ box' = [box EXCEPT !["events"] = Send(@, w.out)]
<1>1. CASE \/ Wait \/ Drain \/ TakeDocumentQuery \/ TakeOpen \/ TakeViewport
           \/ TakeQuery \/ TakeSort
  BY <1>1 DEF Wait, Drain, TakeDocumentQuery, TakeOpen, TakeViewport, TakeQuery,
              TakeSort, TakeCommand, Boxes
<1>2. CASE SendEvent
  BY <1>2 DEF SendEvent
<1>3. CASE \/ NothingIn("opens", "viewports") \/ NothingIn("viewports", "queries")
           \/ NothingIn("queries", "sorts") \/ NothingIn("sorts", Turn(doc))
           \/ Open \/ Viewport \/ Restore \/ ForgetActiveDocument
           \/ CancelDocumentQuery \/ ForgetDocumentQuery \/ AdvanceSort
           \/ SortStep \/ FinishSort \/ PrepareSort \/ CommitSort
           \/ ReturnSort \/ AdvanceQuery \/ Scan \/ EventRankFails
           \/ EmitCheck \/ WakeUI
  BY <1>3
  DEF NothingIn, Open, Viewport, Restore, ForgetActiveDocument,
      CancelDocumentQuery, ForgetDocumentQuery, AdvanceSort, SortStep,
      FinishSort, PrepareSort, CommitSort, ReturnSort, AdvanceQuery, Scan,
      EventRankFails, EmitCheck, WakeUI, shared
<1> QED
  BY <1>1, <1>2, <1>3 DEF WorkerStep

\* Calls that begin, other tabs and stuttering leave the mailboxes alone.
OtherStep == UICall \/ OtherAcquires \/ OtherReleases \/ UNCHANGED vars

\* What such a step leaves alone, and what it may change.
LEMMA OtherStepFrame ==
    ASSUME OtherStep
    PROVE  /\ UNCHANGED <<latestSort, box, wake, shown, doc, w>>
           /\ \/ UNCHANGED ui
              \/ /\ ui.todo = <<>> /\ ~ ui.dropped
                 /\ \E steps \in CallSteps : \E arg :
                       ui' = [ui EXCEPT !.todo = steps, !.arg = arg]
<1>1. ASSUME NEW call, NEW steps \in CallSteps, NEW arg, Begin(call, steps, arg)
      PROVE  /\ UNCHANGED <<latestSort, box, wake, shown, doc, w>>
             /\ ui.todo = <<>> /\ ~ ui.dropped
             /\ ui' = [ui EXCEPT !.todo = steps, !.arg = arg]
  BY <1>1 DEF Begin, shared
<1>2. /\ SubmitSteps \in CallSteps /\ ViewportSteps \in CallSteps
      /\ SortSteps \in CallSteps /\ CancelSortSteps \in CallSteps
      /\ QuerySteps \in CallSteps /\ NavigateSteps \in CallSteps
      /\ DropSteps \in CallSteps
  BY DEF CallSteps
<1>3. CASE UICall
  <2>1. \E call : \E steps \in CallSteps : \E arg : Begin(call, steps, arg)
    BY <1>2, <1>3
    DEF UICall, CallOpen, CallViewport, CallSourceRow, CallSort,
        CallCancelSort, CallQuery, CallNavigate, CallDrop
  <2> QED
    BY <1>1, <2>1
<1>4. CASE OtherAcquires \/ OtherReleases \/ UNCHANGED vars
  BY <1>4 DEF OtherAcquires, OtherReleases, vars, shared, uiVars
<1> QED
  BY <1>3, <1>4 DEF OtherStep

\* Every step keeps the mailboxes in shape.
LEMMA StepBoxShape == BoxShape /\ [Next]_vars => BoxShape'
<1> SUFFICES ASSUME BoxShape, [Next]_vars PROVE BoxShape'
  OBVIOUS
<1>1. CASE box' = box
  BY <1>1 DEF BoxShape
<1>2. CASE UIStep
  BY <1>1, <1>2, UIStepBoxes, CallsKeepBoxShape
<1>3. CASE WorkerStep
  <2>1. "events" \in Boxes
    BY DEF Boxes
  <2> QED
    BY <1>1, <1>3, <2>1, WorkerStepBoxes, CallsKeepBoxShape
<1>4. CASE OtherStep
  BY <1>1, <1>4, OtherStepFrame
<1> QED
  BY <1>2, <1>3, <1>4 DEF Next, OtherStep

-----------------------------------------------------------------------------
(* Documents and their events.                                             *)

\* The event of a document carries its rows and its order.
LEMMA EventOfFits ==
    ASSUME NEW d, Fits(d), NEW phase, NEW failed
    PROVE  EventFits(EventOf(d, phase, failed))
BY DEF Fits, EventFits, EventOf

\* The event of a file that could not be opened has no rows.
LEMMA FailedOpenFits ==
    ASSUME NEW serial PROVE EventFits(FailedOpen(serial))
BY DEF FailedOpen, EventFits, None

\* A document with the rows, the order and the sort of one that fits, fits.
SameView(d, e) ==
    /\ DOMAIN e = DOMAIN d
    /\ e.order = d.order /\ e.sort = d.sort /\ e.sortState = d.sortState
    /\ e.rows = d.rows

LEMMA SameViewFits ==
    ASSUME NEW d, NEW e, Fits(d), SameView(d, e)
    PROVE  Fits(e) /\ e.order = d.order
BY DEF Fits, SameView

\* The handlers of viewports, searches and the scan change neither.
OtherFields(d, e) ==
    \/ \E r : e = [d EXCEPT !.reveal = r]
    \/ \E q : e = [d EXCEPT !.query = q]
    \/ \E q, l : e = [d EXCEPT !.query = q, !.lost = l]
    \/ \E n, b : e = [d EXCEPT !.scanned = n, !.scanDone = b]
    \/ \E b, q, l : e = [d EXCEPT !.scanDone = b, !.query = q, !.lost = l]

LEMMA HandlersKeepView ==
    ASSUME NEW d, Fits(d), NEW e, OtherFields(d, e)
    PROVE  Fits(e) /\ e.order = d.order
<1>1. DocumentFields \subseteq DOMAIN d
  BY DEF Fits
<1>2. SameView(d, e)
  BY <1>1 DEF SameView, DocumentFields, OtherFields
<1> QED
  BY <1>2, SameViewFits

\* A sort that ends keeps rows and order; the order of a sort that completes
\* comes with its rows.
LEMMA SortEndsFits ==
    ASSUME NEW d, Fits(d), NEW phase
    PROVE  /\ Fits(SortEnds(d, phase)) /\ SortEnds(d, phase).order = d.order
           /\ SortEnds(d, phase).sort = None
           /\ "phase" \in DOMAIN d.sortState =>
                 SortEnds(d, phase).sortState.phase = phase
           /\ "key" \in DOMAIN d.sortState =>
                 SortEnds(d, phase).sortState.key = d.sortState.key
           /\ "serial" \in DOMAIN d.sortState =>
                 SortEnds(d, phase).sortState.serial = d.sortState.serial
<1>1. DocumentFields \subseteq DOMAIN d
  BY DEF Fits
<1> DEFINE e == SortEnds(d, phase)
<1>2. /\ DOMAIN e = DOMAIN d /\ e.rows = d.rows /\ e.order = d.order
      /\ e.sort = None
      /\ e.sortState = [d.sortState EXCEPT !.phase = phase]
  BY <1>1 DEF SortEnds, DocumentFields
<1> HIDE DEF e
<1>3. Fits(e)
  BY <1>2 DEF Fits
<1> QED
  BY <1>2, <1>3 DEF e

LEMMA OrderedFits ==
    ASSUME NEW d, Fits(d), NEW order, {"phase", "key"} \subseteq DOMAIN d.sortState
    PROVE  /\ Fits(Ordered(d, order)) /\ Ordered(d, order).order = order
           /\ Ordered(d, order).sort = None
           /\ Ordered(d, order).sortState.phase = "Complete"
           /\ Ordered(d, order).sortState.key = d.sortState.key
           /\ "serial" \in DOMAIN d.sortState =>
                 Ordered(d, order).sortState.serial = d.sortState.serial
<1> DEFINE e == SortEnds(d, "Complete")
           f == Ordered(d, order)
           rows == [order |-> order, first |-> 0]
<1>1. /\ Fits(e) /\ e.sort = None /\ e.sortState.phase = "Complete"
      /\ e.sortState.key = d.sortState.key
      /\ "serial" \in DOMAIN d.sortState => e.sortState.serial = d.sortState.serial
  BY SortEndsFits
<1>2. f = [e EXCEPT !.order = order, !.reveal = NoRow, !.rows = rows]
  BY DEF Ordered
<1> HIDE DEF e, f
<1>3. DocumentFields \subseteq DOMAIN e
  BY <1>1 DEF Fits
<1>4. /\ DOMAIN f = DOMAIN e /\ f.order = order /\ f.rows = rows
      /\ f.sort = e.sort /\ f.sortState = e.sortState
  BY <1>2, <1>3 DEF DocumentFields
<1>5. Fits(f)
  BY <1>1, <1>4 DEF Fits
<1> QED
  BY <1>1, <1>4, <1>5 DEF f

-----------------------------------------------------------------------------
(* What the handlers leave behind.                                         *)

\* A document that fits, in the order it had, and an event that fits.
ViewKept ==
    /\ doc' # None => Fits(doc')
    /\ doc # None /\ doc' # None => doc'.order = doc.order
    /\ EventFits(w'.out)
    /\ w'.pc # "restore"

\* The ends of a handler.
LEMMA GotoOut ==
    ASSUME NEW pc, Goto(pc)
    PROVE  w'.out = None /\ w'.pc = pc /\ w'.next = "drain"
BY DEF Goto, Idle

LEMMA EmitOut ==
    ASSUME NEW e, NEW next, NEW strict, Emit(e, next, strict)
    PROVE  w'.out = e /\ w'.pc = "emit" /\ w'.next = next
BY DEF Emit, Idle

LEMMA InvalidateOut ==
    ASSUME NEW e, Invalidate(e)
    PROVE  w'.out = e /\ w'.pc = "forget_active" /\ w'.next = "drain"
BY DEF Invalidate, Idle

\* Such an end, with the event of a document that fits or with none.
HandlerEnds ==
    \/ \E pc : Goto(pc) /\ pc # "restore"
    \/ \E d, phase, failed, next, strict :
          Fits(d) /\ Emit(EventOf(d, phase, failed), next, strict)
    \/ \E d, phase, failed : Fits(d) /\ Invalidate(EventOf(d, phase, failed))
    \/ \E serial : Invalidate(FailedOpen(serial))

LEMMA HandlerEndsOut ==
    ASSUME HandlerEnds PROVE EventFits(w'.out) /\ w'.pc # "restore"
<1>1. EventFits(None)
  BY DEF EventFits
<1>2. CASE \E pc : Goto(pc) /\ pc # "restore"
  BY <1>1, <1>2, GotoOut
<1>3. CASE \E d, phase, failed, next, strict :
              Fits(d) /\ Emit(EventOf(d, phase, failed), next, strict)
  BY <1>3, EmitOut, EventOfFits
<1>4. CASE \E d, phase, failed :
              Fits(d) /\ Invalidate(EventOf(d, phase, failed))
  BY <1>4, InvalidateOut, EventOfFits
<1>5. CASE \E serial : Invalidate(FailedOpen(serial))
  BY <1>5, InvalidateOut, FailedOpenFits
<1> QED
  BY <1>2, <1>3, <1>4, <1>5 DEF HandlerEnds

\* An open starts with rows in source order.
LEMMA OpensKeepView ==
    ASSUME Places, EventFits(w.out), TakeOpen \/ Open
    PROVE  ViewKept
<1>1. CASE TakeOpen
  BY <1>1 DEF TakeOpen, Places, ViewKept
<1>2. CASE Open
  <2>1. doc = None
    BY <1>2 DEF Open, WorkerAt, Places
  <2>2. Fits(Opened(w.cmd.serial))
    BY DEF Opened, Fits, DocumentFields
  <2>3. doc' = None \/ doc' = Opened(w.cmd.serial)
    BY <1>2, <2>1 DEF Open
  <2>4. HandlerEnds
    <3>1. CASE Goto("drain")
      BY <3>1 DEF HandlerEnds
    <3>2. CASE doc' = Opened(w.cmd.serial)
               /\ Emit(EventOf(doc', "ViewportReady", FALSE), "drain", TRUE)
      BY <2>2, <3>2 DEF HandlerEnds
    <3>3. CASE Invalidate(FailedOpen(w.cmd.serial))
      BY <3>3 DEF HandlerEnds
    <3> QED
      BY <1>2, <3>1, <3>2, <3>3 DEF Open
  <2> QED
    BY <2>1, <2>2, <2>3, <2>4, HandlerEndsOut DEF ViewKept
<1> QED
  BY <1>1, <1>2

\* A viewport replaces the rows by others of the same order.
LEMMA ViewportsKeepView ==
    ASSUME Places, DocPart, EventFits(w.out), TakeViewport \/ Viewport
    PROVE  ViewKept
<1>1. CASE TakeViewport
  <2>1. CASE doc' = doc /\ Goto("drain")
    BY <2>1, HandlerEndsOut DEF HandlerEnds, ViewKept, DocPart
  <2>2. CASE doc # None /\ \E r, c : /\ doc' = [doc EXCEPT !.reveal = r]
                                     /\ w' = [w EXCEPT !.pc = "viewport", !.cmd = c]
    <3>1. Fits(doc') /\ doc'.order = doc.order
      BY <2>2, HandlersKeepView DEF DocPart, OtherFields
    <3>2. w'.out = w.out /\ w'.pc = "viewport"
      BY <2>2 DEF Places
    <3> QED
      BY <3>1, <3>2 DEF ViewKept
  <2>3. CASE doc # None /\ /\ doc' = [doc EXCEPT !.reveal = NoRow]
                           /\ Emit(EventOf(doc', "Failed", TRUE), "drain", TRUE)
    <3>1. Fits(doc') /\ doc'.order = doc.order
      BY <2>3, HandlersKeepView DEF DocPart, OtherFields
    <3>2. HandlerEnds
      BY <2>3, <3>1 DEF HandlerEnds
    <3> QED
      BY <3>1, <3>2, HandlerEndsOut DEF ViewKept
  <2> QED
    BY <1>1, <2>1, <2>2, <2>3 DEF TakeViewport
<1>2. CASE Viewport
  <2>1. doc # None /\ Fits(doc)
    BY <1>2 DEF Viewport, WorkerAt, Places, DocPart
  <2>2. CASE doc' = doc /\ Goto("drain")
    BY <2>2, HandlerEndsOut DEF HandlerEnds, ViewKept, DocPart
  <2>3. ASSUME NEW read,
               read = [doc EXCEPT !.rows = [order |-> doc.order,
                                            first |-> w.cmd.row]],
               Emit(EventOf(read, "ViewportReady", FALSE), "drain", TRUE),
               doc' = [read EXCEPT !.reveal = NoRow]
        PROVE  ViewKept
    <3>1. Fits(read) /\ read.order = doc.order
      BY <2>1, <2>3 DEF Fits, DocumentFields
    <3>2. Fits(doc') /\ doc'.order = doc.order
      BY <2>3, <3>1, HandlersKeepView DEF OtherFields
    <3>3. HandlerEnds
      BY <2>3, <3>1 DEF HandlerEnds
    <3> QED
      BY <3>2, <3>3, HandlerEndsOut DEF ViewKept
  <2>4. ASSUME NEW lost, doc' = [doc EXCEPT !.query = None, !.lost = @ \/ lost],
               Invalidate(EventOf(doc', "Failed", TRUE))
        PROVE  ViewKept
    <3> DEFINE l == doc.lost \/ lost
    <3>0. doc' = [doc EXCEPT !.query = None, !.lost = l]
      BY <2>4
    <3> HIDE DEF l
    <3>1. Fits(doc') /\ doc'.order = doc.order
      BY <2>1, <3>0, HandlersKeepView DEF OtherFields
    <3>2. HandlerEnds
      BY <2>4, <3>1 DEF HandlerEnds
    <3> QED
      BY <3>1, <3>2, HandlerEndsOut DEF ViewKept
  <2> QED
    BY <1>2, <2>2, <2>3, <2>4 DEF Viewport
<1> QED
  BY <1>1, <1>2

\* A search and the scan show the rows that are there.
LEMMA SearchAndScanKeepView ==
    ASSUME Places, DocPart, EventFits(w.out), TakeQuery \/ AdvanceQuery \/ Scan
    PROVE  ViewKept
<1>1. CASE doc' = doc /\ Goto("drain")
  BY <1>1, HandlerEndsOut DEF HandlerEnds, ViewKept, DocPart
<1>2. ASSUME doc # None, OtherFields(doc, doc'), NEW phase, NEW failed,
             \/ Goto("drain")
             \/ Emit(EventOf(doc', phase, failed), "drain", TRUE)
             \/ Invalidate(EventOf(doc', phase, failed))
      PROVE  ViewKept
  <2>1. Fits(doc') /\ doc'.order = doc.order
    BY <1>2, HandlersKeepView DEF DocPart
  <2>2. HandlerEnds
    <3>1. CASE Goto("drain")
      BY <3>1 DEF HandlerEnds
    <3>2. CASE Emit(EventOf(doc', phase, failed), "drain", TRUE)
      BY <2>1, <3>2 DEF HandlerEnds
    <3>3. CASE Invalidate(EventOf(doc', phase, failed))
      BY <2>1, <3>3 DEF HandlerEnds
    <3> QED
      BY <1>2, <3>1, <3>2, <3>3
  <2> QED
    BY <2>1, <2>2, HandlerEndsOut DEF ViewKept
<1>3. CASE TakeQuery
  <2>1. \/ doc' = doc /\ Goto("drain")
        \/ /\ doc # None
           /\ \E q : doc' = [doc EXCEPT !.query = q]
           /\ Emit(EventOf(doc', Phase(doc), FALSE), "drain", TRUE)
    BY <1>3 DEF TakeQuery
  <2> QED
    BY <1>1, <1>2, <2>1 DEF OtherFields
<1>4. CASE AdvanceQuery
  <2>1. doc # None
    BY <1>4 DEF AdvanceQuery, WorkerAt, Places
  <2>2. /\ \E r : \/ doc' = [doc EXCEPT !.query = r]
                  \/ doc' = [doc EXCEPT !.query = r, !.lost = TRUE]
        /\ \/ Goto("drain")
           \/ Emit(EventOf(doc', Phase(doc), FALSE), "drain", TRUE)
    BY <1>4 DEF AdvanceQuery
  <2>3. OtherFields(doc, doc')
    BY <2>2 DEF OtherFields
  <2> QED
    BY <1>2, <2>1, <2>2, <2>3
<1>5. CASE Scan
  <2>1. doc # None
    BY <1>5 DEF Scan, WorkerAt, Places
  <2>2. CASE \E told \in BOOLEAN :
                LET d == [doc EXCEPT !.scanned = @ + 1,
                                     !.scanDone = doc.scanned + 1 = ScanSteps]
                IN  /\ doc' = d
                    /\ d.scanDone => told
                    /\ IF told THEN Emit(EventOf(d, Phase(d), FALSE), "drain", TRUE)
                               ELSE Goto("drain")
    <3> DEFINE n == doc.scanned + 1
               b == doc.scanned + 1 = ScanSteps
               d == [doc EXCEPT !.scanned = @ + 1,
                                !.scanDone = doc.scanned + 1 = ScanSteps]
    <3>1. d = [doc EXCEPT !.scanned = n, !.scanDone = b]
      OBVIOUS
    <3>2. /\ doc' = d
          /\ Emit(EventOf(d, Phase(d), FALSE), "drain", TRUE) \/ Goto("drain")
      BY <2>2
    <3> HIDE DEF n, b, d
    <3>3. OtherFields(doc, doc')
      BY <3>1, <3>2 DEF OtherFields
    <3> QED
      BY <1>2, <2>1, <3>2, <3>3
  <2>3. CASE \E lost \in BOOLEAN :
                /\ doc' = [doc EXCEPT !.scanDone = TRUE, !.query = None,
                                      !.lost = @ \/ lost]
                /\ Invalidate(EventOf(doc', "Failed", TRUE))
    <3>1. PICK lost \in BOOLEAN :
             /\ doc' = [doc EXCEPT !.scanDone = TRUE, !.query = None,
                                   !.lost = @ \/ lost]
             /\ Invalidate(EventOf(doc', "Failed", TRUE))
      BY <2>3
    <3> DEFINE l == doc.lost \/ lost
    <3>2. doc' = [doc EXCEPT !.scanDone = TRUE, !.query = None, !.lost = l]
      BY <3>1
    <3> HIDE DEF l
    <3>3. OtherFields(doc, doc')
      BY <3>2 DEF OtherFields
    <3> QED
      BY <1>2, <2>1, <3>1, <3>3
  <2> QED
    BY <1>5, <2>2, <2>3 DEF Scan
<1> QED
  BY <1>3, <1>4, <1>5

\* A sort that starts shows its own key; one back to source order waits for
\* the rows to be read.
LEMMA TakeSortKeepsView ==
    ASSUME Places, DocPart, EventFits(w.out), TakeSort
    PROVE  /\ DocPart' /\ EventFits(w'.out)
           /\ doc # None /\ doc' # None => doc'.order = doc.order
<1> DEFINE command == Taken(box.sorts)
           state == [serial |-> command.serial, key |-> command.key,
                     phase |-> "Extracting"]
           new == [serial |-> command.serial, key |-> command.key,
                   gen |-> command.gen, permit |-> FALSE, session |-> FALSE,
                   left |-> ScanSteps]
           sort == IF command.key = SourceOrder THEN None ELSE new
<1>1. CASE doc' = doc /\ Goto("drain")
  BY <1>1, HandlerEndsOut DEF HandlerEnds, DocPart
<1>2. CASE /\ doc # None
           /\ doc' = [doc EXCEPT !.reveal = NoRow, !.sortState = state, !.sort = sort]
           /\ IF command.key = SourceOrder
              THEN w' = [w EXCEPT !.pc = "restore", !.cmd = [gen |-> gen["view"]]]
              ELSE Emit(EventOf(doc', Phase(doc), FALSE), "drain", FALSE)
  <2>1. /\ sort # None => "key" \in DOMAIN sort /\ sort.key = state.key
        /\ {"phase", "key"} \subseteq DOMAIN state /\ state.key = command.key
    OBVIOUS
  <2>2. Fits(doc) /\ doc' = [doc EXCEPT !.reveal = NoRow, !.sortState = state,
                                        !.sort = sort]
    BY <1>2 DEF DocPart
  <2> HIDE DEF state, sort
  <2>3. /\ DOMAIN doc' = DOMAIN doc /\ doc'.order = doc.order
        /\ doc'.rows = doc.rows /\ doc'.sort = sort /\ doc'.sortState = state
    BY <2>2 DEF Fits, DocumentFields
  <2>4. Fits(doc')
    BY <2>1, <2>2, <2>3 DEF Fits
  <2>5. CASE command.key = SourceOrder
    <3>1. w'.out = w.out
      BY <1>2, <2>5 DEF Places
    <3> QED
      BY <2>1, <2>3, <2>4, <2>5, <3>1 DEF DocPart
  <2>6. CASE command.key # SourceOrder
    <3>1. HandlerEnds
      BY <1>2, <2>4, <2>6 DEF HandlerEnds
    <3> QED
      BY <2>3, <2>4, <3>1, HandlerEndsOut DEF DocPart
  <2> QED
    BY <2>5, <2>6
<1> QED
  BY <1>1, <1>2 DEF TakeSort

\* The sort goes on, or ends without its order.
SortGoesOn(d, e) ==
    \/ e = d
    \/ e = [d EXCEPT !.sort.permit = TRUE]
    \/ \E phase : e = [d EXCEPT !.sort.session = TRUE, !.sortState.phase = phase]
    \/ \E left, phase :
          e = [d EXCEPT !.sort.session = TRUE, !.sort.left = left,
                        !.sortState.phase = phase]
    \/ e = SortEnds(d, "Cancelled")
    \/ \E lost : e = [SortEnds(d, "Cancelled") EXCEPT !.lost = lost]

LEMMA SortGoesOnFits ==
    ASSUME NEW d, Fits(d), NEW e, SortGoesOn(d, e),
           d.sort # None \/ e = SortEnds(d, "Cancelled")
              \/ \E lost : e = [SortEnds(d, "Cancelled") EXCEPT !.lost = lost]
    PROVE  Fits(e) /\ e.order = d.order
<1>1. DocumentFields \subseteq DOMAIN d
  BY DEF Fits
<1> DEFINE f == SortEnds(d, "Cancelled")
<1>2. Fits(f) /\ f.order = d.order
  BY SortEndsFits
<1> HIDE DEF f
<1>3. CASE e = f
  BY <1>2, <1>3
<1>4. CASE \E lost : e = [f EXCEPT !.lost = lost]
  <2>1. DocumentFields \subseteq DOMAIN f
    BY <1>2 DEF Fits
  <2>2. SameView(f, e)
    BY <1>4, <2>1 DEF SameView, DocumentFields
  <2> QED
    BY <1>2, <2>2, SameViewFits
<1>5. ASSUME d.sort # None, NEW s, NEW st, e.sort = s, e.sortState = st,
             DOMAIN e = DOMAIN d, e.rows = d.rows, e.order = d.order,
             DOMAIN s = DOMAIN d.sort, s.key = d.sort.key,
             DOMAIN st = DOMAIN d.sortState, st.key = d.sortState.key
      PROVE  Fits(e) /\ e.order = d.order
  BY <1>5 DEF Fits
<1>6. CASE d.sort # None /\ e = [d EXCEPT !.sort.permit = TRUE]
  BY <1>1, <1>5, <1>6 DEF DocumentFields, Fits
<1>7. CASE d.sort # None /\ \E phase :
              e = [d EXCEPT !.sort.session = TRUE, !.sortState.phase = phase]
  BY <1>1, <1>5, <1>7 DEF DocumentFields, Fits
<1>8. CASE d.sort # None /\ \E left, phase :
              e = [d EXCEPT !.sort.session = TRUE, !.sort.left = left,
                            !.sortState.phase = phase]
  BY <1>1, <1>5, <1>8 DEF DocumentFields, Fits
<1> QED
  BY <1>3, <1>4, <1>6, <1>7, <1>8 DEF SortGoesOn, f

\* The end of a sort handler that keeps rows and order.
LEMMA SortGoesOnKeepsView ==
    ASSUME doc # None, Fits(doc), SortGoesOn(doc, doc'),
           doc.sort # None \/ doc' = SortEnds(doc, "Cancelled")
              \/ \E lost : doc' = [SortEnds(doc, "Cancelled") EXCEPT !.lost = lost],
           \/ \E pc : Goto(pc) /\ pc # "restore"
           \/ \E next : Emit(EventOf(doc', Phase(doc'), FALSE), next, FALSE)
    PROVE  ViewKept
<1>1. Fits(doc') /\ doc'.order = doc.order
  BY SortGoesOnFits
<1>2. HandlerEnds
  BY <1>1 DEF HandlerEnds
<1> QED
  BY <1>1, <1>2, HandlerEndsOut DEF ViewKept

\* The steps of a sort up to the last, and a sort that is not completed.
LEMMA SortStepsKeepView ==
    ASSUME Places, DocPart, EventFits(w.out),
           AdvanceSort \/ SortStep \/ FinishSort \/ PrepareSort \/ ReturnSort
    PROVE  ViewKept
<1>1. \A d : AfterSort(d) # "restore"
  BY AfterSortNext
<1>2. CASE AdvanceSort
  <2>1. doc # None /\ doc.sort # None /\ Fits(doc)
    BY <1>2 DEF AdvanceSort, WorkerAt, Places, DocPart
  <2>2. /\ SortGoesOn(doc, doc')
        /\ \/ \E pc : Goto(pc) /\ pc # "restore"
           \/ \E next : Emit(EventOf(doc', Phase(doc'), FALSE), next, FALSE)
    BY <1>1, <1>2 DEF AdvanceSort, ReportSort, TellSort, SortGoesOn
  <2> QED
    BY <2>1, <2>2, SortGoesOnKeepsView
<1>3. CASE SortStep
  <2>1. doc # None /\ doc.sort # None /\ Fits(doc)
    BY <1>3 DEF SortStep, WorkerAt, Places, Holds, DocPart
  <2>2. /\ \/ \E phase : doc' = [doc EXCEPT !.sort.session = TRUE,
                                            !.sortState.phase = phase]
           \/ \E left, phase :
                 doc' = [doc EXCEPT !.sort.session = TRUE, !.sort.left = left,
                                    !.sortState.phase = phase]
           \/ \E lost : doc' = [SortEnds(doc, "Cancelled") EXCEPT !.lost = lost]
        /\ \/ Goto("finish_sort")
           \/ \E d : Goto(AfterSort(d))
           \/ \E next : Emit(EventOf(doc', Phase(doc'), FALSE), next, FALSE)
    BY <1>3 DEF SortStep, ReportSort, TellSort
  <2>3. SortGoesOn(doc, doc')
    BY <2>2 DEF SortGoesOn
  <2> QED
    BY <1>1, <2>1, <2>2, <2>3, SortGoesOnKeepsView
<1>4. CASE FinishSort \/ PrepareSort
  <2>1. doc # None /\ doc.sort # None /\ Fits(doc)
    BY <1>4 DEF FinishSort, PrepareSort, WorkerAt, Places, Holds, DocPart
  <2>2. CASE doc' = doc /\ \E pc \in {"prepare", "commit"} :
                              \/ \E c : w' = [w EXCEPT !.pc = pc, !.cmd = c]
                              \/ w' = [w EXCEPT !.pc = pc]
    BY <2>1, <2>2 DEF Places, ViewKept
  <2>3. ASSUME NEW d, EndSort(d),
               \/ d = SortEnds(doc, "Cancelled")
               \/ \E lost : d = [SortEnds(doc, "Cancelled") EXCEPT !.lost = lost]
        PROVE  ViewKept
    <3>1. doc' = d /\ Emit(EventOf(doc', Phase(doc'), FALSE), "return_sort", FALSE)
      BY <2>3 DEF EndSort, TellSort
    <3>2. SortGoesOn(doc, doc')
      BY <2>3, <3>1 DEF SortGoesOn
    <3> QED
      BY <2>1, <3>1, <3>2, SortGoesOnKeepsView
  <2>4. CASE FinishSort
    BY <2>2, <2>3, <2>4 DEF FinishSort
  <2>5. CASE PrepareSort
    <3>1. \/ doc' = doc /\ w' = [w EXCEPT !.pc = "commit"]
          \/ EndSort(SortEnds(doc, "Cancelled"))
          \/ \E lost \in BOOLEAN :
                EndSort([SortEnds(doc, "Cancelled") EXCEPT !.lost = @ \/ lost])
      BY <2>5 DEF PrepareSort, Then
    <3>2. ASSUME NEW lost \in BOOLEAN,
                 EndSort([SortEnds(doc, "Cancelled") EXCEPT !.lost = @ \/ lost])
          PROVE  ViewKept
      <4> DEFINE f == SortEnds(doc, "Cancelled")
                 l == f.lost \/ lost
      <4>1. EndSort([f EXCEPT !.lost = l])
        BY <3>2
      <4> HIDE DEF l
      <4> QED
        BY <2>3, <4>1
    <3> QED
      BY <2>2, <2>3, <3>1, <3>2
  <2> QED
    BY <1>4, <2>4, <2>5
<1>5. CASE ReturnSort
  BY <1>1, <1>5, HandlerEndsOut
  DEF ReturnSort, shared, HandlerEnds, ViewKept, DocPart
<1> QED
  BY <1>2, <1>3, <1>4, <1>5

\* Back to source order: the order comes with its rows, or stays.
LEMMA RestoreKeepsRows ==
    ASSUME Places, DocPart, DocumentShape, Restore
    PROVE  /\ Fits(doc') /\ EventFits(w'.out) /\ w'.pc # "restore"
           /\ \/ doc'.order = doc.order
              \/ /\ doc'.order = SourceOrder
                 /\ doc'.sortState.phase = "Complete"
                 /\ doc'.sortState.key = SourceOrder
                 /\ doc'.sortState.serial = doc.sortState.serial
<1>1. /\ doc # None /\ Fits(doc) /\ "serial" \in DOMAIN doc.sortState
      /\ {"phase", "key"} \subseteq DOMAIN doc.sortState
      /\ doc.sortState.key = SourceOrder
  BY DEF Restore, WorkerAt, Places, DocPart, DocumentShape
<1>2. ASSUME NEW d, TellSort(d, "drain"), Fits(d)
      PROVE  EventFits(w'.out) /\ w'.pc # "restore" /\ doc' = d
  <2>1. doc' = d /\ Emit(EventOf(d, Phase(d), FALSE), "drain", FALSE)
    BY <1>2 DEF TellSort
  <2>2. HandlerEnds
    BY <1>2, <2>1 DEF HandlerEnds
  <2> QED
    BY <2>1, <2>2, HandlerEndsOut
<1>3. CASE TellSort(Ordered(doc, SourceOrder), "drain")
  BY <1>1, <1>2, <1>3, OrderedFits
<1>4. CASE TellSort(SortEnds(doc, "Cancelled"), "drain")
  BY <1>1, <1>2, <1>4, SortEndsFits
<1>5. ASSUME NEW lost \in BOOLEAN,
             TellSort([SortEnds(doc, "Cancelled") EXCEPT !.lost = @ \/ lost],
                      "drain")
      PROVE  Fits(doc') /\ doc'.order = doc.order /\ EventFits(w'.out)
             /\ w'.pc # "restore"
  <2> DEFINE f == SortEnds(doc, "Cancelled")
             l == f.lost \/ lost
             e == [f EXCEPT !.lost = l]
  <2>1. TellSort(e, "drain")
    BY <1>5
  <2> HIDE DEF l
  <2>2. SortGoesOn(doc, e) /\ \E n : e = [SortEnds(doc, "Cancelled") EXCEPT !.lost = n]
    BY DEF SortGoesOn
  <2>3. Fits(e) /\ e.order = doc.order
    BY <1>1, <2>2, SortGoesOnFits
  <2> QED
    BY <1>2, <2>1, <2>3
<1> QED
  BY <1>3, <1>4, <1>5 DEF Restore

\* complete_sort: the order of a request that is still current comes with its
\* rows, and a superseded request leaves the old ones.
LEMMA CommitKeepsRows ==
    ASSUME Places, DocPart, DocumentShape, CommitSort
    PROVE  /\ Fits(doc') /\ EventFits(w'.out) /\ w'.pc # "restore"
           /\ \/ doc'.order = doc.order
              \/ /\ SortIsCurrent(doc.sort)
                 /\ doc'.sortState.phase = "Complete"
                 /\ doc'.sortState.key = doc'.order
                 /\ doc'.sortState.serial = doc.sortState.serial
<1>1. /\ doc # None /\ doc.sort # None /\ Fits(doc)
      /\ "serial" \in DOMAIN doc.sortState
      /\ {"phase", "key"} \subseteq DOMAIN doc.sortState
      /\ doc.sortState.key = doc.sort.key
  BY DEF CommitSort, WorkerAt, Places, Holds, DocPart, DocumentShape, Fits
<1>2. ASSUME NEW d, EndSort(d), Fits(d)
      PROVE  EventFits(w'.out) /\ w'.pc # "restore" /\ doc' = d
  <2>1. doc' = d /\ Emit(EventOf(d, Phase(d), FALSE), "return_sort", FALSE)
    BY <1>2 DEF EndSort, TellSort
  <2>2. HandlerEnds
    BY <1>2, <2>1 DEF HandlerEnds
  <2> QED
    BY <2>1, <2>2, HandlerEndsOut
<1>3. CASE SortIsCurrent(doc.sort)
  <2>1. EndSort(Ordered(doc, doc.sort.key))
    BY <1>3 DEF CommitSort, StillCurrent
  <2>2. /\ Fits(Ordered(doc, doc.sort.key))
        /\ Ordered(doc, doc.sort.key).order = doc.sort.key
        /\ Ordered(doc, doc.sort.key).sortState.phase = "Complete"
        /\ Ordered(doc, doc.sort.key).sortState.key = doc.sortState.key
        /\ Ordered(doc, doc.sort.key).sortState.serial = doc.sortState.serial
    BY <1>1, OrderedFits
  <2> QED
    BY <1>1, <1>2, <1>3, <2>1, <2>2
<1>4. CASE ~ SortIsCurrent(doc.sort)
  <2>1. EndSort(SortEnds(doc, "Cancelled"))
    BY <1>4 DEF CommitSort, StillCurrent
  <2> QED
    BY <1>1, <1>2, <2>1, SortEndsFits
<1> QED
  BY <1>3, <1>4

\* The thread moves on, with its event or without.
LEMMA MovesKeepView ==
    ASSUME Places, DocPart, EventFits(w.out),
           \/ Wait \/ Drain \/ NothingIn("opens", "viewports")
           \/ NothingIn("viewports", "queries") \/ NothingIn("queries", "sorts")
           \/ NothingIn("sorts", Turn(doc)) \/ ForgetActiveDocument
           \/ CancelDocumentQuery \/ ForgetDocumentQuery \/ TakeDocumentQuery
           \/ EventRankFails \/ EmitCheck \/ SendEvent \/ WakeUI
    PROVE  ViewKept
<1>1. EventFits(None)
  BY DEF EventFits
<1>2. doc' = doc \/ doc' = None
  BY DEF Wait, Drain, NothingIn, ForgetActiveDocument, CancelDocumentQuery,
         ForgetDocumentQuery, TakeDocumentQuery, EventRankFails, EmitCheck,
         SendEvent, WakeUI
<1>3. SUFFICES EventFits(w'.out) /\ w'.pc # "restore"
  BY <1>2 DEF ViewKept, DocPart
<1>4. Turn(doc) # "restore" /\ w.next # "restore"
  BY DEF Turn, AfterSort, Places
<1>5. CASE \E pc : Goto(pc) /\ pc # "restore"
  BY <1>1, <1>5, GotoOut
<1>6. CASE \E pc : w' = [w EXCEPT !.pc = pc] /\ pc # "restore"
  BY <1>6 DEF Places
<1>7. CASE EventRankFails
  <2>1. /\ w'.pc = "emit"
        /\ w'.out = [w.out EXCEPT !.failed = TRUE, !.phase = "Failed"]
    BY <1>7 DEF EventRankFails, WorkerAt, Places
  <2>2. CASE w.out = None
    <3>1. [None EXCEPT !.failed = TRUE, !.phase = "Failed"] = None
      BY DEF None
    <3> QED
      BY <1>1, <2>1, <2>2, <3>1
  <2>3. CASE w.out # None
    BY <2>1, <2>3 DEF EventFits
  <2> QED
    BY <2>2, <2>3
<1>8. CASE w' = [w EXCEPT !.pc = "wake_ui", !.out = None]
  BY <1>1, <1>8 DEF Places
<1>9. CASE Wait \/ Drain \/ EmitCheck \/ SendEvent \/ WakeUI
  BY <1>4, <1>5, <1>6, <1>8, <1>9 DEF Wait, Drain, EmitCheck, SendEvent, WakeUI, Then
<1>10. CASE \/ NothingIn("opens", "viewports") \/ NothingIn("viewports", "queries")
            \/ NothingIn("queries", "sorts") \/ NothingIn("sorts", Turn(doc))
            \/ ForgetActiveDocument \/ CancelDocumentQuery
            \/ ForgetDocumentQuery \/ TakeDocumentQuery
  BY <1>4, <1>5, <1>6, <1>10
  DEF NothingIn, ForgetActiveDocument, CancelDocumentQuery,
      ForgetDocumentQuery, TakeDocumentQuery, Then
<1> QED
  BY <1>7, <1>9, <1>10

\* What a step of the worker thread may do to the order.
OrderRule ==
    doc # None /\ doc' # None /\ doc'.order # doc.order =>
        /\ doc'.sortState.phase = "Complete"
        /\ doc'.sortState.serial = doc.sortState.serial
        /\ doc'.sortState.key = doc'.order
        /\ doc'.order # SourceOrder => SortIsCurrent(doc.sort)

\* Every step of the worker thread keeps rows and order together.
LEMMA WorkerKeepsRows ==
    ASSUME IInv, DocPart, EventFits(w.out), WorkerStep
    PROVE  DocPart' /\ EventFits(w'.out) /\ OrderRule
<1>1. Places /\ DocumentShape
  BY DEF IInv, WorkerPart
<1>2. CASE ViewKept
  BY <1>2 DEF ViewKept, DocPart, OrderRule
<1>3. CASE TakeSort
  BY <1>1, <1>3, TakeSortKeepsView DEF OrderRule
<1>4. CASE Restore
  <2>1. /\ Fits(doc') /\ EventFits(w'.out) /\ w'.pc # "restore"
        /\ \/ doc'.order = doc.order
           \/ /\ doc'.order = SourceOrder
              /\ doc'.sortState.phase = "Complete"
              /\ doc'.sortState.key = SourceOrder
              /\ doc'.sortState.serial = doc.sortState.serial
    BY <1>1, <1>4, RestoreKeepsRows
  <2> QED
    BY <2>1 DEF DocPart, OrderRule
<1>5. CASE CommitSort
  <2>1. /\ Fits(doc') /\ EventFits(w'.out) /\ w'.pc # "restore"
        /\ \/ doc'.order = doc.order
           \/ /\ SortIsCurrent(doc.sort)
              /\ doc'.sortState.phase = "Complete"
              /\ doc'.sortState.key = doc'.order
              /\ doc'.sortState.serial = doc.sortState.serial
    BY <1>1, <1>5, CommitKeepsRows
  <2> QED
    BY <2>1 DEF DocPart, OrderRule
<1>6. CASE TakeOpen \/ Open
  BY <1>1, <1>2, <1>6, OpensKeepView
<1>7. CASE TakeViewport \/ Viewport
  BY <1>1, <1>2, <1>7, ViewportsKeepView
<1>8. CASE TakeQuery \/ AdvanceQuery \/ Scan
  BY <1>1, <1>2, <1>8, SearchAndScanKeepView
<1>9. CASE AdvanceSort \/ SortStep \/ FinishSort \/ PrepareSort \/ ReturnSort
  BY <1>1, <1>2, <1>9, SortStepsKeepView
<1>10. CASE \/ Wait \/ Drain \/ NothingIn("opens", "viewports")
            \/ NothingIn("viewports", "queries") \/ NothingIn("queries", "sorts")
            \/ NothingIn("sorts", Turn(doc)) \/ ForgetActiveDocument
            \/ CancelDocumentQuery \/ ForgetDocumentQuery \/ TakeDocumentQuery
            \/ EventRankFails \/ EmitCheck \/ SendEvent \/ WakeUI
  BY <1>1, <1>2, <1>10, MovesKeepView
<1> QED
  BY <1>3, <1>4, <1>5, <1>6, <1>7, <1>8, <1>9, <1>10 DEF WorkerStep

-----------------------------------------------------------------------------
(* Events on their way.                                                    *)

\* The events in the mailbox are those that were there, or the one just sent.
LEMMA BoxEventsFit ==
    ASSUME BoxShape, NEW b \in Boxes, NEW v, b = "events" => EventFits(v),
           \A i \in DOMAIN box["events"].pending :
              EventFits(box["events"].pending[i]),
           \/ box' = box
           \/ box' = [box EXCEPT ![b] = Take(@)]
           \/ box' = [box EXCEPT ![b] = Close(@)]
           \/ box' = [box EXCEPT ![b] = Send(@, v)]
    PROVE  \A i \in DOMAIN box'["events"].pending :
              EventFits(box'["events"].pending[i])
<1>1. DOMAIN box = Boxes /\ "events" \in Boxes
      /\ {"pending", "closed"} \subseteq DOMAIN box["events"]
  BY DEF BoxShape, Boxes
<1>2. DOMAIN <<v>> = {1} /\ <<v>>[1] = v
  OBVIOUS
<1>3. \/ box'["events"].pending = box["events"].pending
      \/ box'["events"].pending = <<>>
      \/ b = "events" /\ box'["events"].pending = <<v>>
  BY <1>1 DEF Take, Close, Send
<1>4. DOMAIN <<>> = {}
  OBVIOUS
<1> QED
  BY <1>2, <1>3, <1>4


\* The UI thread takes an event from the mailbox, judges it and shows it.
LEMMA UIKeepsEvents ==
    ASSUME BoxShape, EventPart, UIStep
    PROVE  EventPart'
<1>1. EventFits(None)
  BY DEF EventFits
<1>2. w' = w
  BY DEF UIStep
<1>3. /\ "event" \in DOMAIN ui /\ EventFits(ui.event) /\ EventFits(shown)
      /\ \A i \in DOMAIN box["events"].pending :
            EventFits(box["events"].pending[i])
  BY DEF EventPart
<1>4. Returned.event = None /\ "event" \in DOMAIN Returned
  BY <1>3 DEF Returned
<1> DEFINE BoxFits == \A i \in DOMAIN box'["events"].pending :
                         EventFits(box'["events"].pending[i])
           UIFits == "event" \in DOMAIN ui' /\ EventFits(ui'.event)
<1>5. SUFFICES BoxFits /\ UIFits /\ EventFits(shown')
  BY <1>2, <1>3 DEF EventPart
<1>6. ASSUME NEW b \in Boxes, NEW v, b = "events" => EventFits(v),
             \/ box' = box
             \/ box' = [box EXCEPT ![b] = Take(@)]
             \/ box' = [box EXCEPT ![b] = Close(@)]
             \/ box' = [box EXCEPT ![b] = Send(@, v)]
      PROVE  BoxFits
  BY <1>3, <1>6, BoxEventsFit
<1>7. ASSUME \/ Advance \/ ui' = Returned \/ ui' = ui
             \/ \E x : ui' = [ui EXCEPT !.todo = x]
             \/ \E x, t, g : ui' = [ui EXCEPT !.todo = x, !.gen[t] = g]
      PROVE  UIFits
  BY <1>1, <1>3, <1>4, <1>7 DEF Advance
<1>8. CASE SharedStep /\ shown' = shown
  <2>1. UIFits
    BY <1>7, <1>8
    DEF SharedStep, CancelStep, BumpSerial, ForgetActive, ForgetQuery,
        ForgetSort, StoreQuery, CheckActive, CheckQuery, TakeStep, SendStep,
        CloseStep
  <2>2. \/ box' = box
        \/ \E b \in Boxes : \/ box' = [box EXCEPT ![b] = Take(@)]
                            \/ box' = [box EXCEPT ![b] = Close(@)]
        \/ \E b \in Boxes : \E v :
              b # "events" /\ box' = [box EXCEPT ![b] = Send(@, v)]
    BY <1>8
    DEF SharedStep, CancelStep, BumpSerial, ForgetActive, ForgetQuery,
        ForgetSort, StoreQuery, CheckActive, CheckQuery, TakeStep, SendStep,
        CloseStep, shared, Boxes
  <2>3. "signals" \in Boxes
    BY DEF Boxes
  <2>4. BoxFits
    BY <1>1, <1>6, <2>2, <2>3
  <2> QED
    BY <1>3, <1>8, <2>1, <2>4
<1>9. CASE (StoreSort /\ shown' = shown) \/ CallPoll \/ Join
  <2>1. box' = box /\ shown' = shown
    BY <1>9 DEF StoreSort, CallPoll, Join, shared
  <2>2. UIFits
    <3>1. CASE StoreSort \/ CallPoll
      BY <1>7, <3>1 DEF StoreSort, CallPoll
    <3>2. CASE Join
      BY <1>1, <1>4, <3>2 DEF Join
    <3> QED
      BY <1>9, <3>1, <3>2
  <2> QED
    BY <1>3, <2>1, <2>2
<1>10. CASE PollTake
  <2>1. CASE IsEmpty(box.events)
    BY <1>3, <1>7, <1>10, <2>1 DEF PollTake
  <2>2. CASE ~ IsEmpty(box.events)
    <3>1. "events" \in Boxes /\ DOMAIN box["events"].pending = {1}
      BY <2>2 DEF BoxShape, Boxes
    <3>2. EventFits(Taken(box.events))
      BY <1>3, <3>1 DEF Taken
    <3>3. ui' = [ui EXCEPT !.todo = <<"judge">>, !.event = Taken(box.events)]
      BY <1>10, <2>2 DEF PollTake
    <3>4. UIFits
      BY <1>3, <3>2, <3>3
    <3>5. BoxFits
      BY <1>1, <1>6, <1>10, <2>2, <3>1 DEF PollTake
    <3> QED
      BY <1>3, <1>10, <3>4, <3>5 DEF PollTake
  <2> QED
    BY <2>1, <2>2
<1>11. CASE PollJudge
  <2>1. box' = box /\ (shown' = shown \/ shown' = ui.event)
    BY <1>11 DEF PollJudge, shared
  <2>2. ui' = Returned \/ ui' = [ui EXCEPT !.todo = <<"poll">>, !.event = None]
    BY <1>11 DEF PollJudge
  <2> QED
    BY <1>1, <1>3, <1>4, <2>1, <2>2
<1> QED
  BY <1>8, <1>9, <1>10, <1>11 DEF UIStep

-----------------------------------------------------------------------------
(* Rows and orders: the invariant and the theorems.                        *)

\* A worker just started has told nothing.
LEMMA InitRowsPart == Init => RowsPart
<1> SUFFICES ASSUME Init PROVE RowsPart
  OBVIOUS
<1>1. /\ doc = None /\ shown = None /\ w = Idle /\ w.out = None /\ w.pc = "wait"
      /\ "event" \in DOMAIN ui /\ ui.event = None
  BY DEF Init, Idle
<1>2. box = [b \in Boxes |-> NewMailbox] /\ "events" \in Boxes
  BY DEF Init, Boxes
<1>3. BoxShape
  BY <1>2 DEF BoxShape, NewMailbox, IsEmpty
<1>4. box["events"].pending = <<>> /\ DOMAIN <<>> = {}
  BY <1>2 DEF NewMailbox
<1> QED
  BY <1>1, <1>3, <1>4 DEF RowsPart, DocPart, EventPart, EventFits

\* Every step keeps rows and orders together.
LEMMA StepRowsPart ==
    IInv /\ RowsPart /\ [Next]_vars => RowsPart' /\ (OrderRule \/ doc' = doc)
<1> SUFFICES ASSUME IInv, RowsPart, [Next]_vars
             PROVE  RowsPart' /\ (OrderRule \/ doc' = doc)
  OBVIOUS
<1>1. BoxShape /\ DocPart /\ EventPart /\ BoxShape'
  BY StepBoxShape DEF RowsPart
<1>3. CASE UIStep
  <2>1. UNCHANGED <<doc, w>>
    BY <1>3 DEF UIStep
  <2>2. EventPart'
    BY <1>1, <1>3, UIKeepsEvents
  <2>3. DocPart'
    BY <1>1, <2>1 DEF DocPart
  <2> QED
    BY <1>1, <2>1, <2>2, <2>3 DEF RowsPart
<1>4. CASE WorkerStep
  <2>1. EventFits(w.out)
    BY <1>1 DEF EventPart
  <2>2. DocPart' /\ EventFits(w'.out) /\ OrderRule
    BY <1>1, <1>4, <2>1, WorkerKeepsRows
  <2>3. UNCHANGED <<ui, shown>>
    BY <1>4 DEF WorkerStep, uiVars
  <2>4. \A i \in DOMAIN box'["events"].pending :
           EventFits(box'["events"].pending[i])
    <3>1. "events" \in Boxes /\ EventFits(None)
      BY DEF Boxes, EventFits
    <3>2. \A i \in DOMAIN box["events"].pending :
             EventFits(box["events"].pending[i])
      BY <1>1 DEF EventPart
    <3> QED
      BY <1>1, <1>4, <2>1, <3>1, <3>2, WorkerStepBoxes, BoxEventsFit
  <2> QED
    BY <1>1, <2>2, <2>3, <2>4 DEF RowsPart, EventPart
<1>5. CASE OtherStep
  <2>1. UNCHANGED <<box, shown, doc, w>> /\ "event" \in DOMAIN ui'
        /\ ui'.event = ui.event
    BY <1>1, <1>5, OtherStepFrame DEF EventPart
  <2>2. EventPart' /\ DocPart'
    BY <1>1, <2>1 DEF EventPart, DocPart
  <2> QED
    BY <1>1, <2>1, <2>2 DEF RowsPart
<1> QED
  BY <1>3, <1>4, <1>5 DEF Next, OtherStep

LEMMA RowsPartMatches == RowsPart => RowsMatchOrder
BY DEF RowsPart, DocPart, EventPart, Fits, EventFits, RowsMatchOrder, Events

LEMMA InductiveRows == Spec => [](IInv /\ RowsPart)
BY InitIInv, StepIInv, InitRowsPart, StepRowsPart, PTL DEF Spec

\* No event ever shows rows of one order under the header of another: the
\* document's rows are rows of its order, in every event sent, taken or shown,
\* however commands, cancellations and failures interleave.
THEOREM RowsTravelWithTheirOrder == Spec => []RowsMatchOrder
BY InductiveRows, RowsPartMatches, PTL

\* The order on show changes only in the step that completes the request of
\* that order, and to a sorted one only while the request is the newest.
THEOREM OnlyCurrentSortsReplaceTheOrder == Spec => OrderChangesOnlyWhenComplete
<1>1. IInv /\ RowsPart /\ [Next]_vars =>
         [doc # None /\ doc' # None /\ doc'.order # doc.order =>
            /\ doc'.sortState.phase = "Complete"
            /\ doc'.sortState.serial = doc.sortState.serial
            /\ doc'.sortState.key = doc'.order
            /\ doc'.order # SourceOrder => SortIsCurrent(doc.sort)]_vars
  BY StepRowsPart DEF OrderRule
<1> QED
  BY <1>1, InductiveRows, PTL DEF Spec, OrderChangesOnlyWhenComplete

-----------------------------------------------------------------------------
(* Lists of steps that keep the rule of signals.                           *)

\* Lists that send nothing, close nothing and end without a join.
Harmless == StepNames \ (SendSteps \cup {"close_signals", "join"})

LEMMA HarmlessSignalRule ==
    ASSUME NEW steps \in Seq(Harmless)
    PROVE  steps \in Seq(StepNames) /\ SignalRule(steps)
<1>1. \A i \in 1 .. Len(steps) : steps[i] \in Harmless
  OBVIOUS
<1>2. steps \in Seq(StepNames)
  BY DEF Harmless
<1> QED
  BY <1>1, <1>2 DEF SignalRule, Harmless

\* Every call starts with a list that keeps the rule.
LEMMA CallsSignal ==
    ASSUME NEW steps \in CallSteps
    PROVE  steps \in Seq(StepNames) /\ SignalRule(steps)
<1>0. steps \in Seq(StepNames)
  BY CallsSendStored DEF CallSteps
<1>1. SignalRule(CancelSortSteps)
  <2>1. CancelSortSteps \in Seq(Harmless)
    BY DEF CancelSortSteps, Harmless, StepNames, SendSteps
  <2> QED
    BY <2>1, HarmlessSignalRule
<1>2. SignalRule(ViewportSteps)
  <2>1. /\ Len(ViewportSteps) = 3 /\ ViewportSteps[1] = "cancel_view"
        /\ ViewportSteps[2] = "send_viewport" /\ ViewportSteps[3] = "signal"
    BY DEF ViewportSteps
  <2>2. \A i \in 1 .. 3 : i = 1 \/ i = 2 \/ i = 3
    OBVIOUS
  <2> QED
    BY <2>1, <2>2 DEF SignalRule, SendSteps, EarlyReturns
<1>3. SignalRule(SortSteps)
  <2>1. /\ Len(SortSteps) = 4 /\ SortSteps[1] = "cancel_sort"
        /\ SortSteps[2] = "store_sort" /\ SortSteps[3] = "send_sort"
        /\ SortSteps[4] = "signal"
    BY DEF SortSteps
  <2>2. \A i \in 1 .. 4 : i = 1 \/ i = 2 \/ i = 3 \/ i = 4
    OBVIOUS
  <2> QED
    BY <2>1, <2>2 DEF SignalRule, SendSteps, EarlyReturns
<1>4. SignalRule(NavigateSteps)
  <2>1. /\ Len(NavigateSteps) = 5 /\ NavigateSteps[1] = "check_query"
        /\ NavigateSteps[2] = "cancel_query" /\ NavigateSteps[3] = "take_events"
        /\ NavigateSteps[4] = "send_navigate" /\ NavigateSteps[5] = "signal"
    BY DEF NavigateSteps
  <2>2. \A i \in 1 .. 5 : i = 1 \/ i = 2 \/ i = 3 \/ i = 4 \/ i = 5
    OBVIOUS
  <2> QED
    BY <2>1, <2>2 DEF SignalRule, SendSteps, EarlyReturns
<1>5. SignalRule(QuerySteps)
  <2>1. /\ Len(QuerySteps) = 6 /\ QuerySteps[1] = "check_active"
        /\ QuerySteps[2] = "cancel_query" /\ QuerySteps[3] = "store_query"
        /\ QuerySteps[4] = "take_events" /\ QuerySteps[5] = "send_query"
        /\ QuerySteps[6] = "signal"
    BY DEF QuerySteps
  <2>2. \A i \in 1 .. 6 : i = 1 \/ i = 2 \/ i = 3 \/ i = 4 \/ i = 5 \/ i = 6
    OBVIOUS
  <2> QED
    BY <2>1, <2>2 DEF SignalRule, SendSteps, EarlyReturns
<1>6. SignalRule(SubmitSteps)
  <2>1. /\ Len(SubmitSteps) = 13
        /\ SubmitSteps[1] = "cancel_sort" /\ SubmitSteps[2] = "forget_sort"
        /\ SubmitSteps[3] = "take_sorts" /\ SubmitSteps[4] = "bump_serial"
        /\ SubmitSteps[5] = "cancel_view" /\ SubmitSteps[6] = "forget_active"
        /\ SubmitSteps[7] = "cancel_query" /\ SubmitSteps[8] = "forget_query"
        /\ SubmitSteps[9] = "take_viewports" /\ SubmitSteps[10] = "take_queries"
        /\ SubmitSteps[11] = "take_events" /\ SubmitSteps[12] = "send_open"
        /\ SubmitSteps[13] = "signal"
    BY DEF SubmitSteps
  <2>2. \A i \in 1 .. 13 : \/ i = 1 \/ i = 2 \/ i = 3 \/ i = 4 \/ i = 5 \/ i = 6
                           \/ i = 7 \/ i = 8 \/ i = 9 \/ i = 10 \/ i = 11
                           \/ i = 12 \/ i = 13
    OBVIOUS
  <2>3. \A i \in 1 .. 13 : /\ SubmitSteps[i] # "close_signals"
                           /\ SubmitSteps[i] \notin EarlyReturns
                           /\ SubmitSteps[i] \in SendSteps => i = 12
    BY <2>1, <2>2 DEF SendSteps, EarlyReturns
  <2> QED
    BY <2>1, <2>3 DEF SignalRule
<1>7. SignalRule(DropSteps)
  <2>1. /\ Len(DropSteps) = 10
        /\ DropSteps[1] = "cancel_sort" /\ DropSteps[2] = "close_sorts"
        /\ DropSteps[3] = "cancel_view" /\ DropSteps[4] = "cancel_query"
        /\ DropSteps[5] = "close_opens" /\ DropSteps[6] = "close_viewports"
        /\ DropSteps[7] = "close_queries" /\ DropSteps[8] = "close_signals"
        /\ DropSteps[9] = "close_events" /\ DropSteps[10] = "join"
    BY DEF DropSteps
  <2>2. \A i \in 1 .. 10 : \/ i = 1 \/ i = 2 \/ i = 3 \/ i = 4 \/ i = 5 \/ i = 6
                           \/ i = 7 \/ i = 8 \/ i = 9 \/ i = 10
    OBVIOUS
  <2>3. \A i \in 1 .. 10 : /\ DropSteps[i] = "close_signals" => i = 8
                           /\ DropSteps[i] \notin EarlyReturns
                           /\ DropSteps[i] \notin SendSteps
    BY <2>1, <2>2 DEF SendSteps, EarlyReturns
  <2> QED
    BY <2>1, <2>3 DEF SignalRule
<1> QED
  BY <1>0, <1>1, <1>2, <1>3, <1>4, <1>5, <1>6, <1>7 DEF CallSteps

\* The rest of a list keeps the rule once its first step is done; after a
\* command comes its signal, and a join that was to come still is.
LEMMA TailSignals ==
    ASSUME NEW todo \in Seq(StepNames), todo # <<>>, SignalRule(todo)
    PROVE  /\ Tail(todo) \in Seq(StepNames) /\ SignalRule(Tail(todo))
           /\ Head(todo) \in SendSteps =>
                 Tail(todo) # <<>> /\ Head(Tail(todo)) = "signal"
           /\ Head(todo) = "close_signals" =>
                 \E i \in 1 .. Len(Tail(todo)) : Tail(todo)[i] = "join"
           /\ Head(todo) # "join" /\ (\E i \in 1 .. Len(todo) : todo[i] = "join") =>
                 \E i \in 1 .. Len(Tail(todo)) : Tail(todo)[i] = "join"
<1> DEFINE rest == Tail(todo)
<1>1. /\ rest \in Seq(StepNames) /\ Len(rest) = Len(todo) - 1
      /\ Len(rest) \in Nat /\ Len(todo) \in Nat
      /\ \A i \in 1 .. Len(todo) - 1 : rest[i] = todo[i + 1]
      /\ Head(todo) = todo[1] /\ 1 \in 1 .. Len(todo)
      /\ rest # <<>> => Len(rest) >= 1 /\ Head(rest) = rest[1]
      /\ rest = <<>> => Len(rest) = 0
  <2>1. /\ rest \in Seq(StepNames) /\ Len(rest) = Len(todo) - 1
        /\ \A i \in 1 .. Len(todo) - 1 : rest[i] = todo[i + 1]
        /\ Head(todo) = todo[1]
    OBVIOUS
  <2>2. Len(todo) \in Nat /\ Len(todo) # 0
    OBVIOUS
  <2> HIDE DEF rest
  <2>3. \A s \in Seq(StepNames) : /\ s # <<>> => Len(s) >= 1 /\ Head(s) = s[1]
                                  /\ s = <<>> => Len(s) = 0
    OBVIOUS
  <2> QED
    BY <2>1, <2>2, <2>3
<1> HIDE DEF rest
<1>2. ASSUME NEW i \in 1 .. Len(rest)
      PROVE  /\ rest[i] \in SendSteps =>
                   i + 1 \in 1 .. Len(rest) /\ rest[i + 1] = "signal"
             /\ rest[i] = "close_signals" =>
                   i + 2 \in 1 .. Len(rest) /\ rest[i + 2] = "join"
             /\ rest[i] \in EarlyReturns =>
                   \A j \in 1 .. Len(rest) : rest[j] # "join"
  <2>1. i + 1 \in 1 .. Len(todo) /\ rest[i] = todo[i + 1] /\ i \in Int
    BY <1>1
  <2>2. CASE rest[i] \in SendSteps
    <3>1. i + 2 \in 1 .. Len(todo) /\ todo[i + 2] = "signal"
      <4>1. (i + 1) + 1 \in 1 .. Len(todo) /\ todo[(i + 1) + 1] = "signal"
        BY <2>1, <2>2 DEF SignalRule
      <4>2. (i + 1) + 1 = i + 2
        BY <2>1
      <4> QED
        BY <4>1, <4>2
    <3>2. i + 1 \in 1 .. Len(rest) /\ rest[i + 1] = todo[(i + 1) + 1]
      BY <1>1, <2>1, <3>1
    <3>3. (i + 1) + 1 = i + 2
      BY <2>1
    <3>4. rest[i] \notin EarlyReturns /\ rest[i] # "close_signals"
      BY <2>2 DEF SendSteps, EarlyReturns
    <3> QED
      BY <3>1, <3>2, <3>3, <3>4
  <2>3. CASE rest[i] = "close_signals"
    <3>1. (i + 1) + 2 \in 1 .. Len(todo) /\ todo[(i + 1) + 2] = "join"
      BY <2>1, <2>3 DEF SignalRule
    <3>2. i + 2 \in 1 .. Len(rest) /\ rest[i + 2] = todo[(i + 2) + 1]
      BY <1>1, <2>1, <3>1
    <3>3. (i + 2) + 1 = (i + 1) + 2
      BY <2>1
    <3>4. rest[i] \notin EarlyReturns /\ rest[i] \notin SendSteps
      BY <2>3 DEF SendSteps, EarlyReturns
    <3> QED
      BY <3>1, <3>2, <3>3, <3>4
  <2>4. CASE rest[i] \in EarlyReturns
    <3>1. \A j \in 1 .. Len(todo) : todo[j] # "join"
      BY <2>1, <2>4 DEF SignalRule
    <3>2. rest[i] \notin SendSteps /\ rest[i] # "close_signals"
      BY <2>4 DEF SendSteps, EarlyReturns
    <3>3. \A j \in 1 .. Len(rest) : rest[j] # "join"
      BY <1>1, <3>1
    <3> QED
      BY <3>2, <3>3
  <2> QED
    BY <2>2, <2>3, <2>4
<1>3. SignalRule(rest)
  BY <1>2 DEF SignalRule
<1>4. ASSUME todo[1] \in SendSteps
      PROVE  rest # <<>> /\ Head(rest) = "signal"
  <2>1. 1 + 1 \in 1 .. Len(todo) /\ todo[1 + 1] = "signal"
    BY <1>1, <1>4 DEF SignalRule
  <2>2. rest[1] = "signal" /\ Len(rest) # 0
    BY <1>1, <2>1
  <2> QED
    BY <1>1, <2>2
<1>5. ASSUME todo[1] = "close_signals"
      PROVE  \E i \in 1 .. Len(rest) : rest[i] = "join"
  <2>1. 1 + 2 \in 1 .. Len(todo) /\ todo[1 + 2] = "join"
    BY <1>1, <1>5 DEF SignalRule
  <2>2. 2 \in 1 .. Len(rest) /\ rest[2] = "join"
    BY <1>1, <2>1
  <2> QED
    BY <2>2
<1>6. ASSUME todo[1] # "join", NEW i \in 1 .. Len(todo), todo[i] = "join"
      PROVE  \E j \in 1 .. Len(rest) : rest[j] = "join"
  <2>1. i # 1 /\ i - 1 \in 1 .. Len(rest) /\ (i - 1) + 1 = i
    BY <1>1, <1>6
  <2>2. rest[i - 1] = todo[(i - 1) + 1]
    BY <1>1, <2>1
  <2> QED
    BY <1>6, <2>1, <2>2
<1> QED
  BY <1>1, <1>3, <1>4, <1>5, <1>6 DEF rest

-----------------------------------------------------------------------------
(* Commands are heard: the steps of the UI thread.                         *)

\* Nothing is left of a call at its last step.
LEMMA TailOfOne ==
    ASSUME NEW S, NEW s \in Seq(S), Len(s) = 1 PROVE Tail(s) = <<>>
<1>1. Tail(s) \in Seq(S) /\ Len(Tail(s)) = 0
  <2>1. s # <<>>
    OBVIOUS
  <2> QED
    BY <2>1
<1>2. ASSUME NEW t \in Seq(S), Len(t) = 0 PROVE t = <<>>
  BY <1>2
<1> QED
  BY <1>1, <1>2

\* A call goes on with its next step.
GoesOn ==
    /\ {"todo", "dropped"} \subseteq DOMAIN ui'
    /\ ui'.todo = Tail(ui.todo) /\ ui'.dropped = ui.dropped

LEMMA AdvanceGoesOn ==
    ASSUME SignalPart, ui.todo # <<>>,
           Advance \/ \E t, g : ui' = [ui EXCEPT !.todo = Tail(@), !.gen[t] = g]
    PROVE  GoesOn
<1>1. {"todo", "dropped"} \subseteq DOMAIN ui /\ ui.todo \in Seq(StepNames)
  BY DEF SignalPart
<1>2. CASE Len(ui.todo) = 1
  <2>1. Tail(ui.todo) = <<>>
    BY <1>1, <1>2, TailOfOne
  <2> QED
    BY <1>1, <1>2, <2>1 DEF GoesOn, Advance, Returned
<1>3. CASE Len(ui.todo) # 1
  BY <1>1, <1>3 DEF GoesOn, Advance
<1> QED
  BY <1>2, <1>3

\* Such a step keeps the tab closing, and cannot be the last of a closed one.
LEMMA GoesOnFacts ==
    ASSUME SignalPart, ui.todo # <<>>, Head(ui.todo) # "join", GoesOn
    PROVE  /\ ui'.todo \in Seq(StepNames) /\ SignalRule(ui'.todo)
           /\ ~ ui.dropped /\ ~ ui'.dropped
           /\ Dropping => Dropping'
           /\ Head(ui.todo) = "close_signals" => Dropping'
           /\ Head(ui.todo) \in SendSteps => At("signal")'
<1>1. ui.todo \in Seq(StepNames) /\ SignalRule(ui.todo) /\ ~ ui.dropped
  BY DEF SignalPart
<1>2. ui'.todo = Tail(ui.todo) /\ ui'.dropped = ui.dropped
  BY DEF GoesOn
<1>3. /\ Tail(ui.todo) \in Seq(StepNames) /\ SignalRule(Tail(ui.todo))
      /\ Head(ui.todo) \in SendSteps =>
            Tail(ui.todo) # <<>> /\ Head(Tail(ui.todo)) = "signal"
      /\ Head(ui.todo) = "close_signals" =>
            \E i \in 1 .. Len(Tail(ui.todo)) : Tail(ui.todo)[i] = "join"
      /\ (\E i \in 1 .. Len(ui.todo) : ui.todo[i] = "join") =>
            \E i \in 1 .. Len(Tail(ui.todo)) : Tail(ui.todo)[i] = "join"
  BY <1>1, TailSignals
<1> QED
  BY <1>1, <1>2, <1>3 DEF Dropping, At

\* A step that empties or closes a mailbox, or touches none.
LEMMA QuietStepHeard ==
    ASSUME BoxShape, SignalPart, ui.todo # <<>>, GoesOn, w' = w,
           Head(ui.todo) \notin {"join", "signal"},
           \/ box' = box
           \/ \E b \in Boxes : b # "signals" /\ box' = [box EXCEPT ![b] = Take(@)]
           \/ \E b \in Boxes : b # "signals" /\ box' = [box EXCEPT ![b] = Close(@)]
           \/ /\ Head(ui.todo) = "close_signals"
              /\ box' = [box EXCEPT !["signals"] = Close(@)]
    PROVE  SignalPart'
<1>1. /\ ui'.todo \in Seq(StepNames) /\ SignalRule(ui'.todo)
      /\ ~ ui.dropped /\ ~ ui'.dropped
      /\ Dropping => Dropping'
      /\ Head(ui.todo) = "close_signals" => Dropping'
  BY GoesOnFacts
<1>2. DOMAIN box = Boxes /\ "signals" \in Boxes /\ CommandBoxes \subseteq Boxes
      /\ \A b \in Boxes : {"pending", "closed"} \subseteq DOMAIN box[b]
  BY DEF BoxShape, Boxes, CommandBoxes
<1>3. \A b \in Boxes : IsEmpty(box[b]) => IsEmpty(box'[b])
  BY <1>2 DEF Take, Close, IsEmpty
<1>4. IsEmpty(box'["signals"]) => IsEmpty(box["signals"])
  BY <1>2 DEF Take, Close, IsEmpty
<1>5. box'["signals"].closed => box["signals"].closed \/ Dropping'
  BY <1>1, <1>2 DEF Take, Close
<1>6. ~ At("signal") /\ Passed' = Passed /\ Passed \subseteq CommandBoxes
  BY DEF At, Passed, PassedAt, CommandBoxes
<1>7. \A b \in Passed : Heard(b)'
  BY <1>1, <1>2, <1>3, <1>4, <1>6 DEF SignalPart, Heard
<1> QED
  BY <1>1, <1>5, <1>6, <1>7 DEF SignalPart, GoesOn

\* A step that sends a command: its signal comes next.
LEMMA SendHeard ==
    ASSUME BoxShape, SignalPart, ui.todo # <<>>, GoesOn, w' = w,
           Head(ui.todo) \in SendSteps,
           NEW b \in CommandBoxes, NEW v, box' = [box EXCEPT ![b] = Send(@, v)]
    PROVE  SignalPart'
<1>1. Head(ui.todo) # "join"
  BY DEF SendSteps
<1>2. /\ ui'.todo \in Seq(StepNames) /\ SignalRule(ui'.todo)
      /\ ~ ui.dropped /\ ~ ui'.dropped /\ (Dropping => Dropping')
      /\ At("signal")'
  BY <1>1, GoesOnFacts
<1>3. box'["signals"] = box["signals"]
  BY DEF BoxShape, CommandBoxes, Boxes
<1> QED
  BY <1>2, <1>3 DEF SignalPart, GoesOn, Heard

\* The signal itself: sent, or the tab is closing.
LEMMA SignalHeard ==
    ASSUME BoxShape, SignalPart, ui.todo # <<>>, GoesOn, w' = w,
           Head(ui.todo) = "signal",
           box' = [box EXCEPT !["signals"] = Send(@, TRUE)]
    PROVE  SignalPart'
<1>1. /\ ui'.todo \in Seq(StepNames) /\ SignalRule(ui'.todo)
      /\ ~ ui.dropped /\ ~ ui'.dropped /\ (Dropping => Dropping')
  BY GoesOnFacts
<1>2. /\ DOMAIN box = Boxes /\ "signals" \in Boxes
      /\ {"pending", "closed"} \subseteq DOMAIN box["signals"]
  BY DEF BoxShape, Boxes
<1>3. /\ box'["signals"].closed = box["signals"].closed
      /\ ~ box["signals"].closed => ~ IsEmpty(box'["signals"])
  <2>1. <<TRUE>> # <<>>
    OBVIOUS
  <2> QED
    BY <1>2, <2>1 DEF Send, IsEmpty
<1>4. ~ IsEmpty(box'["signals"]) \/ Dropping'
  BY <1>1, <1>3 DEF SignalPart
<1> QED
  BY <1>1, <1>3, <1>4 DEF SignalPart, GoesOn, Heard

\* A call that begins or returns early while the tab is not closing.
LEMMA NewListHeard ==
    ASSUME BoxShape, SignalPart, ~ Dropping, ~ At("signal"), w' = w,
           {"todo", "dropped"} \subseteq DOMAIN ui', ~ ui'.dropped,
           ui'.todo \in Seq(StepNames), SignalRule(ui'.todo),
           box' = box \/ box' = [box EXCEPT !["events"] = Take(@)]
    PROVE  SignalPart'
<1>1. DOMAIN box = Boxes /\ "signals" \in Boxes /\ CommandBoxes \subseteq Boxes
      /\ "events" \notin CommandBoxes
  BY DEF BoxShape, Boxes, CommandBoxes
<1>2. \A b \in CommandBoxes \cup {"signals"} : box'[b] = box[b]
  BY <1>1
<1>3. Passed' = Passed /\ Passed \subseteq CommandBoxes
  BY DEF Passed, PassedAt, CommandBoxes
<1>4. \A b \in Passed : Heard(b)'
  BY <1>2, <1>3 DEF SignalPart, Heard, IsEmpty
<1>5. ~ box'["signals"].closed
  BY <1>2 DEF SignalPart
<1> QED
  BY <1>3, <1>4, <1>5 DEF SignalPart

\* The short lists of poll, and the empty one.
LEMMA ShortSignalRule ==
    ASSUME NEW steps \in {<<>>, <<"poll">>, <<"judge">>}
    PROVE  steps \in Seq(StepNames) /\ SignalRule(steps)
<1>1. <<>> \in Seq(Harmless)
  OBVIOUS
<1>2. <<"poll">> \in Seq(Harmless)
  BY DEF Harmless, StepNames, SendSteps
<1>3. <<"judge">> \in Seq(Harmless)
  BY DEF Harmless, StepNames, SendSteps
<1> QED
  BY <1>1, <1>2, <1>3, HarmlessSignalRule

\* Every step of a method of Worker.
LEMMA SharedStepHeard ==
    ASSUME BoxShape, SignalPart, SharedStep \/ StoreSort, w' = w
    PROVE  SignalPart'
<1> USE DEF At
<1>1. /\ {"todo", "dropped"} \subseteq DOMAIN ui
      /\ ui.todo \in Seq(StepNames) /\ SignalRule(ui.todo)
      /\ ui.todo # <<>> => ~ ui.dropped
  BY DEF SignalPart
<1>2. ASSUME NEW step, step \notin {"join", "signal"}, At(step), box' = box,
             Advance \/ \E t, g : ui' = [ui EXCEPT !.todo = Tail(@), !.gen[t] = g]
      PROVE  SignalPart'
  BY <1>2, AdvanceGoesOn, QuietStepHeard
<1>3. ASSUME NEW step \in EarlyReturns, At(step), ui' = Returned, box' = box
      PROVE  SignalPart'
  <2>1. ~ Dropping
    <3>1. Head(ui.todo) = ui.todo[1] /\ 1 \in 1 .. Len(ui.todo)
      BY <1>1, <1>3
    <3> QED
      BY <1>1, <1>3, <3>1 DEF SignalRule, Dropping
  <2>2. /\ {"todo", "dropped"} \subseteq DOMAIN ui'
        /\ ui'.todo = <<>> /\ ui'.dropped = ui.dropped
    BY <1>1, <1>3 DEF Returned
  <2>3. ~ At("signal")
    BY <1>3 DEF EarlyReturns
  <2>4. ui'.todo \in Seq(StepNames) /\ SignalRule(ui'.todo)
    BY <2>2, ShortSignalRule
  <2> QED
    BY <1>1, <1>3, <2>1, <2>2, <2>3, <2>4, NewListHeard
<1>4. ASSUME NEW step, step \notin {"join", "signal"},
             NEW b \in Boxes, b # "signals", TakeStep(step, b) \/ CloseStep(step, b)
      PROVE  SignalPart'
  <2>1. /\ At(step) /\ Advance
        /\ \/ box' = [box EXCEPT ![b] = Take(@)]
           \/ box' = [box EXCEPT ![b] = Close(@)]
    BY <1>4 DEF TakeStep, CloseStep
  <2> QED
    BY <1>4, <2>1, AdvanceGoesOn, QuietStepHeard
<1>5. ASSUME NEW step \in SendSteps, NEW b \in CommandBoxes, NEW v,
             SendStep(step, b, v)
      PROVE  SignalPart'
  <2>1. At(step) /\ Advance /\ box' = [box EXCEPT ![b] = Send(@, v)]
    BY <1>5 DEF SendStep
  <2> QED
    BY <1>5, <2>1, AdvanceGoesOn, SendHeard
<1>6. CASE SendStep("signal", "signals", TRUE)
  BY <1>6, AdvanceGoesOn, SignalHeard DEF SendStep
<1>7. CASE CloseStep("close_signals", "signals")
  BY <1>7, AdvanceGoesOn, QuietStepHeard DEF CloseStep
<1>8. CASE \/ CancelStep("cancel_sort", "sort")
           \/ CancelStep("cancel_view", "view")
           \/ CancelStep("cancel_query", "query")
  BY <1>2, <1>8 DEF CancelStep
<1>9. CASE \/ BumpSerial \/ ForgetActive \/ ForgetQuery \/ ForgetSort
           \/ StoreQuery \/ StoreSort
  BY <1>2, <1>9
  DEF BumpSerial, ForgetActive, ForgetQuery, ForgetSort, StoreQuery, StoreSort
<1>10. CASE CheckActive \/ CheckQuery
  <2>1. box' = box /\ \E step \in {"check_active", "check_query"} :
                         At(step) /\ (Advance \/ ui' = Returned)
    BY <1>10 DEF CheckActive, CheckQuery, shared
  <2> QED
    BY <1>2, <1>3, <2>1 DEF EarlyReturns
<1>11. CASE \/ TakeStep("take_sorts", "sorts")
            \/ TakeStep("take_viewports", "viewports")
            \/ TakeStep("take_queries", "queries")
            \/ TakeStep("take_events", "events")
            \/ CloseStep("close_sorts", "sorts")
            \/ CloseStep("close_opens", "opens")
            \/ CloseStep("close_viewports", "viewports")
            \/ CloseStep("close_queries", "queries")
            \/ CloseStep("close_events", "events")
  BY <1>4, <1>11 DEF Boxes
<1>12. CASE \/ SendStep("send_open", "opens", OpenCommand)
            \/ SendStep("send_viewport", "viewports", ViewportCommand)
            \/ SendStep("send_sort", "sorts", SortCommand)
            \/ SendStep("send_query", "queries", QueryCommand(TRUE))
            \/ SendStep("send_navigate", "queries", QueryCommand(FALSE))
  BY <1>5, <1>12 DEF SendSteps, CommandBoxes
<1> QED
  BY <1>6, <1>7, <1>8, <1>9, <1>10, <1>11, <1>12 DEF SharedStep

\* Every step the UI thread takes on its own.
LEMMA UIStepHeard ==
    ASSUME BoxShape, SignalPart, UIStep
    PROVE  SignalPart'
<1>1. /\ {"todo", "dropped"} \subseteq DOMAIN ui
      /\ ui.todo \in Seq(StepNames) /\ SignalRule(ui.todo)
      /\ ui.todo # <<>> => ~ ui.dropped
      /\ w' = w
  BY DEF SignalPart, UIStep
<1>2. CASE SharedStep \/ StoreSort
  BY <1>1, <1>2, SharedStepHeard
<1>3. ASSUME NEW step \in {"poll", "judge"}, At(step)
      PROVE  ~ Dropping /\ ~ At("signal")
  <2>1. Head(ui.todo) = ui.todo[1] /\ 1 \in 1 .. Len(ui.todo)
    BY <1>1, <1>3 DEF At
  <2> QED
    BY <1>1, <1>3, <2>1 DEF SignalRule, Dropping, At, EarlyReturns
<1>4. CASE CallPoll
  <2>1. /\ ui.todo = <<>> /\ ~ ui.dropped /\ box' = box
        /\ ui' = [ui EXCEPT !.todo = <<"poll">>]
    BY <1>4 DEF CallPoll, shared
  <2>2. ~ Dropping /\ ~ At("signal")
    BY <2>1 DEF Dropping, At
  <2>3. /\ {"todo", "dropped"} \subseteq DOMAIN ui' /\ ~ ui'.dropped
        /\ ui'.todo = <<"poll">>
    BY <1>1, <2>1
  <2>4. ui'.todo \in Seq(StepNames) /\ SignalRule(ui'.todo)
    BY <2>3, ShortSignalRule
  <2> QED
    BY <1>1, <2>1, <2>2, <2>3, <2>4, NewListHeard
<1>5. CASE PollTake \/ PollJudge
  <2>1. ~ Dropping /\ ~ At("signal") /\ ~ ui.dropped
    BY <1>1, <1>3, <1>5 DEF PollTake, PollJudge, At
  <2>2. box' = box \/ box' = [box EXCEPT !["events"] = Take(@)]
    BY <1>5 DEF PollTake, PollJudge, shared
  <2>3. \/ ui' = Returned
        \/ \E e : ui' = [ui EXCEPT !.todo = <<"judge">>, !.event = e]
        \/ \E e : ui' = [ui EXCEPT !.todo = <<"poll">>, !.event = e]
    BY <1>5 DEF PollTake, PollJudge
  <2>4. /\ {"todo", "dropped"} \subseteq DOMAIN ui' /\ ui'.dropped = ui.dropped
        /\ ui'.todo \in {<<>>, <<"poll">>, <<"judge">>}
    BY <1>1, <2>3 DEF Returned
  <2>5. ui'.todo \in Seq(StepNames) /\ SignalRule(ui'.todo)
    BY <2>4, ShortSignalRule
  <2> QED
    BY <1>1, <2>1, <2>2, <2>4, <2>5, NewListHeard
<1>6. CASE Join
  <2>1. /\ w.pc = "exited" /\ box' = box
        /\ ui' = [Returned EXCEPT !.dropped = TRUE]
    BY <1>6 DEF Join, shared
  <2>2. /\ {"todo", "dropped"} \subseteq DOMAIN ui' /\ ui'.dropped = TRUE
        /\ ui'.todo = <<>>
    BY <1>1, <2>1 DEF Returned
  <2>3. ui'.todo \in Seq(StepNames) /\ SignalRule(ui'.todo)
    BY <2>2, ShortSignalRule
  <2>4. Dropping'
    BY <2>2 DEF Dropping
  <2> QED
    BY <1>1, <2>1, <2>2, <2>3, <2>4 DEF SignalPart, Heard
<1> QED
  BY <1>2, <1>4, <1>5, <1>6 DEF UIStep

\* A call that begins, and steps that have nothing to do with this tab.
LEMMA OtherStepHeard ==
    ASSUME BoxShape, SignalPart, OtherStep
    PROVE  SignalPart'
<1>1. UNCHANGED <<box, w>>
  BY OtherStepFrame
<1>2. CASE UNCHANGED ui
  BY <1>1, <1>2
  DEF SignalPart, Dropping, Passed, PassedAt, Heard, At, IsEmpty, SignalRule
<1>3. ASSUME ui.todo = <<>>, ~ ui.dropped, NEW steps \in CallSteps, NEW arg,
             ui' = [ui EXCEPT !.todo = steps, !.arg = arg]
      PROVE  SignalPart'
  <2>1. {"todo", "dropped"} \subseteq DOMAIN ui
    BY DEF SignalPart
  <2>2. ~ Dropping /\ ~ At("signal")
    BY <1>3 DEF Dropping, At
  <2>3. /\ {"todo", "dropped"} \subseteq DOMAIN ui' /\ ~ ui'.dropped
        /\ ui'.todo = steps
    BY <1>3, <2>1
  <2>4. ui'.todo \in Seq(StepNames) /\ SignalRule(ui'.todo)
    BY <2>3, CallsSignal
  <2> QED
    BY <1>1, <2>2, <2>3, <2>4, NewListHeard
<1> QED
  BY <1>2, <1>3, OtherStepFrame

-----------------------------------------------------------------------------
(* Commands are heard: the steps of the worker thread.                     *)

\* The thread does not look at the mailboxes it has found empty before it has
\* taken a signal again.
LEMMA PassedShrinks ==
    ASSUME Places, WorkerStep
    PROVE  \A b \in Passed' : b \in Passed \/ (b \in CommandBoxes /\ IsEmpty(box[b]))
<1> USE DEF CommandBoxes
<1>1. PassedAt("drain") = {} /\ PassedAt("exited") = {}
  BY DEF PassedAt
<1>2. CASE \E pc : Goto(pc) /\ pc = w.next
  <2>1. w'.pc = w.next /\ w'.next = "drain"
    BY <1>2 DEF Goto, Idle
  <2> QED
    BY <1>1, <2>1 DEF Passed
<1>3. CASE w'.next = "drain" /\ PassedAt(w'.pc) = {}
  BY <1>1, <1>3 DEF Passed
<1>4. CASE w'.next = w.next /\ PassedAt(w'.pc) = {}
  BY <1>4 DEF Passed
<1>5. CASE w.pc \in {"sort", "sort_step", "finish_sort", "prepare", "commit",
                     "return_sort"}
  BY <1>5 DEF Passed, PassedAt
<1>6. CASE Wait \/ Drain
  BY <1>3, <1>6, GotoOut DEF Wait, Drain, PassedAt
<1>7. CASE \/ NothingIn("opens", "viewports") \/ NothingIn("viewports", "queries")
           \/ NothingIn("queries", "sorts")
  <2>1. \/ /\ w.pc = "opens" /\ IsEmpty(box["opens"])
           /\ w'.pc = "viewports" /\ w'.next = "drain"
        \/ /\ w.pc = "viewports" /\ IsEmpty(box["viewports"])
           /\ w'.pc = "queries" /\ w'.next = "drain"
        \/ /\ w.pc = "queries" /\ IsEmpty(box["queries"])
           /\ w'.pc = "sorts" /\ w'.next = "drain"
    BY <1>7, GotoOut DEF NothingIn, WorkerAt
  <2> QED
    BY <1>1, <2>1 DEF Passed, PassedAt
<1>8. CASE NothingIn("sorts", Turn(doc))
  <2>1. w.pc = "sorts" /\ IsEmpty(box["sorts"])
    BY <1>8 DEF NothingIn, WorkerAt
  <2> QED
    BY <2>1 DEF Passed, PassedAt
<1>9. CASE \/ ForgetActiveDocument \/ CancelDocumentQuery \/ ForgetDocumentQuery
           \/ TakeDocumentQuery \/ EventRankFails
  BY <1>4, <1>9
  DEF ForgetActiveDocument, CancelDocumentQuery, ForgetDocumentQuery,
      TakeDocumentQuery, EventRankFails, WorkerAt, Then, Places, PassedAt
<1>10. CASE EmitCheck \/ SendEvent \/ WakeUI
  <2>1. \/ Goto(w.next) \/ Goto("exited")
        \/ w' = [w EXCEPT !.pc = "send"]
        \/ w' = [w EXCEPT !.pc = "wake_ui", !.out = None]
    BY <1>10 DEF EmitCheck, SendEvent, WakeUI, Then
  <2>2. CASE Goto("exited")
    BY <1>1, <1>3, <2>2, GotoOut
  <2>3. CASE \/ w' = [w EXCEPT !.pc = "send"]
             \/ w' = [w EXCEPT !.pc = "wake_ui", !.out = None]
    BY <1>4, <2>3 DEF Places, PassedAt
  <2> QED
    BY <1>2, <2>1, <2>2, <2>3
<1>11. CASE TakeOpen \/ TakeViewport \/ TakeQuery \/ TakeSort
  <2>1. w.next = "drain"
    BY <1>11 DEF TakeOpen, TakeViewport, TakeQuery, TakeSort, TakeCommand,
                 WorkerAt, Places
  <2>2. \/ Goto("drain")
        \/ \E e, strict : Emit(e, "drain", strict)
        \/ \E pc \in {"open", "viewport", "restore"} : \E c :
              w' = [w EXCEPT !.pc = pc, !.cmd = c]
    BY <1>11 DEF TakeOpen, TakeViewport, TakeQuery, TakeSort
  <2>3. w'.next = "drain" /\ w'.pc \in {"drain", "emit", "open", "viewport", "restore"}
    BY <2>1, <2>2, GotoOut, EmitOut DEF Places
  <2> QED
    BY <1>3, <2>3 DEF PassedAt
<1>12. CASE Open \/ Viewport \/ Restore \/ AdvanceQuery \/ Scan
  <2>1. \/ Goto("drain")
        \/ \E e, strict : Emit(e, "drain", strict)
        \/ \E e : Invalidate(e)
    BY <1>12 DEF Open, Viewport, Restore, TellSort, AdvanceQuery, Scan
  <2>2. w'.next = "drain" /\ w'.pc \in {"drain", "emit", "forget_active"}
    BY <2>1, GotoOut, EmitOut, InvalidateOut
  <2> QED
    BY <1>3, <2>2 DEF PassedAt
<1>13. CASE \/ AdvanceSort \/ SortStep \/ FinishSort \/ PrepareSort
            \/ CommitSort \/ ReturnSort
  BY <1>5, <1>13 DEF AdvanceSort, SortStep, FinishSort, PrepareSort, CommitSort,
                     ReturnSort, WorkerAt
<1> QED
  BY <1>6, <1>7, <1>8, <1>9, <1>10, <1>11, <1>12, <1>13 DEF WorkerStep

\* A thread that has ended takes no step.
LEMMA ExitedStays == WorkerStep => w.pc # "exited"
BY DEF WorkerStep, Wait, Drain, NothingIn, TakeOpen, Open, TakeViewport,
       Viewport, TakeQuery, TakeSort, TakeCommand, Restore,
       ForgetActiveDocument, CancelDocumentQuery, ForgetDocumentQuery,
       TakeDocumentQuery, AdvanceSort, SortStep, FinishSort, PrepareSort,
       CommitSort, ReturnSort, AdvanceQuery, Scan, EventRankFails, EmitCheck,
       SendEvent, WakeUI, WorkerAt

\* Every step of the worker thread.
LEMMA WorkerStepHeard ==
    ASSUME IInv, BoxShape, SignalPart, WorkerStep
    PROVE  SignalPart'
<1>1. Places
  BY DEF IInv, WorkerPart
<1>2. ui' = ui /\ ~ ui.dropped
  BY ExitedStays DEF WorkerStep, uiVars, SignalPart
<1>3. /\ DOMAIN box = Boxes /\ "signals" \in Boxes /\ CommandBoxes \subseteq Boxes
      /\ "events" \in Boxes /\ "events" \notin CommandBoxes
      /\ \A b \in Boxes : {"pending", "closed"} \subseteq DOMAIN box[b]
  BY DEF BoxShape, Boxes, CommandBoxes
<1>4. box'["signals"].closed = box["signals"].closed
  BY <1>3, WorkerStepBoxes DEF Take, Send
<1>5. \A b \in CommandBoxes : IsEmpty(box[b]) => IsEmpty(box'[b])
  BY <1>3, WorkerStepBoxes DEF Take, IsEmpty
<1>6. (Dropping' <=> Dropping) /\ (At("signal")' <=> At("signal"))
  BY <1>2 DEF Dropping, At
<1>7. CASE Wait \/ Drain
  <2>1. w'.pc \in {"exited", "drain", "opens"} /\ w'.next = "drain"
    BY <1>7, GotoOut DEF Wait, Drain
  <2>2. Passed' = {}
    BY <2>1 DEF Passed, PassedAt
  <2> QED
    BY <1>2, <1>4, <1>6, <2>2 DEF SignalPart
<1>8. CASE ~ (Wait \/ Drain)
  <2>1. box'["signals"] = box["signals"]
    BY <1>3, <1>8
    DEF WorkerStep, NothingIn, TakeOpen, Open, TakeViewport, Viewport,
        TakeQuery, TakeSort, TakeCommand, Restore, ForgetActiveDocument,
        CancelDocumentQuery, ForgetDocumentQuery, TakeDocumentQuery,
        AdvanceSort, SortStep, FinishSort, PrepareSort, CommitSort, ReturnSort,
        AdvanceQuery, Scan, EventRankFails, EmitCheck, SendEvent, WakeUI, shared
  <2>2. Passed \subseteq CommandBoxes
    BY DEF Passed, PassedAt, CommandBoxes
  <2>3. ASSUME NEW b \in Passed' PROVE Heard(b)'
    <3>1. b \in CommandBoxes /\ Heard(b)
      BY <1>1, <2>2, <2>3, PassedShrinks DEF SignalPart, Heard
    <3> QED
      BY <1>5, <1>6, <2>1, <3>1 DEF Heard, IsEmpty
  <2> QED
    BY <1>2, <1>4, <1>6, <2>3 DEF SignalPart
<1> QED
  BY <1>7, <1>8

\* A worker just started has no call and no command.
LEMMA InitSignalPart == Init => SignalPart
<1> SUFFICES ASSUME Init PROVE SignalPart
  OBVIOUS
<1>1. /\ {"todo", "dropped"} \subseteq DOMAIN ui /\ ui.todo = <<>> /\ ~ ui.dropped
      /\ \A b \in Boxes : IsEmpty(box[b]) /\ ~ box[b].closed
  BY DEF Init, NewMailbox, IsEmpty
<1>2. Passed \subseteq Boxes /\ "signals" \in Boxes
  BY DEF Passed, PassedAt, CommandBoxes, Boxes
<1>3. ui.todo \in Seq(StepNames) /\ SignalRule(ui.todo)
  BY <1>1, ShortSignalRule
<1> QED
  BY <1>1, <1>2, <1>3 DEF SignalPart, Heard

\* Every step keeps commands heard.
LEMMA StepSignalPart ==
    IInv /\ BoxShape /\ SignalPart /\ [Next]_vars => SignalPart'
BY UIStepHeard, WorkerStepHeard, OtherStepHeard DEF Next, OtherStep

\* A thread that sleeps has found every mailbox empty.
LEMMA SignalPartNoLostCommand == SignalPart => NoLostCommand
<1> SUFFICES ASSUME SignalPart, w.pc = "wait", NEW b \in CommandBoxes
             PROVE  IsEmpty(box[b]) \/ ~ IsEmpty(box.signals) \/ ui.todo # <<>>
  BY DEF NoLostCommand, CommandBoxes
<1>1. b \in Passed
  BY DEF Passed, PassedAt
<1>2. Heard(b) /\ ~ ui.dropped
  BY <1>1 DEF SignalPart
<1> QED
  BY <1>2 DEF Heard, Dropping, At

\* No lost command: whatever replaces, empties or closes a mailbox between the
\* steps of a call and those of the thread, the worker never sleeps on a
\* command without a signal pending or about to be sent.
THEOREM CommandsAreHeard == Spec => []NoLostCommand
<1>1. Init => IInv /\ RowsPart /\ SignalPart
  BY InitIInv, InitRowsPart, InitSignalPart
<1>2. IInv /\ RowsPart /\ SignalPart /\ [Next]_vars =>
         (IInv /\ RowsPart /\ SignalPart)'
  BY StepIInv, StepRowsPart, StepSignalPart DEF RowsPart
<1> QED
  BY <1>1, <1>2, SignalPartNoLostCommand, PTL DEF Spec

-----------------------------------------------------------------------------
(* Events are fetched.                                                     *)


\* The thread at work leaves the messages to the UI thread.
LEMMA OnlyWakeUIWakes == WorkerStep => WakeUI \/ (wake' = wake /\ w.pc # "wake_ui")
BY DEF WorkerStep, Wait, Drain, NothingIn, TakeOpen, Open, TakeViewport,
       Viewport, TakeQuery, TakeSort, TakeCommand, Restore,
       ForgetActiveDocument, CancelDocumentQuery, ForgetDocumentQuery,
       TakeDocumentQuery, AdvanceSort, SortStep, FinishSort, PrepareSort,
       CommitSort, ReturnSort, AdvanceQuery, Scan, EventRankFails, EmitCheck,
       SendEvent, WorkerAt

\* Every step keeps a message on its way to the events in the mailbox.
LEMMA StepWakePart ==
    ASSUME Places, BoxShape, "todo" \in DOMAIN ui, WakePart, [Next]_vars
    PROVE  WakePart'
<1>1. DOMAIN box = Boxes /\ "events" \in Boxes
      /\ \A b \in Boxes : {"pending", "closed"} \subseteq DOMAIN box[b]
  BY DEF BoxShape, Boxes
<1>2. CASE OtherStep
  <2>1. UNCHANGED <<box, wake, w>> /\ (UNCHANGED ui \/ ui.todo = <<>>)
    BY <1>2, OtherStepFrame
  <2> QED
    BY <2>1 DEF WakePart, At, IsEmpty
<1>3. CASE WorkerStep
  <2>1. At("poll")' <=> At("poll")
    BY <1>3 DEF WorkerStep, uiVars, At
  <2>2. CASE WakeUI
    BY <2>2 DEF WakeUI, WakePart
  <2>3. CASE SendEvent /\ ~ box.events.closed /\ IsEmpty(box.events)
    <3>1. w' = [w EXCEPT !.pc = "wake_ui", !.out = None]
      BY <2>3 DEF SendEvent, Wakes
    <3>2. w'.pc = "wake_ui"
      BY <3>1 DEF Places
    <3> QED
      BY <3>2 DEF WakePart
  <2>4. CASE /\ wake' = wake /\ w.pc # "wake_ui"
             /\ ~ (SendEvent /\ ~ box.events.closed /\ IsEmpty(box.events))
    <3>1. IsEmpty(box["events"]) => IsEmpty(box'["events"])
      BY <1>1, <1>3, <2>4, WorkerStepBoxes DEF Take, IsEmpty
    <3> QED
      BY <2>1, <2>4, <3>1 DEF WakePart
  <2> QED
    BY <1>3, <2>2, <2>3, <2>4, OnlyWakeUIWakes
<1>4. CASE UIStep
  <2>1. w' = w
    BY <1>4 DEF UIStep
  <2>2. CASE CallPoll
    <3>1. ui' = [ui EXCEPT !.todo = <<"poll">>] /\ <<"poll">> # <<>>
          /\ Head(<<"poll">>) = "poll"
      BY <2>2 DEF CallPoll
    <3>2. At("poll")'
      BY <3>1 DEF At
    <3> QED
      BY <3>2 DEF WakePart
  <2>3. CASE PollTake
    <3>1. IsEmpty(box'["events"])
      BY <1>1, <2>3 DEF PollTake, Take, IsEmpty
    <3> QED
      BY <3>1 DEF WakePart
  <2>4. CASE (SharedStep /\ wake' = wake) \/ (StoreSort /\ wake' = wake) \/ PollJudge \/ Join
    <3>1. ~ At("poll") /\ wake' = wake
      BY <2>4
      DEF SharedStep, CancelStep, BumpSerial, ForgetActive, ForgetQuery,
          ForgetSort, StoreQuery, CheckActive, CheckQuery, TakeStep, SendStep,
          CloseStep, StoreSort, PollJudge, Join, At
    <3>2. IsEmpty(box["events"]) => IsEmpty(box'["events"])
      BY <1>1, <2>4
      DEF SharedStep, CancelStep, BumpSerial, ForgetActive, ForgetQuery,
          ForgetSort, StoreQuery, CheckActive, CheckQuery, TakeStep, SendStep,
          CloseStep, StoreSort, PollJudge, Join, Take, Close, Send, IsEmpty,
          shared
    <3> QED
      BY <2>1, <3>1, <3>2 DEF WakePart
  <2> QED
    BY <1>4, <2>2, <2>3, <2>4 DEF UIStep
<1> QED
  BY <1>2, <1>3, <1>4 DEF Next, OtherStep

\* No lost wake-up: a message is posted only for the first event into an empty
\* mailbox, and that is enough for every event to be fetched.
THEOREM EventsAreFetched == Spec => []NoLostWake
<1>1. Init => IInv /\ RowsPart /\ WakePart
  <2>1. ASSUME Init PROVE WakePart
    BY <2>1 DEF Init, WakePart, NewMailbox, IsEmpty, Boxes
  <2> QED
    BY <2>1, InitIInv, InitRowsPart
<1>2. IInv /\ RowsPart /\ WakePart /\ [Next]_vars =>
         (IInv /\ RowsPart /\ WakePart)'
  BY StepIInv, StepRowsPart, StepWakePart
  DEF IInv, UIPart, CallRule, WorkerPart, RowsPart
<1>3. WakePart => NoLostWake
  BY DEF WakePart, NoLostWake, At
<1> QED
  BY <1>1, <1>2, <1>3, PTL DEF Spec

-----------------------------------------------------------------------------
(* Sleep.                                                                  *)

\* A document with nothing left to do.
Done(d) == d # None => d.scanDone /\ d.sort = None /\ ~ HasDemand(d)

LEMMA AfterSortDone ==
    ASSUME NEW d, AfterSort(d) = "wait" PROVE Done(d)
BY DEF AfterSort, Done

\* Every step keeps the thread from sleeping on work.
LEMMA StepSleepPart ==
    ASSUME Places, SleepPart, [Next]_vars PROVE SleepPart'
<1>1. CASE UNCHANGED <<doc, w>>
  BY <1>1 DEF SleepPart, HasDemand
<1>2. CASE w'.pc # "wait" /\ w'.next # "wait"
  BY <1>2 DEF SleepPart
<1>3. ASSUME NEW d, doc' = d,
             \/ Goto(AfterSort(d))
             \/ \E e : Emit(e, AfterSort(d), FALSE)
      PROVE  SleepPart'
  <2>1. w'.next = "wait" \/ w'.pc = "wait" => AfterSort(d) = "wait"
    BY <1>3, GotoOut, EmitOut
  <2>2. w'.next = "wait" \/ w'.pc = "wait" => Done(doc')
    BY <1>3, <2>1, AfterSortDone
  <2> QED
    BY <2>2 DEF SleepPart, Done, HasDemand
<1>4. CASE \/ Wait \/ Drain \/ NothingIn("opens", "viewports")
           \/ NothingIn("viewports", "queries") \/ NothingIn("queries", "sorts")
  <2>1. \E pc \in {"exited", "drain", "opens", "viewports", "queries", "sorts"} :
           Goto(pc)
    BY <1>4 DEF Wait, Drain, NothingIn
  <2> QED
    BY <1>2, <2>1, GotoOut
<1>5. CASE NothingIn("sorts", Turn(doc))
  <2>1. doc' = doc /\ Goto(Turn(doc))
    BY <1>5 DEF NothingIn
  <2>2. CASE doc = None
    BY <2>1, <2>2 DEF SleepPart
  <2>3. CASE doc # None /\ doc.sort # None
    BY <1>2, <2>1, <2>3, GotoOut DEF Turn
  <2>4. CASE doc # None /\ doc.sort = None
    BY <1>3, <2>1, <2>4 DEF Turn
  <2> QED
    BY <2>2, <2>3, <2>4
<1>6. CASE \/ ForgetActiveDocument \/ CancelDocumentQuery \/ ForgetDocumentQuery
           \/ TakeDocumentQuery \/ EventRankFails
  <2>1. doc' = doc /\ w'.next = w.next /\ w'.pc # "wait"
    BY <1>6
    DEF ForgetActiveDocument, CancelDocumentQuery, ForgetDocumentQuery,
        TakeDocumentQuery, EventRankFails, WorkerAt, Then, Places
  <2> QED
    BY <2>1 DEF SleepPart, HasDemand
<1>7. CASE EmitCheck \/ SendEvent \/ WakeUI
  <2>1. \/ doc' = doc /\ Goto(w.next)
        \/ Goto("exited")
        \/ doc' = doc /\ w' = [w EXCEPT !.pc = "send"]
        \/ doc' = doc /\ w' = [w EXCEPT !.pc = "wake_ui", !.out = None]
    BY <1>7 DEF EmitCheck, SendEvent, WakeUI, Then
  <2>2. CASE Goto("exited")
    BY <1>2, <2>2, GotoOut
  <2>3. CASE doc' = doc /\ Goto(w.next)
    BY <2>3, GotoOut DEF SleepPart, HasDemand
  <2>4. CASE doc' = doc /\ \/ w' = [w EXCEPT !.pc = "send"]
                           \/ w' = [w EXCEPT !.pc = "wake_ui", !.out = None]
    BY <2>4 DEF SleepPart, HasDemand, Places
  <2> QED
    BY <2>1, <2>2, <2>3, <2>4
<1>8. CASE TakeOpen \/ TakeViewport \/ TakeQuery \/ TakeSort
  <2>1. w.next = "drain"
    BY <1>8 DEF TakeOpen, TakeViewport, TakeQuery, TakeSort, TakeCommand,
                WorkerAt, Places
  <2>2. \/ Goto("drain")
        \/ \E e, strict : Emit(e, "drain", strict)
        \/ \E pc \in {"open", "viewport", "restore"} : \E c :
              w' = [w EXCEPT !.pc = pc, !.cmd = c]
    BY <1>8 DEF TakeOpen, TakeViewport, TakeQuery, TakeSort
  <2> QED
    BY <1>2, <2>1, <2>2, GotoOut, EmitOut DEF Places
<1>9. CASE Open \/ Viewport \/ Restore \/ AdvanceQuery \/ Scan
  <2>1. \/ Goto("drain")
        \/ \E e, strict : Emit(e, "drain", strict)
        \/ \E e : Invalidate(e)
    BY <1>9 DEF Open, Viewport, Restore, TellSort, AdvanceQuery, Scan
  <2> QED
    BY <1>2, <2>1, GotoOut, EmitOut, InvalidateOut
<1>10. CASE AdvanceSort \/ SortStep \/ ReturnSort
  <2>1. \/ Goto("sort_step") \/ Goto("finish_sort")
        \/ \E d : doc' = d /\ Goto(AfterSort(d))
        \/ \E d : doc' = d /\ \E e : Emit(e, AfterSort(d), FALSE)
    BY <1>10 DEF AdvanceSort, SortStep, ReturnSort, ReportSort, TellSort
  <2>2. CASE Goto("sort_step") \/ Goto("finish_sort")
    BY <1>2, <2>2, GotoOut
  <2>3. CASE \E d : doc' = d /\ Goto(AfterSort(d))
    BY <1>3, <2>3
  <2>4. CASE \E d : doc' = d /\ \E e : Emit(e, AfterSort(d), FALSE)
    BY <1>3, <2>4
  <2> QED
    BY <2>1, <2>2, <2>3, <2>4
<1>11. CASE FinishSort \/ PrepareSort \/ CommitSort
  <2>1. \/ w.next = "drain" /\ \E c : w' = [w EXCEPT !.pc = "prepare", !.cmd = c]
        \/ w.next = "drain" /\ w' = [w EXCEPT !.pc = "commit"]
        \/ \E e : Emit(e, "return_sort", FALSE)
    BY <1>11 DEF FinishSort, PrepareSort, CommitSort, EndSort, TellSort, Then,
                 WorkerAt, Places
  <2>2. CASE \E e : Emit(e, "return_sort", FALSE)
    <3>1. w'.next = "return_sort" /\ w'.pc = "emit"
      BY <2>2, EmitOut
    <3> QED
      BY <1>2, <3>1
  <2>3. CASE \/ w.next = "drain" /\ \E c : w' = [w EXCEPT !.pc = "prepare", !.cmd = c]
             \/ w.next = "drain" /\ w' = [w EXCEPT !.pc = "commit"]
    <3>1. w'.next = "drain" /\ w'.pc \in {"prepare", "commit"}
      BY <2>3 DEF Places
    <3> QED
      BY <1>2, <3>1
  <2> QED
    BY <2>1, <2>2, <2>3
<1>12. CASE UIStep \/ OtherStep
  BY <1>1, <1>12, OtherStepFrame DEF UIStep
<1> QED
  BY <1>4, <1>5, <1>6, <1>7, <1>8, <1>9, <1>10, <1>11, <1>12
  DEF Next, OtherStep, WorkerStep

\* The worker thread sleeps only when the scan is over, no sort runs and the
\* search is not asked for a match: nothing the user asked for is forgotten.
THEOREM SleepsOnlyWhenDone == Spec => []SleepsWhenDone
<1>1. Init => IInv /\ SleepPart
  <2>1. Init => SleepPart
    BY DEF Init, SleepPart
  <2> QED
    BY <2>1, InitIInv
<1>2. IInv /\ SleepPart /\ [Next]_vars => (IInv /\ SleepPart)'
  BY StepIInv, StepSleepPart DEF IInv, WorkerPart
<1>3. SleepPart => SleepsWhenDone
  BY DEF SleepPart, SleepsWhenDone
<1> QED
  BY <1>1, <1>2, <1>3, PTL DEF Spec
-----------------------------------------------------------------------------
(* The state types: what each thread owns and what the two share.          *)
(*                                                                         *)
(* TypeOK is not inductive: the serial a document is published under and   *)
(* the order it is sorted by come out of the mailboxes, where the calls    *)
(* put them.                                                               *)

\* What a command in a mailbox carries, as far as the types ask.
Carries(b, v) ==
    /\ b = "opens" => v.serial \in Nat
    /\ b = "sorts" => v.serial \in Nat /\ v.key \in Order

SlotTyped(b, m) ==
    /\ {"pending", "closed"} \subseteq DOMAIN m
    /\ m.closed \in BOOLEAN
    /\ IsEmpty(m) \/ \E v : m.pending = <<v>> /\ Carries(b, v)

BoxesTyped == DOMAIN box = Boxes /\ \A b \in Boxes : SlotTyped(b, box[b])

SharedTyped ==
    /\ {latest, active, latestQuery, latestSort, nextSort, permit, otherSort,
        querySeq} \subseteq Nat
    /\ gen \in [Tokens -> Nat]
    /\ wake \in BOOLEAN
    /\ budget \in [Calls -> Nat]

CallTyped ==
    /\ {"todo", "arg", "gen", "event", "dropped"} \subseteq DOMAIN ui
    /\ "key" \in DOMAIN ui.arg /\ ui.arg.key \in Order
    /\ ui.dropped \in BOOLEAN

DocumentTyped(d) ==
    d # None =>
        /\ {"order", "sort"} \subseteq DOMAIN d
        /\ d.order \in Order
        /\ d.sort # None =>
              /\ {"serial", "key"} \subseteq DOMAIN d.sort
              /\ d.sort.serial \in Nat /\ d.sort.key \in Order

WorkTyped ==
    /\ DocumentTyped(doc)
    /\ w.pc \in WorkerPlaces
    /\ w.pc = "open" => w.cmd.serial \in Nat

TypePart == SharedTyped /\ BoxesTyped /\ CallTyped /\ WorkTyped

\* Every call on a mailbox keeps what it may hold.
LEMMA CallsKeepBoxesTyped ==
    ASSUME BoxesTyped, NEW b \in Boxes, NEW v, Carries(b, v),
           \/ box' = [box EXCEPT ![b] = Take(@)]
           \/ box' = [box EXCEPT ![b] = Close(@)]
           \/ box' = [box EXCEPT ![b] = Send(@, v)]
    PROVE  BoxesTyped'
<1>1. SlotTyped(b, box[b])
  BY DEF BoxesTyped
<1>2. SlotTyped(b, Take(box[b]))
  BY <1>1 DEF SlotTyped, Take, IsEmpty
<1>3. SlotTyped(b, Close(box[b]))
  BY <1>1 DEF SlotTyped, Close, IsEmpty
<1>4. SlotTyped(b, Send(box[b], v))
  BY <1>1 DEF SlotTyped, Send, IsEmpty
<1>5. SlotTyped(b, box'[b]) /\ DOMAIN box' = Boxes
  BY <1>2, <1>3, <1>4 DEF BoxesTyped
<1>6. \A c \in Boxes : c # b => box'[c] = box[c]
  BY DEF BoxesTyped
<1>7. ASSUME NEW c \in Boxes PROVE SlotTyped(c, box'[c])
  BY <1>5, <1>6 DEF BoxesTyped
<1> QED
  BY <1>5, <1>7 DEF BoxesTyped

\* A call that goes on, or is over, keeps its argument.
LEMMA CallGoesOnTyped ==
    ASSUME CallTyped,
           \/ Advance \/ ui' = Returned \/ ui' = [Returned EXCEPT !.dropped = TRUE]
           \/ \E todo : ui' = [ui EXCEPT !.todo = todo]
           \/ \E todo, event : ui' = [ui EXCEPT !.todo = todo, !.event = event]
           \/ \E todo, t, g : ui' = [ui EXCEPT !.todo = todo, !.gen[t] = g]
    PROVE  CallTyped'
<1>1. "key" \in DOMAIN NoArg /\ NoArg.key \in Order
  BY DEF NoArg, Order
<1>2. CASE \/ \E todo : ui' = [ui EXCEPT !.todo = todo]
           \/ \E todo, event : ui' = [ui EXCEPT !.todo = todo, !.event = event]
           \/ \E todo, t, g : ui' = [ui EXCEPT !.todo = todo, !.gen[t] = g]
  BY <1>2 DEF CallTyped
<1>3. CASE ui' = Returned \/ ui' = [Returned EXCEPT !.dropped = TRUE]
  BY <1>1, <1>3 DEF CallTyped, Returned
<1> QED
  BY <1>2, <1>3 DEF Advance

\* A method of Worker touches a token, a serial or a mailbox a step; the
\* commands it sends carry the serials and the order it was called with.
LEMMA SharedStepTyped ==
    ASSUME TypePart, SharedStep, UNCHANGED <<sorting, wake, budget>>
    PROVE  SharedTyped' /\ BoxesTyped' /\ CallTyped'
<1> USE DEF TypePart
<1>1. ASSUME NEW step, NEW t \in Tokens, CancelStep(step, t)
      PROVE  SharedTyped' /\ BoxesTyped' /\ CallTyped'
  <2>1. SharedTyped'
    BY <1>1 DEF CancelStep, Cancel, SharedTyped, sorting
  <2>2. BoxesTyped'
    BY <1>1 DEF CancelStep, BoxesTyped
  <2>3. CallTyped'
    BY <1>1, CallGoesOnTyped DEF CancelStep
  <2> QED
    BY <2>1, <2>2, <2>3
<1>2. ASSUME NEW step, NEW b \in Boxes, TakeStep(step, b) \/ CloseStep(step, b)
      PROVE  SharedTyped' /\ BoxesTyped' /\ CallTyped'
  <2>1. SharedTyped'
    BY <1>2 DEF TakeStep, CloseStep, SharedTyped, sorting
  <2>2. Carries(b, [serial |-> 0, key |-> SourceOrder])
    BY DEF Carries, Order
  <2>3. BoxesTyped'
    BY <1>2, <2>2, CallsKeepBoxesTyped DEF TakeStep, CloseStep
  <2>4. CallTyped'
    BY <1>2, CallGoesOnTyped DEF TakeStep, CloseStep
  <2> QED
    BY <2>1, <2>3, <2>4
<1>3. ASSUME NEW step, NEW b \in Boxes, NEW v, Carries(b, v), SendStep(step, b, v)
      PROVE  SharedTyped' /\ BoxesTyped' /\ CallTyped'
  <2>1. SharedTyped'
    BY <1>3 DEF SendStep, SharedTyped, sorting
  <2>2. BoxesTyped'
    BY <1>3, CallsKeepBoxesTyped DEF SendStep
  <2>3. CallTyped'
    BY <1>3, CallGoesOnTyped DEF SendStep
  <2> QED
    BY <2>1, <2>2, <2>3
<1>4. ASSUME \/ BumpSerial \/ ForgetActive \/ ForgetQuery \/ ForgetSort
             \/ StoreQuery \/ CheckActive \/ CheckQuery
      PROVE  SharedTyped' /\ BoxesTyped' /\ CallTyped'
  <2>1. SharedTyped'
    BY <1>4
    DEF BumpSerial, ForgetActive, ForgetQuery, ForgetSort, StoreQuery,
        CheckActive, CheckQuery, SharedTyped, shared, sorting
  <2>2. BoxesTyped'
    BY <1>4
    DEF BumpSerial, ForgetActive, ForgetQuery, ForgetSort, StoreQuery,
        CheckActive, CheckQuery, BoxesTyped, shared
  <2>3. CallTyped'
    BY <1>4, CallGoesOnTyped
    DEF BumpSerial, ForgetActive, ForgetQuery, ForgetSort, StoreQuery,
        CheckActive, CheckQuery
  <2> QED
    BY <2>1, <2>2, <2>3
<1>5. Carries("opens", OpenCommand) /\ Carries("sorts", SortCommand)
  BY DEF Carries, OpenCommand, SortCommand, SharedTyped, CallTyped
<1>6. /\ Carries("viewports", ViewportCommand) /\ Carries("signals", TRUE)
      /\ Carries("queries", QueryCommand(TRUE))
      /\ Carries("queries", QueryCommand(FALSE))
  BY DEF Carries
<1>7. Boxes = {"opens", "viewports", "queries", "sorts", "signals", "events"}
      /\ Tokens = {"view", "query", "sort"}
  BY DEF Boxes, Tokens
<1>8. CASE \/ CancelStep("cancel_sort", "sort")
           \/ CancelStep("cancel_view", "view")
           \/ CancelStep("cancel_query", "query")
  BY <1>1, <1>7, <1>8
<1>9. CASE \/ TakeStep("take_sorts", "sorts")
           \/ TakeStep("take_viewports", "viewports")
           \/ TakeStep("take_queries", "queries")
           \/ TakeStep("take_events", "events")
           \/ CloseStep("close_sorts", "sorts")
           \/ CloseStep("close_opens", "opens")
           \/ CloseStep("close_viewports", "viewports")
           \/ CloseStep("close_queries", "queries")
           \/ CloseStep("close_signals", "signals")
           \/ CloseStep("close_events", "events")
  BY <1>2, <1>7, <1>9
<1>10. CASE \/ SendStep("send_open", "opens", OpenCommand)
            \/ SendStep("send_viewport", "viewports", ViewportCommand)
            \/ SendStep("send_sort", "sorts", SortCommand)
            \/ SendStep("send_query", "queries", QueryCommand(TRUE))
            \/ SendStep("send_navigate", "queries", QueryCommand(FALSE))
            \/ SendStep("signal", "signals", TRUE)
  BY <1>3, <1>5, <1>6, <1>7, <1>10
<1> QED
  BY <1>4, <1>8, <1>9, <1>10 DEF SharedStep

\* The steps the UI thread takes on its own.
LEMMA UIStepTyped ==
    ASSUME TypePart, UIStep
    PROVE  TypePart'
<1> USE DEF TypePart
<1>1. UNCHANGED <<doc, w, budget>> /\ WorkTyped'
  BY DEF UIStep, WorkTyped
<1>2. CASE SharedStep /\ UNCHANGED <<sorting, wake, shown>>
  BY <1>1, <1>2, SharedStepTyped
<1>3. CASE StoreSort /\ UNCHANGED <<permit, otherSort, wake, shown>>
  <2>1. SharedTyped' /\ BoxesTyped'
    BY <1>1, <1>3 DEF StoreSort, SharedTyped, BoxesTyped
  <2>2. CallTyped'
    BY <1>3, CallGoesOnTyped DEF StoreSort
  <2> QED
    BY <1>1, <2>1, <2>2
<1>4. CASE (CallPoll \/ PollTake \/ PollJudge \/ Join) /\ UNCHANGED sorting
  <2>1. SharedTyped'
    BY <1>1, <1>4
    DEF CallPoll, PollTake, PollJudge, Join, SharedTyped, shared, sorting
  <2>2. CallTyped'
    BY <1>4, CallGoesOnTyped DEF CallPoll, PollTake, PollJudge, Join
  <2>3. box' = box \/ box' = [box EXCEPT !["events"] = Take(@)]
    BY <1>4 DEF CallPoll, PollTake, PollJudge, Join, shared
  <2>4. Carries("events", None) /\ "events" \in Boxes
    BY DEF Carries, Boxes
  <2>5. BoxesTyped'
    BY <2>3, <2>4, CallsKeepBoxesTyped DEF BoxesTyped
  <2> QED
    BY <1>1, <2>1, <2>2, <2>5
<1> QED
  BY <1>2, <1>3, <1>4 DEF UIStep

\* A call that starts names an order there is.
LEMMA UICallTyped ==
    ASSUME TypePart, UICall
    PROVE  TypePart'
<1> USE DEF TypePart
<1>1. ASSUME NEW call \in Calls, NEW steps, NEW arg, "key" \in DOMAIN arg,
             arg.key \in Order, Begin(call, steps, arg)
      PROVE  TypePart'
  <2>1. SharedTyped'
    BY <1>1 DEF Begin, Spend, SharedTyped, shared, sorting
  <2>2. BoxesTyped' /\ WorkTyped'
    BY <1>1 DEF Begin, BoxesTyped, WorkTyped, shared
  <2>3. CallTyped'
    BY <1>1 DEF Begin, CallTyped
  <2> QED
    BY <2>1, <2>2, <2>3
<1>2. "key" \in DOMAIN NoArg /\ NoArg.key \in Order
  BY DEF NoArg, Order
<1>3. \A r, s : /\ "key" \in DOMAIN [NoArg EXCEPT !.row = r, !.sourceRow = s]
                /\ [NoArg EXCEPT !.row = r, !.sourceRow = s].key \in Order
                /\ "key" \in DOMAIN [NoArg EXCEPT !.row = r]
                /\ [NoArg EXCEPT !.row = r].key \in Order
                /\ "key" \in DOMAIN [NoArg EXCEPT !.next = s]
                /\ [NoArg EXCEPT !.next = s].key \in Order
  BY <1>2 DEF NoArg
<1>4. \A k \in Order : /\ "key" \in DOMAIN [NoArg EXCEPT !.key = k]
                       /\ [NoArg EXCEPT !.key = k].key \in Order
  BY DEF NoArg
<1>5. {"open", "viewport", "source_row", "sort", "cancel_sort", "query",
       "navigate", "drop"} \subseteq Calls
  BY DEF Calls
<1>6. CASE CallOpen \/ CallCancelSort \/ CallQuery \/ CallDrop
  BY <1>1, <1>2, <1>5, <1>6 DEF CallOpen, CallCancelSort, CallQuery, CallDrop
<1>7. CASE CallViewport \/ CallSourceRow \/ CallNavigate
  BY <1>1, <1>3, <1>5, <1>7 DEF CallViewport, CallSourceRow, CallNavigate
<1>8. CASE CallSort
  BY <1>1, <1>4, <1>5, <1>8 DEF CallSort
<1> QED
  BY <1>6, <1>7, <1>8 DEF UICall

\* Another tab takes the next serial, or gives the permit back.
LEMMA OtherTabsTyped ==
    ASSUME TypePart, OtherAcquires \/ OtherReleases
    PROVE  TypePart'
<1>1. SharedTyped'
  BY DEF TypePart, OtherAcquires, OtherReleases, Spend, SharedTyped, Calls,
         shared, uiVars
<1>2. BoxesTyped' /\ CallTyped' /\ WorkTyped'
  BY DEF TypePart, OtherAcquires, OtherReleases, BoxesTyped, CallTyped,
         WorkTyped, shared, uiVars
<1> QED
  BY <1>1, <1>2 DEF TypePart

\* A step of the worker thread publishes only the serial of its command, and
\* takes and drops only the permit of its own sort.
LEMMA WorkerSharedTyped ==
    ASSUME IInv, TypePart, WorkerStep
    PROVE  SharedTyped'
<1>1. /\ SharedTyped /\ WorkTyped /\ UNCHANGED <<nextSort, otherSort, querySeq>>
      /\ "fault" \in Calls /\ {"view", "query", "sort"} \subseteq Tokens
  BY DEF TypePart, WorkerStep, uiVars, Calls, Tokens
<1>2. Spend("fault") => budget' \in [Calls -> Nat]
  BY <1>1 DEF Spend, SharedTyped
<1>3. Release(doc) => permit' \in Nat
  BY <1>1 DEF Release, SharedTyped
<1>4. CASE \/ Wait \/ Drain \/ NothingIn("opens", "viewports")
           \/ NothingIn("viewports", "queries") \/ NothingIn("queries", "sorts")
           \/ NothingIn("sorts", Turn(doc))
  BY <1>1, <1>3, <1>4 DEF Wait, Drain, NothingIn, SharedTyped, shared
<1>5. CASE TakeOpen \/ TakeViewport \/ TakeQuery \/ TakeSort
  <2>1. /\ UNCHANGED <<latest, active, latestQuery, latestSort, gen, wake>>
        /\ permit' = permit \/ Release(doc)
        /\ budget' = budget \/ Spend("fault")
    BY <1>5 DEF TakeOpen, TakeViewport, TakeQuery, TakeSort, TakeCommand, Fault
  <2> QED
    BY <1>1, <1>2, <1>3, <2>1 DEF SharedTyped
<1>6. CASE Open
  <2>1. /\ UNCHANGED <<latest, latestQuery, latestSort, gen, permit, wake>>
        /\ active' = active \/ active' = w.cmd.serial
        /\ budget' = budget \/ Spend("fault")
        /\ w.pc = "open"
    BY <1>6 DEF Open, WorkerAt, Serves, Fault
  <2> QED
    BY <1>1, <1>2, <2>1 DEF SharedTyped, WorkTyped
<1>7. CASE Viewport \/ Restore \/ Scan \/ PrepareSort \/ EventRankFails
  <2>1. /\ UNCHANGED <<latest, active, latestQuery, latestSort, gen, permit, wake>>
        /\ budget' = budget \/ Spend("fault")
    BY <1>7 DEF Viewport, Restore, Scan, PrepareSort, EventRankFails, Fault, shared
  <2> QED
    BY <1>1, <1>2, <2>1 DEF SharedTyped
<1>8. CASE ForgetActiveDocument \/ ForgetDocumentQuery \/ TakeDocumentQuery
  BY <1>1, <1>8
  DEF ForgetActiveDocument, ForgetDocumentQuery, TakeDocumentQuery, SharedTyped
<1>9. CASE CancelDocumentQuery
  BY <1>1, <1>9 DEF CancelDocumentQuery, Cancel, SharedTyped
<1>10. CASE AdvanceSort
  <2>1. doc # None /\ doc.sort # None
    BY <1>10 DEF AdvanceSort, WorkerAt, IInv, WorkerPart, Places
  <2>2. doc.sort.serial \in Nat
    BY <1>1, <2>1 DEF WorkTyped, DocumentTyped
  <2>3. /\ UNCHANGED <<latest, active, latestQuery, latestSort, gen, wake, budget>>
        /\ permit' \in {permit, doc.sort.serial} \/ Release(doc)
    BY <1>10 DEF AdvanceSort, shared
  <2> QED
    BY <1>1, <1>3, <2>2, <2>3 DEF SharedTyped
<1>11. CASE SortStep
  <2>1. /\ UNCHANGED <<latest, active, latestQuery, latestSort, gen, wake>>
        /\ permit' = permit \/ Release(doc)
        /\ budget' = budget \/ Spend("fault")
    BY <1>11 DEF SortStep, Fault, shared
  <2> QED
    BY <1>1, <1>2, <1>3, <2>1 DEF SharedTyped
<1>12. CASE FinishSort \/ CommitSort \/ ReturnSort \/ EmitCheck \/ WakeUI
  <2>1. /\ UNCHANGED <<latest, active, latestQuery, latestSort, gen, budget>>
        /\ permit' \in {permit, 0} /\ (wake' = wake \/ wake' = TRUE)
    BY <1>12 DEF FinishSort, CommitSort, ReturnSort, EmitCheck, WakeUI, shared
  <2>2. wake' \in BOOLEAN
    BY <1>1, <2>1, Zenon DEF SharedTyped
  <2> QED
    BY <1>1, <2>1, <2>2 DEF SharedTyped
<1>13. CASE AdvanceQuery
  <2>1. /\ UNCHANGED <<latest, latestQuery, latestSort, gen, permit, wake>>
        /\ active' = active \/ active' = 0
        /\ budget' = budget \/ Spend("fault")
    BY <1>13 DEF AdvanceQuery, Fault
  <2> QED
    BY <1>1, <1>2, <2>1 DEF SharedTyped
<1>14. CASE SendEvent
  <2>1. /\ UNCHANGED <<latest, active, latestQuery, latestSort, gen, wake, budget>>
        /\ permit' = permit \/ Release(doc)
    BY <1>14 DEF SendEvent
  <2> QED
    BY <1>1, <1>3, <2>1 DEF SharedTyped
<1> QED
  BY <1>4, <1>5, <1>6, <1>7, <1>8, <1>9, <1>10, <1>11, <1>12, <1>13, <1>14
  DEF WorkerStep

\* What it takes and sends keeps the mailboxes in order; the call in progress
\* is not its own.
LEMMA WorkerBoxesTyped ==
    ASSUME TypePart, WorkerStep
    PROVE  BoxesTyped' /\ CallTyped'
<1>1. BoxesTyped /\ CallTyped'
  BY DEF TypePart, WorkerStep, uiVars, CallTyped
<1>2. CASE box' = box
  BY <1>1, <1>2 DEF BoxesTyped
<1>3. ASSUME NEW b \in Boxes, box' = [box EXCEPT ![b] = Take(@)]
      PROVE  BoxesTyped'
  <2>1. Carries(b, [serial |-> 0, key |-> SourceOrder])
    BY DEF Carries, Order
  <2> QED
    BY <1>1, <1>3, <2>1, CallsKeepBoxesTyped
<1>4. CASE box' = [box EXCEPT !["events"] = Send(@, w.out)]
  <2>1. Carries("events", w.out) /\ "events" \in Boxes
    BY DEF Carries, Boxes
  <2> QED
    BY <1>1, <1>4, <2>1, CallsKeepBoxesTyped
<1> QED
  BY <1>1, <1>2, <1>3, <1>4, WorkerStepBoxes

\* The documents a handler leaves: the order of its sort is one of its own.
LEMMA HandledTyped ==
    ASSUME NEW d, d # None, DocumentTyped(d), DocumentFields \subseteq DOMAIN d,
           NEW e
    PROVE  /\ OtherFields(d, e) => DocumentTyped(e)
           /\ \A phase, lost :
                 /\ DocumentTyped(SortEnds(d, phase))
                 /\ DocumentTyped([SortEnds(d, phase) EXCEPT !.lost = lost])
           /\ \A order \in Order : DocumentTyped(Ordered(d, order))
           /\ \A phase, left :
                 d.sort # None =>
                 /\ DocumentTyped([d EXCEPT !.sort.permit = TRUE])
                 /\ DocumentTyped([d EXCEPT !.sort.session = TRUE,
                                            !.sortState.phase = phase])
                 /\ DocumentTyped([d EXCEPT !.sort.session = TRUE,
                                            !.sort.left = left,
                                            !.sortState.phase = phase])
<1>1. /\ {"order", "sort"} \subseteq DOMAIN d /\ d.order \in Order
      /\ d.sort # None =>
            {"serial", "key"} \subseteq DOMAIN d.sort
            /\ d.sort.serial \in Nat /\ d.sort.key \in Order
  BY DEF DocumentTyped
<1>2. OtherFields(d, e) => DocumentTyped(e)
  BY <1>1 DEF OtherFields, DocumentTyped
<1>3. ASSUME NEW phase, NEW lost
      PROVE  /\ DocumentTyped(SortEnds(d, phase))
             /\ DocumentTyped([SortEnds(d, phase) EXCEPT !.lost = lost])
  BY <1>1 DEF SortEnds, DocumentTyped
<1>4. ASSUME NEW order \in Order PROVE DocumentTyped(Ordered(d, order))
  BY <1>1 DEF Ordered, SortEnds, DocumentTyped
<1>5. ASSUME NEW phase, NEW left, d.sort # None
      PROVE  /\ DocumentTyped([d EXCEPT !.sort.permit = TRUE])
             /\ DocumentTyped([d EXCEPT !.sort.session = TRUE,
                                        !.sortState.phase = phase])
             /\ DocumentTyped([d EXCEPT !.sort.session = TRUE,
                                        !.sort.left = left,
                                        !.sortState.phase = phase])
  BY <1>1, <1>5 DEF DocumentTyped
<1> QED
  BY <1>2, <1>3, <1>4, <1>5

\* The document and the place of the worker thread.
LEMMA WorkerWorkTyped ==
    ASSUME IInv, RowsPart, TypePart, WorkerStep
    PROVE  WorkTyped'
<1> USE DEF WorkerPlaces
<1>1. /\ DocumentTyped(doc) /\ w.pc \in WorkerPlaces /\ Places /\ BoxesTyped
      /\ w.pc = "open" => w.cmd.serial \in Nat
  BY DEF TypePart, WorkTyped, IInv, WorkerPart
<1>2. w.next \in WorkerPlaces /\ \A d : AfterSort(d) \in WorkerPlaces
  BY <1>1 DEF Places, AfterSort
<1>3. DocumentTyped(None)
  BY DEF DocumentTyped
<1>4. doc # None => DocumentFields \subseteq DOMAIN doc
  BY DEF RowsPart, DocPart, Fits
<1>5. SUFFICES /\ DocumentTyped(doc') /\ w'.pc \in WorkerPlaces
               /\ w'.pc = "open" => w'.cmd.serial \in Nat
  BY DEF WorkTyped
<1>6. ASSUME NEW d, DocumentTyped(d), doc' = d, NEW pc \in WorkerPlaces, pc # "open",
             \/ Goto(pc) \/ Then(pc) \/ \E c : w' = [w EXCEPT !.pc = pc, !.cmd = c]
      PROVE  WorkTyped'
  BY <1>1, <1>6 DEF WorkTyped, Goto, Then, Idle, Places
<1>7. ASSUME NEW d, DocumentTyped(d), doc' = d,
             (\E e, next, strict : Emit(e, next, strict)) \/ \E e : Invalidate(e)
      PROVE  WorkTyped'
  BY <1>7 DEF WorkTyped, Emit, Invalidate, Idle
<1>8. CASE Wait \/ Drain \/ NothingIn("opens", "viewports")
           \/ NothingIn("viewports", "queries") \/ NothingIn("queries", "sorts")
           \/ NothingIn("sorts", Turn(doc))
  <2>1. \/ doc' = None /\ Goto("exited")
        \/ \E pc \in {"drain", "opens", "viewports", "queries", "sorts", Turn(doc)} :
              doc' = doc /\ Goto(pc)
    BY <1>8 DEF Wait, Drain, NothingIn
  <2>2. Turn(doc) \in WorkerPlaces /\ Turn(doc) # "open"
    BY DEF Turn, AfterSort
  <2>3. CASE doc' = None /\ Goto("exited")
    BY <1>3, <1>6, <2>3 DEF WorkTyped
  <2>4. CASE \E pc \in {"drain", "opens", "viewports", "queries", "sorts", Turn(doc)} :
                doc' = doc /\ Goto(pc)
    BY <1>1, <1>6, <2>2, <2>4 DEF WorkTyped
  <2> QED
    BY <2>1, <2>3, <2>4
<1>9. CASE TakeOpen
  <2>1. /\ ~ IsEmpty(box["opens"]) /\ doc' = None
        /\ w' = [w EXCEPT !.pc = "open", !.cmd = Taken(box["opens"])]
    BY <1>9 DEF TakeOpen, TakeCommand
  <2>2. SlotTyped("opens", box["opens"])
    BY <1>1 DEF BoxesTyped, Boxes
  <2>3. Taken(box["opens"]).serial \in Nat
    BY <2>1, <2>2 DEF SlotTyped, Carries, Taken
  <2> QED
    BY <1>1, <1>3, <2>1, <2>3 DEF Places
<1>10. CASE Open
  <2>1. \A serial : DocumentTyped(Opened(serial))
    BY DEF DocumentTyped, Opened, Order
  <2>2. \/ doc' = doc /\ Goto("drain")
        \/ \E serial, e : doc' = Opened(serial) /\ Emit(e, "drain", TRUE)
        \/ \E e : doc' = doc /\ Invalidate(e)
    BY <1>10 DEF Open
  <2> QED
    BY <1>1, <1>6, <1>7, <2>1, <2>2 DEF WorkTyped
<1>11. CASE TakeViewport
  <2>1. \/ doc' = doc /\ Goto("drain")
        \/ /\ doc # None /\ \E r : doc' = [doc EXCEPT !.reveal = r]
           /\ \/ \E c : w' = [w EXCEPT !.pc = "viewport", !.cmd = c]
              \/ \E e : Emit(e, "drain", TRUE)
    BY <1>11 DEF TakeViewport
  <2>2. doc # None => \A r : DocumentTyped([doc EXCEPT !.reveal = r])
    BY <1>1, <1>4, HandledTyped DEF OtherFields
  <2> QED
    BY <1>1, <1>6, <1>7, <2>1, <2>2 DEF WorkTyped
<1>12. CASE Viewport
  <2>1. doc # None
    BY <1>1, <1>12 DEF Viewport, WorkerAt, Places
  <2>2. \A r : DocumentTyped([[doc EXCEPT !.rows = r] EXCEPT !.reveal = NoRow])
    BY <1>1, <1>4, <2>1 DEF DocumentTyped
  <2>3. \A l : DocumentTyped([doc EXCEPT !.query = None, !.lost = l])
    BY <1>1, <1>4, <2>1, HandledTyped DEF OtherFields
  <2>4. \/ doc' = doc /\ Goto("drain")
        \/ \E r, e : /\ doc' = [[doc EXCEPT !.rows = r] EXCEPT !.reveal = NoRow]
                     /\ Emit(e, "drain", TRUE)
        \/ \E l, e : doc' = [doc EXCEPT !.query = None, !.lost = l] /\ Invalidate(e)
    BY <1>12 DEF Viewport
  <2> QED
    BY <1>1, <1>6, <1>7, <2>2, <2>3, <2>4 DEF WorkTyped
<1>13. CASE TakeQuery
  <2>1. \/ doc' = doc /\ Goto("drain")
        \/ /\ doc # None /\ \E q : doc' = [doc EXCEPT !.query = q]
           /\ \E e : Emit(e, "drain", TRUE)
    BY <1>13 DEF TakeQuery
  <2>2. doc # None => \A q : DocumentTyped([doc EXCEPT !.query = q])
    BY <1>1, <1>4, HandledTyped DEF OtherFields
  <2> QED
    BY <1>1, <1>6, <1>7, <2>1, <2>2 DEF WorkTyped
<1>14. CASE TakeSort
  <2> DEFINE command == Taken(box["sorts"])
  <2>1. ~ IsEmpty(box["sorts"])
    BY <1>14 DEF TakeSort, TakeCommand
  <2>2. SlotTyped("sorts", box["sorts"])
    BY <1>1 DEF BoxesTyped, Boxes
  <2>3. command.serial \in Nat /\ command.key \in Order
    BY <2>1, <2>2 DEF SlotTyped, Carries, Taken
  <2> DEFINE state == [serial |-> command.serial, key |-> command.key,
                       phase |-> "Extracting"]
             begun == [serial |-> command.serial, key |-> command.key,
                       gen |-> command.gen, permit |-> FALSE,
                       session |-> FALSE, left |-> ScanSteps]
             back == [doc EXCEPT !.reveal = NoRow, !.sortState = state,
                                 !.sort = None]
             sorted == [doc EXCEPT !.reveal = NoRow, !.sortState = state,
                                   !.sort = begun]
  <2>4. doc # None => DocumentTyped(back) /\ DocumentTyped(sorted)
    BY <1>1, <1>4, <2>3 DEF DocumentTyped
  <2>5. CASE doc' = doc /\ Goto("drain")
    BY <1>1, <1>6, <2>5 DEF WorkTyped
  <2>6. CASE /\ doc # None /\ command.key = SourceOrder /\ doc' = back
             /\ w' = [w EXCEPT !.pc = "restore", !.cmd = [gen |-> gen["view"]]]
    BY <1>6, <2>4, <2>6 DEF WorkTyped
  <2>7. CASE /\ doc # None /\ command.key # SourceOrder /\ doc' = sorted
             /\ Emit(EventOf(doc', Phase(doc), FALSE), "drain", FALSE)
    BY <1>7, <2>4, <2>7 DEF WorkTyped
  <2> QED
    BY <1>14, <2>5, <2>6, <2>7 DEF TakeSort
<1>15. CASE Restore
  <2>1. doc # None
    BY <1>1, <1>15 DEF Restore, WorkerAt, Places
  <2>2. SourceOrder \in Order
    BY DEF Order
  <2>3. \E d : /\ doc' = d /\ \E e : Emit(e, "drain", FALSE)
               /\ \/ d = Ordered(doc, SourceOrder)
                  \/ d = SortEnds(doc, "Cancelled")
                  \/ \E l : d = [SortEnds(doc, "Cancelled") EXCEPT !.lost = l]
    BY <1>15 DEF Restore, TellSort
  <2> QED
    BY <1>1, <1>4, <1>7, <2>1, <2>2, <2>3, HandledTyped DEF WorkTyped
<1>16. CASE \/ ForgetActiveDocument \/ CancelDocumentQuery \/ ForgetDocumentQuery
            \/ TakeDocumentQuery
  <2>1. /\ doc' = doc
        /\ \E pc \in {"cancel_query", "forget_query", "take_queries", "emit"} : Then(pc)
    BY <1>16 DEF ForgetActiveDocument, CancelDocumentQuery, ForgetDocumentQuery,
                 TakeDocumentQuery
  <2> QED
    BY <1>1, <1>6, <2>1 DEF WorkTyped
<1>17. CASE AdvanceSort
  <2>1. doc # None /\ doc.sort # None
    BY <1>1, <1>17 DEF AdvanceSort, WorkerAt, Places
  <2>2. \/ doc' = SortEnds(doc, "Cancelled") /\ \E e, next : Emit(e, next, FALSE)
        \/ doc' = doc /\ Goto(AfterSort(doc))
        \/ doc' = [doc EXCEPT !.sort.permit = TRUE] /\ Goto("sort_step")
    BY <1>17 DEF AdvanceSort, ReportSort, TellSort
  <2>3. AfterSort(doc) # "open"
    BY DEF AfterSort
  <2> QED
    BY <1>1, <1>2, <1>4, <1>6, <1>7, <2>1, <2>2, <2>3, HandledTyped DEF WorkTyped
<1>18. CASE SortStep
  <2>1. doc # None /\ doc.sort # None
    BY <1>1, <1>18 DEF SortStep, WorkerAt, Places, Holds
  <2>2. \E d :
           /\ doc' = d
           /\ \/ \E phase : d = [doc EXCEPT !.sort.session = TRUE,
                                            !.sortState.phase = phase]
              \/ \E phase, left : d = [doc EXCEPT !.sort.session = TRUE,
                                                  !.sort.left = left,
                                                  !.sortState.phase = phase]
              \/ \E l : d = [SortEnds(doc, "Cancelled") EXCEPT !.lost = l]
           /\ \/ \E pc \in {"finish_sort", AfterSort(d)} : Goto(pc)
              \/ \E e, next : Emit(e, next, FALSE)
    BY <1>18 DEF SortStep, ReportSort, TellSort
  <2>3. \A d : AfterSort(d) # "open"
    BY DEF AfterSort
  <2>4. \A phase, left, l :
           /\ DocumentTyped([doc EXCEPT !.sort.session = TRUE,
                                        !.sortState.phase = phase])
           /\ DocumentTyped([doc EXCEPT !.sort.session = TRUE,
                                        !.sort.left = left,
                                        !.sortState.phase = phase])
           /\ DocumentTyped([SortEnds(doc, "Cancelled") EXCEPT !.lost = l])
    BY <1>1, <1>4, <2>1, HandledTyped
  <2> HIDE DEF WorkerPlaces
  <2>5. PICK d :
           /\ doc' = d
           /\ \/ \E phase : d = [doc EXCEPT !.sort.session = TRUE,
                                            !.sortState.phase = phase]
              \/ \E phase, left : d = [doc EXCEPT !.sort.session = TRUE,
                                                  !.sort.left = left,
                                                  !.sortState.phase = phase]
              \/ \E l : d = [SortEnds(doc, "Cancelled") EXCEPT !.lost = l]
           /\ \/ \E pc \in {"finish_sort", AfterSort(d)} : Goto(pc)
              \/ \E e, next : Emit(e, next, FALSE)
    BY <2>2
  <2>6. DocumentTyped(d)
    <3>1. CASE \E phase : d = [doc EXCEPT !.sort.session = TRUE,
                                         !.sortState.phase = phase]
      BY <2>4, <3>1, Zenon
    <3>2. CASE \E phase, left : d = [doc EXCEPT !.sort.session = TRUE,
                                               !.sort.left = left,
                                               !.sortState.phase = phase]
      <4>1. PICK phase, left : d = [doc EXCEPT !.sort.session = TRUE,
                                               !.sort.left = left,
                                               !.sortState.phase = phase]
        BY <3>2
      <4>2. DocumentTyped([doc EXCEPT !.sort.session = TRUE,
                                      !.sort.left = left,
                                      !.sortState.phase = phase])
        BY <2>4
      <4> QED
        BY <4>1, <4>2, Zenon
    <3>3. CASE \E l : d = [SortEnds(doc, "Cancelled") EXCEPT !.lost = l]
      BY <2>4, <3>3, Zenon
    <3> QED
      BY <2>5, <3>1, <3>2, <3>3
  <2>7. "finish_sort" \in WorkerPlaces
    BY DEF WorkerPlaces
  <2>8. CASE \E pc \in {"finish_sort", AfterSort(d)} : Goto(pc)
    BY <1>2, <1>6, <2>3, <2>5, <2>6, <2>7, <2>8 DEF WorkTyped
  <2>9. CASE \E e, next : Emit(e, next, FALSE)
    BY <1>7, <2>5, <2>6, <2>9 DEF WorkTyped
  <2> QED
    BY <2>5, <2>8, <2>9
<1>19. CASE FinishSort \/ PrepareSort \/ CommitSort \/ ReturnSort
  <2>1. doc # None /\ (ReturnSort \/ doc.sort # None)
    BY <1>1, <1>19
    DEF FinishSort, PrepareSort, CommitSort, ReturnSort, WorkerAt, Places, Holds,
        IInv, WorkerPart, Owners, ReturnsSort
  <2>2. doc.sort # None => doc.sort.key \in Order
    BY <1>1, <2>1 DEF DocumentTyped
  <2>3. \/ doc' = doc /\ \E c : w' = [w EXCEPT !.pc = "prepare", !.cmd = c]
        \/ doc' = doc /\ Then("commit")
        \/ doc' = doc /\ Goto(AfterSort(doc))
        \/ /\ \E e, next : Emit(e, next, FALSE)
           /\ \/ doc' = SortEnds(doc, "Cancelled")
              \/ \E l : doc' = [SortEnds(doc, "Cancelled") EXCEPT !.lost = l]
              \/ doc.sort # None /\ doc' = Ordered(doc, doc.sort.key)
    BY <1>19, <2>1
    DEF FinishSort, PrepareSort, CommitSort, ReturnSort, EndSort, TellSort
  <2>4. AfterSort(doc) # "open"
    BY DEF AfterSort
  <2> HIDE DEF WorkerPlaces
  <2>5. DocumentTyped(doc')
    <3>1. \A l : /\ DocumentTyped(SortEnds(doc, "Cancelled"))
                 /\ DocumentTyped([SortEnds(doc, "Cancelled") EXCEPT !.lost = l])
      BY <1>1, <1>4, <2>1, HandledTyped
    <3>2. doc.sort # None => DocumentTyped(Ordered(doc, doc.sort.key))
      BY <1>1, <1>4, <2>1, <2>2, HandledTyped
    <3> QED
      BY <1>1, <2>3, <3>1, <3>2
  <2>6. CASE doc' = doc /\ \E c : w' = [w EXCEPT !.pc = "prepare", !.cmd = c]
    <3>1. "prepare" \in WorkerPlaces
      BY DEF WorkerPlaces
    <3> QED
      BY <1>1, <1>6, <2>6, <3>1 DEF WorkTyped
  <2>7. CASE doc' = doc /\ (Then("commit") \/ Goto(AfterSort(doc)))
    <3>1. "commit" \in WorkerPlaces
      BY DEF WorkerPlaces
    <3> QED
      BY <1>1, <1>2, <1>6, <2>4, <2>7, <3>1 DEF WorkTyped
  <2>8. CASE \E e, next : Emit(e, next, FALSE)
    BY <1>7, <2>5, <2>8 DEF WorkTyped
  <2> QED
    BY <2>3, <2>6, <2>7, <2>8
<1>20. CASE AdvanceQuery \/ Scan
  <2>1. doc # None
    BY <1>1, <1>20 DEF AdvanceQuery, Scan, WorkerAt, Places
  <2>2. /\ OtherFields(doc, doc')
        /\ \/ Goto("drain")
           \/ \E e : Emit(e, "drain", TRUE)
           \/ \E e : Invalidate(e)
    <3>1. CASE AdvanceQuery
      <4>1. /\ \E r : \/ doc' = [doc EXCEPT !.query = r]
                      \/ doc' = [doc EXCEPT !.query = r, !.lost = TRUE]
            /\ Goto("drain") \/ \E e : Emit(e, "drain", TRUE)
        BY <3>1 DEF AdvanceQuery
      <4> QED
        BY <4>1 DEF OtherFields
    <3>2. CASE Scan
      <4>1. \/ \E n, b : /\ doc' = [doc EXCEPT !.scanned = n, !.scanDone = b]
                         /\ Goto("drain") \/ \E e : Emit(e, "drain", TRUE)
            \/ \E l, e : /\ doc' = [doc EXCEPT !.scanDone = TRUE,
                                                !.query = None, !.lost = l]
                         /\ Invalidate(e)
        BY <3>2 DEF Scan
      <4> QED
        BY <4>1 DEF OtherFields
    <3> QED
      BY <1>20, <3>1, <3>2
  <2>3. DocumentTyped(doc')
    BY <1>1, <1>4, <2>1, <2>2, HandledTyped
  <2> QED
    BY <1>6, <1>7, <2>2, <2>3 DEF WorkTyped
<1>21. CASE EventRankFails \/ EmitCheck \/ SendEvent \/ WakeUI
  <2>1. \/ doc' = doc /\ w' = [w EXCEPT !.out.failed = TRUE, !.out.phase = "Failed"]
                      /\ w.pc = "emit"
        \/ doc' = doc /\ (Then("send") \/ Goto(w.next))
        \/ doc' = doc /\ w' = [w EXCEPT !.pc = "wake_ui", !.out = None]
        \/ doc' = None /\ Goto("exited")
    BY <1>21 DEF EventRankFails, EmitCheck, SendEvent, WakeUI, WorkerAt
  <2>2. w.next # "open"
    BY <1>1 DEF Places
  <2>3. CASE doc' = None /\ Goto("exited")
    BY <1>3, <1>6, <2>3 DEF WorkTyped
  <2>4. CASE doc' = doc /\ (Then("send") \/ Goto(w.next))
    BY <1>1, <1>2, <1>6, <2>2, <2>4 DEF WorkTyped
  <2>5. CASE \/ doc' = doc /\ w' = [w EXCEPT !.out.failed = TRUE,
                                             !.out.phase = "Failed"]
                           /\ w.pc = "emit"
             \/ doc' = doc /\ w' = [w EXCEPT !.pc = "wake_ui", !.out = None]
    BY <1>1, <2>5 DEF Places
  <2> QED
    BY <2>1, <2>3, <2>4, <2>5
<1> QED
  BY <1>8, <1>9, <1>10, <1>11, <1>12, <1>13, <1>14, <1>15, <1>16, <1>17, <1>18,
     <1>19, <1>20, <1>21
  DEF WorkerStep, WorkTyped

\* Every step keeps the types.
LEMMA StepTypePart == IInv /\ RowsPart /\ TypePart /\ [Next]_vars => TypePart'
<1> SUFFICES ASSUME IInv, RowsPart, TypePart, [Next]_vars PROVE TypePart'
  OBVIOUS
<1>1. CASE WorkerStep
  BY <1>1, WorkerSharedTyped, WorkerBoxesTyped, WorkerWorkTyped DEF TypePart
<1>2. CASE UNCHANGED vars
  BY <1>2
  DEF vars, shared, sorting, uiVars, TypePart, SharedTyped, BoxesTyped,
      CallTyped, WorkTyped
<1> QED
  BY <1>1, <1>2, UICallTyped, UIStepTyped, OtherTabsTyped DEF Next

\* They hold of a tab whose worker has just started.
LEMMA InitTypePart == Init => TypePart
<1> SUFFICES ASSUME Init PROVE TypePart
  OBVIOUS
<1>1. SharedTyped
  <2>1. budget \in [Calls -> Nat]
    BY WorkerAssumption DEF Init
  <2>2. gen \in [Tokens -> Nat]
    BY DEF Init
  <2>3. wake \in BOOLEAN
    BY Zenon DEF Init
  <2>4. {latest, active, latestQuery, latestSort, nextSort, permit, otherSort,
         querySeq} \subseteq Nat
    BY DEF Init
  <2> QED
    BY <2>1, <2>2, <2>3, <2>4 DEF SharedTyped
<1>2. BoxesTyped
  BY DEF Init, BoxesTyped, SlotTyped, NewMailbox, IsEmpty
<1>3. CallTyped
  BY DEF Init, CallTyped, NoArg, Order
<1>4. WorkTyped
  BY DEF Init, WorkTyped, DocumentTyped, Idle, WorkerPlaces
<1> QED
  BY <1>1, <1>2, <1>3, <1>4 DEF TypePart

\* The types are a weakening of what is inductive.
LEMMA TypePartOK == IInv /\ TypePart => TypeOK
<1> SUFFICES ASSUME IInv, TypePart PROVE TypeOK
  OBVIOUS
<1>1. ui.todo \in Seq(StepNames)
  BY DEF IInv, UIPart, CallRule
<1>2. ASSUME NEW b \in Boxes
      PROVE  Len(box[b].pending) <= 1 /\ box[b].closed \in BOOLEAN
  <2>1. SlotTyped(b, box[b])
    BY DEF TypePart, BoxesTyped
  <2>2. CASE box[b].pending = <<>>
    BY <2>1, <2>2 DEF SlotTyped
  <2>3. ASSUME NEW v, box[b].pending = <<v>>
        PROVE  Len(box[b].pending) <= 1
    BY <2>3
  <2> QED
    BY <2>1, <2>2, <2>3 DEF SlotTyped, IsEmpty
<1> QED
  BY <1>1, <1>2
  DEF TypePart, SharedTyped, BoxesTyped, CallTyped, WorkTyped, DocumentTyped, TypeOK

\* The types of what the threads own and share: a mailbox holds one value at
\* most, serials are numbers, and the order of a document is the source's or
\* one that a request named, through every mailbox it came by.
THEOREM WorkerTypesHold == Spec => []TypeOK
<1>1. Init => IInv /\ RowsPart /\ TypePart
  BY InitIInv, InitRowsPart, InitTypePart
<1>2. IInv /\ RowsPart /\ TypePart /\ [Next]_vars => (IInv /\ RowsPart /\ TypePart)'
  BY StepIInv, StepRowsPart, StepTypePart
<1> QED
  BY <1>1, <1>2, TypePartOK, PTL DEF Spec
=============================================================================
