---------------------------- MODULE SingleInstance ----------------------------
(***************************************************************************)
(* One window for all launches: claim and forward in                        *)
(* crates/leanrows-win32/src/native/process.rs, and the receiving side in   *)
(* native.rs: receive_open_request, open_pending, open_documents and the    *)
(* end of the window.                                                       *)
(*                                                                         *)
(* A launch becomes the reader by taking a named mutex, or hands its files  *)
(* to the window of the one that has it, message by message, and exits. The *)
(* window takes the paths inside the sender's call and opens them later,    *)
(* from a message it posts to itself.                                       *)
(***************************************************************************)
EXTENDS Integers, Sequences, SequencesExt

CONSTANTS
    Brought,        \* Brought[l]: the files launch l was started with
    MaxForwarded,   \* MAX_FORWARDED_PATHS: in a message, and waiting
    Retries         \* tries until the deadline of five seconds

Launches == DOMAIN Brought
FileNames == UNION {Range(Brought[l]) : l \in Launches}

ASSUME InstanceAssumption ==
    /\ MaxForwarded \in Nat \ {0} /\ Retries \in Nat
    /\ \A l \in Launches : Brought[l] \in Seq(FileNames)

VARIABLES
    at,         \* at[l]: how far launch l has come
    mutex,      \* the launch that owns the named mutex, or 0
    left,       \* left[l]: tries before its deadline
    target,     \* target[l]: the window it is sending to, or 0
    sent,       \* sent[l]: payloads accepted there
    box,        \* box[w]: messages posted to window w, oldest first
    waiting,    \* waiting[w]: pending_opens
    dealt,      \* dealt[w]: files it has given to open_documents
    overflowed  \* overflowed[w]: it has dropped paths it had no room for

instanceVars == <<at, mutex, left, target, sent, box, waiting, dealt, overflowed>>

Running == {"building", "window", "closing"}

InstanceTypeOK ==
    /\ at \in [Launches -> Running \cup {"unborn", "claiming", "sending",
                                         "forwarded", "gone"}]
    /\ mutex \in Launches \cup {0}
    /\ left \in [Launches -> 0 .. Retries]
    /\ target \in [Launches -> Launches \cup {0}]
    /\ sent \in [Launches -> Nat]
    /\ box \in [Launches -> Seq({"open", "close"})]
    /\ waiting \in [Launches -> Seq(FileNames)]
    /\ \A w \in Launches : Len(waiting[w]) <= MaxForwarded
    /\ dealt \in [Launches -> SUBSET FileNames]
    /\ overflowed \in [Launches -> BOOLEAN]

InstanceInit ==
    /\ at = [l \in Launches |-> "unborn"]
    /\ mutex = 0
    /\ left = [l \in Launches |-> Retries]
    /\ target = [l \in Launches |-> 0]
    /\ sent = [l \in Launches |-> 0]
    /\ box = [l \in Launches |-> <<>>]
    /\ waiting = [l \in Launches |-> <<>>]
    /\ dealt = [l \in Launches |-> {}]
    /\ overflowed = [l \in Launches |-> FALSE]

\* forward_payloads: at most MaxForwarded paths in a message; a launch with no
\* file sends one empty message, which brings the window forward.
Payloads(l) ==
    LET files == Brought[l]
        count == (Len(files) + MaxForwarded - 1) \div MaxForwarded
        first(i) == (i - 1) * MaxForwarded + 1
        last(i) == IF i * MaxForwarded < Len(files) THEN i * MaxForwarded ELSE Len(files)
    IN  IF count = 0 THEN << <<>> >>
        ELSE [i \in 1 .. count |-> SubSeq(files, first(i), last(i))]

windowVars == <<box, waiting, dealt, overflowed>>

Becomes(l, state) == at' = [at EXCEPT ![l] = state]

-----------------------------------------------------------------------------
(* claim                                                                     *)

Launch(l) ==
    /\ at[l] = "unborn" /\ \A k \in Launches : k < l => at[k] # "unborn"
    /\ Becomes(l, "claiming")
    /\ UNCHANGED <<mutex, left, target, sent, windowVars>>

\* WAIT_OBJECT_0 and WAIT_ABANDONED: the mutex is free, or its owner died.
Acquire(l) ==
    /\ at[l] = "claiming" /\ mutex = 0
    /\ mutex' = l
    /\ Becomes(l, "building")
    /\ UNCHANGED <<left, target, sent, windowVars>>

\* Faulty variant: the deadline is never looked at.
NeverGivesUp(l) ==
    /\ Becomes(l, "claiming")
    /\ left' = left
    /\ target' = [target EXCEPT ![l] = 0]
    /\ sent' = [sent EXCEPT ![l] = 0]

\* A try failed: sleep and try again, or give up and open a window unguarded.
TryAgain(l) ==
    /\ IF left[l] = 0
       THEN Becomes(l, "building") /\ UNCHANGED left
       ELSE Becomes(l, "claiming") /\ left' = [left EXCEPT ![l] = @ - 1]
    /\ target' = [target EXCEPT ![l] = 0]
    /\ sent' = [sent EXCEPT ![l] = 0]

\* running_reader: a window of another process with the same executable.
Readers(l) == {w \in Launches \ {l} : at[w] \in {"window", "closing"}}

FindReader(l) ==
    /\ at[l] = "claiming" /\ mutex \notin {0, l}
    /\ \E w \in Readers(l) : target' = [target EXCEPT ![l] = w]
    /\ Becomes(l, "sending")
    /\ UNCHANGED <<mutex, left, sent, windowVars>>

NoReader(l) ==
    /\ at[l] = "claiming" /\ mutex \notin {0, l} /\ Readers(l) = {}
    /\ TryAgain(l)
    /\ UNCHANGED <<mutex, windowVars>>

-----------------------------------------------------------------------------
(* receive_open_request, open_pending.                                       *)

\* Faulty variant: any message in the queue is taken for the one needed.
WakesWhenIdle(w, paths) == paths # <<>> /\ box[w] = <<>>

\* A message that carries no path posts nothing.
Wakes(w, paths) == paths # <<>>

\* A closing window refuses.
Accepts(w) == at[w] = "window"

Receive(w, paths) ==
    LET room == MaxForwarded - Len(waiting[w])
        kept == IF Len(paths) <= room THEN paths ELSE SubSeq(paths, 1, room)
    IN
    /\ waiting' = [waiting EXCEPT ![w] = @ \o kept]
    /\ overflowed' = [overflowed EXCEPT ![w] = @ \/ kept # paths]
    /\ box' = [box EXCEPT ![w] = IF Wakes(w, paths) THEN Append(@, "open") ELSE @]
    /\ UNCHANGED dealt

\* send: the window answers 1; after the last payload the launch exits.
SendAccepted(l) ==
    LET w == target[l]  payload == Payloads(l)[sent[l] + 1] IN
    /\ at[l] = "sending" /\ Accepts(w)
    /\ Receive(w, payload)
    /\ IF sent[l] + 1 = Len(Payloads(l))
       THEN Becomes(l, "forwarded") /\ sent' = [sent EXCEPT ![l] = 0]
       ELSE sent' = [sent EXCEPT ![l] = @ + 1] /\ UNCHANGED at
    /\ UNCHANGED <<mutex, left, target>>

\* The window refuses, is gone, or does not answer in time. In the last case
\* it may take the paths all the same, after the sender stopped waiting.
SendFailed(l) ==
    LET w == target[l]  payload == Payloads(l)[sent[l] + 1] IN
    /\ at[l] = "sending"
    /\ \/ UNCHANGED windowVars
       \/ Accepts(w) /\ Receive(w, payload)
    /\ TryAgain(l)
    /\ UNCHANGED mutex

\* open_documents, see the tabs: each file is opened, shown again, or counted
\* in the status message as one too many.
OpenDocuments(w, paths) == dealt' = [dealt EXCEPT ![w] = @ \cup Range(paths)]

\* run: the window is made and the launch's own files are opened.
Build(l) ==
    /\ at[l] = "building"
    /\ Becomes(l, "window")
    /\ OpenDocuments(l, Brought[l])
    /\ UNCHANGED <<mutex, left, target, sent, box, waiting, overflowed>>

\* WM_APP_OPEN_PENDING: open_pending takes the whole list.
OpenPending(w) ==
    /\ at[w] = "window" /\ box[w] # <<>> /\ Head(box[w]) = "open"
    /\ box' = [box EXCEPT ![w] = Tail(@)]
    /\ OpenDocuments(w, waiting[w])
    /\ waiting' = [waiting EXCEPT ![w] = <<>>]
    /\ UNCHANGED <<at, mutex, left, target, sent, overflowed>>

\* The user or Windows asks the window to close.
AskToClose(w) ==
    /\ at[w] = "window" /\ "close" \notin Range(box[w])
    /\ box' = [box EXCEPT ![w] = Append(@, "close")]
    /\ UNCHANGED <<at, mutex, left, target, sent, waiting, dealt, overflowed>>

\* WM_CLOSE, WM_DESTROY: handle_destroy drops the workers, with closing set.
CloseWindow(w) ==
    /\ at[w] = "window" /\ box[w] # <<>> /\ Head(box[w]) = "close"
    /\ Becomes(w, "closing")
    /\ UNCHANGED <<mutex, left, target, sent, box, waiting, dealt, overflowed>>

\* The message loop ends, or the process dies; either frees the mutex.
Vanish(l) ==
    /\ Becomes(l, "gone")
    /\ mutex' = IF mutex = l THEN 0 ELSE mutex
    /\ target' = [target EXCEPT ![l] = 0] /\ sent' = [sent EXCEPT ![l] = 0]
    /\ left' = [left EXCEPT ![l] = 0]
    /\ box' = [box EXCEPT ![l] = <<>>]
    /\ waiting' = [waiting EXCEPT ![l] = <<>>]
    /\ dealt' = [dealt EXCEPT ![l] = {}]
    /\ overflowed' = [overflowed EXCEPT ![l] = FALSE]

Exit(l) == at[l] = "closing" /\ Vanish(l)
CrashLaunch(l) == at[l] \in Running \cup {"claiming", "sending"} /\ Vanish(l)

ClaimStep(l) ==
    \/ Acquire(l) \/ FindReader(l) \/ NoReader(l)
    \/ SendAccepted(l) \/ SendFailed(l) \/ Build(l)

InstanceNext ==
    \E l \in Launches :
        \/ Launch(l) \/ ClaimStep(l) \/ OpenPending(l) \/ AskToClose(l)
        \/ CloseWindow(l) \/ Exit(l) \/ CrashLaunch(l)

InstanceSpec == InstanceInit /\ [][InstanceNext]_instanceVars

-----------------------------------------------------------------------------
\* Files a window has accepted from a launch that exited have been opened, or
\* counted as refused, or wait there with a message in the queue that will open
\* them, for as long as that window lives and never had to drop any for want of
\* room. Acceptance is an answer inside the sender's call, opening comes later.
HandedOverFilesArrive ==
    \A l \in Launches : at[l] = "forwarded" /\ at[target[l]] = "window" =>
        LET w == target[l] IN
        \/ overflowed[w]
        \/ Range(Brought[l]) \subseteq dealt[w]
        \/ /\ Range(Brought[l]) \subseteq dealt[w] \cup Range(waiting[w])
           /\ "open" \in Range(box[w])

\* A launch ends with a window of its own or with its files handed over,
\* however other launches start, close, crash or stop answering.
LaunchesSettle ==
    \A l \in Launches :
        at[l] = "claiming" ~> at[l] \in {"window", "forwarded", "gone"}

=============================================================================
