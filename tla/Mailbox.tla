------------------------------- MODULE Mailbox -------------------------------
(***************************************************************************)
(* CoalescingMailbox of crates/leanrows-win32/src/mailbox.rs: a slot for   *)
(* one value behind a mutex.  A send replaces what was pending; close      *)
(* stops the senders, while the receiver may still take what is pending.   *)
(* Each operator is one call under the lock, on a mailbox m.               *)
(***************************************************************************)
EXTENDS Sequences

NewMailbox == [pending |-> <<>>, closed |-> FALSE]

IsEmpty(m) == m.pending = <<>>

\* Faulty: a value queues behind the pending one instead of replacing it.
SendQueued(m, v) == IF m.closed THEN m ELSE [m EXCEPT !.pending = Append(@, v)]

\* Faulty: the older value is the one kept.
SendKeepsFirst(m, v) ==
    IF m.closed \/ ~ IsEmpty(m) THEN m ELSE [m EXCEPT !.pending = <<v>>]

\* send: refused when closed (the caller looks at m.closed), else the newest
\* value is the one kept.
Send(m, v) == IF m.closed THEN m ELSE [m EXCEPT !.pending = <<v>>]

\* try_take, and the taking half of wait_take.
Take(m) == [m EXCEPT !.pending = <<>>]

Taken(m) == m.pending[1]

\* wait_take returns: with a value, or with None once closed and drained.
CanReturn(m) == ~ IsEmpty(m) \/ m.closed

Close(m) == [m EXCEPT !.closed = TRUE]
=============================================================================
