--------------------------- MODULE ScannerProofs ----------------------------
(***************************************************************************)
(* Proofs about the boundary scanners of RecordScanner, for every text     *)
(* file, delimited or not, of any bytes and any length: wherever the file  *)
(* is cut into chunks, wherever a callback stops the scanner and a later   *)
(* call goes on, and from whichever record's start it begins, the records  *)
(* emitted are those of the reference definition, which knows neither      *)
(* chunks nor states.                                                      *)
(*                                                                         *)
(* The argument has three parts.  A call is a run of turns (Turn, Steps).  *)
(* A scanner agrees with a pass over the file (Agree) as long as it is fed *)
(* the file's bytes: it is the pass's scanner, or a fresh one at a place   *)
(* where only a lone carriage return waits.  And the pass cuts the file at *)
(* the reference's terminators (Cuts), because the state of the delimited  *)
(* scanner says whether a byte is in a quoted section (Reads).             *)
(*                                                                         *)
(* The second half is about LiteralMatcher: the matcher's number is the    *)
(* length of the longest part of the needle that the bytes so far end with *)
(* (Longest), because the failure table lists the borders of the needle    *)
(* (Borders); so the hits that a search has Reached at any byte of any      *)
(* record are the first hits of the file.                                  *)
(***************************************************************************)
EXTENDS LiteralMatcher, SequenceTheorems, FiniteSetTheorems, WellFoundedInduction, TLAPS

\* Induction over the numbers, for a set S: there is no least number outside it.
LEMMA NumbersByInduction ==
    ASSUME NEW S, 0 \in S, \A n \in Nat : n \in S => n + 1 \in S
    PROVE  Nat \subseteq S
<1> DEFINE left == {n \in Nat : n \notin S}
<1>1. SUFFICES left = {}
  OBVIOUS
<1>2. SUFFICES ASSUME left # {} PROVE FALSE
  OBVIOUS
<1>3. PICK k \in left : \A j \in left : ~ (<<j, k>> \in OpToRel(<, Nat))
  BY <1>2, WFMin, NatLessThanWellFounded, Zenon
<1>4. \A j \in left : ~ (j < k)
  BY <1>3 DEF OpToRel
<1>5. k # 0 /\ k - 1 \in Nat
  OBVIOUS
<1>6. k - 1 \in S
  BY <1>4, <1>5
<1> QED
  BY <1>5, <1>6

-----------------------------------------------------------------------------
(* A call of feed_inner is a run of turns.                                  *)

Turn(csv, r, byte, stop) ==
    IF r.stopped THEN r
    ELSE IF csv THEN ConsumeByte(TRUE, r, byte, stop)
    ELSE ConsumeLineByte(r, byte, stop)

IsRun(run, csv, scanner, chunk, stop, m) ==
    /\ run = [i \in 0 .. m |-> run[i]]
    /\ run[0] = [s |-> scanner, out |-> <<>>, n |-> 0, stopped |-> FALSE]
    /\ \A i \in 1 .. m : run[i] = Turn(csv, run[i - 1], chunk[i], stop)

\* The states of a call, one after another, exist for every number of bytes.
LEMMA RunExists ==
    ASSUME NEW csv, NEW scanner, NEW chunk, NEW stop
    PROVE  \A m \in Nat : \E run : IsRun(run, csv, scanner, chunk, stop, m)
<1> DEFINE S == {m \in Nat : \E run : IsRun(run, csv, scanner, chunk, stop, m)}
<1>1. 0 \in S
  <2> DEFINE run == [i \in 0 .. 0 |-> [s |-> scanner, out |-> <<>>, n |-> 0, stopped |-> FALSE]]
  <2>1. IsRun(run, csv, scanner, chunk, stop, 0)
    BY DEF IsRun
  <2> QED
    BY <2>1
<1>2. ASSUME NEW m \in Nat, m \in S PROVE m + 1 \in S
  <2>1. PICK run : IsRun(run, csv, scanner, chunk, stop, m)
    BY <1>2
  <2> DEFINE last == Turn(csv, run[m], chunk[m + 1], stop)
  <2> HIDE DEF last
  <2> DEFINE next == [i \in 0 .. m + 1 |-> IF i = m + 1 THEN last ELSE run[i]]
  <2>2. IsRun(next, csv, scanner, chunk, stop, m + 1)
    <3>1. next = [i \in 0 .. m + 1 |-> next[i]] /\ next[0] = run[0] /\ next[m + 1] = last
      OBVIOUS
    <3>2. \A i \in 0 .. m : next[i] = run[i]
      OBVIOUS
    <3>3. ASSUME NEW i \in 1 .. m + 1
          PROVE  next[i] = Turn(csv, next[i - 1], chunk[i], stop)
      <4>1. CASE i = m + 1
        BY <4>1, <3>1, <3>2 DEF last
      <4>2. CASE i # m + 1
        <5>1. i \in 1 .. m /\ i - 1 \in 0 .. m
          BY <4>2
        <5>2. run[i] = Turn(csv, run[i - 1], chunk[i], stop)
          BY <2>1, <5>1 DEF IsRun
        <5> HIDE DEF next
        <5> QED
          BY <5>1, <5>2, <3>2
      <4> QED
        BY <4>1, <4>2
    <3> HIDE DEF next
    <3> QED
      BY <2>1, <3>1, <3>3 DEF IsRun
  <2> HIDE DEF next
  <2> QED
    BY <2>2
<1> HIDE DEF S
<1>3. Nat \subseteq S
  BY <1>1, <1>2, NumbersByInduction
<1> QED
  BY <1>3 DEF S

\* Feed is the last state of the call.
LEMMA FeedIsRun ==
    ASSUME NEW csv, NEW scanner, NEW chunk, Len(chunk) \in Nat, NEW stop
    PROVE  \E run : /\ IsRun(run, csv, scanner, chunk, stop, Len(chunk))
                    /\ Feed(csv, scanner, chunk, stop) = run[Len(chunk)]
<1> DEFINE At(f, i) ==
            IF i = 0
            THEN [s |-> scanner, out |-> <<>>, n |-> 0, stopped |-> FALSE]
            ELSE IF f[i - 1].stopped THEN f[i - 1]
            ELSE IF csv THEN ConsumeByte(TRUE, f[i - 1], chunk[i], stop)
            ELSE ConsumeLineByte(f[i - 1], chunk[i], stop)
<1> DEFINE Eq(f) == f = [i \in 0..Len(chunk) |-> At(f, i)]
<1> DEFINE fed == CHOOSE f : Eq(f)
<1>1. Feed(csv, scanner, chunk, stop) = fed[Len(chunk)]
  BY DEF Feed
<1>2. PICK run : IsRun(run, csv, scanner, chunk, stop, Len(chunk))
  BY RunExists
<1>3. ASSUME NEW f, NEW i \in 1 .. Len(chunk)
      PROVE  At(f, i) = Turn(csv, f[i - 1], chunk[i], stop)
  <2>1. i # 0
    OBVIOUS
  <2> QED
    BY <2>1, Zenon DEF Turn
<1>4. \A f : At(f, 0) = [s |-> scanner, out |-> <<>>, n |-> 0, stopped |-> FALSE]
  OBVIOUS
<1> HIDE DEF At
<1>5. Eq(run)
  <2>1. \A i \in 1 .. Len(chunk) : run[i] = At(run, i)
    BY <1>2, <1>3, Zenon DEF IsRun
  <2>3. run[0] = At(run, 0)
    BY <1>2, <1>4, Zenon DEF IsRun
  <2>4. \A i \in 0 .. Len(chunk) : run[i] = At(run, i)
    BY <2>1, <2>3
  <2>2. run = [i \in 0 .. Len(chunk) |-> run[i]]
    BY <1>2 DEF IsRun
  <2> QED
    BY <2>4, <2>2
<1>6. Eq(fed)
  BY <1>5, Zenon
<1>7. IsRun(fed, csv, scanner, chunk, stop, Len(chunk))
  <2> HIDE DEF fed
  <2>1. fed = [i \in 0 .. Len(chunk) |-> fed[i]]
    BY <1>6
  <2>2. \A i \in 0 .. Len(chunk) : fed[i] = At(fed, i)
    BY <1>6
  <2> QED
    BY <2>1, <2>2, <1>3, <1>4 DEF IsRun
<1> QED
  BY <1>1, <1>7

Settled(s) == IF s.cr = NoCr THEN s ELSE ScannerAt(s.offset)

Scanner(state, offset, start, cr) ==
    [state |-> state, offset |-> offset, start |-> start, cr |-> cr]

Moved(csv, s, byte) ==
    IF Settled(s).state # "quoted" /\ byte = "cr"
    THEN Scanner(Settled(s).state, s.offset + 1, Settled(s).start, s.offset)
    ELSE IF byte = "lf" /\ (s.cr # NoCr \/ Settled(s).state # "quoted")
    THEN ScannerAt(s.offset + 1)
    ELSE Scanner(IF csv THEN FieldState(Settled(s).state, byte) ELSE Settled(s).state,
                 s.offset + 1, Settled(s).start, NoCr)

Ends(s, byte) == s.cr # NoCr \/ (s.state # "quoted" /\ byte = "lf")
Ended(s) == Span(s.start, IF s.cr # NoCr THEN s.cr ELSE s.offset)

-----------------------------------------------------------------------------
(* One turn, in terms of the scanner before it.                             *)

Call(s, out, n, stopped) == [s |-> s, out |-> out, n |-> n, stopped |-> stopped]

\* One field of the scanner replaced, and one of the call.
LEMMA SetOffset ==
    ASSUME NEW st, NEW of, NEW sa, NEW cr, NEW out, NEW n, NEW sp, NEW v
    PROVE  [Call(Scanner(st, of, sa, cr), out, n, sp) EXCEPT !.s.offset = v] =
             Call(Scanner(st, v, sa, cr), out, n, sp)
BY DEF Call, Scanner

LEMMA SetState ==
    ASSUME NEW st, NEW of, NEW sa, NEW cr, NEW out, NEW n, NEW sp, NEW v
    PROVE  [Call(Scanner(st, of, sa, cr), out, n, sp) EXCEPT !.s.state = v] =
             Call(Scanner(v, of, sa, cr), out, n, sp)
BY DEF Call, Scanner

LEMMA SetStart ==
    ASSUME NEW st, NEW of, NEW sa, NEW cr, NEW out, NEW n, NEW sp, NEW v
    PROVE  [Call(Scanner(st, of, sa, cr), out, n, sp) EXCEPT !.s.start = v] =
             Call(Scanner(st, of, v, cr), out, n, sp)
BY DEF Call, Scanner

LEMMA SetCr ==
    ASSUME NEW st, NEW of, NEW sa, NEW cr, NEW out, NEW n, NEW sp, NEW v
    PROVE  [Call(Scanner(st, of, sa, cr), out, n, sp) EXCEPT !.s.cr = v] =
             Call(Scanner(st, of, sa, v), out, n, sp)
BY DEF Call, Scanner

LEMMA SetCount ==
    ASSUME NEW st, NEW of, NEW sa, NEW cr, NEW out, NEW n, NEW sp, NEW v
    PROVE  [Call(Scanner(st, of, sa, cr), out, n, sp) EXCEPT !.n = v] =
             Call(Scanner(st, of, sa, cr), out, v, sp)
BY DEF Call, Scanner

LEMMA SetStopped ==
    ASSUME NEW st, NEW of, NEW sa, NEW cr, NEW out, NEW n, NEW sp, NEW v
    PROVE  [Call(Scanner(st, of, sa, cr), out, n, sp) EXCEPT !.stopped = v] =
             Call(Scanner(st, of, sa, cr), out, n, v)
BY DEF Call, Scanner

\* complete_record emits the record and starts the next one.
LEMMA Completed ==
    ASSUME NEW st, NEW of, NEW sa, NEW cr, NEW out, NEW n, NEW sp, NEW end, NEW next
    PROVE  CompleteRecord(Call(Scanner(st, of, sa, cr), out, n, sp), end, next) =
             Call(Scanner("field_start", of, next, NoCr), Append(out, Span(sa, end)), n, sp)
<1> DEFINE r == Call(Scanner(st, of, sa, cr), out, n, sp)
           a == [r EXCEPT !.out = Append(@, Span(r.s.start, end))]
           b == [a EXCEPT !.s.start = next]
           c == [b EXCEPT !.s.state = "field_start"]
           d == [c EXCEPT !.s.cr = NoCr]
<1>1. CompleteRecord(r, end, next) = d
  BY DEF CompleteRecord
<1>2. a = Call(Scanner(st, of, sa, cr), Append(out, Span(sa, end)), n, sp)
  <2>1. r.s.start = sa /\ r.out = out
    BY DEF Call, Scanner
  <2>2. a = [r EXCEPT !.out = Append(out, Span(sa, end))]
    BY <2>1
  <2> HIDE DEF a
  <2> QED
    BY <2>2 DEF Call, Scanner
<1> HIDE DEF a
<1>3. b = Call(Scanner(st, of, next, cr), Append(out, Span(sa, end)), n, sp)
  BY <1>2, SetStart
<1> HIDE DEF b
<1>4. c = Call(Scanner("field_start", of, next, cr), Append(out, Span(sa, end)), n, sp)
  BY <1>3, SetState
<1> HIDE DEF c
<1>5. d = Call(Scanner("field_start", of, next, NoCr), Append(out, Span(sa, end)), n, sp)
  BY <1>4, SetCr
<1> HIDE DEF d
<1> QED
  BY <1>1, <1>5

Advanced(q, at) == [q EXCEPT !.s.offset = at + 1, !.n = @ + 1]
Halted(q, stop) == [q EXCEPT !.stopped = Len(q.out) = stop]

\* A byte is taken.
LEMMA AdvancedIs ==
    ASSUME NEW st, NEW of, NEW sa, NEW cr, NEW out, NEW n, NEW sp, NEW at
    PROVE  Advanced(Call(Scanner(st, of, sa, cr), out, n, sp), at) =
             Call(Scanner(st, at + 1, sa, cr), out, n + 1, sp)
<1> DEFINE c == Call(Scanner(st, of, sa, cr), out, n, sp)
           e == [c EXCEPT !.s.offset = at + 1]
<1>1. c.n = n
  BY DEF Call
<1>2. e = Call(Scanner(st, at + 1, sa, cr), out, n, sp)
  BY SetOffset
<1>3. Advanced(c, at) = [e EXCEPT !.n = n + 1]
  BY <1>1 DEF Advanced
<1> HIDE DEF e
<1> QED
  BY <1>2, <1>3, SetCount

\* The callback may stop the call.
LEMMA HaltedIs ==
    ASSUME NEW st, NEW of, NEW sa, NEW cr, NEW out, NEW n, NEW sp, NEW stop
    PROVE  Halted(Call(Scanner(st, of, sa, cr), out, n, sp), stop) =
             Call(Scanner(st, of, sa, cr), out, n, Len(out) = stop)
<1> DEFINE c == Call(Scanner(st, of, sa, cr), out, n, sp)
<1>1. c.out = out
  BY DEF Call
<1>2. Halted(c, stop) = [c EXCEPT !.stopped = Len(out) = stop]
  BY <1>1 DEF Halted
<1> QED
  BY <1>2 DEF Call

Flushed(r, stop) ==
    IF r.s.cr = NoCr THEN r ELSE Halted(CompleteRecord(r, r.s.cr, r.s.offset), stop)

\* One turn of the loop, its branches named.
LEMMA ConsumeByteIs ==
    ASSUME NEW csv, NEW r, NEW byte, NEW stop
    PROVE  LET at == r.s.offset
               q == Flushed(r, stop)
           IN  ConsumeByte(csv, r, byte, stop) =
        IF r.s.cr # NoCr /\ byte = "lf"
        THEN Halted(CompleteRecord(Advanced(r, at), r.s.cr, at + 1), stop)
        ELSE IF q.stopped THEN q
        ELSE IF q.s.state # "quoted" /\ byte = "cr"
        THEN [Advanced(q, at) EXCEPT !.s.cr = at]
        ELSE IF q.s.state # "quoted" /\ byte = "lf"
        THEN Halted(CompleteRecord(Advanced(q, at), at, at + 1), stop)
        ELSE IF csv THEN [Advanced(q, at) EXCEPT !.s.state = FieldState(@, byte)]
        ELSE Advanced(q, at)
BY DEF ConsumeByte, Advanced, Halted, Flushed

IsTurn(r) == r = Call(r.s, r.out, r.n, r.stopped) /\ r.stopped \in BOOLEAN

\* What a turn does.
Turned(csv, r, byte, stop, t) ==
    LET longer == Append(r.out, Ended(r.s))
    IN  /\ IsTurn(t) /\ (t.n = r.n \/ t.n = r.n + 1)
        /\ IF r.s.cr # NoCr /\ byte # "lf" /\ Len(longer) = stop
           THEN t.s = ScannerAt(r.s.offset) /\ t.out = longer /\ t.stopped
           ELSE /\ t.s = Moved(csv, r.s, byte)
                /\ t.out = IF Ends(r.s, byte) THEN longer ELSE r.out
                /\ t.stopped <=> Ends(r.s, byte) /\ Len(longer) = stop

\* The parts of a call.
LEMMA CallIs ==
    ASSUME NEW s, NEW out, NEW n, NEW sp \in BOOLEAN, NEW t, t = Call(s, out, n, sp)
    PROVE  IsTurn(t) /\ t.s = s /\ t.out = out /\ t.n = n /\ t.stopped = sp
BY DEF Call, IsTurn

\* A turn is what Turned says of it, branch by branch.
LEMMA TurnOf ==
    ASSUME NEW csv, csv \in BOOLEAN, NEW given, IsTurn(given), ~ given.stopped,
           given.s = Scanner(given.s.state, given.s.offset, given.s.start, given.s.cr),
           NEW byte, NEW stop
    PROVE  Turned(csv, given, byte, stop, Turn(csv, given, byte, stop))
<1> DEFINE st == given.s.state
           of == given.s.offset
           sa == given.s.start
           cr == given.s.cr
           out == given.out
           n == given.n
           no == given.stopped
<1>a. given = Call(Scanner(st, of, sa, cr), out, n, no) /\ no = FALSE
  BY DEF IsTurn
<1> DEFINE s == Scanner(st, of, sa, cr)
           r == Call(s, out, n, no)
<1> SUFFICES Turned(csv, r, byte, stop, Turn(csv, r, byte, stop))
  BY <1>a
<1> HIDE DEF st, of, sa, cr, out, n, no
<1> DEFINE longer == Append(out, Ended(s))
           q == Flushed(r, stop)
           open == IF cr = NoCr THEN s ELSE ScannerAt(of)
           kept == IF cr = NoCr THEN out ELSE longer
           hit == IF cr = NoCr THEN no ELSE Len(longer) = stop
<1>b. r.s = s /\ r.out = out /\ r.n = n /\ r.stopped = FALSE /\ longer = Append(r.out, Ended(r.s))
  BY <1>a DEF Call
<1>c. s.cr = cr /\ s.offset = of
  BY DEF Scanner
<1>0. Turn(csv, r, byte, stop) =
        IF r.s.cr # NoCr /\ byte = "lf"
        THEN Halted(CompleteRecord(Advanced(r, r.s.offset), r.s.cr, r.s.offset + 1), stop)
        ELSE IF q.stopped THEN q
        ELSE IF q.s.state # "quoted" /\ byte = "cr"
        THEN [Advanced(q, r.s.offset) EXCEPT !.s.cr = r.s.offset]
        ELSE IF q.s.state # "quoted" /\ byte = "lf"
        THEN Halted(CompleteRecord(Advanced(q, r.s.offset), r.s.offset, r.s.offset + 1), stop)
        ELSE IF csv THEN [Advanced(q, r.s.offset) EXCEPT
                             !.s.state = FieldState(Advanced(q, r.s.offset).s.state, byte)]
        ELSE Advanced(q, r.s.offset)
  <2>1. r.stopped = FALSE
    BY <1>b
  <2> HIDE DEF r, q
  <2>2. CASE csv = TRUE
    BY <2>1, <2>2, ConsumeByteIs DEF Turn, q
  <2>3. CASE csv = FALSE
    BY <2>1, <2>3, ConsumeByteIs DEF Turn, ConsumeLineByte, q
  <2> QED
    BY <2>2, <2>3
<1>1. r.s.cr = cr /\ r.s.state = st /\ r.s.offset = of /\ r.stopped = FALSE
  BY <1>a DEF Call, Scanner
<1>2. ScannerAt(of) = Scanner("field_start", of, of, NoCr)
  BY DEF ScannerAt, Scanner
<1>3. q = Call(open, kept, n, hit)
  <2>1. CASE cr = NoCr
    BY <1>1, <2>1 DEF Flushed
  <2>2. CASE cr # NoCr
    <3>1. CompleteRecord(r, cr, of) =
             Call(Scanner("field_start", of, of, NoCr), Append(out, Span(sa, cr)), n, no)
      BY Completed
    <3>2. longer = Append(out, Span(sa, cr))
      BY <2>2 DEF Ended, Scanner
    <3>3. q = Halted(CompleteRecord(r, cr, of), stop)
      BY <1>1, <2>2 DEF Flushed
    <3> HIDE DEF r, longer
    <3>4. q = Halted(Call(Scanner("field_start", of, of, NoCr), longer, n, no), stop)
      BY <3>1, <3>2, <3>3
    <3>5. q = Call(Scanner("field_start", of, of, NoCr), longer, n, Len(longer) = stop)
      BY <3>4, HaltedIs
    <3> QED
      BY <1>2, <2>2, <3>5
  <2> QED
    BY <2>1, <2>2
<1>4. CASE cr # NoCr /\ byte = "lf"
  <2>1. Advanced(r, of) = Call(Scanner(st, of + 1, sa, cr), out, n + 1, no)
    BY AdvancedIs
  <2>2. CompleteRecord(Advanced(r, of), cr, of + 1) =
           Call(Scanner("field_start", of + 1, of + 1, NoCr), longer, n + 1, no)
    <3>1. longer = Append(out, Span(sa, cr))
      BY <1>4 DEF Ended, Scanner
    <3> HIDE DEF r, longer
    <3> QED
      BY <2>1, <3>1, Completed
  <2>3. Halted(CompleteRecord(Advanced(r, of), cr, of + 1), stop) =
           Call(Scanner("field_start", of + 1, of + 1, NoCr), longer, n + 1, Len(longer) = stop)
    <3> HIDE DEF r, longer
    <3> QED
      BY <2>2, HaltedIs
  <2>4. Moved(csv, s, byte) = Scanner("field_start", of + 1, of + 1, NoCr) /\ Ends(s, byte)
    BY <1>4, <1>2 DEF Moved, Ends, Scanner, ScannerAt
  <2>5. Turn(csv, r, byte, stop) =
           Halted(CompleteRecord(Advanced(r, of), cr, of + 1), stop)
    <3> HIDE DEF r, q
    <3> QED
      BY <1>1, <1>4, <1>0 DEF q
  <2>6. Turn(csv, r, byte, stop) = Call(Moved(csv, s, byte), longer, n + 1, Len(longer) = stop)
    BY <2>3, <2>4, <2>5
  <2> DEFINE t == Turn(csv, r, byte, stop)
             full == Len(longer) = stop
  <2>7. full \in BOOLEAN
    OBVIOUS
  <2> HIDE DEF s, longer, r, t, full
  <2>8. t = Call(Moved(csv, s, byte), longer, n + 1, full)
    BY <2>6 DEF t, full
  <2>9. IsTurn(t) /\ t.s = Moved(csv, s, byte) /\ t.out = longer /\ t.n = n + 1 /\ t.stopped = full
    BY <2>7, <2>8, CallIs
  <2> QED
    BY <1>4, <2>4, <2>9, <1>b DEF Turned, t, full, IsTurn
<1>5. CASE cr # NoCr /\ byte # "lf" /\ Len(longer) = stop
  <2> DEFINE full == Len(longer) = stop
  <2>0. full \in BOOLEAN /\ full = TRUE
    BY <1>5
  <2>1. q = Call(ScannerAt(of), longer, n, full)
    BY <1>3, <1>5
  <2>2. IsTurn(q) /\ q.s = ScannerAt(of) /\ q.out = longer /\ q.n = n /\ q.stopped = full
    <3> DEFINE at == ScannerAt(of)
    <3>1. full \in BOOLEAN
      OBVIOUS
    <3>2. q = Call(at, longer, n, full)
      BY <2>1
    <3> HIDE DEF full, q, longer, at
    <3>3. IsTurn(q) /\ q.s = at /\ q.out = longer /\ q.n = n /\ q.stopped = full
      BY <3>1, <3>2, CallIs
    <3> QED
      BY <3>3 DEF at
  <2>3. Turn(csv, r, byte, stop) = q
    <3>1. q.stopped = TRUE
      BY <2>0, <2>2
    <3>2. ~ (r.s.cr # NoCr /\ byte = "lf")
      BY <1>5
    <3> HIDE DEF r, q
    <3> QED
      BY <1>0, <3>1, <3>2
  <2> HIDE DEF s, longer, r, q, full
  <2> QED
    BY <1>5, <2>0, <2>2, <2>3, <1>b, <1>c DEF Turned, full, IsTurn
<1>6. CASE cr = NoCr \/ (byte # "lf" /\ Len(longer) # stop)
  <2>0. hit = no /\ no \in BOOLEAN
    BY <1>a, <1>6
  <2>1. q = Call(open, kept, n, no)
    BY <1>3, <2>0
  <2>2. q.stopped = FALSE /\ q.s.state = open.state /\ q.s = open
    <3> HIDE DEF open, kept, q
    <3> QED
      BY <2>0, <2>1, <1>a, CallIs
  <2> DEFINE state == open.state
             start == open.start
  <2>3. open = Scanner(state, of, start, NoCr) /\ open = Settled(s)
    BY <1>2 DEF Scanner, Settled
  <2>6. /\ s.offset = of /\ s.cr = cr /\ s.state = st
        /\ Settled(s).state = state
        /\ cr = NoCr => state = st
    BY <2>3 DEF Scanner
  <2>4. Advanced(q, of) = Call(Scanner(state, of + 1, start, NoCr), kept, n + 1, no)
    <3> HIDE DEF open, kept, state, start, q
    <3>1. q = Call(Scanner(state, of, start, NoCr), kept, n, no)
      BY <2>1, <2>3
    <3> QED
      BY <3>1, AdvancedIs
  <2>5. ASSUME state # "quoted", byte = "cr"
        PROVE  /\ Turn(csv, r, byte, stop) = Call(Moved(csv, s, byte), kept, n + 1, no)
               /\ Ends(s, byte) <=> cr # NoCr
    <3>1. Turn(csv, r, byte, stop) = [Advanced(q, of) EXCEPT !.s.cr = of]
      <4> HIDE DEF r, q, open
      <4> QED
        BY <1>1, <1>6, <1>0, <2>2, <2>5 DEF q
    <3>2. [Advanced(q, of) EXCEPT !.s.cr = of] =
             Call(Scanner(state, of + 1, start, of), kept, n + 1, no)
      <4> HIDE DEF open, kept, state, start, q
      <4> QED
        BY <2>4, SetCr
    <3>3. Moved(csv, s, byte) = Scanner(state, of + 1, start, of)
      <4> HIDE DEF s, open, state, start
      <4>2. Settled(s) = Scanner(state, of, start, NoCr) /\ Settled(s).start = start
        BY <2>3 DEF Scanner
      <4> QED
        BY <4>2, <2>3, <2>5, <2>6 DEF Moved
    <3> QED
      BY <3>1, <3>2, <3>3, <2>5, <2>6 DEF Ends
  <2>7. ASSUME state # "quoted", byte = "lf"
        PROVE  /\ cr = NoCr
               /\ Ends(s, byte)
               /\ Turn(csv, r, byte, stop) =
                    Call(Moved(csv, s, byte), longer, n + 1, Len(longer) = stop)
    <3>1. cr = NoCr /\ kept = out /\ open = s
      BY <1>6, <2>7
    <3>2. Turn(csv, r, byte, stop) =
             Halted(CompleteRecord(Advanced(q, of), of, of + 1), stop)
      <4> HIDE DEF r, q, open
      <4> QED
        BY <1>1, <1>6, <1>0, <2>2, <2>7, <3>1 DEF q
    <3>3. CompleteRecord(Advanced(q, of), of, of + 1) =
             Call(Scanner("field_start", of + 1, of + 1, NoCr), longer, n + 1, no)
      <4>1. longer = Append(out, Span(start, of))
        BY <3>1 DEF Ended, Scanner
      <4> HIDE DEF open, kept, state, start, q, longer
      <4> QED
        BY <2>4, <3>1, <4>1, Completed
    <3>4. Moved(csv, s, byte) = Scanner("field_start", of + 1, of + 1, NoCr)
      <4> HIDE DEF s, open, state, start
      <4> QED
        BY <2>3, <2>6, <2>7, <3>1 DEF Moved, Scanner, ScannerAt
    <3>5. Ends(s, byte)
      BY <2>7, <2>6, <3>1 DEF Ends
    <3> HIDE DEF r, q, longer, open
    <3> QED
      BY <3>1, <3>2, <3>3, <3>4, <3>5, HaltedIs
  <2>8. ASSUME ~ (state # "quoted" /\ byte \in {"cr", "lf"})
        PROVE  /\ Turn(csv, r, byte, stop) = Call(Moved(csv, s, byte), kept, n + 1, no)
               /\ Ends(s, byte) <=> cr # NoCr
    <3> DEFINE after == IF csv THEN FieldState(state, byte) ELSE state
    <3>1. Turn(csv, r, byte, stop) =
             IF csv THEN [Advanced(q, of) EXCEPT !.s.state = FieldState(Advanced(q, of).s.state, byte)]
             ELSE Advanced(q, of)
      <4> HIDE DEF r, q, open
      <4> QED
        BY <1>1, <1>6, <1>0, <2>2, <2>8 DEF q
    <3>2. Advanced(q, of).s.state = state
      <4> HIDE DEF q, open, kept, state, start
      <4> QED
        BY <2>4 DEF Call, Scanner
    <3>3. Turn(csv, r, byte, stop) =
             Call(Scanner(after, of + 1, start, NoCr), kept, n + 1, no)
      <4>1. CASE csv = TRUE
        <5> HIDE DEF r, q, open, kept, state, start
        <5> QED
          BY <4>1, <3>1, <3>2, <2>4, SetState DEF after
      <4>2. CASE csv = FALSE
        <5> HIDE DEF r, q, open, kept, state, start
        <5> QED
          BY <4>2, <3>1, <2>4 DEF after
      <4> QED
        BY <4>1, <4>2
    <3>4. byte = "lf" => cr = NoCr /\ state = "quoted"
      BY <1>6, <2>8, <1>2
    <3>5. Moved(csv, s, byte) = Scanner(after, of + 1, start, NoCr)
      <4> HIDE DEF s, open, state, start
      <4>2. Settled(s) = Scanner(state, of, start, NoCr) /\ Settled(s).start = start
        BY <2>3 DEF Scanner
      <4> QED
        BY <4>2, <2>3, <2>6, <2>8, <3>4 DEF Moved
    <3> QED
      BY <3>3, <3>4, <3>5, <2>6, <2>8 DEF Ends
  <2> DEFINE t == Turn(csv, r, byte, stop)
             full == Len(longer) = stop
  <2>12. kept = (IF cr = NoCr THEN out ELSE longer) /\ full \in BOOLEAN
    OBVIOUS
  <2>13. cr # NoCr => byte # "lf" /\ ~ full
    BY <1>6
  <2>9. ASSUME t = Call(Moved(csv, s, byte), kept, n + 1, no), Ends(s, byte) <=> cr # NoCr
        PROVE  Turned(csv, r, byte, stop, t)
    <3> HIDE DEF s, longer, r, q, kept, t
    <3>1. IsTurn(t) /\ t.s = Moved(csv, s, byte) /\ t.out = kept /\ t.n = n + 1 /\ t.stopped = FALSE
      BY <2>0, <2>9, <1>a, CallIs
    <3> QED
      BY <3>1, <2>9, <2>12, <2>13, <1>b, <1>c DEF Turned, IsTurn
  <2>10. CASE state # "quoted" /\ byte = "lf"
    <3> HIDE DEF s, longer, r, q, kept, t, full
    <3>1. t = Call(Moved(csv, s, byte), longer, n + 1, full)
      BY <2>7, <2>10 DEF t, full
    <3>2. IsTurn(t) /\ t.s = Moved(csv, s, byte) /\ t.out = longer /\ t.n = n + 1 /\ t.stopped = full
      BY <2>12, <3>1, CallIs
    <3> QED
      BY <3>2, <2>7, <2>10, <1>b, <1>c DEF Turned, full, t, IsTurn
  <2>11. CASE ~ (state # "quoted" /\ byte = "lf")
    <3> HIDE DEF s, longer, r, q, kept, state
    <3> QED
      BY <2>5, <2>8, <2>9, <2>11
  <2> QED
    BY <2>10, <2>11
<1> QED
  BY <1>4, <1>5, <1>6

Spans == [start : Nat, end : Nat]

Good(s) ==
    /\ s = Scanner(s.state, s.offset, s.start, s.cr)
    /\ s.offset \in Nat /\ s.start \in 0 .. s.offset
    /\ s.cr = NoCr \/ s.cr \in Nat

-----------------------------------------------------------------------------
(* Scanners in order.                                                       *)

\* A scanner at a boundary is in order.
LEMMA ScannerAtGood ==
    ASSUME NEW o \in Nat
    PROVE  /\ Good(ScannerAt(o))
           /\ ScannerAt(o).offset = o /\ ScannerAt(o).start = o
           /\ ScannerAt(o).cr = NoCr /\ ScannerAt(o).state = "field_start"
           /\ Settled(ScannerAt(o)) = ScannerAt(o)
BY DEF Good, ScannerAt, Scanner, Settled

\* A scanner stays in order, and the record it ends is one.
LEMMA MovedGood ==
    ASSUME NEW csv, NEW s, Good(s), NEW byte
    PROVE  /\ Good(Moved(csv, s, byte)) /\ Moved(csv, s, byte).offset = s.offset + 1
           /\ Ended(s) \in Spans
           /\ ~ Ends(s, byte) => s.cr = NoCr /\ Moved(csv, s, byte).start = s.start
           /\ Ends(s, byte) => IF s.cr # NoCr /\ byte # "lf"
                               THEN Moved(csv, s, byte).start = s.offset
                               ELSE Moved(csv, s, byte) = ScannerAt(s.offset + 1)
<1> DEFINE q == Settled(s)
<1>1. q = Scanner(q.state, s.offset, q.start, NoCr) /\ q.start \in 0 .. s.offset
  BY DEF Settled, Good, Scanner, ScannerAt
<1>2. IF s.cr = NoCr THEN q.start = s.start /\ q.state = s.state
      ELSE q.start = s.offset /\ q.state = "field_start"
  BY DEF Settled, Good, Scanner, ScannerAt
<1>3. s.offset \in Nat /\ s.start \in 0 .. s.offset /\ (s.cr = NoCr \/ s.cr \in Nat)
  BY DEF Good
<1>4. Ended(s) \in Spans
  BY <1>3 DEF Ended, Span, Spans
<1> DEFINE m == Moved(csv, s, byte)
<1>5. CASE q.state # "quoted" /\ byte = "cr"
  <2>1. m = Scanner(q.state, s.offset + 1, q.start, s.offset)
    BY <1>5 DEF Moved
  <2>2. Good(m) /\ m.offset = s.offset + 1 /\ m.start = q.start
    <3> HIDE DEF m, q
    <3> QED
      BY <2>1, <1>1, <1>3 DEF Good, Scanner
  <2> HIDE DEF m, q
  <2>3. Ends(s, byte) <=> s.cr # NoCr
    BY <1>2, <1>5 DEF Ends
  <2> QED
    BY <1>2, <1>4, <1>5, <2>2, <2>3 DEF m
<1>6. CASE byte = "lf" /\ (s.cr # NoCr \/ q.state # "quoted")
  <2>1. m = ScannerAt(s.offset + 1) /\ Ends(s, byte)
    BY <1>6, <1>2 DEF Moved, Ends
  <2> QED
    BY <2>1, <1>3, <1>4, <1>6, ScannerAtGood
<1>7. CASE ~ (q.state # "quoted" /\ byte = "cr") /\ ~ (byte = "lf" /\ (s.cr # NoCr \/ q.state # "quoted"))
  <2> DEFINE after == IF csv THEN FieldState(q.state, byte) ELSE q.state
  <2>1. m = Scanner(after, s.offset + 1, q.start, NoCr)
    BY <1>7 DEF Moved
  <2>2. Good(m) /\ m.offset = s.offset + 1 /\ m.start = q.start
    <3> HIDE DEF m, q, after
    <3> QED
      BY <2>1, <1>1, <1>3 DEF Good, Scanner
  <2> HIDE DEF m, q
  <2>3. Ends(s, byte) <=> s.cr # NoCr /\ byte # "lf"
    BY <1>2, <1>7 DEF Ends
  <2> QED
    BY <1>2, <1>4, <1>7, <2>2, <2>3 DEF m
<1> QED
  BY <1>5, <1>6, <1>7

\* A file as it is read in one go.
Pass(csv, file) ==
    CHOOSE run : IsRun(run, csv, ScannerAt(0), file, Len(file) + 1, Len(file))

-----------------------------------------------------------------------------
(* One pass over a file.                                                    *)

\* Pass is a call over the whole file.
LEMMA PassIsRun ==
    ASSUME NEW csv, NEW file, Len(file) \in Nat
    PROVE  IsRun(Pass(csv, file), csv, ScannerAt(0), file, Len(file) + 1, Len(file))
<1>1. \E run : IsRun(run, csv, ScannerAt(0), file, Len(file) + 1, Len(file))
  BY RunExists
<1> QED
  BY <1>1, Zenon DEF Pass

Fine(r, k) ==
    /\ IsTurn(r) /\ ~ r.stopped
    /\ Good(r.s) /\ r.s.offset = k
    /\ r.out \in Seq(Spans) /\ Len(r.out) <= k

Steps(csv, r, q, byte) ==
    /\ q.s = Moved(csv, r.s, byte)
    /\ q.out = IF Ends(r.s, byte) THEN Append(r.out, Ended(r.s)) ELSE r.out

\* A turn that nothing stops.
LEMMA FineStep ==
    ASSUME NEW csv \in BOOLEAN, NEW r, NEW k \in Nat, Fine(r, k), NEW byte,
           NEW stop \in Nat, k + 1 < stop
    PROVE  /\ Fine(Turn(csv, r, byte, stop), k + 1)
           /\ Steps(csv, r, Turn(csv, r, byte, stop), byte)
<1> DEFINE s == r.s
           longer == Append(r.out, Ended(s))
           q == Turn(csv, r, byte, stop)
<1>1. /\ s = Scanner(s.state, s.offset, s.start, s.cr) /\ Good(s) /\ s.offset = k
      /\ IsTurn(r) /\ ~ r.stopped /\ r.out \in Seq(Spans) /\ Len(r.out) <= k
  BY DEF Fine, Good
<1>2. Ended(s) \in Spans
  BY <1>1, MovedGood
<1>3. longer \in Seq(Spans) /\ Len(longer) = Len(r.out) + 1 /\ Len(r.out) \in Nat
  BY <1>1, <1>2, AppendProperties
<1>4. Len(longer) # stop /\ Len(r.out) # stop
  BY <1>1, <1>3
<1>5. Turned(csv, r, byte, stop, q)
  <2> HIDE DEF s, q
  <2>2. r.s = Scanner(r.s.state, r.s.offset, r.s.start, r.s.cr)
    BY <1>1 DEF s
  <2> QED
    BY <1>1, <2>2, TurnOf DEF q
<1>6. Good(Moved(csv, s, byte)) /\ Moved(csv, s, byte).offset = k + 1
  BY <1>1, MovedGood
<1>7. /\ IsTurn(q) /\ ~ q.stopped /\ q.s = Moved(csv, s, byte)
      /\ q.out = IF Ends(s, byte) THEN longer ELSE r.out
  <2> HIDE DEF q
  <2>1. Len(Append(r.out, Ended(r.s))) # stop
    BY <1>4
  <2>2. Turned(csv, r, byte, stop, q)
    BY <1>5
  <2> QED
    BY <2>1, <2>2, Zenon DEF Turned
<1> HIDE DEF s, longer, q
<1> QED
  BY <1>1, <1>3, <1>6, <1>7 DEF Fine, Steps, s, longer, q

At(csv, file, k) == Pass(csv, file)[k]

Scanned(csv, file) == At(csv, file, Len(file)).out \o Finish(At(csv, file, Len(file)).s)

\* What holds after every byte of a pass.
LEMMA PassFacts ==
    ASSUME NEW csv \in BOOLEAN, NEW file \in Seq(Bytes)
    PROVE  /\ At(csv, file, 0).s = ScannerAt(0) /\ At(csv, file, 0).out = <<>>
           /\ \A k \in 0 .. Len(file) : Fine(At(csv, file, k), k)
           /\ \A k \in 0 .. Len(file) - 1 :
                 Steps(csv, At(csv, file, k), At(csv, file, k + 1), file[k + 1])
<1> DEFINE run == Pass(csv, file)
           size == Len(file)
           stop == size + 1
<1>0. size \in Nat /\ stop \in Nat
  OBVIOUS
<1>1. IsRun(run, csv, ScannerAt(0), file, stop, size)
  BY <1>0, PassIsRun
<1> HIDE DEF run
<1>2. run[0].s = ScannerAt(0) /\ run[0].out = <<>> /\ Fine(run[0], 0)
  <2>1. run[0] = Call(ScannerAt(0), <<>>, 0, FALSE)
    BY <1>1 DEF IsRun, Call
  <2>2. run[0].s = ScannerAt(0) /\ run[0].out = <<>> /\ run[0].stopped = FALSE /\ IsTurn(run[0])
    BY <2>1 DEF Call, IsTurn
  <2> QED
    BY <2>2, ScannerAtGood DEF Fine
<1>3. ASSUME NEW k \in 0 .. size - 1, Fine(run[k], k)
      PROVE  Fine(run[k + 1], k + 1) /\ Steps(csv, run[k], run[k + 1], file[k + 1])
  <2>1. k \in Nat /\ k + 1 < stop /\ k + 1 \in 1 .. size
    BY <1>0
  <2>2. run[k + 1] = Turn(csv, run[(k + 1) - 1], file[k + 1], stop)
    BY <1>1, <2>1 DEF IsRun
  <2>3. run[k + 1] = Turn(csv, run[k], file[k + 1], stop)
    BY <2>1, <2>2
  <2> HIDE DEF stop
  <2> QED
    BY <1>0, <1>3, <2>1, <2>3, FineStep
<1> DEFINE S == {k \in Nat : k <= size => Fine(run[k], k)}
<1>4. 0 \in S
  BY <1>2
<1>5. ASSUME NEW k \in Nat, k \in S PROVE k + 1 \in S
  BY <1>0, <1>3, <1>5
<1> HIDE DEF S
<1>6. Nat \subseteq S
  BY <1>4, <1>5, NumbersByInduction
<1>7. \A k \in 0 .. size : Fine(run[k], k)
  BY <1>6, <1>0 DEF S
<1> QED
  BY <1>0, <1>2, <1>3, <1>7 DEF At, run

\* Bytes after the last boundary, which will be part of a record.
Begun(s) == s.cr # NoCr \/ s.start < s.offset

\* finish emits the record that was begun.
LEMMA FinishIs ==
    ASSUME NEW s, Good(s)
    PROVE  Finish(s) = IF Begun(s) THEN <<Ended(s)>> ELSE <<>>
BY DEF Finish, Begun, Ended, Good

\* Records that were found stay found; a byte that ends none begins one.
LEMMA StepGrows ==
    ASSUME NEW csv \in BOOLEAN, NEW r, NEW q, NEW k \in Nat, NEW byte,
           Fine(r, k), Fine(q, k + 1), Steps(csv, r, q, byte)
    PROVE  /\ \A i \in 1 .. Len(r.out) : q.out[i] = r.out[i]
           /\ Ends(r.s, byte) =>
                 Len(q.out) = Len(r.out) + 1 /\ q.out[Len(r.out) + 1] = Ended(r.s)
           /\ ~ Ends(r.s, byte) => Len(q.out) = Len(r.out) /\ Begun(q.s)
<1>1. Good(r.s) /\ r.s.offset = k /\ r.out \in Seq(Spans) /\ q.s = Moved(csv, r.s, byte)
  BY DEF Fine, Steps
<1>2. Ended(r.s) \in Spans /\ q.s.offset = k + 1
  BY <1>1, MovedGood
<1>3. q.out = IF Ends(r.s, byte) THEN Append(r.out, Ended(r.s)) ELSE r.out
  BY DEF Steps
<1>4. ~ Ends(r.s, byte) => q.s.start = r.s.start /\ r.s.start <= k
  BY <1>1, MovedGood DEF Good
<1>5. ~ Ends(r.s, byte) => Begun(q.s)
  BY <1>1, <1>2, <1>4 DEF Begun, Good
<1>6. CASE Ends(r.s, byte)
  <2> DEFINE e == Ended(r.s)
             out == r.out
  <2>1. q.out = Append(out, e) /\ e \in Spans /\ out \in Seq(Spans)
    BY <1>1, <1>2, <1>3, <1>6
  <2> HIDE DEF e, out
  <2>2. /\ Len(q.out) = Len(out) + 1
        /\ \A i \in 1 .. Len(out) : q.out[i] = out[i]
        /\ q.out[Len(out) + 1] = e
    BY <2>1
  <2> QED
    BY <2>2, <1>6 DEF e, out
<1>7. CASE ~ Ends(r.s, byte)
  <2>1. q.out = r.out /\ Len(r.out) \in Nat
    BY <1>1, <1>3, <1>7
  <2> QED
    BY <2>1, <1>5, <1>7
<1> QED
  BY <1>6, <1>7

\* What was found in the first bytes is what is found in all of them, and begun
\* records come to an end.
LEMMA PassGrows ==
    ASSUME NEW csv \in BOOLEAN, NEW file \in Seq(Bytes), NEW k \in 0 .. Len(file)
    PROVE  \A h \in k .. Len(file) :
              /\ Len(At(csv, file, k).out) <= Len(At(csv, file, h).out)
              /\ \A i \in 1 .. Len(At(csv, file, k).out) :
                    At(csv, file, h).out[i] = At(csv, file, k).out[i]
              /\ Begun(At(csv, file, k).s) =>
                    \/ Len(At(csv, file, k).out) < Len(At(csv, file, h).out)
                    \/ Begun(At(csv, file, h).s)
<1> DEFINE R(h) == At(csv, file, h)
           Later(h) ==
              /\ Len(R(k).out) <= Len(R(h).out)
              /\ \A i \in 1 .. Len(R(k).out) : R(h).out[i] = R(k).out[i]
              /\ Begun(R(k).s) => Len(R(k).out) < Len(R(h).out) \/ Begun(R(h).s)
           S == {j \in Nat : k + j <= Len(file) => Later(k + j)}
<1>1. \A h \in 0 .. Len(file) : Len(R(h).out) \in Nat
  BY PassFacts DEF Fine
<1>2. 0 \in S
  BY <1>1
<1>3. ASSUME NEW j \in Nat, j \in S PROVE j + 1 \in S
  <2>1. SUFFICES ASSUME k + (j + 1) <= Len(file) PROVE Later(k + (j + 1))
    OBVIOUS
  <2> DEFINE h == k + j
  <2>2. h \in 0 .. Len(file) - 1 /\ h + 1 = k + (j + 1) /\ h \in Nat /\ h + 1 \in 0 .. Len(file)
    BY <2>1
  <2>3. Fine(R(h), h) /\ Fine(R(h + 1), h + 1) /\ Steps(csv, R(h), R(h + 1), file[h + 1])
    BY <2>2, PassFacts
  <2>4. Later(h)
    BY <1>3, <2>1
  <2> HIDE DEF h
  <2>5. /\ \A i \in 1 .. Len(R(h).out) : R(h + 1).out[i] = R(h).out[i]
        /\ Len(R(h + 1).out) # Len(R(h).out) + 1 =>
              Len(R(h + 1).out) = Len(R(h).out) /\ Begun(R(h + 1).s)
    <3> DEFINE r == R(h)
               q == R(h + 1)
               byte == file[h + 1]
    <3>1. h \in Nat /\ Fine(r, h) /\ Fine(q, h + 1) /\ Steps(csv, r, q, byte)
      BY <2>2, <2>3
    <3> HIDE DEF r, q, byte
    <3>2. /\ \A i \in 1 .. Len(r.out) : q.out[i] = r.out[i]
          /\ Len(q.out) # Len(r.out) + 1 => Len(q.out) = Len(r.out) /\ Begun(q.s)
      BY <3>1, StepGrows
    <3> QED
      BY <3>2 DEF r, q, byte
  <2>6. Len(R(k).out) \in Nat /\ Len(R(h).out) \in Nat /\ Len(R(h + 1).out) \in Nat
    BY <1>1, <2>2
  <2>7. Later(h + 1)
    <3> DEFINE a == R(k)
               r == R(h)
               q == R(h + 1)
    <3>1. /\ Len(a.out) <= Len(r.out)
          /\ \A i \in 1 .. Len(a.out) : r.out[i] = a.out[i]
          /\ Begun(a.s) => Len(a.out) < Len(r.out) \/ Begun(r.s)
      BY <2>4
    <3>2. /\ Len(q.out) = Len(r.out) \/ Len(q.out) = Len(r.out) + 1
          /\ \A i \in 1 .. Len(r.out) : q.out[i] = r.out[i]
          /\ Len(q.out) # Len(r.out) + 1 => Begun(q.s)
      BY <2>5, <2>6
    <3> HIDE DEF a, r, q
    <3>3. Len(a.out) \in Nat /\ Len(r.out) \in Nat /\ Len(q.out) \in Nat
      BY <2>6 DEF a, r, q
    <3>4. /\ Len(a.out) <= Len(q.out)
          /\ \A i \in 1 .. Len(a.out) : q.out[i] = a.out[i]
          /\ Begun(a.s) => Len(a.out) < Len(q.out) \/ Begun(q.s)
      BY <3>1, <3>2, <3>3
    <3> QED
      BY <3>4 DEF a, r, q
  <2> QED
    BY <2>2, <2>7
<1> HIDE DEF S
<1>4. Nat \subseteq S
  BY <1>2, <1>3, NumbersByInduction
<1>5. ASSUME NEW h \in k .. Len(file) PROVE Later(h)
  <2>1. h - k \in Nat /\ k + (h - k) = h
    OBVIOUS
  <2> QED
    BY <1>4, <2>1 DEF S
<1> QED
  BY <1>5

\* All records of a pass: those found and the one that finish adds.
LEMMA ScannedFacts ==
    ASSUME NEW csv \in BOOLEAN, NEW file \in Seq(Bytes)
    PROVE  LET last == At(csv, file, Len(file))
           IN  /\ Scanned(csv, file) \in Seq(Spans)
               /\ ~ Begun(last.s) => Len(Scanned(csv, file)) = Len(last.out)
               /\ Begun(last.s) => /\ Len(Scanned(csv, file)) = Len(last.out) + 1
                                  /\ Scanned(csv, file)[Len(last.out) + 1] = Ended(last.s)
               /\ \A k \in 0 .. Len(file) :
                     /\ Len(At(csv, file, k).out) <= Len(Scanned(csv, file))
                     /\ \A i \in 1 .. Len(At(csv, file, k).out) :
                           Scanned(csv, file)[i] = At(csv, file, k).out[i]
<1> DEFINE last == At(csv, file, Len(file))
           all == Scanned(csv, file)
<1>1. Len(file) \in Nat /\ Fine(last, Len(file))
  BY PassFacts
<1>2. Good(last.s) /\ last.out \in Seq(Spans)
  BY <1>1 DEF Fine
<1>3. Ended(last.s) \in Spans
  BY <1>2, MovedGood
<1>4. all = last.out \o (IF Begun(last.s) THEN <<Ended(last.s)>> ELSE <<>>)
  BY <1>2, FinishIs DEF Scanned
<1>5. /\ all \in Seq(Spans)
      /\ ~ Begun(last.s) => Len(all) = Len(last.out)
      /\ Begun(last.s) => Len(all) = Len(last.out) + 1 /\ all[Len(last.out) + 1] = Ended(last.s)
      /\ \A i \in 1 .. Len(last.out) : all[i] = last.out[i]
  <2> DEFINE e == Ended(last.s)
             out == last.out
             begun == Begun(last.s)
  <2>1. out \in Seq(Spans) /\ e \in Spans /\ all = out \o (IF begun THEN <<e>> ELSE <<>>)
    BY <1>2, <1>3, <1>4
  <2> HIDE DEF e, out, all, begun
  <2>2. CASE begun
    <3>1. all = out \o <<e>> /\ <<e>> \in Seq(Spans) /\ Len(<<e>>) = 1 /\ <<e>>[1] = e
      BY <2>1, <2>2
    <3> QED
      BY <2>1, <2>2, <3>1 DEF e, out, begun
  <2>3. CASE ~ begun
    <3>1. all = out
      BY <2>1, <2>3
    <3> QED
      BY <2>1, <2>3, <3>1 DEF e, out, begun
  <2> QED
    BY <2>2, <2>3
<1>6. ASSUME NEW k \in 0 .. Len(file)
      PROVE  /\ Len(At(csv, file, k).out) <= Len(all)
             /\ \A i \in 1 .. Len(At(csv, file, k).out) : all[i] = At(csv, file, k).out[i]
  <2>1. /\ Len(At(csv, file, k).out) <= Len(last.out)
        /\ \A i \in 1 .. Len(At(csv, file, k).out) : last.out[i] = At(csv, file, k).out[i]
    BY <1>1, PassGrows
  <2>2. Len(At(csv, file, k).out) \in Nat /\ Len(last.out) \in Nat
    BY <1>1, PassFacts DEF Fine
  <2>3. /\ Len(all) = Len(last.out) \/ Len(all) = Len(last.out) + 1
        /\ \A i \in 1 .. Len(last.out) : all[i] = last.out[i]
    BY <1>5
  <2> DEFINE a == At(csv, file, k)
  <2> HIDE DEF last, all, a
  <2>4. Len(last.out) <= Len(all)
    BY <2>2, <2>3
  <2>5. /\ Len(a.out) <= Len(last.out) /\ Len(a.out) \in Nat
        /\ \A i \in 1 .. Len(a.out) : last.out[i] = a.out[i]
    BY <2>1, <2>2 DEF a
  <2>7. Len(all) \in Nat
    BY <2>2, <2>3
  <2>6. /\ Len(a.out) <= Len(all)
        /\ \A i \in 1 .. Len(a.out) : all[i] = a.out[i]
    BY <2>2, <2>3, <2>4, <2>5, <2>7
  <2> QED
    BY <2>6 DEF a
<1> HIDE DEF last, all
<1> QED
  BY <1>5, <1>6 DEF last, all

-----------------------------------------------------------------------------
(* Scanners that stand in a file.                                           *)

\* A scanner that stands in the file with m records behind it, whether it came
\* from the origin, from a boundary of the index, or stopped at a record whose
\* carriage return it had already taken.
Agree(csv, file, s, m) ==
    /\ s.offset \in 0 .. Len(file)
    /\ \/ s = At(csv, file, s.offset).s /\ m = Len(At(csv, file, s.offset).out)
       \/ /\ s = ScannerAt(s.offset) /\ At(csv, file, s.offset).s.cr # NoCr
          /\ s.offset < Len(file) /\ file[s.offset + 1] # "lf"
          /\ m = Len(At(csv, file, s.offset).out) + 1

\* Past a carriage return that stands alone a scanner goes on as at a boundary.
LEMMA MovedAlike ==
    ASSUME NEW csv \in BOOLEAN, NEW s, Good(s), s.cr # NoCr, NEW byte, byte # "lf"
    PROVE  /\ Moved(csv, ScannerAt(s.offset), byte) = Moved(csv, s, byte)
           /\ ~ Ends(ScannerAt(s.offset), byte) /\ Ends(s, byte)
<1> DEFINE b == ScannerAt(s.offset)
<1>1. s.offset \in Nat
  BY DEF Good
<1>2. b.offset = s.offset /\ b.cr = NoCr /\ b.state = "field_start" /\ Settled(b) = b
  BY <1>1, ScannerAtGood
<1>3. Settled(s) = b
  BY DEF Settled
<1> HIDE DEF b
<1>4. Moved(csv, b, byte) = Moved(csv, s, byte)
  BY <1>2, <1>3 DEF Moved
<1>5. ~ Ends(b, byte) /\ Ends(s, byte)
  BY <1>2 DEF Ends
<1> QED
  BY <1>4, <1>5 DEF b

\* A scanner that agrees is in order.
LEMMA AgreeGood ==
    ASSUME NEW csv \in BOOLEAN, NEW file \in Seq(Bytes), NEW s, NEW m, Agree(csv, file, s, m)
    PROVE  Good(s) /\ m \in Nat /\ s.offset \in 0 .. Len(file)
<1>1. s.offset \in 0 .. Len(file) /\ s.offset \in Nat
  BY DEF Agree
<1>2. Fine(At(csv, file, s.offset), s.offset)
  BY <1>1, PassFacts
<1>3. Good(At(csv, file, s.offset).s) /\ Len(At(csv, file, s.offset).out) \in Nat
  BY <1>2 DEF Fine
<1>4. Good(ScannerAt(s.offset))
  BY <1>1, ScannerAtGood
<1>5. CASE s = At(csv, file, s.offset).s /\ m = Len(At(csv, file, s.offset).out)
  BY <1>1, <1>3, <1>5
<1>6. CASE s = ScannerAt(s.offset) /\ m = Len(At(csv, file, s.offset).out) + 1
  BY <1>1, <1>3, <1>4, <1>6
<1> QED
  BY <1>5, <1>6 DEF Agree

\* One byte: the record that it ends is the next one of the file.
LEMMA AgreeStep ==
    ASSUME NEW csv \in BOOLEAN, NEW file \in Seq(Bytes), NEW s, NEW m, Agree(csv, file, s, m),
           s.offset < Len(file), NEW byte, byte = file[s.offset + 1]
    PROVE  /\ ~ Ends(s, byte) => Agree(csv, file, Moved(csv, s, byte), m)
           /\ Ends(s, byte) =>
                 /\ m + 1 <= Len(Scanned(csv, file)) /\ Scanned(csv, file)[m + 1] = Ended(s)
                 /\ Agree(csv, file, Moved(csv, s, byte), m + 1)
           /\ s.cr # NoCr /\ byte # "lf" => Agree(csv, file, ScannerAt(s.offset), m + 1)
           /\ m < Len(Scanned(csv, file))
<1> DEFINE p == s.offset
           r == At(csv, file, p)
           q == At(csv, file, p + 1)
           all == Scanned(csv, file)
           moved == Moved(csv, s, byte)
<1>0. p \in Nat /\ p \in 0 .. Len(file) - 1 /\ p + 1 \in 0 .. Len(file) /\ p \in 0 .. Len(file)
  BY DEF Agree
<1>1. Fine(r, p) /\ Fine(q, p + 1) /\ Steps(csv, r, q, byte)
  BY <1>0, PassFacts
<1>2. /\ Ends(r.s, byte) => Len(q.out) = Len(r.out) + 1 /\ q.out[Len(r.out) + 1] = Ended(r.s)
      /\ ~ Ends(r.s, byte) => Len(q.out) = Len(r.out) /\ Begun(q.s)
  <2> HIDE DEF r, q
  <2> QED
    BY <1>0, <1>1, StepGrows
<1>3. /\ Good(r.s) /\ r.s.offset = p /\ q.s = Moved(csv, r.s, byte) /\ q.s.offset = p + 1
      /\ Len(r.out) \in Nat /\ Len(q.out) \in Nat
  BY <1>1 DEF Fine, Steps
<1>4. Len(q.out) <= Len(all) /\ \A i \in 1 .. Len(q.out) : all[i] = q.out[i]
  BY <1>0, ScannedFacts
<1>5. Len(all) \in Nat
  BY ScannedFacts
<1>6. Begun(q.s) => Len(q.out) < Len(all)
  <2> DEFINE last == At(csv, file, Len(file))
  <2>1. Len(file) \in p + 1 .. Len(file)
    BY <1>0
  <2>2. Begun(q.s) => Len(q.out) < Len(last.out) \/ Begun(last.s)
    BY <1>0, <2>1, PassGrows
  <2>3. Len(q.out) <= Len(last.out) /\ Len(last.out) \in Nat
    BY <1>0, <2>1, PassGrows, PassFacts DEF Fine
  <2>4. /\ Begun(last.s) => Len(all) = Len(last.out) + 1
        /\ ~ Begun(last.s) => Len(all) = Len(last.out)
    BY ScannedFacts
  <2> HIDE DEF last, all, q
  <2>5. Len(last.out) <= Len(all) /\ (Begun(last.s) => Len(last.out) < Len(all))
    BY <2>3, <2>4
  <2> QED
    BY <1>3, <1>5, <2>2, <2>3, <2>5
<1>7. CASE s = r.s /\ m = Len(r.out)
  <2>1. moved = q.s
    BY <1>3, <1>7
  <2>2. ASSUME Ends(s, byte)
        PROVE  m + 1 <= Len(all) /\ all[m + 1] = Ended(s) /\ m + 1 = Len(q.out)
    <3> HIDE DEF r, q, all
    <3>1. Len(q.out) = m + 1 /\ q.out[m + 1] = Ended(s)
      BY <1>2, <1>7, <2>2
    <3>2. m + 1 \in 1 .. Len(q.out)
      BY <1>3, <1>7, <3>1
    <3> QED
      BY <1>4, <3>1, <3>2
  <2>3. ASSUME ~ Ends(s, byte) PROVE m = Len(q.out) /\ m < Len(all)
    <3> HIDE DEF r, q, all
    <3>1. Len(q.out) = m /\ Begun(q.s)
      BY <1>2, <1>3, <1>7, <2>3
    <3> QED
      BY <1>6, <3>1
  <2>4. m < Len(all)
    <3> HIDE DEF r, all
    <3>1. m \in Nat
      BY <1>3, <1>7
    <3> QED
      BY <2>2, <2>3, <3>1, <1>5
  <2>5. ~ Ends(s, byte) => Agree(csv, file, moved, m)
    BY <2>1, <2>3, <1>0, <1>3 DEF Agree
  <2>6. Ends(s, byte) => Agree(csv, file, moved, m + 1)
    BY <2>1, <2>2, <1>0, <1>3 DEF Agree
  <2>7. ASSUME s.cr # NoCr, byte # "lf" PROVE Agree(csv, file, ScannerAt(p), m + 1)
    <3>1. ScannerAt(p).offset = p
      BY <1>0, ScannerAtGood
    <3>2. /\ r.s.cr # NoCr /\ p < Len(file) /\ file[p + 1] # "lf" /\ m + 1 = Len(r.out) + 1
      BY <1>0, <1>7, <2>7
    <3> QED
      BY <3>1, <3>2, <1>0 DEF Agree
  <2> QED
    BY <2>2, <2>4, <2>5, <2>6, <2>7
<1>8. CASE /\ s = ScannerAt(p) /\ r.s.cr # NoCr
           /\ p < Len(file) /\ file[p + 1] # "lf" /\ m = Len(r.out) + 1
  <2>1. moved = q.s /\ ~ Ends(s, byte) /\ Ends(r.s, byte) /\ s.cr = NoCr
    <3>1. byte # "lf" /\ s = ScannerAt(r.s.offset)
      BY <1>3, <1>8
    <3>2. s.cr = NoCr
      BY <1>0, <1>8, ScannerAtGood
    <3>3. Moved(csv, ScannerAt(r.s.offset), byte) = Moved(csv, r.s, byte)
          /\ ~ Ends(ScannerAt(r.s.offset), byte) /\ Ends(r.s, byte)
      <4> DEFINE rs == r.s
      <4>1. Good(rs) /\ rs.cr # NoCr /\ byte # "lf"
        BY <3>1, <1>3, <1>8
      <4> HIDE DEF rs
      <4>2. /\ Moved(csv, ScannerAt(rs.offset), byte) = Moved(csv, rs, byte)
            /\ ~ Ends(ScannerAt(rs.offset), byte) /\ Ends(rs, byte)
        BY <4>1, MovedAlike
      <4> QED
        BY <4>2 DEF rs
    <3> QED
      BY <1>3, <3>1, <3>2, <3>3
  <2>2. m = Len(q.out)
    BY <1>2, <1>3, <1>8, <2>1
  <2>3. Begun(q.s)
    <3>1. q.s.start = p
      BY <1>3, <1>8, <2>1, MovedGood
    <3> QED
      BY <3>1, <1>0, <1>3 DEF Begun
  <2>4. Agree(csv, file, moved, m)
    BY <2>1, <2>2, <1>0, <1>3 DEF Agree
  <2> QED
    BY <1>6, <2>1, <2>2, <2>3, <2>4
<1> QED
  BY <1>7, <1>8 DEF Agree

\* At the end of the file the records found, with what finish adds, are all.
LEMMA AgreeEnd ==
    ASSUME NEW csv \in BOOLEAN, NEW file \in Seq(Bytes), NEW s, NEW m, Agree(csv, file, s, m),
           s.offset = Len(file)
    PROVE  /\ s = At(csv, file, Len(file)).s
           /\ Len(Scanned(csv, file)) = m + Len(Finish(s))
           /\ Finish(s) \in Seq(Spans)
           /\ \A i \in 1 .. Len(Finish(s)) : Scanned(csv, file)[m + i] = Finish(s)[i]
<1> DEFINE last == At(csv, file, Len(file))
           all == Scanned(csv, file)
<1>1. s = last.s /\ m = Len(last.out)
  BY DEF Agree
<1>2. Good(s) /\ m \in Nat
  BY AgreeGood
<1>3. /\ Begun(s) => Len(all) = m + 1 /\ all[m + 1] = Ended(s)
      /\ ~ Begun(s) => Len(all) = m
  BY <1>1, ScannedFacts
<1>4. Ended(s) \in Spans
  BY <1>2, MovedGood
<1>5. Finish(s) = IF Begun(s) THEN <<Ended(s)>> ELSE <<>>
  BY <1>2, FinishIs
<1> DEFINE e == Ended(s)
           begun == Begun(s)
           rest == Finish(s)
<1>6. /\ Len(all) = m + Len(rest) /\ rest \in Seq(Spans)
      /\ \A i \in 1 .. Len(rest) : all[m + i] = rest[i]
  <2> HIDE DEF last, all
  <2>1. CASE begun
    <3>1. rest = <<e>> /\ Len(all) = m + 1 /\ all[m + 1] = e /\ e \in Spans
      BY <1>3, <1>4, <1>5, <2>1
    <3> HIDE DEF e, rest, begun
    <3>2. Len(rest) = 1 /\ rest[1] = e /\ rest \in Seq(Spans)
      BY <3>1
    <3> QED
      BY <3>1, <3>2
  <2>2. CASE ~ begun
    <3>1. rest = <<>> /\ Len(all) = m
      BY <1>2, <1>3, <1>5, <2>2
    <3> HIDE DEF e, rest, begun
    <3> QED
      BY <1>2, <3>1
  <2> QED
    BY <2>1, <2>2
<1> QED
  BY <1>1, <1>6

\* No more records are behind a scanner than the file has.
LEMMA AgreeBound ==
    ASSUME NEW csv \in BOOLEAN, NEW file \in Seq(Bytes), NEW s, NEW m, Agree(csv, file, s, m)
    PROVE  /\ m <= Len(Scanned(csv, file)) /\ Len(Scanned(csv, file)) \in Nat
           /\ m \in Nat /\ s.offset \in Nat /\ s.offset <= Len(file)
<1>1. Len(file) \in Nat /\ Len(Scanned(csv, file)) \in Nat
  BY ScannedFacts
<1>2. Good(s) /\ m \in Nat /\ s.offset \in 0 .. Len(file)
  BY AgreeGood
<1>3. CASE s.offset < Len(file)
  <2>1. m < Len(Scanned(csv, file))
    BY <1>3, AgreeStep
  <2> QED
    BY <1>1, <1>2, <2>1
<1>4. CASE s.offset = Len(file)
  <2>1. Len(Scanned(csv, file)) = m + Len(Finish(s)) /\ Finish(s) \in Seq(Spans)
    BY <1>4, AgreeEnd
  <2> QED
    BY <1>1, <1>2, <2>1
<1> QED
  BY <1>1, <1>2, <1>3, <1>4

\* What a call has made of the bytes from offset p on, m records being behind.
Held(csv, file, m, p, stop, r, i) ==
    /\ IsTurn(r) /\ r.n \in Nat /\ r.out \in Seq(Spans) /\ Len(r.out) <= i
    /\ Agree(csv, file, r.s, m + Len(r.out))
    /\ \A j \in 1 .. Len(r.out) : Scanned(csv, file)[m + j] = r.out[j]
    /\ r.stopped => /\ Len(r.out) = stop /\ r.s = ScannerAt(r.s.offset)
                    /\ r.s.offset \in p .. p + i
    /\ ~ r.stopped => r.s.offset = p + i /\ Len(r.out) < stop

\* One byte of a call.
LEMMA HeldStep ==
    ASSUME NEW csv \in BOOLEAN, NEW file \in Seq(Bytes), NEW m \in Nat, NEW p \in Nat,
           NEW stop \in Nat, NEW i \in Nat, p + i < Len(file),
           NEW r, Held(csv, file, m, p, stop, r, i),
           NEW byte, byte = file[p + i + 1]
    PROVE  Held(csv, file, m, p, stop, Turn(csv, r, byte, stop), i + 1)
<1> DEFINE q == Turn(csv, r, byte, stop)
           all == Scanned(csv, file)
           out == r.out
           s == r.s
           e == Ended(s)
           moved == Moved(csv, s, byte)
<1> SUFFICES Held(csv, file, m, p, stop, q, i + 1)
  OBVIOUS
<1>1. /\ IsTurn(r) /\ r.n \in Nat /\ out \in Seq(Spans) /\ Len(out) <= i /\ Agree(csv, file, s, m + Len(out))
      /\ \A j \in 1 .. Len(out) : all[m + j] = out[j]
      /\ r.stopped => Len(out) = stop /\ s = ScannerAt(s.offset) /\ s.offset \in p .. p + i
      /\ ~ r.stopped => s.offset = p + i /\ Len(out) < stop
      /\ r.stopped \in BOOLEAN
  BY DEF Held, IsTurn
<1>2. CASE r.stopped
  <2>1. q = r
    BY <1>2 DEF Turn
  <2>2. s.offset \in p .. p + (i + 1) /\ Len(out) <= i + 1
    BY <1>1, <1>2
  <2> QED
    BY <1>1, <1>2, <2>1, <2>2 DEF Held
<1>3. CASE ~ r.stopped
  <2>1. Good(s) /\ s.offset < Len(file) /\ byte = file[s.offset + 1] /\ s.offset = p + i
    BY <1>1, <1>3, AgreeGood
  <2> DEFINE k == m + Len(out)
             ends == Ends(s, byte)
             flush == s.cr # NoCr /\ byte # "lf"
             longer == Append(out, e)
  <2>2. /\ ~ ends => Agree(csv, file, moved, k)
        /\ ends => k + 1 <= Len(all) /\ all[k + 1] = e /\ Agree(csv, file, moved, k + 1)
        /\ flush => Agree(csv, file, ScannerAt(s.offset), k + 1)
    <3>1. Agree(csv, file, s, k)
      BY <1>1
    <3> HIDE DEF s, k
    <3> QED
      BY <2>1, <3>1, AgreeStep
  <2>3. /\ moved.offset = s.offset + 1 /\ e \in Spans
        /\ ends /\ ~ flush => moved = ScannerAt(s.offset + 1)
        /\ flush => ends
    <3>1. flush => ends
      BY DEF Ends
    <3> HIDE DEF s
    <3> QED
      BY <2>1, <3>1, MovedGood
  <2>4. Turned(csv, r, byte, stop, q)
    <3>1. r.s = Scanner(r.s.state, r.s.offset, r.s.start, r.s.cr)
      BY <2>1 DEF Good
    <3> HIDE DEF q, s
    <3> QED
      BY <1>1, <1>3, <3>1, TurnOf DEF q
  <2>5. /\ IsTurn(q)
        /\ flush /\ Len(longer) = stop =>
              q.s = ScannerAt(s.offset) /\ q.out = longer /\ q.stopped
        /\ ~ (flush /\ Len(longer) = stop) =>
              /\ q.s = moved
              /\ ends => q.out = longer
              /\ ~ ends => q.out = out
              /\ q.stopped <=> ends /\ Len(longer) = stop
    <3> HIDE DEF q
    <3> QED
      BY <2>4 DEF Turned
  <2>5a. q.n \in Nat
    <3> HIDE DEF q
    <3> QED
      BY <1>1, <2>4 DEF Turned
  <2>6. /\ longer \in Seq(Spans) /\ Len(longer) = Len(out) + 1 /\ longer[Len(out) + 1] = e
        /\ \A j \in 1 .. Len(out) : longer[j] = out[j]
    <3> HIDE DEF e, out
    <3> QED
      BY <1>1, <2>3
  <2>7. ends => \A j \in 1 .. Len(longer) : all[m + j] = longer[j]
    <3> SUFFICES ASSUME ends, NEW j \in 1 .. Len(longer) PROVE all[m + j] = longer[j]
      OBVIOUS
    <3>1. CASE j = Len(out) + 1
      <4>1. m + j = k + 1
        BY <1>1, <3>1
      <4> HIDE DEF all, longer, k, ends
      <4> QED
        BY <2>2, <2>6, <3>1, <4>1
    <3>2. CASE j \in 1 .. Len(out)
      BY <1>1, <2>6, <3>2
    <3> QED
      BY <1>1, <2>6, <3>1, <3>2
  <2>8. s.offset = p + i /\ Len(out) \in Nat /\ ScannerAt(s.offset).offset = s.offset
        /\ ScannerAt(s.offset + 1).offset = s.offset + 1
    BY <1>1, <2>1, ScannerAtGood DEF Good
  <2>9. k + 1 = m + Len(longer)
    BY <2>6, <2>8
  <2> HIDE DEF q, all, s, e, longer, moved, ends, flush
  <2>10. CASE flush /\ Len(longer) = stop
    <3>1. q.s = ScannerAt(s.offset) /\ q.out = longer /\ q.stopped /\ ends
      BY <2>10, <2>5, <2>3
    <3>2. q.s.offset = p + i /\ q.s = ScannerAt(q.s.offset) /\ q.s.offset \in p .. p + (i + 1)
      BY <3>1, <2>8
    <3>3. Agree(csv, file, q.s, m + Len(longer))
      BY <2>10, <2>2, <2>9, <3>1
    <3>4. Len(longer) <= i + 1
      BY <1>1, <2>6, <2>8
    <3>5. /\ q.out \in Seq(Spans) /\ Len(q.out) <= i + 1 /\ Len(q.out) = stop
          /\ Agree(csv, file, q.s, m + Len(q.out))
          /\ \A j \in 1 .. Len(q.out) : all[m + j] = q.out[j]
      BY <2>10, <2>6, <2>7, <3>1, <3>3, <3>4
    <3> QED
      BY <2>5, <2>5a, <3>1, <3>2, <3>5 DEF Held, all
  <2>11. CASE ends /\ ~ (flush /\ Len(longer) = stop)
    <3>1. q.s = moved /\ q.out = longer /\ (q.stopped <=> Len(longer) = stop)
      BY <2>11, <2>5
    <3>2. q.s.offset = p + (i + 1)
      BY <3>1, <2>3, <2>8
    <3>3. q.stopped => q.s = ScannerAt(q.s.offset)
      BY <2>11, <2>3, <2>8, <3>1
    <3>4. Agree(csv, file, q.s, m + Len(longer))
      BY <2>11, <2>2, <2>9, <3>1
    <3>5. Len(out) < stop
      BY <1>1, <1>3
    <3>6. Len(longer) <= i + 1 /\ (~ q.stopped => Len(longer) < stop)
      BY <1>1, <2>6, <2>8, <3>1, <3>5
    <3>7. q.s.offset \in p .. p + (i + 1)
      BY <3>2
    <3>8. /\ q.out \in Seq(Spans) /\ Len(q.out) <= i + 1
          /\ q.stopped => Len(q.out) = stop
          /\ ~ q.stopped => Len(q.out) < stop
          /\ Agree(csv, file, q.s, m + Len(q.out))
          /\ \A j \in 1 .. Len(q.out) : all[m + j] = q.out[j]
      BY <2>11, <2>6, <2>7, <3>1, <3>4, <3>6
    <3> QED
      BY <2>5, <2>5a, <3>2, <3>3, <3>7, <3>8 DEF Held, all
  <2>12. CASE ~ ends
    <3>1. q.s = moved /\ q.out = out /\ ~ q.stopped
      BY <2>12, <2>3, <2>5
    <3>2. q.s.offset = p + (i + 1)
      BY <3>1, <2>3, <2>8
    <3>3. Agree(csv, file, q.s, m + Len(out))
      BY <2>12, <2>2, <3>1
    <3>5. Len(out) <= i + 1 /\ Len(out) < stop
      BY <1>1, <1>3, <2>8
    <3>6. /\ q.out \in Seq(Spans) /\ Len(q.out) <= i + 1 /\ Len(q.out) < stop
          /\ Agree(csv, file, q.s, m + Len(q.out))
          /\ \A j \in 1 .. Len(q.out) : all[m + j] = q.out[j]
      BY <1>1, <3>1, <3>3, <3>5
    <3> QED
      BY <2>5, <2>5a, <3>1, <3>2, <3>6 DEF Held, all
  <2> QED
    BY <2>10, <2>11, <2>12
<1> QED
  BY <1>1, <1>2, <1>3

\* The bytes of a chunk, by their place in the file.
LEMMA ChunkIs ==
    ASSUME NEW file \in Seq(Bytes), NEW p \in Nat, NEW n \in Nat, p + n <= Len(file)
    PROVE  /\ Len(SubSeq(file, p + 1, p + n)) = n
           /\ \A i \in 1 .. n : SubSeq(file, p + 1, p + n)[i] = file[p + i]
<1> DEFINE a == p + 1
           b == p + n
<1>1. a \in Int /\ b \in Int /\ \A i \in a .. b : file[i] \in Bytes
  OBVIOUS
<1>2. b - a + 1 = n /\ (a <= b <=> n # 0) /\ \A i \in 1 .. n : a + i - 1 = p + i
  OBVIOUS
<1> HIDE DEF a, b
<1>3. /\ Len(SubSeq(file, a, b)) = IF a <= b THEN b - a + 1 ELSE 0
      /\ \A i \in 1 .. b - a + 1 : SubSeq(file, a, b)[i] = file[a + i - 1]
  BY <1>1, SubSeqProperties
<1>4. Len(SubSeq(file, a, b)) = n /\ \A i \in 1 .. n : SubSeq(file, a, b)[i] = file[p + i]
  BY <1>2, <1>3
<1> QED
  BY <1>4 DEF a, b

\* A call that goes on where an earlier one stopped, over the bytes that follow.
LEMMA FeedAgrees ==
    ASSUME NEW csv \in BOOLEAN, NEW file \in Seq(Bytes), NEW s, NEW m, Agree(csv, file, s, m),
           NEW n \in Nat, s.offset + n <= Len(file),
           NEW chunk, Len(chunk) = n, \A i \in 1 .. n : chunk[i] = file[s.offset + i],
           NEW stop \in Nat, 0 < stop
    PROVE  Held(csv, file, m, s.offset, stop, Feed(csv, s, chunk, stop), n)
<1> DEFINE p == s.offset
<1>1. p \in Nat /\ m \in Nat /\ Len(file) \in Nat
  BY AgreeBound
<1>2. Len(chunk) \in Nat
  OBVIOUS
<1>3. PICK run : /\ IsRun(run, csv, s, chunk, stop, n)
                 /\ Feed(csv, s, chunk, stop) = run[n]
  <2>1. \E run : /\ IsRun(run, csv, s, chunk, stop, Len(chunk))
                 /\ Feed(csv, s, chunk, stop) = run[Len(chunk)]
    BY <1>2, FeedIsRun
  <2> QED
    BY <2>1
<1> HIDE DEF p
<1>4. Held(csv, file, m, p, stop, run[0], 0)
  <2>1. run[0] = Call(s, <<>>, 0, FALSE)
    BY <1>3 DEF IsRun, Call
  <2>2. /\ IsTurn(run[0]) /\ run[0].s = s /\ run[0].out = <<>> /\ run[0].n = 0 /\ ~ run[0].stopped
    BY <2>1 DEF Call, IsTurn
  <2>3. Len(<<>>) = 0 /\ m + 0 = m /\ <<>> \in Seq(Spans) /\ p + 0 = p
    BY <1>1
  <2> QED
    BY <2>2, <2>3 DEF Held, p
<1> DEFINE S == {i \in Nat : i <= n => Held(csv, file, m, p, stop, run[i], i)}
<1>5. 0 \in S
  BY <1>4
<1>6. ASSUME NEW i \in Nat, i \in S PROVE i + 1 \in S
  <2>1. SUFFICES ASSUME i + 1 <= n PROVE Held(csv, file, m, p, stop, run[i + 1], i + 1)
    OBVIOUS
  <2>2. i + 1 \in 1 .. n /\ i <= n /\ p + i < Len(file) /\ (i + 1) - 1 = i
    BY <1>1, <2>1 DEF p
  <2>3. run[i + 1] = Turn(csv, run[i], chunk[i + 1], stop)
    BY <1>3, <2>2 DEF IsRun
  <2>4. chunk[i + 1] = file[p + i + 1]
    <3>1. \A k \in 1 .. n : chunk[k] = file[p + k]
      BY DEF p
    <3>2. chunk[i + 1] = file[p + (i + 1)] /\ p + (i + 1) = p + i + 1
      BY <1>1, <2>2, <3>1
    <3> QED
      BY <3>2
  <2>5. Held(csv, file, m, p, stop, run[i], i)
    BY <1>6, <2>2
  <2> QED
    BY <1>1, <2>2, <2>3, <2>4, <2>5, HeldStep
<1> HIDE DEF S
<1>7. Nat \subseteq S
  BY <1>5, <1>6, NumbersByInduction
<1> QED
  BY <1>3, <1>7 DEF S, p

-----------------------------------------------------------------------------
(* The starts of records.                                                   *)

\* Where a record starts is a boundary that the record's index belongs to.
LEMMA StartsAgree ==
    ASSUME NEW csv \in BOOLEAN, NEW file \in Seq(Bytes), NEW j \in 1 .. Len(Scanned(csv, file))
    PROVE  Agree(csv, file, ScannerAt(Scanned(csv, file)[j].start), j - 1)
<1> DEFINE R(k) == At(csv, file, k)
           all == Scanned(csv, file)
           Next(k) == Agree(csv, file, ScannerAt(R(k).s.start), Len(R(k).out))
           Past(k) == \A i \in 1 .. Len(R(k).out) :
                         Agree(csv, file, ScannerAt(R(k).out[i].start), i - 1)
           S == {k \in Nat : k <= Len(file) => Next(k) /\ Past(k)}
<1>0. /\ Len(file) \in Nat
      /\ \A k \in 0 .. Len(file) : Fine(R(k), k) /\ Good(R(k).s) /\ Len(R(k).out) \in Nat
                                   /\ R(k).s.offset = k /\ R(k).out \in Seq(Spans)
  BY PassFacts DEF Fine
<1>1. ASSUME NEW k \in 0 .. Len(file), R(k).s = ScannerAt(k)
      PROVE  Agree(csv, file, ScannerAt(k), Len(R(k).out))
  BY <1>0, <1>1, ScannerAtGood DEF Agree
<1>2. 0 \in S
  <2>1. R(0).s = ScannerAt(0) /\ R(0).out = <<>> /\ ScannerAt(0).start = 0
    BY PassFacts, ScannerAtGood
  <2>2. 0 \in 0 .. Len(file) /\ Len(<<>>) = 0
    BY <1>0
  <2>3. Next(0)
    BY <1>1, <2>1, <2>2
  <2>4. Past(0)
    BY <2>1, <2>2
  <2> QED
    BY <2>3, <2>4
<1>3. ASSUME NEW k \in Nat, k \in S PROVE k + 1 \in S
  <2>1. SUFFICES ASSUME k + 1 <= Len(file) PROVE Next(k + 1) /\ Past(k + 1)
    OBVIOUS
  <2> DEFINE r == R(k)
             q == R(k + 1)
             byte == file[k + 1]
             ends == Ends(r.s, byte)
  <2>2. /\ k \in 0 .. Len(file) - 1 /\ k \in 0 .. Len(file) /\ k + 1 \in 0 .. Len(file)
        /\ Next(k) /\ Past(k)
    BY <1>0, <1>3, <2>1
  <2>3. /\ Fine(r, k) /\ Fine(q, k + 1) /\ Steps(csv, r, q, byte)
        /\ Good(r.s) /\ r.s.offset = k /\ q.s = Moved(csv, r.s, byte) /\ q.s.offset = k + 1
        /\ Len(r.out) \in Nat
    BY <1>0, <2>2, PassFacts DEF Steps
  <2>4. /\ \A i \in 1 .. Len(r.out) : q.out[i] = r.out[i]
        /\ ends => Len(q.out) = Len(r.out) + 1 /\ q.out[Len(r.out) + 1] = Ended(r.s)
        /\ ~ ends => Len(q.out) = Len(r.out)
    <3> HIDE DEF r, q, byte
    <3> QED
      BY <2>3, StepGrows
  <2>5. /\ ~ ends => r.s.cr = NoCr /\ q.s.start = r.s.start
        /\ ends /\ ~ (r.s.cr # NoCr /\ byte # "lf") => q.s = ScannerAt(k + 1)
        /\ r.s.cr # NoCr /\ byte # "lf" => q.s.start = k /\ ends
    <3> HIDE DEF r, byte
    <3>1. r.s.cr # NoCr => ends
      BY DEF Ends
    <3> QED
      BY <2>3, <3>1, MovedGood
  <2>6. Ended(r.s).start = r.s.start
    BY DEF Ended, Span
  <2>7. Agree(csv, file, ScannerAt(r.s.start), Len(r.out))
    BY <2>2
  <2>8. \A i \in 1 .. Len(r.out) : Agree(csv, file, ScannerAt(r.out[i].start), i - 1)
    BY <2>2
  <2>9. Past(k + 1)
    <3> SUFFICES ASSUME NEW i \in 1 .. Len(q.out)
                 PROVE  Agree(csv, file, ScannerAt(q.out[i].start), i - 1)
      OBVIOUS
    <3> HIDE DEF r, q, ends
    <3>1. CASE i \in 1 .. Len(r.out)
      BY <2>4, <2>8, <3>1
    <3>2. CASE i = Len(r.out) + 1 /\ ends
      <4>1. q.out[i].start = r.s.start /\ i - 1 = Len(r.out)
        BY <2>3, <2>4, <2>6, <3>2
      <4> QED
        BY <2>7, <4>1
    <3> QED
      BY <2>3, <2>4, <3>1, <3>2
  <2>10. Next(k + 1)
    <3> SUFFICES Agree(csv, file, ScannerAt(q.s.start), Len(q.out))
      OBVIOUS
    <3>1. CASE ~ ends
      <4> HIDE DEF r, q, ends
      <4> QED
        BY <2>4, <2>5, <2>7, <3>1
    <3>2. CASE ends /\ ~ (r.s.cr # NoCr /\ byte # "lf")
      <4>1. q.s = ScannerAt(k + 1) /\ ScannerAt(k + 1).start = k + 1
        BY <2>5, <3>2, ScannerAtGood
      <4> QED
        BY <1>1, <2>2, <4>1
    <3>3. CASE r.s.cr # NoCr /\ byte # "lf"
      <4>1. q.s.start = k /\ Len(q.out) = Len(r.out) + 1
        BY <2>4, <2>5, <3>3
      <4>2. ScannerAt(k).offset = k
        BY <2>2, ScannerAtGood
      <4> QED
        <5>1. k < Len(file) /\ k \in 0 .. Len(file)
          BY <2>2
        <5> DEFINE b == ScannerAt(k)
        <5>2. b.offset = k /\ b = ScannerAt(b.offset)
          BY <4>2
        <5>3. Agree(csv, file, b, Len(r.out) + 1)
          <6> HIDE DEF b
          <6> QED
            BY <3>3, <5>1, <5>2 DEF Agree
        <5> QED
          BY <4>1, <5>3
    <3> QED
      BY <3>1, <3>2, <3>3
  <2> QED
    BY <2>9, <2>10
<1> HIDE DEF S
<1>4. Nat \subseteq S
  BY <1>2, <1>3, NumbersByInduction
<1>5. Next(Len(file)) /\ Past(Len(file))
  BY <1>0, <1>4 DEF S
<1> DEFINE last == R(Len(file))
<1>6. /\ \A i \in 1 .. Len(last.out) : all[i] = last.out[i]
      /\ ~ Begun(last.s) => Len(all) = Len(last.out)
      /\ Begun(last.s) => Len(all) = Len(last.out) + 1 /\ all[Len(last.out) + 1] = Ended(last.s)
      /\ Len(last.out) \in Nat
  BY <1>0, ScannedFacts
<1>7. CASE j \in 1 .. Len(last.out)
  BY <1>5, <1>6, <1>7
<1>8. CASE j = Len(last.out) + 1 /\ Begun(last.s)
  <2>1. all[j].start = last.s.start /\ j - 1 = Len(last.out)
    BY <1>6, <1>8 DEF Ended, Span
  <2> QED
    BY <1>5, <2>1
<1> QED
  BY <1>6, <1>7, <1>8

\* One value of Inside, from the values before it.
Sections(file, f, p) ==
    \E a \in 1 .. p - 1 :
       /\ file[a] = "quote"
       /\ ~ f[a]
       /\ a = 1 \/ (file[a - 1] \in {"delim", "cr", "lf"} /\ ~ f[a - 1])
       /\ \A b \in a + 1 .. p - 1 : ~ Closes(file, a, b)

-----------------------------------------------------------------------------
(* Quoted sections, and the state of the delimited scanner.                 *)

\* Whether a byte is inside depends on the bytes before it only.
LEMMA SectionsLocal ==
    ASSUME NEW file, NEW f, NEW g, NEW p \in Nat, \A i \in 1 .. p - 1 : f[i] = g[i]
    PROVE  Sections(file, f, p) = Sections(file, g, p)
<1>1. ASSUME NEW a \in 1 .. p - 1
      PROVE  f[a] = g[a] /\ (a = 1 \/ f[a - 1] = g[a - 1])
  <2>1. a = 1 \/ a - 1 \in 1 .. p - 1
    OBVIOUS
  <2> QED
    BY <2>1
<1> QED
  BY <1>1, Zenon DEF Sections

\* So the recursive function exists for every length,
LEMMA SectionsExist ==
    ASSUME NEW file
    PROVE  \A m \in Nat : \E f : f = [p \in 1 .. m |-> Sections(file, f, p)]
<1> DEFINE Is(f, m) == f = [p \in 1 .. m |-> Sections(file, f, p)]
           S == {m \in Nat : \E f : Is(f, m)}
<1>1. 0 \in S
  <2> DEFINE f == [p \in 1 .. 0 |-> TRUE]
  <2>1. f = [p \in 1 .. 0 |-> Sections(file, f, p)]
    OBVIOUS
  <2> QED
    BY <2>1
<1>2. ASSUME NEW m \in Nat, m \in S PROVE m + 1 \in S
  <2>1. PICK f : Is(f, m)
    BY <1>2
  <2> DEFINE last == Sections(file, f, m + 1)
             g == [p \in 1 .. m + 1 |-> IF p = m + 1 THEN last ELSE f[p]]
  <2>2. \A p \in 1 .. m : f[p] = Sections(file, f, p)
    BY <2>1
  <2>3. g = [p \in 1 .. m + 1 |-> g[p]] /\ \A p \in 1 .. m : g[p] = f[p]
    <3> HIDE DEF last
    <3> QED
      OBVIOUS
  <2>4. g[m + 1] = last
    <3> HIDE DEF last
    <3> QED
      OBVIOUS
  <2> HIDE DEF g, last
  <2>5. ASSUME NEW p \in 1 .. m + 1 PROVE g[p] = Sections(file, g, p)
    <3>1. p \in Nat /\ \A i \in 1 .. p - 1 : f[i] = g[i]
      BY <2>3
    <3>2. Sections(file, f, p) = Sections(file, g, p)
      BY <3>1, SectionsLocal
    <3>3. CASE p = m + 1
      BY <2>4, <3>2, <3>3 DEF last
    <3>4. CASE p # m + 1
      <4>1. p \in 1 .. m
        BY <3>4
      <4> QED
        BY <4>1, <2>2, <2>3, <3>2
    <3> QED
      BY <3>3, <3>4
  <2>6. Is(g, m + 1)
    BY <2>3, <2>5
  <2> QED
    BY <2>6
<1> HIDE DEF S
<1>3. Nat \subseteq S
  BY <1>1, <1>2, NumbersByInduction
<1> QED
  BY <1>3 DEF S

\* A quote that opens a quoted section.
Opens(file, a) ==
    /\ file[a] = "quote"
    /\ ~ Inside(file)[a]
    /\ a = 1 \/ (file[a - 1] \in {"delim", "cr", "lf"} /\ ~ Inside(file)[a - 1])

\* and Inside is it.
LEMMA InsideIs ==
    ASSUME NEW file \in Seq(Bytes), NEW p \in 1 .. Len(file) + 1
    PROVE  Inside(file)[p] <=>
              \E a \in 1 .. p - 1 :
                 Opens(file, a) /\ \A b \in a + 1 .. p - 1 : ~ Closes(file, a, b)
<1> DEFINE Eq(f) == f = [q \in 1 .. Len(file) + 1 |-> Sections(file, f, q)]
<1>1. Inside(file) = CHOOSE f : Eq(f)
  BY Zenon DEF Inside, Sections
<1>2. \E f : Eq(f)
  <2>1. Len(file) + 1 \in Nat
    OBVIOUS
  <2> QED
    BY <2>1, SectionsExist
<1>3. Eq(Inside(file))
  BY <1>1, <1>2, Zenon
<1>4. Inside(file)[p] = Sections(file, Inside(file), p)
  <2> DEFINE f == Inside(file)
  <2>1. Eq(f)
    BY <1>3
  <2> HIDE DEF f
  <2>2. f[p] = Sections(file, f, p)
    BY <2>1
  <2> QED
    BY <2>2 DEF f
<1>5. Sections(file, Inside(file), p) <=>
        \E a \in 1 .. p - 1 :
           Opens(file, a) /\ \A b \in a + 1 .. p - 1 : ~ Closes(file, a, b)
  BY Zenon DEF Sections, Opens
<1> QED
  BY <1>4, <1>5

\* Quotes among the bytes after a up to i.
Quotes(file, a, i) == Cardinality({j \in a + 1 .. i : file[j] = "quote"})

\* The count of quotes, byte by byte.
LEMMA QuotesCount ==
    ASSUME NEW file, NEW a \in Nat, NEW i \in Nat, a <= i
    PROVE  /\ Quotes(file, a, i) \in Nat
           /\ Quotes(file, a, a) = 0
           /\ Quotes(file, a, i + 1) =
                 IF file[i + 1] = "quote" THEN Quotes(file, a, i) + 1 ELSE Quotes(file, a, i)
<1> DEFINE S(k) == {j \in a + 1 .. k : file[j] = "quote"}
<1>1. IsFiniteSet(S(i))
  <2>1. IsFiniteSet(a + 1 .. i)
    BY FS_Interval
  <2>2. S(i) \subseteq a + 1 .. i
    OBVIOUS
  <2> QED
    BY <2>1, <2>2, FS_Subset
<1>2. Cardinality(S(i)) \in Nat
  BY <1>1, FS_CardinalityType
<1>3. S(a) = {}
  OBVIOUS
<1>4. Cardinality(S(a)) = 0
  BY <1>3, FS_EmptySet
<1>5. i + 1 \notin S(i)
  OBVIOUS
<1>6. S(i + 1) = IF file[i + 1] = "quote" THEN S(i) \cup {i + 1} ELSE S(i)
  OBVIOUS
<1>7. Cardinality(S(i) \cup {i + 1}) = Cardinality(S(i)) + 1
  BY <1>1, <1>5, FS_AddElement
<1> QED
  BY <1>2, <1>4, <1>6, <1>7 DEF Quotes

Breaks == {"delim", "cr", "lf"}
Stays(file, a, i) == \A b \in a + 1 .. i : ~ Closes(file, a, b)

\* Closes, with the quotes counted by Quotes.
LEMMA ClosesIs ==
    ASSUME NEW file \in Seq(Bytes), NEW a \in Nat, NEW i \in Nat, a <= i
    PROVE  /\ Closes(file, a, i) <=>
                 file[i] = "quote" /\ Quotes(file, a, i) % 2 = 1
                 /\ (i < Len(file) => file[i + 1] # "quote")
BY DEF Closes, Quotes

\* A field starts at the byte after position k.
Fresh(file, k) == k = 0 \/ (file[k] \in Breaks /\ ~ Inside(file)[k])

\* What the state of the delimited scanner says of the bytes behind it.
Reads(file, k, e) ==
    /\ e \in {"field_start", "unquoted", "quoted", "quote_closed"}
    /\ e = "quoted" =>
          \E a \in 1 .. k : Opens(file, a) /\ Stays(file, a, k) /\ Quotes(file, a, k) % 2 = 0
    /\ e = "quote_closed" =>
          \E a \in 1 .. k - 1 : /\ Opens(file, a) /\ Stays(file, a, k - 1)
                                /\ file[k] = "quote" /\ Quotes(file, a, k) % 2 = 1
    /\ e \in {"field_start", "unquoted"} => ~ Inside(file)[k + 1]
    /\ e = "field_start" <=> Fresh(file, k)

\* Outside a section, a byte that opens none stays outside.
LEMMA StaysOutside ==
    ASSUME NEW file \in Seq(Bytes), NEW k \in 0 .. Len(file) - 1,
           ~ Inside(file)[k + 1], ~ Opens(file, k + 1)
    PROVE  ~ Inside(file)[k + 2]
<1> SUFFICES ASSUME Inside(file)[k + 2] PROVE FALSE
  OBVIOUS
<1>1. k + 2 \in 1 .. Len(file) + 1 /\ k + 1 \in 1 .. Len(file) + 1 /\ (k + 2) - 1 = k + 1 /\ (k + 1) - 1 = k
  OBVIOUS
<1>2. PICK a \in 1 .. k + 1 : Opens(file, a) /\ \A b \in a + 1 .. k + 1 : ~ Closes(file, a, b)
  BY <1>1, InsideIs
<1>3. a \in 1 .. k /\ \A b \in a + 1 .. k : ~ Closes(file, a, b)
  BY <1>2
<1>4. Inside(file)[k + 1]
  BY <1>1, <1>2, <1>3, InsideIs
<1> QED
  BY <1>4

\* A section that has been opened is the only one.
LEMMA ClosedIs ==
    ASSUME NEW file \in Seq(Bytes), NEW k \in 0 .. Len(file), Reads(file, k, "quote_closed")
    PROVE  Inside(file)[k + 1] <=> (k < Len(file) /\ file[k + 1] = "quote")
<1>1. PICK a \in 1 .. k - 1 : /\ Opens(file, a) /\ Stays(file, a, k - 1)
                              /\ file[k] = "quote" /\ Quotes(file, a, k) % 2 = 1
  BY DEF Reads
<1>2. a \in Nat /\ k \in Nat /\ a <= k /\ a \in 1 .. k /\ k + 1 \in 1 .. Len(file) + 1 /\ (k + 1) - 1 = k
  OBVIOUS
<1>3. Closes(file, a, k) <=> (k < Len(file) => file[k + 1] # "quote")
  BY <1>1, <1>2, ClosesIs
<1>4. ASSUME ~ Closes(file, a, k) PROVE Inside(file)[k + 1]
  <2>1. \A b \in a + 1 .. k : ~ Closes(file, a, b)
    BY <1>1, <1>2, <1>4 DEF Stays
  <2> QED
    BY <1>1, <1>2, <2>1, InsideIs
<1>5. ASSUME Closes(file, a, k), Inside(file)[k + 1] PROVE FALSE
  <2>1. PICK o \in 1 .. k : Opens(file, o) /\ \A b \in o + 1 .. k : ~ Closes(file, o, b)
    BY <1>2, <1>5, InsideIs
  <2>2. CASE o < a
    <3>1. a \in 1 .. Len(file) + 1 /\ o \in 1 .. a - 1 /\ \A b \in o + 1 .. a - 1 : ~ Closes(file, o, b)
      BY <2>1, <2>2
    <3>2. Inside(file)[a]
      BY <2>1, <3>1, InsideIs
    <3> QED
      BY <1>1, <3>2 DEF Opens
  <2>3. CASE o = a
    <3>1. k \in o + 1 .. k
      BY <2>3
    <3> QED
      BY <1>5, <2>1, <2>3, <3>1
  <2>4. CASE a < o
    <3>1. o \in 1 .. Len(file) + 1 /\ a \in 1 .. o - 1 /\ \A b \in a + 1 .. o - 1 : ~ Closes(file, a, b)
      BY <1>1, <2>4 DEF Stays
    <3>2. Inside(file)[o]
      BY <1>1, <3>1, InsideIs
    <3> QED
      BY <2>1, <3>2 DEF Opens
  <2> QED
    BY <2>2, <2>3, <2>4
<1> QED
  BY <1>3, <1>4, <1>5

\* In the quoted state a section is open.
LEMMA QuotedIs ==
    ASSUME NEW file \in Seq(Bytes), NEW k \in 0 .. Len(file), Reads(file, k, "quoted")
    PROVE  Inside(file)[k + 1] /\ k > 0
<1>1. PICK a \in 1 .. k : Opens(file, a) /\ Stays(file, a, k)
  BY DEF Reads
<1>2. k + 1 \in 1 .. Len(file) + 1 /\ (k + 1) - 1 = k /\ \A b \in a + 1 .. k : ~ Closes(file, a, b)
  BY <1>1 DEF Stays
<1>3. Inside(file)[k + 1]
  BY <1>1, <1>2, InsideIs
<1> QED
  BY <1>1, <1>3

\* Inside says what the scanner's state does.
LEMMA ReadsInside ==
    ASSUME NEW file \in Seq(Bytes), NEW k \in 0 .. Len(file), NEW e, Reads(file, k, e)
    PROVE  Inside(file)[k + 1] <=>
              e = "quoted" \/ (e = "quote_closed" /\ k < Len(file) /\ file[k + 1] = "quote")
<1>1. e \in {"field_start", "unquoted", "quoted", "quote_closed"}
      /\ (e \in {"field_start", "unquoted"} => ~ Inside(file)[k + 1])
  BY DEF Reads
<1>2. CASE e = "quoted"
  BY <1>2, QuotedIs
<1>3. CASE e = "quote_closed"
  BY <1>3, ClosedIs
<1> QED
  BY <1>1, <1>2, <1>3

After(e, byte) == IF e # "quoted" /\ byte \in {"cr", "lf"} THEN "field_start" ELSE FieldState(e, byte)

\* The state after a byte, case by case.
LEMMA AfterIs ==
    ASSUME NEW e \in {"field_start", "unquoted", "quoted", "quote_closed"}, NEW byte \in Bytes
    PROVE  After(e, byte) =
             IF e = "quoted" THEN IF byte = "quote" THEN "quote_closed" ELSE "quoted"
             ELSE IF byte \in Breaks THEN "field_start"
             ELSE IF byte = "quote" /\ e # "unquoted" THEN "quoted" ELSE "unquoted"
<1>1. CASE e = "quoted"
  BY <1>1 DEF After, FieldState
<1>2. CASE e # "quoted" /\ byte \in {"cr", "lf"}
  BY <1>2 DEF After, Breaks
<1>3. CASE e # "quoted" /\ byte = "delim"
  BY <1>3 DEF After, FieldState, Breaks
<1>4. CASE e # "quoted" /\ byte = "quote"
  BY <1>4 DEF After, FieldState, Breaks
<1>5. CASE e # "quoted" /\ byte \notin {"cr", "lf", "delim", "quote"}
  BY <1>5 DEF After, FieldState, Breaks
<1> QED
  BY <1>1, <1>2, <1>3, <1>4, <1>5

\* The state goes on saying what it says, byte by byte,
LEMMA ReadsStep ==
    ASSUME NEW file \in Seq(Bytes), NEW k \in 0 .. Len(file) - 1, NEW e, Reads(file, k, e)
    PROVE  Reads(file, k + 1, After(e, file[k + 1]))
<1> DEFINE byte == file[k + 1]
           f == After(e, byte)
           in == Inside(file)
<1>0. byte \in Bytes /\ k \in Nat /\ k \in 0 .. Len(file) /\ (k + 1) - 1 = k /\ k + 1 # 0
      /\ (k + 1) + 1 = k + 2 /\ k + 1 \in Nat
  OBVIOUS
<1>1. e \in {"field_start", "unquoted", "quoted", "quote_closed"} /\ (e = "field_start" <=> Fresh(file, k))
  BY DEF Reads
<1>2. f = IF e = "quoted" THEN IF byte = "quote" THEN "quote_closed" ELSE "quoted"
          ELSE IF byte \in Breaks THEN "field_start"
          ELSE IF byte = "quote" /\ e # "unquoted" THEN "quoted" ELSE "unquoted"
  BY <1>0, <1>1, AfterIs
<1> HIDE DEF f, byte
<1>3. in[k + 1] <=> e = "quoted" \/ (e = "quote_closed" /\ byte = "quote")
  BY <1>0, ReadsInside DEF byte
<1>4. Opens(file, k + 1) <=> byte = "quote" /\ e = "field_start"
  <2>1. Opens(file, k + 1) <=> byte = "quote" /\ ~ in[k + 1] /\ (k + 1 = 1 \/ (file[k] \in Breaks /\ ~ in[k]))
    BY <1>0 DEF Opens, Breaks, byte
  <2>2. (k + 1 = 1 \/ (file[k] \in Breaks /\ ~ in[k])) <=> Fresh(file, k)
    BY <1>0 DEF Fresh
  <2> QED
    BY <1>1, <1>3, <2>1, <2>2
<1>5. "quote" \notin Breaks
  BY DEF Breaks
<1>13. ASSUME NEW a \in 1 .. k
       PROVE  /\ Quotes(file, a, k) \in Nat
              /\ Quotes(file, a, k + 1) =
                    IF byte = "quote" THEN Quotes(file, a, k) + 1 ELSE Quotes(file, a, k)
  <2>1. a \in Nat /\ a <= k
    BY <1>0
  <2> QED
    BY <1>0, <2>1, QuotesCount DEF byte
<1>6. Fresh(file, k + 1) <=> byte \in Breaks /\ ~ in[k + 1]
  BY <1>0 DEF Fresh, byte
<1>7. f = "field_start" <=> Fresh(file, k + 1)
  BY <1>1, <1>2, <1>3, <1>5, <1>6
<1>8. f \in {"field_start", "unquoted", "quoted", "quote_closed"}
  BY <1>2
<1>9. ASSUME f \in {"field_start", "unquoted"} PROVE ~ in[k + 2]
  <2>1. ~ in[k + 1] /\ ~ Opens(file, k + 1)
    BY <1>1, <1>2, <1>3, <1>4, <1>5, <1>9
  <2> QED
    BY <2>1, StaysOutside
<1>10. ASSUME f = "quoted"
       PROVE  \E a \in 1 .. k + 1 : /\ Opens(file, a) /\ Stays(file, a, k + 1)
                                    /\ Quotes(file, a, k + 1) % 2 = 0
  <2>1. CASE e = "field_start"
    <3>1. Opens(file, k + 1)
      BY <1>2, <1>4, <1>10, <2>1
    <3>2. Stays(file, k + 1, k + 1)
      BY <1>0 DEF Stays
    <3>3. Quotes(file, k + 1, k + 1) = 0
      BY <1>0, QuotesCount
    <3> QED
      BY <1>0, <3>1, <3>2, <3>3
  <2>2. CASE e = "quoted"
    <3>1. byte # "quote"
      BY <1>2, <1>10, <2>2
    <3>2. PICK a \in 1 .. k : Opens(file, a) /\ Stays(file, a, k) /\ Quotes(file, a, k) % 2 = 0
      BY <2>2 DEF Reads
    <3>3. Quotes(file, a, k + 1) = Quotes(file, a, k)
      BY <1>13, <3>1
    <3>4. ~ Closes(file, a, k + 1)
      BY <3>1 DEF Closes, byte
    <3>5. Stays(file, a, k + 1)
      BY <1>0, <3>2, <3>4 DEF Stays
    <3> QED
      BY <1>0, <3>2, <3>3, <3>5
  <2>3. CASE e = "quote_closed"
    <3>1. byte = "quote"
      BY <1>2, <1>10, <2>3
    <3>2. PICK a \in 1 .. k - 1 : /\ Opens(file, a) /\ Stays(file, a, k - 1)
                                  /\ file[k] = "quote" /\ Quotes(file, a, k) % 2 = 1
      BY <2>3 DEF Reads
    <3>3. Quotes(file, a, k + 1) = Quotes(file, a, k) + 1 /\ Quotes(file, a, k) \in Nat
      BY <1>13, <3>1
    <3>4. Quotes(file, a, k + 1) % 2 = 0
      <4> DEFINE q == Quotes(file, a, k)
      <4>1. q \in Nat /\ q % 2 = 1
        BY <3>2, <3>3
      <4> HIDE DEF q
      <4>2. (q + 1) % 2 = 0
        BY <4>1
      <4> QED
        BY <3>3, <4>2 DEF q
    <3>5. ~ Closes(file, a, k + 1)
      <4>1. a \in Nat /\ a <= k + 1
        BY <1>0
      <4> QED
        BY <1>0, <3>4, <4>1, ClosesIs
    <3>6. ~ Closes(file, a, k)
      <4>1. a \in Nat /\ a <= k /\ k < Len(file)
        BY <1>0
      <4> QED
        BY <1>0, <3>1, <4>1, ClosesIs DEF byte
    <3>7. Stays(file, a, k + 1)
      <4>1. \A b \in a + 1 .. k + 1 : b \in a + 1 .. k - 1 \/ b = k \/ b = k + 1
        BY <1>0
      <4> QED
        BY <3>2, <3>5, <3>6, <4>1 DEF Stays
    <3>8. a \in 1 .. k + 1
      BY <1>0
    <3> QED
      BY <3>2, <3>4, <3>7, <3>8
  <2> QED
    BY <1>1, <1>2, <1>10, <2>1, <2>2, <2>3
<1>11. ASSUME f = "quote_closed"
       PROVE  \E a \in 1 .. k : /\ Opens(file, a) /\ Stays(file, a, k)
                                /\ byte = "quote" /\ Quotes(file, a, k + 1) % 2 = 1
  <2>1. e = "quoted" /\ byte = "quote"
    BY <1>2, <1>11
  <2>2. PICK a \in 1 .. k : Opens(file, a) /\ Stays(file, a, k) /\ Quotes(file, a, k) % 2 = 0
    BY <2>1 DEF Reads
  <2>3. Quotes(file, a, k + 1) = Quotes(file, a, k) + 1 /\ Quotes(file, a, k) \in Nat
    BY <1>13, <2>1
  <2>4. Quotes(file, a, k + 1) % 2 = 1
    <3> DEFINE q == Quotes(file, a, k)
    <3>1. q \in Nat /\ q % 2 = 0
      BY <2>2, <2>3
    <3> HIDE DEF q
    <3>2. (q + 1) % 2 = 1
      BY <3>1
    <3> QED
      BY <2>3, <3>2 DEF q
  <2> QED
    BY <2>1, <2>2, <2>4
<1>12. Reads(file, k + 1, f)
  BY <1>0, <1>7, <1>8, <1>9, <1>10, <1>11 DEF Reads, byte
<1> QED
  BY <1>12 DEF f, byte

\* from the first.
LEMMA ReadsOrigin ==
    ASSUME NEW file \in Seq(Bytes)
    PROVE  Reads(file, 0, "field_start")
<1>1. ~ Inside(file)[1]
  <2>1. 1 \in 1 .. Len(file) + 1 /\ 1 .. 1 - 1 = {}
    OBVIOUS
  <2> QED
    BY <2>1, InsideIs
<1> QED
  BY <1>1 DEF Reads, Fresh

Free(csv, file, j) == ~ csv \/ ~ Inside(file)[j]
CrLf(file, j) == j < Len(file) /\ file[j] = "cr" /\ file[j + 1] = "lf"

\* The byte at j ends a record, and the next one starts at n.
Terminates(csv, file, j, n) ==
    /\ Free(csv, file, j)
    /\ \/ n = j /\ file[j] = "cr" /\ ~ CrLf(file, j)
       \/ n = j /\ file[j] = "lf" /\ ~ (j > 1 /\ CrLf(file, j - 1))
       \/ n = j + 1 /\ CrLf(file, j)

-----------------------------------------------------------------------------
(* Terminators, and the records they cut.                                   *)

\* Terminators is the set of the pairs that Terminates describes.
LEMMA TerminatorsAre ==
    ASSUME NEW csv, NEW file
    PROVE  \A t : t \in Terminators(csv, file) <=>
             \E j \in 1 .. Len(file), n \in Int :
                Terminates(csv, file, j, n) /\ t = <<j - 1, n>>
<1> DEFINE A == {<<i - 1, i>> : i \in {j \in 1 .. Len(file) :
                    /\ Free(csv, file, j)
                    /\ \/ file[j] = "cr" /\ ~ CrLf(file, j)
                       \/ file[j] = "lf" /\ ~ (j > 1 /\ CrLf(file, j - 1))}}
           B == {<<i - 1, i + 1>> : i \in {j \in 1 .. Len(file) :
                    Free(csv, file, j) /\ CrLf(file, j)}}
<1>1. Terminators(csv, file) = A \cup B
  BY Zenon DEF Terminators, Free, CrLf
<1>2. ASSUME NEW j \in 1 .. Len(file) PROVE j \in Int /\ j + 1 \in Int
  OBVIOUS
<1>3. ASSUME NEW t
      PROVE  t \in A \cup B <=>
             \E j \in 1 .. Len(file), n \in Int :
                Terminates(csv, file, j, n) /\ t = <<j - 1, n>>
  BY <1>2 DEF Terminates
<1> QED
  BY <1>1, <1>3

\* Where record i starts, when the one after the last starts at `last`.
From(out, last, i) == IF i = Len(out) + 1 THEN last ELSE out[i].start

\* The records found so far are cut at all the terminators before k.
Chained(out, last, T, k) ==
    /\ out \in Seq(Spans) /\ last \in Nat
    /\ From(out, last, 1) = 0
    /\ \A i \in 1 .. Len(out) :
          /\ out[i].start <= out[i].end /\ out[i].end < From(out, last, i + 1)
          /\ <<out[i].end, From(out, last, i + 1)>> \in T
    /\ \A t \in T : t[1] < k =>
          \E i \in 1 .. Len(out) : t = <<out[i].end, From(out, last, i + 1)>>

\* A terminator ends the record begun and starts the next.
LEMMA ChainGrows ==
    ASSUME NEW out, NEW last, NEW T, NEW k, Chained(out, last, T, k),
           NEW end \in Nat, NEW next \in Nat, last <= end, end < next, <<end, next>> \in T,
           NEW h, \A t \in T : t[1] < h => t[1] < k \/ t = <<end, next>>
    PROVE  Chained(Append(out, Span(last, end)), next, T, h)
<1> DEFINE e == Span(last, end)
           o == Append(out, e)
           m == Len(out)
<1>1. out \in Seq(Spans) /\ last \in Nat /\ m \in Nat
  BY DEF Chained
<1>2. e \in Spans /\ e.start = last /\ e.end = end
  BY <1>1 DEF Span, Spans
<1> HIDE DEF e
<1>3. /\ o \in Seq(Spans) /\ Len(o) = m + 1 /\ o[m + 1] = e
      /\ \A i \in 1 .. m : o[i] = out[i]
  BY <1>1, <1>2
<1> HIDE DEF o, m
<1>4. \A i \in 1 .. m + 1 : From(o, next, i) = From(out, last, i)
  <2>1. \A i \in 1 .. m + 1 : i # Len(o) + 1
    BY <1>1, <1>3
  <2>2. \A i \in 1 .. m : i # m + 1
    BY <1>1
  <2> QED
    BY <1>2, <1>3, <2>1, <2>2 DEF From, m
<1>5. From(o, next, m + 2) = next /\ 1 \in 1 .. m + 1
  BY <1>1, <1>3 DEF From
<1>6. ASSUME NEW i \in 1 .. m + 1
      PROVE  /\ o[i].start <= o[i].end /\ o[i].end < From(o, next, i + 1)
             /\ <<o[i].end, From(o, next, i + 1)>> \in T
  <2>1. CASE i = m + 1
    <3>1. i + 1 = m + 2 /\ o[i] = e
      BY <1>1, <1>3, <2>1
    <3> QED
      BY <1>2, <1>5, <3>1
  <2>2. CASE i # m + 1
    <3>1. i \in 1 .. m /\ i + 1 \in 1 .. m + 1
      BY <1>1, <2>2
    <3> QED
      BY <1>3, <1>4, <3>1 DEF Chained, m
  <2> QED
    BY <2>1, <2>2
<1>7. ASSUME NEW t \in T, t[1] < h
      PROVE  \E i \in 1 .. m + 1 : t = <<o[i].end, From(o, next, i + 1)>>
  <2>1. CASE t = <<end, next>>
    <3>1. m + 1 \in 1 .. m + 1 /\ (m + 1) + 1 = m + 2
      BY <1>1
    <3> QED
      BY <1>2, <1>3, <1>5, <2>1, <3>1
  <2>2. CASE t[1] < k
    <3>1. PICK i \in 1 .. m : t = <<out[i].end, From(out, last, i + 1)>>
      BY <2>2 DEF Chained, m
    <3>2. i \in 1 .. m + 1 /\ i + 1 \in 1 .. m + 1
      BY <1>1
    <3> QED
      BY <1>3, <1>4, <3>1, <3>2
  <2> QED
    BY <1>7, <2>1, <2>2
<1>8. From(o, next, 1) = 0
  BY <1>4, <1>5 DEF Chained
<1>9. Chained(o, next, T, h)
  BY <1>3, <1>6, <1>7, <1>8 DEF Chained
<1> QED
  BY <1>9 DEF o, e

\* No terminator between: the chain stays.
LEMMA ChainWaits ==
    ASSUME NEW out, NEW last, NEW T, NEW k, Chained(out, last, T, k),
           NEW h, \A t \in T : t[1] < h => t[1] < k
    PROVE  Chained(out, last, T, h)
BY DEF Chained

\* No terminator yet: no record.
LEMMA ChainOrigin ==
    ASSUME NEW T, \A t \in T : ~ t[1] < 0
    PROVE  Chained(<<>>, 0, T, 0)
<1>1. <<>> \in Seq(Spans) /\ Len(<<>>) = 0 /\ 1 .. 0 = {} /\ 1 = 0 + 1
  OBVIOUS
<1> QED
  BY <1>1 DEF Chained, From

Section(s) == Settled(s).state
Bound(s, k) == IF s.cr = NoCr THEN k ELSE k - 1

\* The scanner at k and the reference agree on the bytes before k.
Cuts(csv, file, k) ==
    LET s == At(csv, file, k).s
    IN  /\ csv => Reads(file, k, Section(s))
        /\ ~ csv => Section(s) = "field_start"
        /\ s.cr # NoCr => /\ k > 0 /\ s.cr = k - 1 /\ s.start <= k - 1
                          /\ file[k] = "cr" /\ Free(csv, file, k)
        /\ s.cr = NoCr /\ k > 0 /\ file[k] = "cr" => Section(s) = "quoted"
        /\ Chained(At(csv, file, k).out, s.start, Terminators(csv, file), Bound(s, k))

\* Whether the next byte is free, by the scanner's state.
LEMMA FreeIs ==
    ASSUME NEW csv \in BOOLEAN, NEW file \in Seq(Bytes), NEW k \in 0 .. Len(file) - 1, NEW s,
           csv => Reads(file, k, Section(s)), ~ csv => Section(s) = "field_start",
           file[k + 1] \in {"cr", "lf"}
    PROVE  Free(csv, file, k + 1) <=> Section(s) # "quoted"
<1>1. CASE csv
  <2>1. Inside(file)[k + 1] <=> Section(s) = "quoted"
        \/ (Section(s) = "quote_closed" /\ k < Len(file) /\ file[k + 1] = "quote")
    BY <1>1, ReadsInside
  <2> QED
    BY <1>1, <2>1 DEF Free
<1>2. CASE ~ csv
  BY <1>2 DEF Free
<1> QED
  BY <1>1, <1>2

\* What a byte does to the state and to a carriage return that waits.
LEMMA SectionMoves ==
    ASSUME NEW csv \in BOOLEAN, NEW s, Good(s), NEW byte \in Bytes
    PROVE  /\ csv => Section(Moved(csv, s, byte)) = After(Section(s), byte)
           /\ ~ csv => (Section(s) = "field_start" => Section(Moved(csv, s, byte)) = "field_start")
           /\ Moved(csv, s, byte).cr =
                 IF byte = "cr" /\ Section(s) # "quoted" THEN s.offset ELSE NoCr
           /\ s.cr # NoCr => Section(s) = "field_start"
           /\ s.cr = NoCr => Section(s) = s.state
<1> DEFINE e == Section(s)
           m == Moved(csv, s, byte)
           p == s.offset
<1>1. p \in Nat /\ NoCr = -1 /\ p # NoCr
  BY DEF Good, NoCr
<1>2. s.cr # NoCr => e = "field_start"
  BY <1>1, ScannerAtGood DEF Section, Settled
<1>3. s.cr = NoCr => e = s.state
  BY DEF Section, Settled
<1>4. CASE e # "quoted" /\ byte = "cr"
  <2>1. m = Scanner(e, p + 1, Settled(s).start, p)
    BY <1>4 DEF Moved, Section
  <2>2. m.cr = p /\ m.offset = p + 1
    BY <2>1 DEF Scanner
  <2>3. Section(m) = "field_start"
    BY <1>1, <2>2, ScannerAtGood DEF Section, Settled
  <2> QED
    BY <1>2, <1>3, <1>4, <2>2, <2>3 DEF After
<1>5. CASE byte = "lf" /\ e # "quoted"
  <2>1. m = ScannerAt(p + 1)
    BY <1>5 DEF Moved, Section
  <2>2. Section(m) = "field_start" /\ m.cr = NoCr
    BY <1>1, <2>1, ScannerAtGood DEF Section
  <2> QED
    BY <1>2, <1>3, <1>5, <2>2 DEF After
<1>6. CASE ~ (e # "quoted" /\ byte \in {"cr", "lf"})
  <2>1. m = Scanner(IF csv THEN FieldState(e, byte) ELSE e, p + 1, Settled(s).start, NoCr)
    BY <1>2, <1>6 DEF Moved, Section
  <2>2. m.cr = NoCr /\ m.state = IF csv THEN FieldState(e, byte) ELSE e
    BY <2>1 DEF Scanner
  <2>3. Section(m) = m.state
    BY <2>2 DEF Section, Settled
  <2> QED
    BY <1>2, <1>3, <1>6, <2>2, <2>3 DEF After
<1> QED
  BY <1>4, <1>5, <1>6

\* The terminators before k + 1 that are not before k.
LEMMA NewTerminators ==
    ASSUME NEW csv \in BOOLEAN, NEW file \in Seq(Bytes), NEW h \in Int, NEW k \in Nat, h <= k,
           NEW t \in Terminators(csv, file), t[1] < k, ~ t[1] < h
    PROVE  \E j \in 1 .. Len(file), n \in Int :
              Terminates(csv, file, j, n) /\ t = <<j - 1, n>> /\ j - 1 \in h .. k - 1
<1>1. PICK j \in 1 .. Len(file), n \in Int : Terminates(csv, file, j, n) /\ t = <<j - 1, n>>
  BY TerminatorsAre
<1>2. t[1] = j - 1 /\ j \in Int
  BY <1>1
<1> QED
  BY <1>1, <1>2

\* Terminators lie in the file.
LEMMA TerminatorsFacts ==
    ASSUME NEW csv \in BOOLEAN, NEW file \in Seq(Bytes)
    PROVE  /\ \A t \in Terminators(csv, file) : t[1] \in Nat /\ t[1] < Len(file)
           /\ \A j \in 1 .. Len(file), n \in Int :
                 Terminates(csv, file, j, n) => <<j - 1, n>> \in Terminators(csv, file)
<1>1. ASSUME NEW t \in Terminators(csv, file) PROVE t[1] \in Nat /\ t[1] < Len(file)
  <2>1. PICK j \in 1 .. Len(file), n \in Int : t = <<j - 1, n>>
    BY TerminatorsAre
  <2> QED
    BY <2>1
<1> QED
  BY <1>1, TerminatorsAre

\* Nothing is cut before the first byte,
LEMMA CutsOrigin ==
    ASSUME NEW csv \in BOOLEAN, NEW file \in Seq(Bytes)
    PROVE  Cuts(csv, file, 0)
<1>1. At(csv, file, 0).s = ScannerAt(0) /\ At(csv, file, 0).out = <<>>
  BY PassFacts
<1>2. /\ ScannerAt(0).cr = NoCr /\ ScannerAt(0).start = 0 /\ Section(ScannerAt(0)) = "field_start"
  BY ScannerAtGood DEF Section
<1>3. Reads(file, 0, "field_start")
  BY ReadsOrigin
<1>4. Chained(<<>>, 0, Terminators(csv, file), 0)
  BY TerminatorsFacts, ChainOrigin
<1> QED
  BY <1>1, <1>2, <1>3, <1>4 DEF Cuts, Bound

\* A carriage return that waits is a terminator, with the line feed after it or
\* alone.
LEMMA WaitingTerminates ==
    ASSUME NEW csv \in BOOLEAN, NEW file \in Seq(Bytes), NEW k \in 1 .. Len(file),
           Free(csv, file, k), file[k] = "cr"
    PROVE  IF k < Len(file) /\ file[k + 1] = "lf"
           THEN Terminates(csv, file, k, k + 1) /\ ~ Terminates(csv, file, k, k)
           ELSE Terminates(csv, file, k, k) /\ ~ Terminates(csv, file, k, k + 1)
BY DEF Terminates, CrLf

\* Only line breaks outside quoted sections terminate.
LEMMA OthersTerminateNot ==
    ASSUME NEW csv \in BOOLEAN, NEW file \in Seq(Bytes), NEW j \in 1 .. Len(file), NEW n \in Int,
           Terminates(csv, file, j, n)
    PROVE  /\ file[j] \in {"cr", "lf"} /\ Free(csv, file, j) /\ n \in {j, j + 1}
           /\ file[j] = "lf" => n = j /\ ~ (j > 1 /\ file[j - 1] = "cr")
BY DEF Terminates, CrLf

\* The record that a carriage return at the end of the bytes so far ends.
LEMMA ChainFlushes ==
    ASSUME NEW csv \in BOOLEAN, NEW file \in Seq(Bytes), NEW k \in 1 .. Len(file),
           NEW out, NEW start, Free(csv, file, k), file[k] = "cr",
           ~ (k < Len(file) /\ file[k + 1] = "lf"), start <= k - 1,
           Chained(out, start, Terminators(csv, file), k - 1)
    PROVE  Chained(Append(out, Span(start, k - 1)), k, Terminators(csv, file), k)
<1> DEFINE T == Terminators(csv, file)
<1>1. Terminates(csv, file, k, k) /\ ~ Terminates(csv, file, k, k + 1)
  BY WaitingTerminates
<1>2. <<k - 1, k>> \in T
  BY <1>1, TerminatorsFacts
<1>3. ASSUME NEW t \in T, t[1] < k, ~ t[1] < k - 1 PROVE t = <<k - 1, k>>
  <2>1. PICK j \in 1 .. Len(file), n \in Int :
           Terminates(csv, file, j, n) /\ t = <<j - 1, n>> /\ j - 1 \in k - 1 .. k - 1
    BY <1>3, NewTerminators
  <2>2. j = k /\ n \in {k, k + 1}
    BY <2>1, OthersTerminateNot
  <2> QED
    BY <1>1, <2>1, <2>2
<1>4. k - 1 \in Nat /\ k \in Nat /\ k - 1 < k
  OBVIOUS
<1> HIDE DEF T
<1> QED
  BY <1>2, <1>3, <1>4, ChainGrows DEF T

\* each byte leaves the records cut at the terminators before it,
LEMMA CutsStep ==
    ASSUME NEW csv \in BOOLEAN, NEW file \in Seq(Bytes), NEW k \in 0 .. Len(file) - 1,
           Cuts(csv, file, k)
    PROVE  Cuts(csv, file, k + 1)
<1> DEFINE r == At(csv, file, k)
           q == At(csv, file, k + 1)
           s == r.s
           byte == file[k + 1]
           m == Moved(csv, s, byte)
           T == Terminators(csv, file)
           e == Section(s)
           h == k + 1
<1>0. k \in Nat /\ h \in Nat /\ k \in 0 .. Len(file) /\ h \in 1 .. Len(file) /\ byte \in Bytes /\ h - 1 = k
  OBVIOUS
<1>1. Fine(r, k) /\ Fine(q, h) /\ Steps(csv, r, q, byte)
  BY <1>0, PassFacts
<1>2. Good(s) /\ s.offset = k /\ r.out \in Seq(Spans) /\ s.start \in 0 .. k
  BY <1>1 DEF Fine, Good
<1>3. q.s = m /\ q.out = IF Ends(s, byte) THEN Append(r.out, Ended(s)) ELSE r.out
  BY <1>1 DEF Steps
<1>4. /\ csv => Reads(file, k, e)
      /\ ~ csv => e = "field_start"
      /\ s.cr # NoCr => /\ k > 0 /\ s.cr = k - 1 /\ s.start <= k - 1
                        /\ file[k] = "cr" /\ Free(csv, file, k)
      /\ s.cr = NoCr /\ k > 0 /\ file[k] = "cr" => e = "quoted"
      /\ Chained(r.out, s.start, T, Bound(s, k))
  BY DEF Cuts
<1>5. /\ csv => Section(m) = After(e, byte)
      /\ ~ csv => Section(m) = "field_start"
      /\ m.cr = IF byte = "cr" /\ e # "quoted" THEN k ELSE NoCr
      /\ s.cr # NoCr => e = "field_start"
      /\ s.cr = NoCr => e = s.state
  BY <1>0, <1>2, <1>4, SectionMoves
<1>6. byte \in {"cr", "lf"} => (Free(csv, file, h) <=> e # "quoted")
  BY <1>4, FreeIs
<1>7. /\ Good(m) /\ m.offset = h
      /\ ~ Ends(s, byte) => s.cr = NoCr /\ m.start = s.start
      /\ Ends(s, byte) => IF s.cr # NoCr /\ byte # "lf" THEN m.start = k ELSE m.start = h
  <2>1. Good(m) /\ m.offset = s.offset + 1
        /\ (~ Ends(s, byte) => s.cr = NoCr /\ m.start = s.start)
        /\ (Ends(s, byte) => IF s.cr # NoCr /\ byte # "lf" THEN m.start = s.offset
                             ELSE m = ScannerAt(s.offset + 1))
    BY <1>2, MovedGood
  <2>2. ScannerAt(h).start = h
    BY <1>0, ScannerAtGood
  <2> HIDE DEF m, s
  <2> QED
    BY <1>0, <1>2, <2>1, <2>2
<1>8. Ends(s, byte) <=> s.cr # NoCr \/ (e # "quoted" /\ byte = "lf")
  BY <1>5 DEF Ends
<1>9. Ended(s) = Span(s.start, IF s.cr # NoCr THEN k - 1 ELSE k)
  BY <1>2, <1>4 DEF Ended
<1>10. k # NoCr /\ NoCr \notin Nat
  BY <1>0 DEF NoCr
<1>11. csv => Reads(file, h, Section(m))
  <2>1. ASSUME csv PROVE Reads(file, h, After(e, byte))
    BY <1>4, <2>1, ReadsStep
  <2> QED
    BY <1>5, <2>1
<1>12. m.cr # NoCr => /\ h > 0 /\ m.cr = h - 1 /\ m.start <= h - 1
                      /\ file[h] = "cr" /\ Free(csv, file, h)
  <2>1. ASSUME m.cr # NoCr PROVE m.cr = k /\ byte = "cr" /\ e # "quoted" /\ m.start <= k
    <3>1. m.cr = k /\ byte = "cr" /\ e # "quoted"
      BY <1>5, <2>1
    <3>2. m.start \in {s.start, k}
      BY <1>7, <1>8, <3>1
    <3> HIDE DEF m, s
    <3> QED
      BY <1>0, <1>2, <3>1, <3>2
  <2> QED
    BY <1>0, <1>6, <2>1
<1>13. m.cr = NoCr /\ h > 0 /\ file[h] = "cr" => Section(m) = "quoted"
  <2>1. ASSUME m.cr = NoCr, byte = "cr" PROVE Section(m) = "quoted"
    <3>1. e = "quoted" /\ csv = TRUE
      BY <1>4, <1>5, <1>10, <2>1
    <3>2. After("quoted", "cr") = "quoted"
      BY DEF After, FieldState
    <3> QED
      BY <1>5, <2>1, <3>1, <3>2
  <2> QED
    BY <2>1
<1>14. Chained(q.out, m.start, T, Bound(m, h))
  <2>0. ASSUME NEW t \in T, t[1] < h, ~ t[1] < k
        PROVE  \E n \in {h, h + 1} : Terminates(csv, file, h, n) /\ t = <<k, n>>
    <3>1. PICK j \in 1 .. Len(file), n \in Int :
             Terminates(csv, file, j, n) /\ t = <<j - 1, n>> /\ j - 1 \in k .. h - 1
      BY <1>0, <2>0, NewTerminators
    <3>2. j = h
      BY <1>0, <3>1
    <3> QED
      BY <1>0, <3>1, <3>2, OthersTerminateNot
  \* The bytes before h, once those before k are cut.
  <2>1. ASSUME NEW out, NEW start, Chained(out, start, T, k), ~ (byte = "lf" /\ e # "quoted"), m.cr = NoCr
        PROVE  Chained(out, start, T, h)
    <3>1. ASSUME NEW t \in T, t[1] < h PROVE t[1] < k
      <4>1. SUFFICES ASSUME ~ t[1] < k PROVE FALSE
        OBVIOUS
      <4>2. PICK n \in {h, h + 1} : Terminates(csv, file, h, n)
        BY <2>0, <3>1, <4>1
      <4>3. byte \in {"cr", "lf"} /\ Free(csv, file, h)
        BY <1>0, <4>2, OthersTerminateNot
      <4>4. e # "quoted" /\ byte = "cr"
        BY <1>6, <2>1, <4>3
      <4> QED
        BY <1>5, <1>10, <2>1, <4>4
    <3> HIDE DEF T, h, m, e
    <3> QED
      BY <2>1, <3>1, ChainWaits
  <2>2. CASE s.cr # NoCr /\ byte = "lf"
    <3>1. k \in 1 .. Len(file) /\ k < Len(file) /\ file[k] = "cr" /\ Free(csv, file, k)
      BY <1>0, <1>4, <2>2
    <3>2. Terminates(csv, file, k, h) /\ ~ Terminates(csv, file, k, k)
      BY <2>2, <3>1, WaitingTerminates
    <3>3. <<k - 1, h>> \in T
      BY <1>0, <3>1, <3>2, TerminatorsFacts
    <3>4. ASSUME NEW t \in T, t[1] < h, ~ t[1] < k - 1 PROVE t = <<k - 1, h>>
      <4>1. PICK j \in 1 .. Len(file), n \in Int :
               Terminates(csv, file, j, n) /\ t = <<j - 1, n>> /\ j - 1 \in k - 1 .. h - 1
        <5>1. k - 1 \in Int /\ k - 1 <= h
          BY <1>0
        <5> HIDE DEF h
        <5> QED
          BY <1>0, <3>4, <5>1, NewTerminators
      <4>2. j \in {k, h}
        BY <1>0, <4>1
      <4>3. j # h
        <5>1. SUFFICES ASSUME j = h PROVE FALSE
          OBVIOUS
        <5>2. ~ (h > 1 /\ file[h - 1] = "cr")
          BY <1>0, <2>2, <4>1, <5>1, OthersTerminateNot
        <5> QED
          BY <1>0, <3>1, <5>2
      <4>4. n \in {k, h}
        BY <1>0, <4>1, <4>2, <4>3, OthersTerminateNot
      <4> QED
        BY <3>2, <4>1, <4>2, <4>3, <4>4
    <3>5. Chained(r.out, s.start, T, k - 1)
      BY <1>4, <2>2 DEF Bound
    <3>6. q.out = Append(r.out, Span(s.start, k - 1)) /\ m.start = h /\ Bound(m, h) = h
      BY <1>3, <1>5, <1>7, <1>8, <1>9, <2>2 DEF Bound
    <3>7. s.start <= k - 1 /\ k - 1 \in Nat /\ k - 1 < h
      BY <1>0, <1>4, <2>2
    <3> DEFINE out == r.out
               start == s.start
    <3>8. Chained(out, start, T, k - 1) /\ start <= k - 1
      BY <3>5, <3>7
    <3> HIDE DEF T, h, out, start
    <3>9. Chained(Append(out, Span(start, k - 1)), h, T, h)
      BY <1>0, <3>3, <3>4, <3>7, <3>8, ChainGrows
    <3> QED
      BY <3>6, <3>9 DEF out, start
  <2>3. CASE s.cr # NoCr /\ byte # "lf"
    <3>1. k \in 1 .. Len(file) /\ file[k] = "cr" /\ Free(csv, file, k) /\ s.start <= k - 1
      BY <1>0, <1>4, <2>3
    <3>2. Chained(r.out, s.start, T, k - 1)
      BY <1>4, <2>3 DEF Bound
    <3>3. q.out = Append(r.out, Span(s.start, k - 1)) /\ m.start = k
      BY <1>3, <1>7, <1>8, <1>9, <2>3
    <3>4. Chained(q.out, k, T, k)
      BY <2>3, <3>1, <3>2, <3>3, ChainFlushes
    <3>5. CASE byte = "cr"
      <4>1. m.cr = k
        BY <1>5, <2>3, <3>5
      <4>2. Bound(m, h) = k
        BY <1>0, <1>10, <4>1 DEF Bound
      <4> QED
        BY <3>3, <3>4, <4>2
    <3>6. CASE byte # "cr"
      <4>1. m.cr = NoCr
        BY <1>5, <3>6
      <4>2. Bound(m, h) = h
        BY <4>1 DEF Bound
      <4>3. Chained(q.out, k, T, h)
        BY <2>1, <2>3, <3>4, <4>1
      <4> QED
        BY <3>3, <4>2, <4>3
    <3> QED
      BY <3>5, <3>6
  <2>4. CASE s.cr = NoCr /\ e # "quoted" /\ byte = "lf"
    <3>1. Free(csv, file, h) /\ ~ (h > 1 /\ file[h - 1] = "cr")
      BY <1>0, <1>4, <1>6, <2>4
    <3>2. Terminates(csv, file, h, h)
      BY <1>0, <2>4, <3>1 DEF Terminates, CrLf
    <3>3. <<k, h>> \in T
      BY <1>0, <3>2, TerminatorsFacts
    <3>4. ASSUME NEW t \in T, t[1] < h, ~ t[1] < k PROVE t = <<k, h>>
      <4>1. PICK n \in {h, h + 1} : Terminates(csv, file, h, n) /\ t = <<k, n>>
        BY <2>0, <3>4
      <4>2. n = h
        BY <1>0, <2>4, <4>1, OthersTerminateNot
      <4> QED
        BY <4>1, <4>2
    <3>5. Chained(r.out, s.start, T, k)
      BY <1>4, <2>4 DEF Bound
    <3>6. q.out = Append(r.out, Span(s.start, k)) /\ m.start = h /\ Bound(m, h) = h
      BY <1>3, <1>5, <1>7, <1>8, <1>9, <2>4 DEF Bound
    <3>7. s.start <= k /\ k < h
      BY <1>0, <1>2
    <3> DEFINE out == r.out
               start == s.start
    <3>8. Chained(out, start, T, k) /\ start <= k
      BY <3>5, <3>7
    <3> HIDE DEF T, h, out, start
    <3>9. Chained(Append(out, Span(start, k)), h, T, h)
      BY <1>0, <3>3, <3>4, <3>7, <3>8, ChainGrows
    <3> QED
      BY <3>6, <3>9 DEF out, start
  <2>5. CASE s.cr = NoCr /\ ~ (e # "quoted" /\ byte = "lf")
    <3>1. Chained(q.out, m.start, T, k)
      BY <1>3, <1>4, <1>7, <1>8, <2>5 DEF Bound
    <3>2. CASE m.cr = NoCr
      <4>1. Chained(q.out, m.start, T, h) /\ Bound(m, h) = h
        BY <2>1, <2>5, <3>1, <3>2 DEF Bound
      <4> QED
        BY <4>1
    <3>3. CASE m.cr # NoCr
      <4>1. Bound(m, h) = k
        BY <1>0, <3>3 DEF Bound
      <4> QED
        BY <3>1, <4>1
    <3> QED
      BY <3>2, <3>3
  <2> QED
    BY <2>2, <2>3, <2>4, <2>5
<1> HIDE DEF m, T, r, e, byte
<1> QED
  BY <1>3, <1>5, <1>11, <1>12, <1>13, <1>14 DEF Cuts, T

\* and so do all.
LEMMA CutsAlways ==
    ASSUME NEW csv \in BOOLEAN, NEW file \in Seq(Bytes)
    PROVE  \A k \in 0 .. Len(file) : Cuts(csv, file, k)
<1> DEFINE S == {k \in Nat : k <= Len(file) => Cuts(csv, file, k)}
<1>1. 0 \in S
  BY CutsOrigin
<1>2. ASSUME NEW k \in Nat, k \in S PROVE k + 1 \in S
  <2>1. SUFFICES ASSUME k + 1 <= Len(file) PROVE Cuts(csv, file, k + 1)
    OBVIOUS
  <2>2. k \in 0 .. Len(file) - 1 /\ Cuts(csv, file, k)
    BY <1>2, <2>1
  <2> QED
    BY <2>2, CutsStep
<1> HIDE DEF S
<1>3. Nat \subseteq S
  BY <1>1, <1>2, NumbersByInduction
<1> QED
  BY <1>3 DEF S

-----------------------------------------------------------------------------
(* The reference sorts the records by their starts.                         *)

\* The parts of a span.
LEMMA SpanOf ==
    ASSUME NEW out \in Seq(Spans), NEW i \in 1 .. Len(out)
    PROVE  out[i] \in Spans /\ out[i].start \in Nat /\ out[i].end \in Nat
<1>1. out[i] \in Spans
  OBVIOUS
<1> QED
  BY <1>1 DEF Spans

\* Records start in order.
LEMMA ChainOrdered ==
    ASSUME NEW out, NEW last, NEW T, NEW k, Chained(out, last, T, k)
    PROVE  \A j \in 1 .. Len(out) + 1 : \A i \in 1 .. j :
              /\ From(out, last, i) \in Nat /\ From(out, last, i) <= From(out, last, j)
              /\ i < j => From(out, last, i) < From(out, last, j) /\ out[i].end < From(out, last, j)
<1> DEFINE f(i) == From(out, last, i)
           m == Len(out)
           P(j) == \A i \in 1 .. j : f(i) <= f(j) /\ (i < j => f(i) < f(j) /\ out[i].end < f(j))
           S == {d \in Nat : d <= m => P(d + 1)}
<1>0. m \in Nat /\ out \in Seq(Spans) /\ last \in Nat
  BY DEF Chained
<1>1. ASSUME NEW i \in 1 .. m + 1 PROVE f(i) \in Nat
  <2>1. CASE i = m + 1
    BY <1>0, <2>1 DEF From
  <2>2. CASE i # m + 1
    <3>1. i \in 1 .. m
      BY <1>0, <2>2
    <3> QED
      BY <1>0, <2>2, <3>1, SpanOf DEF From
  <2> QED
    BY <2>1, <2>2
<1>2. \A i \in 1 .. m : f(i) = out[i].start /\ f(i) <= out[i].end /\ out[i].end < f(i + 1)
                        /\ out[i].end \in Nat
  <2>1. ASSUME NEW i \in 1 .. m
        PROVE  out[i].start <= out[i].end /\ out[i].end < f(i + 1) /\ out[i].end \in Nat
    BY <1>0, SpanOf DEF Chained
  <2>2. \A i \in 1 .. m : i # m + 1
    BY <1>0
  <2> QED
    BY <2>1, <2>2 DEF From
<1> HIDE DEF f, m
<1>3. 0 \in S
  <2>1. P(1)
    <3>1. 1 \in 1 .. m + 1
      BY <1>0
    <3>2. f(1) \in Nat
      BY <1>1, <3>1
    <3> QED
      BY <3>2
  <2> QED
    BY <2>1
<1>4. ASSUME NEW d \in Nat, d \in S PROVE d + 1 \in S
  <2>1. SUFFICES ASSUME d + 1 <= m PROVE P((d + 1) + 1)
    OBVIOUS
  <2>2. P(d + 1)
    BY <1>0, <1>4, <2>1
  <2> DEFINE j == d + 1
  <2>3. j \in 1 .. m /\ j + 1 \in 1 .. m + 1 /\ j \in Nat /\ j \in 1 .. m + 1
    BY <1>0, <2>1
  <2>6. \A i \in 1 .. j : i < j => f(i) < f(j) /\ out[i].end < f(j)
    BY <2>2
  <2> HIDE DEF j
  <2>4. f(j) \in Nat /\ f(j + 1) \in Nat /\ f(j) <= out[j].end /\ out[j].end < f(j + 1) /\ out[j].end \in Nat
    BY <1>1, <1>2, <2>3
  <2>5. ASSUME NEW i \in 1 .. j + 1
        PROVE  f(i) <= f(j + 1) /\ (i < j + 1 => f(i) < f(j + 1) /\ out[i].end < f(j + 1))
    <3>1. CASE i = j + 1
      BY <2>3, <2>4, <3>1
    <3>2. CASE i = j
      BY <2>3, <2>4, <3>2
    <3>3. CASE i < j
      <4>1. i \in 1 .. j /\ i \in 1 .. m
        BY <1>0, <2>3, <3>3
      <4>3. i \in 1 .. m + 1
        BY <1>0, <4>1
      <4>2. f(i) < f(j) /\ out[i].end < f(j) /\ f(i) \in Nat /\ out[i].end \in Nat
        BY <1>1, <1>2, <2>6, <3>3, <4>1, <4>3
      <4> QED
        BY <2>4, <4>2
    <3> QED
      BY <2>3, <3>1, <3>2, <3>3
  <2> QED
    BY <2>5 DEF j
<1> HIDE DEF S
<1>5. Nat \subseteq S
  BY <1>3, <1>4, NumbersByInduction
<1>6. ASSUME NEW j \in 1 .. m + 1 PROVE P(j)
  <2>1. j - 1 \in Nat /\ j - 1 <= m /\ (j - 1) + 1 = j
    BY <1>0
  <2> QED
    BY <1>5, <2>1 DEF S
<1>7. \A j \in 1 .. m + 1 : \A i \in 1 .. j : f(i) \in Nat
  BY <1>0, <1>1
<1> QED
  BY <1>6, <1>7 DEF f, m

\* The sequence of a set of spans in the order of their starts.
Ranked(all) ==
    [i \in 1 .. Cardinality(all) |->
        CHOOSE r \in all : Cardinality({q \in all : q.start < r.start}) = i - 1]

\* Spans in the order of their starts are ranked as they are.
LEMMA RankedIs ==
    ASSUME NEW g \in Seq(Spans),
           \A j \in 1 .. Len(g) : \A i \in 1 .. j - 1 : g[i].start < g[j].start
    PROVE  Ranked({g[i] : i \in 1 .. Len(g)}) = g
<1> DEFINE n == Len(g)
           all == {g[i] : i \in 1 .. n}
           below(r) == {q \in all : q.start < r.start}
<1>0. n \in Nat /\ \A i \in 1 .. n : g[i] \in Spans /\ g[i].start \in Nat
  BY SpanOf
<1>1. \A i, j \in 1 .. n : g[i].start < g[j].start <=> i < j
  <2>1. ASSUME NEW i \in 1 .. n, NEW j \in 1 .. n, i < j PROVE g[i].start < g[j].start
    BY <1>0, <2>1
  <2> HIDE DEF n
  <2>2. ASSUME NEW i \in 1 .. n, NEW j \in 1 .. n, g[i].start < g[j].start PROVE i < j
    <3>1. CASE j < i
      BY <1>0, <2>1, <2>2, <3>1
    <3>2. CASE i = j
      BY <1>0, <2>2, <3>2
    <3> QED
      BY <1>0, <3>1, <3>2
  <2> QED
    BY <2>1, <2>2
<1>2. \A i, j \in 1 .. n : g[i] = g[j] => i = j
  <2>1. ASSUME NEW i \in 1 .. n, NEW j \in 1 .. n, g[i] = g[j] PROVE ~ i < j /\ ~ j < i
    BY <1>0, <1>1, <2>1
  <2> QED
    BY <1>0, <2>1
<1>3. ASSUME NEW k \in 0 .. n
      PROVE  Cardinality({g[i] : i \in 1 .. k}) = k
  <2> DEFINE S == {g[i] : i \in 1 .. k}
             f == [i \in 1 .. k |-> g[i]]
  <2>1. f \in Bijection(1 .. k, S)
    <3>1. \A i \in 1 .. k : i \in 1 .. n
      BY <1>0
    <3>2. f \in [1 .. k -> S] /\ \A i, j \in 1 .. k : f[i] = f[j] => i = j
      BY <1>2, <3>1
    <3>3. \A t \in S : \E i \in 1 .. k : f[i] = t
      OBVIOUS
    <3> QED
      BY <3>2, <3>3 DEF Bijection, Injection, Surjection, IsInjective
  <2>2. ExistsBijection(1 .. k, S) /\ k \in Nat
    <3> HIDE DEF f, S
    <3> QED
      BY <1>0, <2>1 DEF ExistsBijection
  <2> HIDE DEF S
  <2> QED
    BY <2>2, FS_CountingElements DEF S
<1>4. Cardinality(all) = n
  BY <1>0, <1>3
<1>5. ASSUME NEW i \in 1 .. n PROVE Cardinality(below(g[i])) = i - 1
  <2>1. below(g[i]) = {g[j] : j \in 1 .. i - 1}
    <3>1. \A j \in 1 .. n : j < i <=> j \in 1 .. i - 1
      BY <1>0
    <3>2. \A j \in 1 .. i - 1 : j \in 1 .. n
      BY <1>0
    <3> HIDE DEF n
    <3> QED
      BY <1>1, <3>1, <3>2
  <2>2. i - 1 \in 0 .. n
    BY <1>0
  <2> QED
    BY <1>3, <2>1, <2>2
<1>6. ASSUME NEW i \in 1 .. n
      PROVE  (CHOOSE r \in all : Cardinality(below(r)) = i - 1) = g[i]
  <2>1. ASSUME NEW r \in all, Cardinality(below(r)) = i - 1 PROVE r = g[i]
    <3>1. PICK j \in 1 .. n : r = g[j]
      OBVIOUS
    <3> HIDE DEF below, n
    <3>2. j - 1 = i - 1
      BY <1>5, <2>1, <3>1
    <3>3. j = i
      BY <1>0, <3>2
    <3> QED
      BY <3>1, <3>3
  <2>2. g[i] \in all
    OBVIOUS
  <2> HIDE DEF below, all, n
  <2> QED
    BY <1>5, <2>1, <2>2
<1>7. Ranked(all) = [i \in 1 .. n |-> CHOOSE r \in all : Cardinality(below(r)) = i - 1]
  BY <1>4 DEF Ranked
<1>8. Ranked(all) = [i \in 1 .. n |-> g[i]]
  <2> DEFINE c(i) == CHOOSE r \in all : Cardinality(below(r)) = i - 1
  <2>1. Ranked(all) = [i \in 1 .. n |-> c(i)]
    BY <1>7
  <2>2. \A i \in 1 .. n : c(i) = g[i]
    BY <1>6
  <2> HIDE DEF c, all, n
  <2> QED
    BY <2>1, <2>2
<1>9. g = [i \in 1 .. n |-> g[i]]
  OBVIOUS
<1> QED
  BY <1>8, <1>9

\* The parts of the reference definition.
Starts(T) == {0} \cup {t[2] : t \in T}
EndedOf(T) ==
    {r \in {Span(s, t[1]) : s \in Starts(T), t \in T} :
        r.start <= r.end /\ \A t \in T : ~ (r.start <= t[1] /\ t[1] < r.end)}
Tail2(T) == CHOOSE s \in Starts(T) : \A t \in Starts(T) : t <= s
AllOf(T, size) ==
    EndedOf(T) \cup (IF Tail2(T) < size THEN {Span(Tail2(T), size)} ELSE {})

\* Records, in the names used below.
LEMMA RecordsAre ==
    ASSUME NEW csv, NEW file
    PROVE  Records(csv, file) = Ranked(AllOf(Terminators(csv, file), Len(file)))
BY DEF Records, Ranked, AllOf, EndedOf, Tail2, Starts

\* A chain that has been cut at all the terminators has the reference's records.
LEMMA ChainIsAll ==
    ASSUME NEW out, NEW last, NEW T, NEW size \in Nat, Chained(out, last, T, size),
           \A t \in T : t[1] < size
    PROVE  /\ EndedOf(T) = {out[i] : i \in 1 .. Len(out)}
           /\ Tail2(T) = last
<1> DEFINE f(i) == From(out, last, i)
           m == Len(out)
<1>0. m \in Nat /\ out \in Seq(Spans) /\ last \in Nat /\ f(1) = 0
  BY DEF Chained
<1>1. \A i \in 1 .. m : /\ out[i].end < f(i + 1) /\ <<out[i].end, f(i + 1)>> \in T
                        /\ out[i].start <= out[i].end
  BY DEF Chained
<1>2. \A t \in T : \E i \in 1 .. m : t = <<out[i].end, f(i + 1)>>
  BY DEF Chained
<1>3. \A j \in 1 .. m + 1 : \A i \in 1 .. j :
         /\ f(i) \in Nat /\ f(i) <= f(j)
         /\ i < j => f(i) < f(j) /\ out[i].end < f(j)
  BY ChainOrdered
<1>4. \A i \in 1 .. m : /\ f(i) = out[i].start /\ out[i] = Span(f(i), out[i].end)
                        /\ out[i].end \in Nat /\ out[i].start \in Nat
  <2>1. ASSUME NEW i \in 1 .. m
        PROVE  out[i] \in Spans /\ out[i].end \in Nat /\ out[i].start \in Nat
    BY <1>0, SpanOf
  <2>2. \A i \in 1 .. m : i # m + 1
    BY <1>0
  <2> QED
    BY <2>1, <2>2 DEF From, Span, Spans
<1>5. f(m + 1) = last
  BY DEF From
<1> HIDE DEF f, m
<1>6. Starts(T) = {f(i) : i \in 1 .. m + 1}
  <2>1. ASSUME NEW s \in Starts(T) PROVE \E i \in 1 .. m + 1 : s = f(i)
    <3>1. CASE s = 0
      <4>1. 1 \in 1 .. m + 1
        BY <1>0
      <4> QED
        BY <1>0, <3>1, <4>1
    <3>2. CASE \E t \in T : s = t[2]
      <4>1. PICK i \in 1 .. m : s = f(i + 1)
        BY <1>2, <3>2
      <4>2. i + 1 \in 1 .. m + 1
        BY <1>0
      <4> QED
        BY <4>1, <4>2
    <3> QED
      BY <3>1, <3>2 DEF Starts
  <2>2. ASSUME NEW i \in 1 .. m + 1 PROVE f(i) \in Starts(T)
    <3>1. CASE i = 1
      BY <1>0, <3>1 DEF Starts
    <3>2. CASE i # 1
      <4>1. i - 1 \in 1 .. m /\ (i - 1) + 1 = i
        BY <1>0, <3>2
      <4>2. <<out[i - 1].end, f(i)>> \in T
        BY <1>1, <4>1
      <4> QED
        BY <4>2 DEF Starts
    <3> QED
      BY <3>1, <3>2
  <2> QED
    BY <2>1, <2>2
<1>7. Tail2(T) = last
  <2>1. m + 1 \in 1 .. m + 1
    BY <1>0
  <2>2. last \in Starts(T) /\ \A s \in Starts(T) : s <= last /\ s \in Nat
    BY <1>3, <1>5, <1>6, <2>1
  <2>3. ASSUME NEW s \in Starts(T), \A t \in Starts(T) : t <= s PROVE s = last
    BY <1>0, <2>2, <2>3
  <2> QED
    BY <2>2, <2>3 DEF Tail2
\* Of the records' ends and starts, those of one record belong together.
<1>8. ASSUME NEW i \in 1 .. m + 1, NEW j \in 1 .. m
      PROVE  /\ j < i => out[j].end < f(i)
             /\ i <= j => f(i) <= out[j].end
             /\ i < j => i \in 1 .. m /\ f(i) <= out[i].end /\ out[i].end < out[j].end
  <2>1. j \in 1 .. m + 1 /\ i \in Nat /\ j \in Nat
    BY <1>0
  <2>2. j < i => out[j].end < f(i)
    <3>1. j < i => j \in 1 .. i
      BY <2>1
    <3> QED
      BY <1>3, <3>1
  <2>3. ASSUME i <= j PROVE f(i) <= f(j) /\ (i < j => i \in 1 .. m /\ out[i].end < f(j))
    <3>1. i \in 1 .. j /\ i \in 1 .. m
      BY <1>0, <2>1, <2>3
    <3> QED
      BY <1>3, <2>1, <3>1
  <2>4. f(j) <= out[j].end /\ f(j) \in Nat /\ f(i) \in Nat /\ out[j].end \in Nat
    <3>1. i \in 1 .. i
      BY <2>1
    <3> QED
      BY <1>1, <1>3, <1>4, <3>1
  <2>5. i \in 1 .. m => f(i) <= out[i].end /\ out[i].end \in Nat
    BY <1>1, <1>4
  <2> QED
    BY <1>0, <2>1, <2>2, <2>3, <2>4, <2>5
<1>9. ASSUME NEW r \in EndedOf(T) PROVE \E i \in 1 .. m : r = out[i]
  <2>1. PICK s \in Starts(T), t \in T : r = Span(s, t[1])
    BY DEF EndedOf
  <2>2. r.start <= r.end /\ \A u \in T : ~ (r.start <= u[1] /\ u[1] < r.end)
    BY DEF EndedOf
  <2>3. PICK i \in 1 .. m + 1 : s = f(i)
    BY <1>6
  <2>4. PICK j \in 1 .. m : t = <<out[j].end, f(j + 1)>>
    BY <1>2
  <2>5. r = Span(f(i), out[j].end) /\ r.start = f(i) /\ r.end = out[j].end
    BY <2>1, <2>3, <2>4 DEF Span
  <2>6. f(i) \in Nat /\ out[j].end \in Nat /\ i \in Nat /\ j \in Nat
    <3>1. i \in 1 .. i
      BY <1>0
    <3> QED
      BY <1>0, <1>3, <1>4, <3>1
  <2>7. ~ j < i
    BY <1>8, <2>2, <2>5, <2>6
  <2>8. ~ i < j
    <3>1. SUFFICES ASSUME i < j PROVE FALSE
      OBVIOUS
    <3>2. i \in 1 .. m /\ f(i) <= out[i].end /\ out[i].end < out[j].end
      BY <1>8, <3>1
    <3>3. <<out[i].end, f(i + 1)>> \in T
      BY <1>1, <3>2
    <3>4. ~ (f(i) <= out[i].end /\ out[i].end < out[j].end)
      BY <2>2, <2>5, <3>3
    <3> QED
      BY <3>2, <3>4
  <2>9. i = j
    BY <2>6, <2>7, <2>8
  <2> QED
    BY <1>4, <2>5, <2>9
<1>10. ASSUME NEW i \in 1 .. m PROVE out[i] \in EndedOf(T)
  <2>1. i \in 1 .. m + 1 /\ f(i) \in Starts(T) /\ <<out[i].end, f(i + 1)>> \in T
    BY <1>0, <1>1, <1>6
  <2>2. \E s \in Starts(T), t \in T : out[i] = Span(s, t[1])
    BY <1>4, <2>1
  <2>3. ASSUME NEW t \in T, out[i].start <= t[1], t[1] < out[i].end PROVE FALSE
    <3>1. PICK j \in 1 .. m : t = <<out[j].end, f(j + 1)>>
      BY <1>2
    <3>2. f(i) <= out[j].end /\ out[j].end < out[i].end
      BY <1>4, <2>3, <3>1
    <3>3. j \in 1 .. m + 1 /\ i \in Nat /\ j \in Nat /\ out[i].end \in Nat /\ out[j].end \in Nat /\ f(i) \in Nat
      <4>1. i \in 1 .. i
        BY <1>0
      <4> QED
        BY <1>0, <1>3, <1>4, <2>1, <4>1
    <3>4. CASE j < i
      <4>1. out[j].end < f(i)
        BY <1>8, <2>1, <3>4
      <4> QED
        BY <3>2, <3>3, <4>1
    <3>5. CASE i < j
      <4>1. out[i].end < out[j].end
        BY <1>8, <2>1, <3>5
      <4> QED
        BY <3>2, <3>3, <4>1
    <3>6. CASE i = j
      BY <3>2, <3>3, <3>6
    <3> QED
      BY <3>3, <3>4, <3>5, <3>6
  <2>4. out[i].start <= out[i].end
    BY <1>1
  <2> QED
    BY <2>2, <2>3, <2>4 DEF EndedOf
<1>11. EndedOf(T) = {out[i] : i \in 1 .. m}
  <2>1. \A r \in EndedOf(T) : \E i \in 1 .. m : r = out[i]
    BY <1>9
  <2>2. \A i \in 1 .. m : out[i] \in EndedOf(T)
    BY <1>10
  <2> HIDE DEF EndedOf
  <2> QED
    BY <2>1, <2>2
<1> QED
  BY <1>7, <1>11 DEF m

\* A chain is in the order of its starts.
LEMMA ChainStarts ==
    ASSUME NEW out, NEW last, NEW T, NEW k, Chained(out, last, T, k)
    PROVE  /\ \A j \in 1 .. Len(out) : \A i \in 1 .. j - 1 : out[i].start < out[j].start
           /\ \A i \in 1 .. Len(out) : out[i].start < last
<1> DEFINE m == Len(out)
<1>0. m \in Nat
  BY DEF Chained
<1>1. \A j \in 1 .. m + 1 : \A i \in 1 .. j : i < j => From(out, last, i) < From(out, last, j)
  BY ChainOrdered
<1>2. \A i \in 1 .. m : From(out, last, i) = out[i].start
  <2>1. \A i \in 1 .. m : i # m + 1
    BY <1>0
  <2> QED
    BY <2>1 DEF From
<1>3. From(out, last, m + 1) = last
  BY DEF From
<1> HIDE DEF m
<1>4. ASSUME NEW j \in 1 .. m, NEW i \in 1 .. j - 1 PROVE out[i].start < out[j].start
  <2>1. j \in 1 .. m + 1 /\ i \in 1 .. j /\ i < j /\ i \in 1 .. m
    BY <1>0
  <2> QED
    BY <1>1, <1>2, <2>1
<1>5. ASSUME NEW i \in 1 .. m PROVE out[i].start < last
  <2>1. m + 1 \in 1 .. m + 1 /\ i \in 1 .. m + 1 /\ i < m + 1
    BY <1>0
  <2> QED
    BY <1>1, <1>2, <1>3, <2>1
<1> QED
  BY <1>4, <1>5 DEF m

\* A chain at the end of the file, with the record begun there, is the reference.
LEMMA ChainRanked ==
    ASSUME NEW out, NEW last, NEW T, NEW size \in Nat, Chained(out, last, T, size),
           \A t \in T : t[1] < size
    PROVE  Ranked(AllOf(T, size)) = IF last < size THEN Append(out, Span(last, size)) ELSE out
<1> DEFINE m == Len(out)
           e == Span(last, size)
           g == Append(out, e)
<1>0. m \in Nat /\ out \in Seq(Spans) /\ last \in Nat
  BY DEF Chained
<1>1. AllOf(T, size) = {out[i] : i \in 1 .. m} \cup (IF last < size THEN {e} ELSE {})
  BY ChainIsAll DEF AllOf
<1>2. /\ \A j \in 1 .. m : \A i \in 1 .. j - 1 : out[i].start < out[j].start
      /\ \A i \in 1 .. m : out[i].start < last
  BY ChainStarts
<1>3. CASE ~ last < size
  <2>1. AllOf(T, size) = {out[i] : i \in 1 .. m}
    BY <1>1, <1>3
  <2>2. Ranked({out[i] : i \in 1 .. m}) = out
    BY <1>0, <1>2, RankedIs
  <2> QED
    BY <1>3, <2>1, <2>2
<1>4. CASE last < size
  <2>1. e \in Spans /\ e.start = last
    BY <1>0 DEF Span, Spans
  <2> HIDE DEF e, m
  <2>2. g \in Seq(Spans) /\ Len(g) = m + 1 /\ g[m + 1] = e /\ \A i \in 1 .. m : g[i] = out[i]
    BY <1>0, <2>1 DEF m
  <2> HIDE DEF g
  <2>3. AllOf(T, size) = {g[i] : i \in 1 .. Len(g)}
    <3>1. AllOf(T, size) = {out[i] : i \in 1 .. m} \cup {e}
      BY <1>1, <1>4
    <3>2. \A i \in 1 .. m + 1 : i \in 1 .. m \/ i = m + 1
      BY <1>0
    <3>3. \A i \in 1 .. m : i \in 1 .. m + 1
      BY <1>0
    <3>4. m + 1 \in 1 .. m + 1
      BY <1>0
    <3>5. {out[i] : i \in 1 .. m} \cup {e} = {g[i] : i \in 1 .. m + 1}
      BY <2>2, <3>2, <3>3, <3>4
    <3> QED
      BY <2>2, <3>1, <3>5
  <2>4. ASSUME NEW j \in 1 .. Len(g), NEW i \in 1 .. j - 1 PROVE g[i].start < g[j].start
    <3>1. i \in 1 .. m /\ (j \in 1 .. m \/ j = m + 1)
      BY <1>0, <2>2
    <3> QED
      BY <1>2, <2>1, <2>2, <3>1
  <2>5. Ranked({g[i] : i \in 1 .. Len(g)}) = g
    BY <2>2, <2>4, RankedIs
  <2> QED
    BY <1>4, <2>3, <2>5 DEF g, e
<1> QED
  BY <1>3, <1>4

\* What one pass over a file finds is what the reference definition says it has.
LEMMA RecordsAreScanned ==
    ASSUME NEW csv \in BOOLEAN, NEW file \in Seq(Bytes)
    PROVE  Records(csv, file) = Scanned(csv, file)
<1> DEFINE N == Len(file)
           T == Terminators(csv, file)
           r == At(csv, file, N)
           s == r.s
           out == r.out
<1>0. N \in Nat /\ N \in 0 .. N
  OBVIOUS
<1>1. Good(s) /\ s.offset = N /\ out \in Seq(Spans)
  BY <1>0, PassFacts DEF Fine
<1>2. Cuts(csv, file, N)
  BY <1>0, CutsAlways
<1>3. \A t \in T : t[1] < N
  BY TerminatorsFacts
<1>4. Records(csv, file) = Ranked(AllOf(T, N))
  BY RecordsAre
<1>5. Scanned(csv, file) = out \o (IF Begun(s) THEN <<Ended(s)>> ELSE <<>>)
  BY <1>1, FinishIs DEF Scanned
<1>6. Ended(s) \in Spans
  BY <1>1, MovedGood
<1>7. CASE s.cr # NoCr
  <2>1. N \in 1 .. N /\ s.cr = N - 1 /\ s.start <= N - 1 /\ file[N] = "cr" /\ Free(csv, file, N)
    BY <1>0, <1>2, <1>7 DEF Cuts
  <2>2. Chained(out, s.start, T, N - 1)
    BY <1>2, <1>7 DEF Cuts, Bound
  <2>3. Chained(Append(out, Span(s.start, N - 1)), N, T, N)
    <3>1. ~ (N < Len(file) /\ file[N + 1] = "lf")
      BY <1>0
    <3> DEFINE start == s.start
    <3>2. Chained(out, start, T, N - 1) /\ start <= N - 1
      BY <2>1, <2>2
    <3> HIDE DEF out, start, N
    <3>3. Chained(Append(out, Span(start, N - 1)), N, T, N)
      BY <2>1, <3>1, <3>2, ChainFlushes DEF N
    <3> QED
      BY <3>3 DEF start
  <2>4. Ended(s) = Span(s.start, N - 1) /\ Begun(s)
    BY <1>7, <2>1 DEF Ended, Begun
  <2>5. Scanned(csv, file) = Append(out, Span(s.start, N - 1))
    <3> DEFINE e == Ended(s)
    <3>1. e \in Spans /\ Scanned(csv, file) = out \o <<e>>
      BY <1>5, <1>6, <2>4
    <3> HIDE DEF e, out
    <3>2. out \o <<e>> = Append(out, e)
      BY <1>1, <3>1
    <3> QED
      BY <2>4, <3>1, <3>2 DEF e
  <2>6. Ranked(AllOf(T, N)) = Append(out, Span(s.start, N - 1))
    <3> DEFINE g == Append(out, Span(s.start, N - 1))
    <3>1. Chained(g, N, T, N) /\ ~ N < N
      BY <1>0, <2>3
    <3> HIDE DEF g, T, N
    <3> QED
      BY <1>0, <1>3, <3>1, ChainRanked DEF g
  <2> QED
    BY <1>4, <2>5, <2>6
<1>8. CASE s.cr = NoCr
  <2>1. Chained(out, s.start, T, N)
    BY <1>2, <1>8 DEF Cuts, Bound
  <2>2. Ended(s) = Span(s.start, N) /\ (Begun(s) <=> s.start < N)
    BY <1>1, <1>8 DEF Ended, Begun
  <2>3. Ranked(AllOf(T, N)) = IF s.start < N THEN Append(out, Span(s.start, N)) ELSE out
    <3> HIDE DEF T, N, out
    <3> QED
      BY <1>0, <1>3, <2>1, ChainRanked
  <2>4. Scanned(csv, file) = IF s.start < N THEN Append(out, Span(s.start, N)) ELSE out
    <3> DEFINE e == Ended(s)
    <3>1. e \in Spans
      BY <1>6
    <3>2. CASE Begun(s)
      <4>1. Scanned(csv, file) = out \o <<e>>
        BY <1>5, <3>2
      <4> HIDE DEF e, out
      <4>2. out \o <<e>> = Append(out, e)
        BY <1>1, <3>1
      <4> QED
        BY <2>2, <3>2, <4>1, <4>2 DEF e
    <3>3. CASE ~ Begun(s)
      <4>1. Scanned(csv, file) = out \o <<>>
        BY <1>5, <3>3
      <4> HIDE DEF out
      <4>2. out \o <<>> = out
        BY <1>1
      <4> QED
        BY <2>2, <3>3, <4>1, <4>2
    <3> QED
      BY <3>2, <3>3
  <2> QED
    BY <1>4, <2>3, <2>4
<1> QED
  BY <1>7, <1>8

\* A new scanner stands at the origin.
LEMMA OriginAgrees ==
    ASSUME NEW csv \in BOOLEAN, NEW file \in Seq(Bytes)
    PROVE  Agree(csv, file, ScannerAt(0), 0)
<1>1. At(csv, file, 0).s = ScannerAt(0) /\ Len(At(csv, file, 0).out) = 0
  BY PassFacts
<1>2. ScannerAt(0).offset = 0 /\ 0 \in 0 .. Len(file)
  BY ScannerAtGood
<1> QED
  BY <1>1, <1>2 DEF Agree

\* Two parts of a sequence, joined.
LEMMA Joined ==
    ASSUME NEW S, NEW a \in Seq(S), NEW b \in Seq(S), NEW all,
           \A j \in 1 .. Len(a) : a[j] = all[j],
           \A j \in 1 .. Len(b) : all[Len(a) + j] = b[j]
    PROVE  /\ a \o b \in Seq(S) /\ Len(a \o b) = Len(a) + Len(b)
           /\ \A j \in 1 .. Len(a) : (a \o b)[j] = a[j]
           /\ \A j \in 1 .. Len(a) + Len(b) : (a \o b)[j] = all[j]
<1> DEFINE m == Len(a)
           n == Len(b)
           c == a \o b
<1>1. /\ c \in Seq(S) /\ Len(c) = m + n
      /\ \A i \in 1 .. m + n : c[i] = IF i <= m THEN a[i] ELSE b[i - m]
  BY ConcatProperties
<1>2. m \in Nat /\ n \in Nat
  OBVIOUS
<1> HIDE DEF c
<1>3. ASSUME NEW j \in 1 .. m + n PROVE c[j] = all[j] /\ (j <= m => c[j] = a[j])
  <2>1. CASE j <= m
    BY <1>1, <1>2, <2>1
  <2>2. CASE ~ (j <= m)
    <3>1. j - m \in 1 .. n /\ m + (j - m) = j
      BY <1>2, <2>2
    <3>2. all[m + (j - m)] = b[j - m]
      BY <3>1
    <3> QED
      BY <1>1, <2>2, <3>1, <3>2
  <2> QED
    BY <2>1, <2>2
<1>4. \A j \in 1 .. m : c[j] = a[j]
  BY <1>2, <1>3
<1> QED
  BY <1>1, <1>3, <1>4 DEF c

-----------------------------------------------------------------------------
(* The results.                                                             *)

\* What of a file follows an offset.
Rest(file, from) == SubSeq(file, from + 1, Len(file))

\* The records a, those a call finds in the rest of the file, and what finish adds.
Completes(csv, file, a, s) ==
    LET fed == Feed(csv, s, Rest(file, s.offset), Len(file) + 1)
    IN  a \o fed.out \o Finish(fed.s) = Records(csv, file)

\* The rest of the file, scanned in one call by a scanner that agrees with the records a.
LEMMA GoesOn ==
    ASSUME NEW csv \in BOOLEAN, NEW file \in Seq(Bytes), NEW a \in Seq(Spans),
           \A j \in 1 .. Len(a) : a[j] = Scanned(csv, file)[j],
           NEW s, Agree(csv, file, s, Len(a))
    PROVE  Completes(csv, file, a, s)
<1> DEFINE fed == Feed(csv, s, Rest(file, s.offset), Len(file) + 1)
           all == Scanned(csv, file)
           p == s.offset
           m == Len(a)
           N == Len(file)
           n == N - p
           out == fed.out
           last == Finish(fed.s)
<1> HIDE DEF fed
<1>1. /\ N \in Nat /\ p \in Nat /\ p <= N /\ n \in Nat /\ p + n = N /\ m \in Nat
      /\ all \in Seq(Spans)
  BY AgreeBound, ScannedFacts
<1>2. Len(Rest(file, p)) = n /\ \A i \in 1 .. n : Rest(file, p)[i] = file[p + i]
  <2> HIDE DEF n, p
  <2>1. /\ Len(SubSeq(file, p + 1, p + n)) = n
        /\ \A i \in 1 .. n : SubSeq(file, p + 1, p + n)[i] = file[p + i]
    BY <1>1, ChunkIs
  <2> QED
    BY <1>1, <2>1 DEF Rest
<1>3. Held(csv, file, m, p, N + 1, fed, n)
  <2>1. N + 1 \in Nat /\ 0 < N + 1
    BY <1>1
  <2> DEFINE chunk == Rest(file, p)
             stop == N + 1
  <2>2. fed = Feed(csv, s, chunk, stop) /\ stop \in Nat /\ 0 < stop /\ Agree(csv, file, s, m)
    BY <2>1 DEF fed
  <2>3. Len(chunk) = n /\ n \in Nat /\ s.offset + n <= Len(file)
        /\ \A i \in 1 .. n : chunk[i] = file[s.offset + i]
    BY <1>1, <1>2
  <2> HIDE DEF chunk, stop, n, m
  <2>4. Held(csv, file, m, s.offset, stop, fed, n)
    BY <2>2, <2>3, FeedAgrees
  <2> QED
    BY <2>4 DEF stop
<1>4. /\ out \in Seq(Spans) /\ Len(out) <= n /\ Agree(csv, file, fed.s, m + Len(out))
      /\ \A j \in 1 .. Len(out) : all[m + j] = out[j]
      /\ fed.stopped => Len(out) = N + 1
      /\ ~ fed.stopped => fed.s.offset = p + n
  BY <1>3 DEF Held
<1>5. fed.s.offset = N
  BY <1>1, <1>4
<1>6. /\ Len(all) = m + Len(out) + Len(last) /\ last \in Seq(Spans)
      /\ \A i \in 1 .. Len(last) : all[m + Len(out) + i] = last[i]
  <2> DEFINE q == fed.s
             h == m + Len(out)
  <2>1. Agree(csv, file, q, h) /\ q.offset = Len(file)
    BY <1>4, <1>5
  <2> HIDE DEF q, h
  <2>2. /\ Len(Scanned(csv, file)) = h + Len(Finish(q)) /\ Finish(q) \in Seq(Spans)
        /\ \A i \in 1 .. Len(Finish(q)) : Scanned(csv, file)[h + i] = Finish(q)[i]
    BY <2>1, AgreeEnd
  <2> QED
    BY <2>2 DEF q, h
<1> HIDE DEF all, out, last, n, N, p
<1>7. /\ a \o out \in Seq(Spans) /\ Len(a \o out) = m + Len(out)
      /\ \A j \in 1 .. m + Len(out) : (a \o out)[j] = all[j]
  <2>1. /\ \A j \in 1 .. Len(a) : a[j] = all[j]
        /\ \A j \in 1 .. Len(out) : all[Len(a) + j] = out[j]
    BY <1>4 DEF all
  <2> QED
    BY <1>4, <2>1, Joined
<1>8. /\ (a \o out) \o last \in Seq(Spans) /\ Len((a \o out) \o last) = Len(all)
      /\ \A j \in 1 .. Len(all) : ((a \o out) \o last)[j] = all[j]
  <2> DEFINE b == a \o out
  <2>1. b \in Seq(Spans) /\ (\A j \in 1 .. Len(b) : b[j] = all[j])
        /\ (\A j \in 1 .. Len(last) : all[Len(b) + j] = last[j])
    BY <1>6, <1>7
  <2>2. Len(b) + Len(last) = Len(all)
    BY <1>6, <1>7
  <2> HIDE DEF b
  <2>3. /\ b \o last \in Seq(Spans) /\ Len(b \o last) = Len(b) + Len(last)
        /\ \A j \in 1 .. Len(b) + Len(last) : (b \o last)[j] = all[j]
    BY <1>6, <2>1, Joined
  <2> QED
    BY <2>2, <2>3 DEF b
<1>9. (a \o out) \o last = all
  BY <1>1, <1>8, SeqEqual
<1> QED
  BY <1>9, RecordsAreScanned DEF all, out, last, fed, Completes

\* A text file, delimited or not, is scanned into its records in two calls as in one:
\* the first may see the bytes up to any place, and stop after any number of records;
\* the second takes the rest, and finish adds the record that no line break ends
\* (scan.rs: feed_inner, complete_record, finish).
THEOREM ScansFindTheRecords ==
    ASSUME NEW csv \in BOOLEAN, NEW file \in Seq(Bytes), NEW k \in 0 .. Len(file),
           NEW stop \in Nat \ {0}
    PROVE  LET first == Feed(csv, ScannerAt(0), SubSeq(file, 1, k), stop)
               next == Feed(csv, first.s, Rest(file, first.s.offset), Len(file) + 1)
           IN  first.out \o next.out \o Finish(next.s) = Records(csv, file)
<1> DEFINE first == Feed(csv, ScannerAt(0), SubSeq(file, 1, k), stop)
           next == Feed(csv, first.s, Rest(file, first.s.offset), Len(file) + 1)
<1>1. Agree(csv, file, ScannerAt(0), 0) /\ ScannerAt(0).offset = 0 /\ k \in Nat /\ 0 + k <= Len(file)
  BY OriginAgrees, ScannerAtGood
<1>2. Len(SubSeq(file, 1, k)) = k /\ \A i \in 1 .. k : SubSeq(file, 1, k)[i] = file[0 + i]
  <2>1. Len(SubSeq(file, 0 + 1, 0 + k)) = k
        /\ \A i \in 1 .. k : SubSeq(file, 0 + 1, 0 + k)[i] = file[0 + i]
    BY <1>1, ChunkIs
  <2>2. 0 + 1 = 1 /\ 0 + k = k
    OBVIOUS
  <2> QED
    BY <2>1, <2>2
<1>3. Held(csv, file, 0, 0, stop, first, k)
  <2> DEFINE chunk == SubSeq(file, 1, k)
             s == ScannerAt(0)
  <2>1. Agree(csv, file, s, 0) /\ s.offset = 0 /\ s.offset + k <= Len(file) /\ k \in Nat
        /\ Len(chunk) = k /\ (\A i \in 1 .. k : chunk[i] = file[s.offset + i])
        /\ stop \in Nat /\ 0 < stop /\ first = Feed(csv, s, chunk, stop)
    BY <1>1, <1>2
  <2> HIDE DEF chunk, s, first
  <2>2. Held(csv, file, 0, s.offset, stop, first, k)
    <3>1. Held(csv, file, 0, s.offset, stop, Feed(csv, s, chunk, stop), k)
      BY <2>1, FeedAgrees
    <3> QED
      BY <2>1, <3>1
  <2> QED
    BY <2>1, <2>2
<1>4. /\ first.out \in Seq(Spans) /\ Agree(csv, file, first.s, 0 + Len(first.out))
      /\ \A j \in 1 .. Len(first.out) : Scanned(csv, file)[0 + j] = first.out[j]
  BY <1>3 DEF Held
<1> HIDE DEF first
<1>5. /\ Agree(csv, file, first.s, Len(first.out))
      /\ \A j \in 1 .. Len(first.out) : first.out[j] = Scanned(csv, file)[j]
  BY <1>4
<1>6. first.out \o next.out \o Finish(next.s) = Records(csv, file)
  <2> DEFINE a == first.out
             s == first.s
  <2>1. a \in Seq(Spans) /\ Agree(csv, file, s, Len(a))
        /\ (\A j \in 1 .. Len(a) : a[j] = Scanned(csv, file)[j])
    BY <1>4, <1>5
  <2> HIDE DEF a, s
  <2>2. Completes(csv, file, a, s)
    BY <2>1, GoesOn
  <2> QED
    BY <2>2 DEF a, s, Completes
<1> QED
  BY <1>6 DEF first

\* A scan from the start of any record finds that record and all that follow: the
\* boundaries that the index keeps are places to start from (scan.rs: at_offset;
\* viewport.rs: read_viewport).
THEOREM BoundariesStartTheRest ==
    ASSUME NEW csv \in BOOLEAN, NEW file \in Seq(Bytes), NEW j \in 1 .. Len(Records(csv, file))
    PROVE  LET start == Records(csv, file)[j].start
               fed == Feed(csv, ScannerAt(start), Rest(file, start), Len(file) + 1)
           IN  SubSeq(Records(csv, file), 1, j - 1) \o fed.out \o Finish(fed.s)
                 = Records(csv, file)
<1> DEFINE all == Scanned(csv, file)
           start == all[j].start
           fed == Feed(csv, ScannerAt(start), Rest(file, start), Len(file) + 1)
           before == SubSeq(all, 1, j - 1)
<1>1. Records(csv, file) = all /\ all \in Seq(Spans) /\ j \in 1 .. Len(all)
  BY RecordsAreScanned, ScannedFacts
<1>2. start \in Nat /\ ScannerAt(start).offset = start
  BY <1>1, SpanOf, ScannerAtGood
<1>3. Agree(csv, file, ScannerAt(start), j - 1)
  BY <1>1, StartsAgree
<1> HIDE DEF start
<1>4. /\ before \in Seq(Spans) /\ Len(before) = j - 1
      /\ \A i \in 1 .. Len(before) : before[i] = all[i]
  <2> HIDE DEF all
  <2>1. 1 \in Int /\ j - 1 \in Int /\ \A i \in 1 .. j - 1 : all[i] \in Spans
    BY <1>1
  <2>2. /\ before \in Seq(Spans) /\ Len(before) = IF 1 <= j - 1 THEN (j - 1) - 1 + 1 ELSE 0
        /\ \A i \in 1 .. (j - 1) - 1 + 1 : before[i] = all[1 + i - 1]
    BY <2>1, SubSeqProperties
  <2> QED
    BY <1>1, <2>2
<1> HIDE DEF before
<1>5. before \o fed.out \o Finish(fed.s) = Records(csv, file)
  <2> DEFINE s == ScannerAt(start)
  <2>1. before \in Seq(Spans) /\ Agree(csv, file, s, Len(before))
        /\ (\A i \in 1 .. Len(before) : before[i] = Scanned(csv, file)[i])
    BY <1>3, <1>4
  <2> HIDE DEF s
  <2>2. Completes(csv, file, before, s)
    BY <2>1, GoesOn
  <2>3. s.offset = start
    BY <1>2 DEF s
  <2> QED
    BY <2>2, <2>3 DEF s, Completes
<1> QED
  BY <1>1, <1>5 DEF start, before

-----------------------------------------------------------------------------
(* The matcher.                                                              *)

\* The first k bytes of the pattern b are the last k of the text t before place c,
\* none of them before `from`.
Matches(b, t, from, k, c) ==
    k <= c - from /\ \A j \in 1 .. k : b[j] = t[c - k + j]

\* s is the longest such k up to top.
Longest(b, t, from, top, s, c) ==
    /\ s \in 0 .. top /\ Matches(b, t, from, s, c)
    /\ \A k \in s + 1 .. top : ~ Matches(b, t, from, k, c)

\* F is the table of borders of the first n prefixes.
Borders(b, F, n) == \A i \in 1 .. n : Longest(b, b, 1, i - 1, F[i], i)

LEMMA Nested ==
    ASSUME NEW b, NEW t, NEW from \in Int, NEW c \in Int, NEW s \in Nat, NEW k \in Nat, k < s,
           Matches(b, t, from, s, c)
    PROVE  Matches(b, t, from, k, c) <=> Matches(b, b, 1, k, s)
<1>1. ASSUME NEW j \in 1 .. k PROVE b[s - k + j] = t[c - k + j]
  <2>1. s - k + j \in 1 .. s /\ c - s + (s - k + j) = c - k + j
    OBVIOUS
  <2>2. b[s - k + j] = t[c - s + (s - k + j)]
    BY <2>1 DEF Matches
  <2> QED
    BY <2>1, <2>2
<1>2. k <= c - from /\ k <= s - 1
  BY DEF Matches
<1> QED
  BY <1>1, <1>2 DEF Matches

LEMMA MatchGrows ==
    ASSUME NEW b, NEW t, NEW from \in Int, NEW c \in Int, NEW k \in Nat
    PROVE  Matches(b, t, from, k + 1, c + 1) <=> Matches(b, t, from, k, c) /\ b[k + 1] = t[c + 1]
<1>1. \A j \in 1 .. k + 1 : (c + 1) - (k + 1) + j = c - k + j
  OBVIOUS
<1>2. (c - k) + (k + 1) = c + 1 /\ k + 1 \in 1 .. k + 1
  OBVIOUS
<1>3. \A j \in 1 .. k + 1 : j \in 1 .. k \/ j = k + 1
  OBVIOUS
<1>4. 1 .. k \subseteq 1 .. k + 1
  OBVIOUS
<1>5. k + 1 <= (c + 1) - from <=> k <= c - from
  OBVIOUS
<1>6. (\A j \in 1 .. k + 1 : b[j] = t[(c + 1) - (k + 1) + j])
        <=> (\A j \in 1 .. k : b[j] = t[c - k + j]) /\ b[k + 1] = t[c + 1]
  <2>1. (\A j \in 1 .. k + 1 : b[j] = t[(c + 1) - (k + 1) + j])
          <=> (\A j \in 1 .. k + 1 : b[j] = t[c - k + j])
    BY <1>1
  <2> QED
    BY <1>2, <1>3, <1>4, <2>1
<1> QED
  BY <1>5, <1>6 DEF Matches

-----------------------------------------------------------------------------
IsFall(f, b, F, byte, n) ==
    f = [s \in 0 .. n |-> IF s > 0 /\ b[s + 1] # byte THEN f[F[s]] ELSE s]

LEMMA FallExists ==
    ASSUME NEW b, NEW F, NEW byte
    PROVE  \A n \in Nat : (\A i \in 1 .. n : F[i] \in 0 .. i - 1) => \E f : IsFall(f, b, F, byte, n)
<1> DEFINE Down(n) == \A i \in 1 .. n : F[i] \in 0 .. i - 1
           N == {n \in Nat : Down(n) => \E f : IsFall(f, b, F, byte, n)}
<1>1. 0 \in N
  <2> DEFINE f == [s \in 0 .. 0 |-> 0]
  <2>1. f = [s \in 0 .. 0 |-> IF s > 0 /\ b[s + 1] # byte THEN f[F[s]] ELSE s]
    OBVIOUS
  <2>2. IsFall(f, b, F, byte, 0)
    BY <2>1 DEF IsFall
  <2> QED
    BY <2>2
<1>2. ASSUME NEW n \in Nat, n \in N PROVE n + 1 \in N
  <2>1. SUFFICES ASSUME Down(n + 1) PROVE \E f : IsFall(f, b, F, byte, n + 1)
    OBVIOUS
  <2>2. PICK f : IsFall(f, b, F, byte, n)
    BY <1>2, <2>1
  <2> DEFINE last == IF b[n + 2] # byte THEN f[F[n + 1]] ELSE n + 1
             g == [s \in 0 .. n + 1 |-> IF s = n + 1 THEN last ELSE f[s]]
  <2>3. g = [s \in 0 .. n + 1 |-> g[s]] /\ g[n + 1] = last /\ \A s \in 0 .. n : g[s] = f[s]
    <3> HIDE DEF last
    <3> QED
      OBVIOUS
  <2> HIDE DEF g
  <2>4. ASSUME NEW s \in 0 .. n + 1
        PROVE  g[s] = IF s > 0 /\ b[s + 1] # byte THEN g[F[s]] ELSE s
    <3>1. s > 0 => F[s] \in 0 .. s - 1 /\ F[s] \in 0 .. n
      BY <2>1
    <3>2. s > 0 => g[F[s]] = f[F[s]]
      BY <2>3, <3>1
    <3>3. CASE s = n + 1
      BY <2>3, <3>2, <3>3
    <3>4. CASE s # n + 1
      <4>1. s \in 0 .. n
        BY <3>4
      <4>2. f[s] = IF s > 0 /\ b[s + 1] # byte THEN f[F[s]] ELSE s
        BY <2>2, <4>1 DEF IsFall
      <4> QED
        BY <2>3, <3>2, <4>1, <4>2
    <3> QED
      BY <3>3, <3>4
  <2>5. IsFall(g, b, F, byte, n + 1)
    BY <2>3, <2>4 DEF IsFall
  <2> QED
    BY <2>5
<1> HIDE DEF N
<1>3. Nat \subseteq N
  BY <1>1, <1>2, NumbersByInduction
<1> QED
  BY <1>3 DEF N

\* Where the fall from s ends: at a border that the byte continues, or at none.
Falls(b, t, from, c, byte, s, at) ==
    /\ at \in 0 .. s /\ Matches(b, t, from, at, c)
    /\ at = 0 \/ b[at + 1] = byte
    /\ \A k \in at + 1 .. s : Matches(b, t, from, k, c) => b[k + 1] # byte

LEMMA FallStep ==
    ASSUME NEW b, NEW F, NEW byte, NEW n \in Nat, Borders(b, F, n),
           NEW f, IsFall(f, b, F, byte, n),
           NEW t, NEW from \in Int, NEW c \in Int, NEW s \in 0 .. n, Matches(b, t, from, s, c),
           \A r \in 0 .. s - 1 : Matches(b, t, from, r, c) => Falls(b, t, from, c, byte, r, f[r])
    PROVE  Falls(b, t, from, c, byte, s, f[s])
<1>1. f[s] = IF s > 0 /\ b[s + 1] # byte THEN f[F[s]] ELSE s
  BY DEF IsFall
<1>2. CASE ~ (s > 0 /\ b[s + 1] # byte)
  <2>1. f[s] = s
    BY <1>1, <1>2
  <2>2. s + 1 .. s = {}
    OBVIOUS
  <2> QED
    BY <1>2, <2>1, <2>2 DEF Falls
<1>3. CASE s > 0 /\ b[s + 1] # byte
  <2>1. Longest(b, b, 1, s - 1, F[s], s) /\ s \in Nat
    BY <1>3 DEF Borders
  <2>2. F[s] \in 0 .. s - 1 /\ F[s] \in Nat /\ F[s] < s /\ Matches(b, b, 1, F[s], s)
        /\ \A k \in F[s] + 1 .. s - 1 : ~ Matches(b, b, 1, k, s)
    BY <2>1 DEF Longest
  <2>3. Matches(b, t, from, F[s], c)
    BY <2>1, <2>2, Nested
  <2>4. Falls(b, t, from, c, byte, F[s], f[F[s]])
    BY <2>2, <2>3
  <2>5. f[s] = f[F[s]]
    BY <1>1, <1>3
  <2>6. ASSUME NEW k \in f[s] + 1 .. s, Matches(b, t, from, k, c) PROVE b[k + 1] # byte
    <3>0. f[s] \in 0 .. F[s]
      BY <2>4, <2>5 DEF Falls
    <3>1. CASE k = s
      BY <1>3, <3>1
    <3>2. CASE k <= F[s]
      <4>1. k \in f[F[s]] + 1 .. F[s]
        BY <2>2, <2>5, <3>0, <3>2
      <4> QED
        BY <2>4, <2>6, <4>1 DEF Falls
    <3>3. CASE F[s] < k /\ k < s
      <4>1. k \in F[s] + 1 .. s - 1 /\ k \in Nat
        BY <2>2, <3>0, <3>3
      <4>2. ~ Matches(b, b, 1, k, s)
        BY <2>2, <4>1
      <4> QED
        BY <2>1, <2>6, <3>3, <4>1, <4>2, Nested
    <3> QED
      BY <2>2, <3>0, <3>1, <3>2, <3>3
  <2>7. f[s] \in 0 .. s /\ Matches(b, t, from, f[s], c) /\ (f[s] = 0 \/ b[f[s] + 1] = byte)
    BY <2>2, <2>4, <2>5 DEF Falls
  <2> QED
    BY <2>6, <2>7 DEF Falls
<1> QED
  BY <1>2, <1>3

LEMMA FallIs ==
    ASSUME NEW b, NEW F, NEW byte, NEW n \in Nat, Borders(b, F, n),
           NEW f, IsFall(f, b, F, byte, n),
           NEW t, NEW from \in Int, NEW c \in Int, Matches(b, t, from, n, c)
    PROVE  Falls(b, t, from, c, byte, n, f[n])
<1> DEFINE Done(r) == Matches(b, t, from, r, c) => Falls(b, t, from, c, byte, r, f[r])
           N == {h \in Nat : h <= n => \A r \in 0 .. h : Done(r)}
<1>0. ASSUME NEW s \in 0 .. n, \A r \in 0 .. s - 1 : Done(r) PROVE Done(s)
  BY <1>0, FallStep
<1> HIDE DEF Done
<1>1. 0 \in N
  <2>1. 0 \in 0 .. n /\ \A r \in 0 .. 0 - 1 : Done(r)
    OBVIOUS
  <2>2. Done(0)
    BY <1>0, <2>1
  <2> QED
    BY <2>2
<1>2. ASSUME NEW h \in Nat, h \in N PROVE h + 1 \in N
  <2>1. SUFFICES ASSUME h + 1 <= n PROVE \A r \in 0 .. h + 1 : Done(r)
    OBVIOUS
  <2>2. \A r \in 0 .. h : Done(r)
    BY <1>2, <2>1
  <2>3. h + 1 \in 0 .. n /\ \A r \in 0 .. (h + 1) - 1 : Done(r)
    BY <2>1, <2>2
  <2>4. Done(h + 1)
    BY <1>0, <2>3
  <2> QED
    BY <2>2, <2>4
<1> HIDE DEF N
<1>3. Nat \subseteq N
  BY <1>1, <1>2, NumbersByInduction
<1>4. Done(n)
  BY <1>3 DEF N
<1> QED
  BY <1>4 DEF Done

LEMMA MatchShrinks ==
    ASSUME NEW b, NEW t, NEW from \in Int, NEW c \in Int, NEW k \in Nat, k > 0,
           NEW d, d = c + 1, Matches(b, t, from, k, d), NEW less, less = k - 1
    PROVE  Matches(b, t, from, less, c) /\ b[k] = t[d]
<1> DEFINE h == k - 1
<1>1. h \in Nat /\ h + 1 = k
  OBVIOUS
<1> HIDE DEF h
<1>2. Matches(b, t, from, h + 1, c + 1)
  BY <1>1
<1>3. Matches(b, t, from, h, c) /\ b[h + 1] = t[c + 1]
  BY <1>1, <1>2, MatchGrows
<1> QED
  BY <1>1, <1>3 DEF h

\* One step of the matcher, before a whole match is looked at.
LEMMA FallBackIs ==
    ASSUME NEW b, NEW F, NEW byte, NEW t, NEW from \in Int, NEW c \in Int, from <= c,
           NEW top \in Nat, NEW state, Longest(b, t, from, top, state, c),
           Borders(b, F, state), t[c + 1] = byte
    PROVE  Longest(b, t, from, top + 1, FallBack(b, F, state, byte), c + 1)
<1> DEFINE Fall(f) == f = [s \in 0 .. state |-> IF s > 0 /\ b[s + 1] # byte THEN f[F[s]] ELSE s]
           fall == CHOOSE f : Fall(f)
           at == fall[state]
           r == FallBack(b, F, state, byte)
<1>1. state \in 0 .. top /\ state \in Nat /\ Matches(b, t, from, state, c)
      /\ \A k \in state + 1 .. top : ~ Matches(b, t, from, k, c)
  BY DEF Longest
<1>2. r = IF b[at + 1] = byte THEN at + 1 ELSE at
  BY Zenon DEF FallBack
<1>3. Fall(fall)
  <2>1. \A i \in 1 .. state : F[i] \in 0 .. i - 1
    BY DEF Borders, Longest
  <2>2. \E f : IsFall(f, b, F, byte, state)
    BY <1>1, <2>1, FallExists
  <2>3. \E f : Fall(f)
    BY <2>2 DEF IsFall
  <2> HIDE DEF Fall
  <2> QED
    BY <2>3, Zenon
<1> HIDE DEF fall, r
<1>4. Falls(b, t, from, c, byte, state, at)
  <2>1. IsFall(fall, b, F, byte, state)
    BY <1>3 DEF IsFall
  <2> QED
    BY <1>1, <2>1, FallIs
<1>5. /\ at \in 0 .. state /\ at \in Nat /\ Matches(b, t, from, at, c)
      /\ at = 0 \/ b[at + 1] = byte
      /\ \A k \in at + 1 .. state : Matches(b, t, from, k, c) => b[k + 1] # byte
  BY <1>1, <1>4 DEF Falls
<1> HIDE DEF at
<1>6. r \in 0 .. top + 1 /\ Matches(b, t, from, r, c + 1)
  <2>1. CASE b[at + 1] = byte
    <3>1. Matches(b, t, from, at + 1, c + 1)
      BY <1>5, <2>1, MatchGrows
    <3> QED
      BY <1>1, <1>2, <1>5, <2>1, <3>1
  <2>2. CASE b[at + 1] # byte
    <3>1. at = 0 /\ r = 0
      BY <1>2, <1>5, <2>2
    <3> QED
      BY <3>1 DEF Matches
  <2> QED
    BY <2>1, <2>2
<1>7. ASSUME NEW k \in r + 1 .. top + 1, Matches(b, t, from, k, c + 1) PROVE FALSE
  <2>1. k - 1 \in Nat /\ (k - 1) + 1 = k
    BY <1>6
  <2>2. Matches(b, t, from, k - 1, c) /\ b[k] = byte
    <3>1. k \in Nat /\ k > 0 /\ Matches(b, t, from, k, c + 1)
      BY <1>7, <2>1
    <3> DEFINE d == c + 1
               less == k - 1
    <3>2. d = c + 1 /\ less = k - 1 /\ t[d] = byte /\ Matches(b, t, from, k, d)
      BY <3>1
    <3> HIDE DEF r, at, d, less, Fall
    <3>3. Matches(b, t, from, less, c) /\ b[k] = t[d]
      BY <3>1, <3>2, MatchShrinks
    <3> QED
      BY <3>2, <3>3 DEF less
  <2>3. ~ (k - 1 \in state + 1 .. top)
    BY <1>1, <2>2
  <2>4. k - 1 <= state
    BY <1>1, <1>6, <2>1, <2>3
  <2>5. ~ (k - 1 \in at + 1 .. state)
    BY <1>5, <2>1, <2>2
  <2>6. k - 1 <= at
    BY <1>1, <1>5, <2>1, <2>4, <2>5
  <2>7. r <= at /\ b[at + 1] # byte
    BY <1>2, <1>5, <1>6, <2>6
  <2>8. at = 0 /\ r = 0 /\ k = 1
    BY <1>2, <1>5, <1>6, <2>1, <2>6, <2>7
  <2> QED
    BY <2>2, <2>7, <2>8
<1>8. Longest(b, t, from, top + 1, r, c + 1)
  BY <1>6, <1>7 DEF Longest
<1> QED
  BY <1>8 DEF r

-----------------------------------------------------------------------------
\* CompiledLiteral::new: the needle, and its table.
Pattern(needle, fold) == [i \in 1 .. Len(needle) |-> Folded(fold, needle[i])]

Entry(b, T, i) ==
    IF i = 1 THEN <<0>> ELSE Append(T[i - 1], FallBack(b, T[i - 1], T[i - 1][i - 1], b[i]))

LEMMA TableExists ==
    ASSUME NEW b
    PROVE  \A m \in Nat : \E T : T = [i \in 1 .. m |-> Entry(b, T, i)]
<1> DEFINE Is(T, m) == T = [i \in 1 .. m |-> Entry(b, T, i)]
           N == {m \in Nat : \E T : Is(T, m)}
<1>1. 0 \in N
  <2> DEFINE T == [i \in 1 .. 0 |-> 0]
  <2>1. Is(T, 0)
    OBVIOUS
  <2> HIDE DEF Is
  <2> QED
    BY <2>1
<1>2. ASSUME NEW m \in Nat, m \in N PROVE m + 1 \in N
  <2>1. PICK T : Is(T, m)
    BY <1>2
  <2> DEFINE last == Entry(b, T, m + 1)
             G == [i \in 1 .. m + 1 |-> IF i = m + 1 THEN last ELSE T[i]]
  <2>2. G = [i \in 1 .. m + 1 |-> G[i]] /\ G[m + 1] = last /\ \A i \in 1 .. m : G[i] = T[i]
    <3> HIDE DEF last
    <3> QED
      OBVIOUS
  <2> HIDE DEF G
  <2>3. ASSUME NEW i \in 1 .. m + 1 PROVE G[i] = Entry(b, G, i)
    <3>1. i = 1 \/ G[i - 1] = T[i - 1]
      <4>1. i = 1 \/ i - 1 \in 1 .. m
        OBVIOUS
      <4> QED
        BY <2>2, <4>1
    <3>2. Entry(b, G, i) = Entry(b, T, i)
      BY <3>1 DEF Entry
    <3>3. CASE i = m + 1
      BY <2>2, <3>2, <3>3
    <3>4. CASE i # m + 1
      <4>1. i \in 1 .. m
        BY <3>4
      <4>2. T[i] = Entry(b, T, i)
        BY <2>1, <4>1
      <4> QED
        BY <2>2, <3>2, <4>1, <4>2
    <3> QED
      BY <3>3, <3>4
  <2>4. Is(G, m + 1)
    <3> DEFINE H == [i \in 1 .. m + 1 |-> Entry(b, G, i)]
    <3>1. H = [i \in 1 .. m + 1 |-> H[i]] /\ \A i \in 1 .. m + 1 : H[i] = Entry(b, G, i)
      OBVIOUS
    <3> HIDE DEF H
    <3>2. G = H
      BY <2>2, <2>3, <3>1
    <3> QED
      BY <3>2 DEF H
  <2> HIDE DEF Is
  <2> QED
    BY <2>4
<1> HIDE DEF N
<1>3. Nat \subseteq N
  BY <1>1, <1>2, NumbersByInduction
<1> QED
  BY <1>3 DEF N

\* The i-th entry is the table of the first i borders.
IsTable(b, F, i) == F \in Seq(Nat) /\ Len(F) = i /\ Borders(b, F, i)

LEMMA FirstTable ==
    ASSUME NEW b PROVE IsTable(b, <<0>>, 1)
<1> DEFINE F == <<0>>
<1>1. F \in Seq(Nat) /\ Len(F) = 1 /\ F[1] = 0
  OBVIOUS
<1> HIDE DEF F
<1>2. Longest(b, b, 1, 0, 0, 1)
  BY DEF Longest, Matches
<1>3. \A i \in 1 .. 1 : i = 1
  OBVIOUS
<1>4. Borders(b, F, 1)
  BY <1>1, <1>2, <1>3 DEF Borders
<1> QED
  BY <1>1, <1>4 DEF IsTable, F

LEMMA NextTable ==
    ASSUME NEW b, NEW i \in Nat, i > 0, NEW F, IsTable(b, F, i)
    PROVE  IsTable(b, Append(F, FallBack(b, F, F[i], b[i + 1])), i + 1)
<1> DEFINE r == FallBack(b, F, F[i], b[i + 1])
           G == Append(F, r)
<1>1. F \in Seq(Nat) /\ Len(F) = i /\ \A j \in 1 .. i : Longest(b, b, 1, j - 1, F[j], j)
  BY DEF IsTable, Borders
<1>2. Longest(b, b, 1, i - 1, F[i], i) /\ F[i] \in 0 .. i - 1
  BY <1>1 DEF Longest
<1>3. Longest(b, b, 1, (i - 1) + 1, r, i + 1)
  <2> DEFINE s == F[i]
             top == i - 1
  <2>1. Longest(b, b, 1, top, s, i) /\ s \in 0 .. top /\ top \in Nat /\ Borders(b, F, s)
    BY <1>1, <1>2 DEF Borders
  <2> HIDE DEF s, top
  <2>2. Longest(b, b, 1, top + 1, FallBack(b, F, s, b[i + 1]), i + 1)
    BY <2>1, FallBackIs
  <2> QED
    BY <2>2 DEF s, top
<1>4. Longest(b, b, 1, i, r, i + 1) /\ r \in Nat
  <2>1. (i - 1) + 1 = i
    OBVIOUS
  <2>2. Longest(b, b, 1, i, r, i + 1)
    BY <1>3, <2>1
  <2> QED
    BY <2>2 DEF Longest
<1> HIDE DEF r
<1>5. G \in Seq(Nat) /\ Len(G) = i + 1 /\ G[i + 1] = r /\ \A j \in 1 .. i : G[j] = F[j]
  BY <1>1, <1>4
<1> HIDE DEF G
<1>6. ASSUME NEW j \in 1 .. i + 1 PROVE Longest(b, b, 1, j - 1, G[j], j)
  <2>1. CASE j \in 1 .. i
    BY <1>1, <1>5, <2>1
  <2>2. CASE j = i + 1
    BY <1>4, <1>5, <2>2
  <2> QED
    BY <2>1, <2>2
<1>7. Borders(b, G, i + 1)
  BY <1>6 DEF Borders
<1> QED
  BY <1>5, <1>7 DEF IsTable, G, r

LEMMA TableIs ==
    ASSUME NEW b, NEW m \in Nat, NEW T, T = [i \in 1 .. m |-> Entry(b, T, i)]
    PROVE  \A i \in 1 .. m : IsTable(b, T[i], i)
<1> DEFINE N == {h \in Nat : h + 1 <= m => IsTable(b, T[h + 1], h + 1)}
<1>0. \A i \in 1 .. m : T[i] = Entry(b, T, i)
  OBVIOUS
<1>1. 0 \in N
  <2>1. SUFFICES ASSUME 1 <= m PROVE IsTable(b, T[1], 1)
    OBVIOUS
  <2>2. T[1] = <<0>>
    BY <1>0, <2>1 DEF Entry
  <2> QED
    BY <2>2, FirstTable
<1>2. ASSUME NEW h \in Nat, h \in N PROVE h + 1 \in N
  <2>1. SUFFICES ASSUME h + 2 <= m PROVE IsTable(b, T[h + 2], h + 2)
    OBVIOUS
  <2> DEFINE F == T[h + 1]
             i == h + 1
  <2>2. IsTable(b, F, i) /\ i \in Nat /\ i > 0
    BY <1>2, <2>1
  <2>3. T[h + 2] = Append(F, FallBack(b, F, F[i], b[i + 1]))
    <3>1. h + 2 \in 1 .. m /\ h + 2 # 1 /\ (h + 2) - 1 = h + 1 /\ i + 1 = h + 2
      BY <2>1
    <3>2. T[h + 2] = Entry(b, T, h + 2)
      BY <1>0, <3>1
    <3> QED
      BY <3>1, <3>2 DEF Entry
  <2>4. i + 1 = h + 2
    OBVIOUS
  <2> HIDE DEF F, i
  <2>5. IsTable(b, Append(F, FallBack(b, F, F[i], b[i + 1])), i + 1)
    BY <2>2, NextTable
  <2> QED
    BY <2>3, <2>4, <2>5
<1> HIDE DEF N
<1>3. Nat \subseteq N
  BY <1>1, <1>2, NumbersByInduction
<1>4. ASSUME NEW i \in 1 .. m PROVE IsTable(b, T[i], i)
  <2>1. i - 1 \in Nat /\ (i - 1) + 1 = i
    OBVIOUS
  <2>2. i - 1 \in N
    BY <1>3, <2>1
  <2> QED
    BY <2>1, <2>2 DEF N
<1> QED
  BY <1>4

LEMMA CompiledIs ==
    ASSUME NEW needle, Len(needle) \in Nat, Len(needle) > 0, NEW fold
    PROVE  /\ Compiled(needle, fold).bytes = Pattern(needle, fold)
           /\ Compiled(needle, fold).fold = fold
           /\ IsTable(Pattern(needle, fold), Compiled(needle, fold).failure, Len(needle))
<1> DEFINE b == Pattern(needle, fold)
           m == Len(needle)
           Is(T) == T = [i \in 1 .. m |->
                IF i = 1 THEN <<0>>
                ELSE Append(T[i - 1], FallBack(b, T[i - 1], T[i - 1][i - 1], b[i]))]
           table == CHOOSE T : Is(T)
<1>1. Compiled(needle, fold) = [bytes |-> b, failure |-> table[m], fold |-> fold]
  BY DEF Compiled, Pattern
<1>2. Is(table)
  <2>1. \E T : T = [i \in 1 .. m |-> Entry(b, T, i)]
    BY TableExists
  <2>2. \E T : Is(T)
    BY <2>1 DEF Entry
  <2> HIDE DEF Is
  <2> QED
    BY <2>2, Zenon
<1> HIDE DEF table, b
<1>3. table = [i \in 1 .. m |-> Entry(b, table, i)]
  BY <1>2 DEF Entry
<1>4. IsTable(b, table[m], m)
  BY <1>3, TableIs
<1> QED
  BY <1>1, <1>4 DEF b

\* One byte of the search: a match is reported exactly where the needle ends, and
\* the state goes on being the longest part of the needle that the text ends with.
LEMMA AdvanceIs ==
    ASSUME NEW needle, Len(needle) \in Nat, Len(needle) > 0, NEW fold,
           NEW t, NEW from \in Int, NEW c \in Int, from <= c, NEW byte, t[c + 1] = Folded(fold, byte),
           NEW state, Longest(Pattern(needle, fold), t, from, Len(needle) - 1, state, c)
    PROVE  LET next == Advance(Compiled(needle, fold), state, byte)
           IN  /\ next.matched = Matches(Pattern(needle, fold), t, from, Len(needle), c + 1)
               /\ Longest(Pattern(needle, fold), t, from, Len(needle) - 1, next.state, c + 1)
<1> DEFINE b == Pattern(needle, fold)
           m == Len(needle)
           lit == Compiled(needle, fold)
           F == lit.failure
           x == Folded(fold, byte)
           r == FallBack(b, F, state, x)
           next == Advance(lit, state, byte)
<1>1. lit.bytes = b /\ lit.fold = fold /\ IsTable(b, F, m)
  BY CompiledIs
<1>2. Len(b) = m
  BY DEF Pattern
<1>3. next = IF r = m THEN [state |-> F[r], matched |-> TRUE] ELSE [state |-> r, matched |-> FALSE]
  BY <1>1, <1>2 DEF Advance
<1> HIDE DEF b, lit, F, x, next
<1>4. state \in 0 .. m - 1 /\ \A i \in 1 .. m : Longest(b, b, 1, i - 1, F[i], i)
  BY <1>1 DEF IsTable, Borders, Longest, b
<1>5. Longest(b, t, from, (m - 1) + 1, r, c + 1)
  <2> DEFINE top == m - 1
  <2>1. top \in Nat /\ Longest(b, t, from, top, state, c) /\ Borders(b, F, state) /\ t[c + 1] = x
    BY <1>4 DEF b, x, Borders
  <2> HIDE DEF top, r
  <2>2. Longest(b, t, from, top + 1, FallBack(b, F, state, x), c + 1)
    BY <2>1, FallBackIs
  <2> QED
    BY <2>2 DEF top, r
<1> HIDE DEF r
<1>6. r \in 0 .. m /\ Matches(b, t, from, r, c + 1)
      /\ \A k \in r + 1 .. m : ~ Matches(b, t, from, k, c + 1)
  <2>1. (m - 1) + 1 = m
    OBVIOUS
  <2> QED
    BY <1>5, <2>1 DEF Longest
<1>7. CASE r # m
  <2>1. m \in r + 1 .. m
    BY <1>6, <1>7
  <2>2. ~ Matches(b, t, from, m, c + 1)
    BY <1>6, <2>1
  <2>3. Longest(b, t, from, m - 1, r, c + 1)
    BY <1>6, <1>7 DEF Longest
  <2>4. next.matched = FALSE /\ next.state = r
    BY <1>3, <1>7
  <2> QED
    BY <2>2, <2>3, <2>4, Zenon DEF next, lit, b, m, Matches
<1>8. CASE r = m
  <2>1. Longest(b, b, 1, m - 1, F[m], m) /\ F[m] \in 0 .. m - 1 /\ F[m] \in Nat
    BY <1>4 DEF Longest
  <2>2. Matches(b, t, from, m, c + 1)
    BY <1>6, <1>8
  <2>3. Matches(b, t, from, F[m], c + 1)
    <3>1. F[m] < m /\ Matches(b, b, 1, F[m], m)
      BY <2>1 DEF Longest
    <3> DEFINE k == F[m]
               d == c + 1
    <3>2. k \in Nat /\ k < m /\ Matches(b, b, 1, k, m) /\ d \in Int /\ Matches(b, t, from, m, d)
      BY <2>1, <2>2, <3>1
    <3> HIDE DEF k, d, m
    <3>3. m \in Nat
      BY DEF m
    <3>4. Matches(b, t, from, k, d)
      BY <3>2, <3>3, Nested
    <3> QED
      BY <3>4 DEF k, d
  <2>4. ASSUME NEW k \in F[m] + 1 .. m - 1, Matches(b, t, from, k, c + 1) PROVE FALSE
    <3> DEFINE d == c + 1
    <3>1. k \in Nat /\ k < m /\ d \in Int /\ Matches(b, t, from, k, d) /\ Matches(b, t, from, m, d)
      BY <2>1, <2>2, <2>4
    <3>2. ~ Matches(b, b, 1, k, m)
      BY <2>1, <2>4 DEF Longest
    <3> HIDE DEF d
    <3>3. Matches(b, b, 1, k, m)
      BY <3>1, Nested
    <3> QED
      BY <3>2, <3>3
  <2>5. Longest(b, t, from, m - 1, F[m], c + 1)
    BY <2>1, <2>3, <2>4 DEF Longest
  <2>6. next.matched = TRUE /\ next.state = F[m]
    BY <1>3, <1>8
  <2> QED
    BY <2>2, <2>5, <2>6, Zenon DEF next, lit, b, m, Matches
<1> QED
  BY <1>7, <1>8

\* g lists the numbers of P in order.
Lists(g, P) ==
    /\ g \in Seq(Nat) /\ P = {g[i] : i \in 1 .. Len(g)}
    /\ \A j \in 1 .. Len(g) : \A i \in 1 .. j - 1 : g[i] < g[j]

\* The number of P with i - 1 others before it.
Nth(P, i) == CHOOSE p \in P : Cardinality({r \in P : r < p}) = i - 1

\* A rank is a place in the list.
LEMMA NthIs ==
    ASSUME NEW P, NEW g, Lists(g, P)
    PROVE  Cardinality(P) = Len(g) /\ \A i \in 1 .. Len(g) : Nth(P, i) = g[i]
<1> DEFINE n == Len(g)
           below(r) == {q \in P : q < r}
<1>0. n \in Nat /\ (\A i \in 1 .. n : g[i] \in Nat) /\ P = {g[i] : i \in 1 .. n}
  BY DEF Lists
<1>1. \A i, j \in 1 .. n : g[i] < g[j] <=> i < j
  <2>1. ASSUME NEW i \in 1 .. n, NEW j \in 1 .. n, i < j PROVE g[i] < g[j]
    BY <1>0, <2>1 DEF Lists
  <2> HIDE DEF n
  <2>2. ASSUME NEW i \in 1 .. n, NEW j \in 1 .. n, g[i] < g[j] PROVE i < j
    <3>1. CASE j < i
      BY <1>0, <2>1, <2>2, <3>1
    <3>2. CASE i = j
      BY <1>0, <2>2, <3>2
    <3> QED
      BY <1>0, <3>1, <3>2
  <2> QED
    BY <2>1, <2>2
<1>2. \A i, j \in 1 .. n : g[i] = g[j] => i = j
  <2>1. ASSUME NEW i \in 1 .. n, NEW j \in 1 .. n, g[i] = g[j] PROVE ~ i < j /\ ~ j < i
    BY <1>0, <1>1, <2>1
  <2> QED
    BY <1>0, <2>1
<1>3. ASSUME NEW k \in 0 .. n
      PROVE  Cardinality({g[i] : i \in 1 .. k}) = k
  <2> DEFINE S == {g[i] : i \in 1 .. k}
             f == [i \in 1 .. k |-> g[i]]
  <2>1. f \in Bijection(1 .. k, S)
    <3>1. \A i \in 1 .. k : i \in 1 .. n
      BY <1>0
    <3>2. f \in [1 .. k -> S] /\ \A i, j \in 1 .. k : f[i] = f[j] => i = j
      BY <1>2, <3>1
    <3>3. \A t \in S : \E i \in 1 .. k : f[i] = t
      OBVIOUS
    <3> QED
      BY <3>2, <3>3 DEF Bijection, Injection, Surjection, IsInjective
  <2>2. ExistsBijection(1 .. k, S) /\ k \in Nat
    <3> HIDE DEF f, S
    <3> QED
      BY <1>0, <2>1 DEF ExistsBijection
  <2> HIDE DEF S
  <2> QED
    BY <2>2, FS_CountingElements DEF S
<1>4. Cardinality(P) = n
  <2>1. n \in 0 .. n
    BY <1>0
  <2> HIDE DEF n
  <2>2. Cardinality({g[i] : i \in 1 .. n}) = n
    BY <1>3, <2>1
  <2> QED
    BY <1>0, <2>2
<1>5. ASSUME NEW i \in 1 .. n PROVE Cardinality(below(g[i])) = i - 1
  <2>1. below(g[i]) = {g[j] : j \in 1 .. i - 1}
    <3>1. \A j \in 1 .. n : j < i <=> j \in 1 .. i - 1
      BY <1>0
    <3>2. \A j \in 1 .. i - 1 : j \in 1 .. n
      BY <1>0
    <3> HIDE DEF n
    <3> QED
      BY <1>0, <1>1, <3>1, <3>2
  <2>2. i - 1 \in 0 .. n
    BY <1>0
  <2> QED
    BY <1>3, <2>1, <2>2
<1>6. ASSUME NEW i \in 1 .. n PROVE Nth(P, i) = g[i]
  <2>1. ASSUME NEW r \in P, Cardinality(below(r)) = i - 1 PROVE r = g[i]
    <3>1. PICK j \in 1 .. n : r = g[j]
      BY <1>0
    <3> HIDE DEF below, n
    <3>2. j - 1 = i - 1
      BY <1>5, <2>1, <3>1
    <3>3. j = i
      BY <1>0, <3>2
    <3> QED
      BY <3>1, <3>3
  <2>2. g[i] \in P
    BY <1>0
  <2>3. (CHOOSE r \in P : Cardinality(below(r)) = i - 1) = g[i]
    <3> HIDE DEF below, n
    <3> QED
      BY <1>5, <2>1, <2>2
  <2> QED
    BY <2>3 DEF Nth
<1> QED
  BY <1>4, <1>6

\* A number beyond all others comes last.
LEMMA ListGrows ==
    ASSUME NEW P, NEW g, Lists(g, P), NEW x \in Nat, \A p \in P : p < x
    PROVE  Lists(Append(g, x), P \cup {x})
<1> DEFINE h == Append(g, x)
           n == Len(g)
<1>1. n \in Nat /\ g \in Seq(Nat) /\ P = {g[i] : i \in 1 .. n}
      /\ \A j \in 1 .. n : \A i \in 1 .. j - 1 : g[i] < g[j]
  BY DEF Lists
<1>2. h \in Seq(Nat) /\ Len(h) = n + 1 /\ h[n + 1] = x /\ \A i \in 1 .. n : h[i] = g[i]
  BY <1>1
<1> HIDE DEF h, n
<1>3. \A i \in 1 .. n + 1 : i \in 1 .. n \/ i = n + 1
  BY <1>1
<1>4. 1 .. n \subseteq 1 .. n + 1 /\ n + 1 \in 1 .. n + 1
  BY <1>1
<1>5. {h[i] : i \in 1 .. n + 1} = P \cup {x}
  BY <1>1, <1>2, <1>3, <1>4
<1>6. ASSUME NEW j \in 1 .. n + 1, NEW i \in 1 .. j - 1 PROVE h[i] < h[j]
  <2>1. i \in 1 .. n
    BY <1>1
  <2>2. CASE j \in 1 .. n
    BY <1>1, <1>2, <2>1, <2>2
  <2>3. CASE j = n + 1
    BY <1>1, <1>2, <2>1, <2>3
  <2> QED
    BY <1>3, <2>2, <2>3
<1> QED
  BY <1>2, <1>5, <1>6 DEF Lists, h

-----------------------------------------------------------------------------
\* Where the needle stands before place c, not before `start`.
Places(needle, fold, file, start, c) ==
    {o \in start .. c - Len(needle) : StandsAt(needle, fold, file, o)}

\* The hits in that part of a record.
PartHits(needle, fold, file, row, start, c) == HitsIn(needle, fold, file, row, Span(start, c))

HitAt(row, m, o) == [row |-> row, span |-> Span(o, o + m)]

LEMMA PartHitsAre ==
    ASSUME NEW needle, NEW fold, NEW file, NEW row, NEW start, NEW c
    PROVE  LET P == Places(needle, fold, file, start, c)
           IN  PartHits(needle, fold, file, row, start, c)
                 = [i \in 1 .. Cardinality(P) |-> HitAt(row, Len(needle), Nth(P, i))]
BY DEF PartHits, HitsIn, Places, HitAt, Nth, Span

LEMMA ListedHits ==
    ASSUME NEW needle, NEW fold, NEW file, NEW row, NEW start, NEW c,
           NEW g, Lists(g, Places(needle, fold, file, start, c))
    PROVE  PartHits(needle, fold, file, row, start, c)
             = [i \in 1 .. Len(g) |-> HitAt(row, Len(needle), g[i])]
<1> DEFINE P == Places(needle, fold, file, start, c)
           m == Len(needle)
<1>1. Cardinality(P) = Len(g) /\ \A i \in 1 .. Len(g) : Nth(P, i) = g[i]
  <2> HIDE DEF P
  <2> QED
    BY NthIs DEF P
<1>2. PartHits(needle, fold, file, row, start, c)
        = [i \in 1 .. Cardinality(P) |-> HitAt(row, m, Nth(P, i))]
  BY PartHitsAre
<1> HIDE DEF P, m
<1>3. [i \in 1 .. Cardinality(P) |-> HitAt(row, m, Nth(P, i))] = [i \in 1 .. Len(g) |-> HitAt(row, m, g[i])]
  BY <1>1
<1> QED
  BY <1>2, <1>3 DEF m

\* From Q at c to P at c - 1, of which o is not.
Grows(P, Q, o, start, stands) ==
    /\ \A p \in P : p \in Nat /\ p < o
    /\ Q = IF start <= o /\ stands THEN P \cup {o} ELSE P

LEMMA PlacesGrow ==
    ASSUME NEW needle, Len(needle) \in Nat, NEW fold, NEW file, NEW start \in Nat, NEW c \in Nat,
           NEW o, o = c + 1 - Len(needle)
    PROVE  Grows(Places(needle, fold, file, start, c), Places(needle, fold, file, start, c + 1),
                 o, start, StandsAt(needle, fold, file, o))
<1> DEFINE m == Len(needle)
           P == Places(needle, fold, file, start, c)
           Q == Places(needle, fold, file, start, c + 1)
           Stands(x) == StandsAt(needle, fold, file, x)
<1>1. P = {x \in start .. c - m : Stands(x)} /\ Q = {x \in start .. c + 1 - m : Stands(x)}
  BY DEF Places
<1> HIDE DEF P, Q, Stands
<1>2. \A p \in P : p \in Nat /\ p < o
  BY <1>1
<1>3. \A x : x \in Q <=> x \in P \/ (x = o /\ start <= o /\ Stands(o))
  BY <1>1
<1>4. Q = IF start <= o /\ Stands(o) THEN P \cup {o} ELSE P
  BY <1>3
<1> QED
  BY <1>2, <1>4 DEF P, Q, Stands, Grows

\* Every part of a record has its places in a list.
LEMMA PlacesListed ==
    ASSUME NEW needle, Len(needle) \in Nat, Len(needle) > 0, NEW fold, NEW file, NEW start \in Nat
    PROVE  \A d \in Nat : \E g : Lists(g, Places(needle, fold, file, start, start + d))
<1> DEFINE N == {d \in Nat : \E g : Lists(g, Places(needle, fold, file, start, start + d))}
           m == Len(needle)
<1>1. 0 \in N
  <2>1. Places(needle, fold, file, start, start + 0) = {}
    BY DEF Places
  <2>2. Lists(<<>>, {})
    BY DEF Lists
  <2> QED
    BY <2>1, <2>2
<1>2. ASSUME NEW d \in Nat, d \in N PROVE d + 1 \in N
  <2> DEFINE c == start + d
             o == c + 1 - m
             P == Places(needle, fold, file, start, c)
             Q == Places(needle, fold, file, start, c + 1)
  <2>1. PICK g : Lists(g, P)
    BY <1>2
  <2>2. c \in Nat /\ start + (d + 1) = c + 1
    OBVIOUS
  <2> HIDE DEF c
  <2>3. /\ \A p \in P : p \in Nat /\ p < o
        /\ Q = IF start <= o /\ StandsAt(needle, fold, file, o) THEN P \cup {o} ELSE P
    <3> HIDE DEF o
    <3>1. o = c + 1 - Len(needle)
      BY DEF o
    <3>2. Grows(Places(needle, fold, file, start, c), Places(needle, fold, file, start, c + 1),
                o, start, StandsAt(needle, fold, file, o))
      BY <2>2, <3>1, PlacesGrow
    <3> QED
      BY <3>2 DEF Grows
  <2>4. start <= o => o \in Nat
    BY <2>2
  <2> HIDE DEF P, Q, o
  <2>5. \E h : Lists(h, Q)
    <3>1. CASE start <= o /\ StandsAt(needle, fold, file, o)
      <4>1. Lists(Append(g, o), P \cup {o})
        BY <2>1, <2>3, <2>4, <3>1, ListGrows
      <4> QED
        BY <2>3, <3>1, <4>1
    <3>2. CASE ~ (start <= o /\ StandsAt(needle, fold, file, o))
      <4>1. Q = P
        BY <2>3, <3>2
      <4> QED
        BY <2>1, <4>1
    <3> QED
      BY <3>1, <3>2
  <2>6. d + 1 \in Nat
    OBVIOUS
  <2> QED
    BY <2>2, <2>5, <2>6 DEF Q
<1> HIDE DEF N
<1>3. Nat \subseteq N
  BY <1>1, <1>2, NumbersByInduction
<1> QED
  BY <1>3 DEF N

Hit == [row : Nat, span : Spans]

\* A hit is added where the needle ends with the next byte.
LEMMA PartHitsGrow ==
    ASSUME NEW needle, Len(needle) \in Nat, Len(needle) > 0, NEW fold, NEW file, NEW row \in Nat,
           NEW start \in Nat, NEW c \in Nat, start <= c
    PROVE  LET o == c + 1 - Len(needle)
               before == PartHits(needle, fold, file, row, start, c)
           IN  /\ before \in Seq(Hit)
               /\ PartHits(needle, fold, file, row, start, c + 1)
                    = IF start <= o /\ StandsAt(needle, fold, file, o)
                      THEN Append(before, HitAt(row, Len(needle), o)) ELSE before
               /\ start <= o => HitAt(row, Len(needle), o) \in Hit
<1> DEFINE m == Len(needle)
           o == c + 1 - m
           P == Places(needle, fold, file, start, c)
           Q == Places(needle, fold, file, start, c + 1)
           before == PartHits(needle, fold, file, row, start, c)
           after == PartHits(needle, fold, file, row, start, c + 1)
           hit(x) == HitAt(row, m, x)
           grows == start <= o /\ StandsAt(needle, fold, file, o)
<1>1. PICK g : Lists(g, P)
  <2>1. c - start \in Nat /\ start + (c - start) = c
    OBVIOUS
  <2>2. \E g : Lists(g, Places(needle, fold, file, start, start + (c - start)))
    BY <2>1, PlacesListed
  <2> QED
    BY <2>1, <2>2
<1>2. /\ \A p \in P : p \in Nat /\ p < o
      /\ Q = IF grows THEN P \cup {o} ELSE P
  <2> HIDE DEF o
  <2>1. o = c + 1 - Len(needle)
    BY DEF o
  <2>2. Grows(Places(needle, fold, file, start, c), Places(needle, fold, file, start, c + 1),
              o, start, StandsAt(needle, fold, file, o))
    BY <2>1, PlacesGrow
  <2> QED
    BY <2>2 DEF Grows
<1>3. \A x \in Nat : hit(x) \in Hit
  BY DEF HitAt, Hit, Span, Spans
<1>4. g \in Seq(Nat) /\ Len(g) \in Nat
  BY <1>1 DEF Lists
<1>5. before = [i \in 1 .. Len(g) |-> hit(g[i])]
  <2> HIDE DEF hit
  <2> QED
    BY <1>1, ListedHits DEF hit
<1>6. before \in Seq(Hit) /\ Len(before) = Len(g)
  <2> HIDE DEF hit
  <2> QED
    BY <1>3, <1>4, <1>5
<1>7. start <= o => o \in Nat
  OBVIOUS
<1>8. CASE grows
  <2>1. Lists(Append(g, o), Q)
    <3> HIDE DEF P, Q, o
    <3>1. o \in Nat
      BY <1>7, <1>8
    <3>2. Lists(Append(g, o), P \cup {o})
      BY <1>1, <1>2, <3>1, ListGrows
    <3> QED
      BY <1>2, <1>8, <3>2
  <2> DEFINE h == Append(g, o)
  <2>2. after = [i \in 1 .. Len(h) |-> hit(h[i])]
    <3> HIDE DEF hit, h
    <3>1. Lists(h, Places(needle, fold, file, start, c + 1))
      BY <2>1 DEF h
    <3> QED
      BY <3>1, ListedHits DEF hit
  <2>3. after = Append(before, hit(o))
    <3> HIDE DEF hit, o, before, after
    <3>1. o \in Nat
      BY <1>7, <1>8
    <3>2. Len(h) = Len(g) + 1 /\ h[Len(g) + 1] = o /\ \A i \in 1 .. Len(g) : h[i] = g[i]
      BY <1>4, <3>1
    <3> HIDE DEF h
    <3>3. \A i \in 1 .. Len(g) + 1 : i \in 1 .. Len(g) \/ i = Len(g) + 1
      BY <1>4
    <3> DEFINE b == Append(before, hit(o))
               n == Len(g)
    <3>4. hit(o) \in Hit /\ b \in Seq(Hit) /\ Len(b) = n + 1 /\ b[n + 1] = hit(o)
          /\ \A i \in 1 .. n : b[i] = before[i]
      BY <1>3, <1>6, <3>1
    <3>5. /\ after \in Seq(Hit) /\ Len(after) = n + 1
          /\ \A i \in 1 .. n + 1 : after[i] = hit(h[i])
      <4>1. \A i \in 1 .. n + 1 : h[i] \in Nat
        BY <1>4, <3>1, <3>2, <3>3
      <4>2. after = [i \in 1 .. n + 1 |-> hit(h[i])] /\ n + 1 \in Nat
        BY <1>4, <2>2, <3>2
      <4>3. \A i \in 1 .. n + 1 : hit(h[i]) \in Hit
        BY <1>3, <4>1
      <4> HIDE DEF n
      <4> QED
        BY <4>2, <4>3
    <3> HIDE DEF b, n
    <3>6. \A i \in 1 .. n + 1 : after[i] = b[i]
      BY <1>5, <3>2, <3>3, <3>4, <3>5 DEF n
    <3>7. after = b
      BY <3>4, <3>5, <3>6, SeqEqual
    <3> QED
      BY <3>7 DEF b
  <2> QED
    BY <1>3, <1>6, <1>7, <1>8, <2>3
<1>9. CASE ~ grows
  <2>1. Lists(g, Q)
    <3> HIDE DEF P, Q
    <3> QED
      BY <1>1, <1>2, <1>9
  <2>2. after = [i \in 1 .. Len(g) |-> hit(g[i])]
    <3> HIDE DEF hit
    <3> QED
      BY <2>1, ListedHits DEF hit
  <2> QED
    BY <1>3, <1>5, <1>6, <1>7, <1>9, <2>2
<1> QED
  BY <1>8, <1>9

LEMMA NoPartHits ==
    ASSUME NEW needle, Len(needle) \in Nat, Len(needle) > 0, NEW fold, NEW file, NEW row, NEW start \in Nat
    PROVE  PartHits(needle, fold, file, row, start, start) = <<>>
<1>1. Places(needle, fold, file, start, start) = {}
  BY DEF Places
<1>2. Lists(<<>>, {})
  BY DEF Lists
<1>3. Lists(<<>>, Places(needle, fold, file, start, start))
  BY <1>1, <1>2
<1> DEFINE g == <<>>
           hit(x) == HitAt(row, Len(needle), x)
<1> HIDE DEF g, hit
<1>4. PartHits(needle, fold, file, row, start, start) = [i \in 1 .. Len(g) |-> hit(g[i])]
  BY <1>3, ListedHits DEF g, hit
<1>5. Len(g) = 0
  BY DEF g
<1> QED
  BY <1>4, <1>5

\* Records lie in the file.
LEMMA RecordsInFile ==
    ASSUME NEW csv \in BOOLEAN, NEW file \in Seq(Bytes), NEW i \in 1 .. Len(Scanned(csv, file))
    PROVE  LET r == Scanned(csv, file)[i]
           IN  /\ r \in Spans /\ r = Span(r.start, r.end) /\ r.start \in Nat /\ r.end \in Nat
               /\ r.start <= r.end /\ r.end <= Len(file)
<1> DEFINE N == Len(file)
           T == Terminators(csv, file)
           last == At(csv, file, N)
           s == last.s
           out == last.out
           all == Scanned(csv, file)
<1>0. N \in Nat /\ N \in 0 .. N
  OBVIOUS
<1>1. Good(s) /\ s.offset = N /\ out \in Seq(Spans)
  BY <1>0, PassFacts DEF Fine
<1>2. Cuts(csv, file, N)
  BY <1>0, CutsAlways
<1>3. \A t \in T : t[1] < N
  BY TerminatorsFacts
<1>4. /\ all \in Seq(Spans)
      /\ ~ Begun(s) => Len(all) = Len(out)
      /\ Begun(s) => Len(all) = Len(out) + 1 /\ all[Len(out) + 1] = Ended(s)
      /\ \A j \in 1 .. Len(out) : all[j] = out[j]
  BY <1>0, ScannedFacts
<1>5. all[i] \in Spans /\ all[i].start \in Nat /\ all[i].end \in Nat
  BY <1>4, SpanOf
<1>6. all[i] = Span(all[i].start, all[i].end)
  BY <1>5 DEF Spans, Span
<1>7. CASE i \in 1 .. Len(out)
  <2>1. out[i].start <= out[i].end /\ <<out[i].end, From(out, s.start, i + 1)>> \in T
    BY <1>2, <1>7 DEF Cuts, Chained
  <2>2. out[i].end < N
    BY <1>3, <2>1
  <2> HIDE DEF T, all, out, s, last
  <2>3. all[i] = out[i]
    BY <1>4, <1>7
  <2> HIDE DEF N
  <2>4. all[i].start <= all[i].end /\ all[i].end <= N
    BY <1>0, <1>5, <2>1, <2>2, <2>3
  <2> QED
    BY <1>5, <1>6, <2>4 DEF all, N
<1>8. CASE i \notin 1 .. Len(out)
  <2>1. Len(out) \in Nat
    BY <1>1
  <2>2. Begun(s) /\ i = Len(out) + 1
    <3> HIDE DEF out, s, last
    <3> QED
      BY <1>4, <1>8, <2>1
  <2>3. all[i] = Ended(s)
    BY <1>4, <2>2
  <2>4. s.cr # NoCr => s.cr = N - 1 /\ s.start <= N - 1
    BY <1>2 DEF Cuts
  <2>5. Ended(s) = Span(s.start, IF s.cr # NoCr THEN s.cr ELSE N)
    BY <1>1 DEF Ended
  <2>6. s.cr = NoCr => s.start < N
    BY <1>1, <2>2 DEF Begun
  <2>7. s.start \in Nat
    BY <1>1 DEF Good
  <2>8. all[i].start <= all[i].end /\ all[i].end <= N
    <3> HIDE DEF all, s, last, T, out, N
    <3> QED
      BY <1>0, <2>3, <2>4, <2>5, <2>6, <2>7 DEF Span
  <2> QED
    BY <1>5, <1>6, <2>8
<1> QED
  BY <1>7, <1>8

-----------------------------------------------------------------------------
\* The file as the matcher compares it.
Text(fold, file) == [i \in 1 .. Len(file) |-> Folded(fold, file[i])]

\* A whole match is a place where the needle stands.
LEMMA EndsHere ==
    ASSUME NEW needle, Len(needle) \in Nat, Len(needle) > 0, NEW fold, NEW file, Len(file) \in Nat,
           NEW start \in Nat, NEW c \in Nat, c <= Len(file)
    PROVE  Matches(Pattern(needle, fold), Text(fold, file), start, Len(needle), c)
             <=> start <= c - Len(needle) /\ StandsAt(needle, fold, file, c - Len(needle))
<1> DEFINE m == Len(needle)
           o == c - m
           b == Pattern(needle, fold)
           t == Text(fold, file)
<1>1. \A j \in 1 .. m : b[j] = Folded(fold, needle[j])
  BY DEF Pattern
<1>2. ASSUME start <= o, NEW j \in 1 .. m PROVE t[o + j] = Folded(fold, file[o + j])
  <2>1. o + j \in 1 .. Len(file)
    BY <1>2
  <2> QED
    BY <2>1 DEF Text
<1>3. StandsAt(needle, fold, file, o) <=> \A j \in 1 .. m : Folded(fold, file[o + j]) = Folded(fold, needle[j])
  BY DEF StandsAt
<1>4. Matches(b, t, start, m, c) <=> m <= c - start /\ \A j \in 1 .. m : b[j] = t[o + j]
  BY DEF Matches
<1>5. m <= c - start <=> start <= o
  OBVIOUS
<1> HIDE DEF b, t, m, o
<1>6. Matches(b, t, start, m, c) <=> start <= o /\ StandsAt(needle, fold, file, o)
  <2>1. CASE start <= o
    <3>1. \A j \in 1 .. m : b[j] = t[o + j] <=> Folded(fold, file[o + j]) = Folded(fold, needle[j])
      BY <1>1, <1>2, <2>1
    <3> QED
      BY <1>3, <1>4, <1>5, <2>1, <3>1
  <2>2. CASE ~ start <= o
    BY <1>4, <1>5, <2>2
  <2> QED
    BY <2>1, <2>2
<1> QED
  BY <1>6 DEF b, t, m, o

-----------------------------------------------------------------------------
\* a is how `all` begins.
Begins(a, all) == Len(a) <= Len(all) /\ \A i \in 1 .. Len(a) : a[i] = all[i]

LEMMA BeginsSelf ==
    ASSUME NEW S, NEW a \in Seq(S) PROVE Begins(a, a)
BY DEF Begins

LEMMA BeginsOn ==
    ASSUME NEW S, NEW a \in Seq(S), NEW b \in Seq(S), NEW c \in Seq(S), Begins(a, b), Begins(b, c)
    PROVE  Begins(a, c)
BY DEF Begins

LEMMA BeginsAppend ==
    ASSUME NEW S, NEW a \in Seq(S), NEW x \in S
    PROVE  Begins(a, Append(a, x)) /\ Append(a, x) \in Seq(S) /\ Len(Append(a, x)) = Len(a) + 1
BY DEF Begins

LEMMA BeginsJoined ==
    ASSUME NEW S, NEW a \in Seq(S), NEW b \in Seq(S)
    PROVE  a \o b \in Seq(S) /\ Begins(a, a \o b)
<1> DEFINE c == a \o b
<1>1. /\ c \in Seq(S) /\ Len(c) = Len(a) + Len(b)
      /\ \A i \in 1 .. Len(a) + Len(b) : c[i] = IF i <= Len(a) THEN a[i] ELSE b[i - Len(a)]
  BY ConcatProperties
<1>2. Len(a) \in Nat /\ Len(b) \in Nat
  OBVIOUS
<1> HIDE DEF c
<1>3. Begins(a, c)
  BY <1>1, <1>2 DEF Begins
<1> QED
  BY <1>1, <1>3 DEF c

LEMMA BeginsBehind ==
    ASSUME NEW S, NEW a \in Seq(S), NEW b \in Seq(S), NEW d \in Seq(S), Begins(b, d)
    PROVE  Begins(a \o b, a \o d)
<1> DEFINE c == a \o b
           e == a \o d
<1>1. /\ c \in Seq(S) /\ Len(c) = Len(a) + Len(b)
      /\ \A i \in 1 .. Len(a) + Len(b) : c[i] = IF i <= Len(a) THEN a[i] ELSE b[i - Len(a)]
  BY ConcatProperties
<1>2. /\ e \in Seq(S) /\ Len(e) = Len(a) + Len(d)
      /\ \A i \in 1 .. Len(a) + Len(d) : e[i] = IF i <= Len(a) THEN a[i] ELSE d[i - Len(a)]
  BY ConcatProperties
<1>3. Len(a) \in Nat /\ Len(b) \in Nat /\ Len(d) \in Nat /\ Len(b) <= Len(d)
      /\ \A i \in 1 .. Len(b) : b[i] = d[i]
  BY DEF Begins
<1> HIDE DEF c, e
<1>4. ASSUME NEW i \in 1 .. Len(a) + Len(b) PROVE c[i] = e[i]
  <2>1. CASE i <= Len(a)
    BY <1>1, <1>2, <1>3, <2>1
  <2>2. CASE ~ i <= Len(a)
    <3> DEFINE j == i - Len(a)
    <3>1. j \in 1 .. Len(b) /\ i \in 1 .. Len(a) + Len(d)
      BY <1>3, <2>2
    <3>2. c[i] = b[j] /\ e[i] = d[j]
      BY <1>1, <1>2, <2>2, <3>1
    <3> HIDE DEF j
    <3>3. b[j] = d[j]
      BY <1>3, <3>1
    <3> QED
      BY <3>2, <3>3
  <2> QED
    BY <2>1, <2>2
<1>5. Begins(c, e)
  BY <1>1, <1>2, <1>3, <1>4 DEF Begins
<1> QED
  BY <1>5 DEF c, e

LEMMA BeginsSub ==
    ASSUME NEW S, NEW a \in Seq(S), NEW all \in Seq(S), Begins(a, all)
    PROVE  a = SubSeq(all, 1, Len(a))
<1> DEFINE n == Len(a)
           b == SubSeq(all, 1, n)
<1>1. n \in Nat /\ n <= Len(all) /\ Len(all) \in Nat /\ \A i \in 1 .. n : a[i] = all[i]
  BY DEF Begins
<1>2. \A i \in 1 .. n : all[i] \in S
  BY <1>1
<1>3. /\ b \in Seq(S) /\ Len(b) = IF 1 <= n THEN n - 1 + 1 ELSE 0
      /\ \A i \in 1 .. n - 1 + 1 : b[i] = all[1 + i - 1]
  <2> HIDE DEF n, b
  <2> QED
    BY <1>1, <1>2, SubSeqProperties DEF b
<1> HIDE DEF b, n
<1>4. Len(b) = n /\ \A i \in 1 .. n : b[i] = all[i]
  BY <1>1, <1>3
<1>5. Len(a) = n
  BY DEF n
<1>6. a = b
  BY <1>1, <1>3, <1>4, <1>5, SeqEqual
<1> QED
  BY <1>6 DEF b, n

Flats(S, ss, f, m) ==
    /\ f = [i \in 1 .. m |-> IF i = 1 THEN ss[i] ELSE f[i - 1] \o ss[i]]
    /\ \A i \in 1 .. m : f[i] \in Seq(S)

\* The sequences that FlattenSeq joins, one after another.
LEMMA FlatExists ==
    ASSUME NEW S, NEW ss \in Seq(Seq(S))
    PROVE  \A m \in Nat : m <= Len(ss) => \E f : Flats(S, ss, f, m)
<1> DEFINE N == {m \in Nat : m <= Len(ss) => \E f : Flats(S, ss, f, m)}
<1>1. 0 \in N
  <2>1. Flats(S, ss, <<>>, 0)
    BY DEF Flats
  <2> QED
    BY <2>1
<1>2. ASSUME NEW m \in Nat, m \in N PROVE m + 1 \in N
  <2>1. SUFFICES ASSUME m + 1 <= Len(ss) PROVE \E f : Flats(S, ss, f, m + 1)
    OBVIOUS
  <2>2. PICK f : Flats(S, ss, f, m)
    BY <1>2, <2>1
  <2> DEFINE last == IF m = 0 THEN ss[1] ELSE f[m] \o ss[m + 1]
  <2>3. last \in Seq(S)
    <3>1. CASE m = 0
      BY <2>1, <3>1
    <3>2. CASE m # 0
      <4>1. f[m] \in Seq(S) /\ ss[m + 1] \in Seq(S)
        BY <2>1, <2>2, <3>2 DEF Flats
      <4> QED
        BY <3>2, <4>1
    <3> QED
      BY <3>1, <3>2
  <2> DEFINE g == [i \in 1 .. m + 1 |-> IF i = m + 1 THEN last ELSE f[i]]
  <2>4. /\ g = [i \in 1 .. m + 1 |-> g[i]] /\ g[m + 1] = last
        /\ \A i \in 1 .. m : g[i] = f[i]
    <3> HIDE DEF last
    <3> QED
      OBVIOUS
  <2> HIDE DEF g
  <2>5. \A i \in 1 .. m + 1 : g[i] \in Seq(S)
    <3>1. \A i \in 1 .. m + 1 : i = m + 1 \/ i \in 1 .. m
      OBVIOUS
    <3> HIDE DEF last
    <3> QED
      BY <2>2, <2>3, <2>4, <3>1 DEF Flats
  <2>6. ASSUME NEW i \in 1 .. m + 1
        PROVE  g[i] = IF i = 1 THEN ss[i] ELSE g[i - 1] \o ss[i]
    <3>1. CASE i = m + 1
      <4>1. CASE m = 0
        BY <2>4, <3>1, <4>1
      <4>2. CASE m # 0
        <5>1. m \in 1 .. m /\ i # 1 /\ i - 1 = m
          BY <3>1, <4>2
        <5> QED
          BY <2>4, <3>1, <4>2, <5>1
      <4> QED
        BY <4>1, <4>2
    <3>2. CASE i # m + 1
      <4>1. i \in 1 .. m /\ (i # 1 => i - 1 \in 1 .. m)
        BY <3>2
      <4>2. f[i] = IF i = 1 THEN ss[i] ELSE f[i - 1] \o ss[i]
        BY <2>2, <4>1 DEF Flats
      <4> QED
        BY <2>4, <4>1, <4>2
    <3> QED
      BY <3>1, <3>2
  <2>7. g = [i \in 1 .. m + 1 |-> IF i = 1 THEN ss[i] ELSE g[i - 1] \o ss[i]]
    <3> HIDE DEF last
    <3> QED
      BY <2>4, <2>6
  <2>8. Flats(S, ss, g, m + 1)
    BY <2>5, <2>7 DEF Flats
  <2> QED
    BY <2>8
<1> HIDE DEF N
<1>3. Nat \subseteq N
  BY <1>1, <1>2, NumbersByInduction
<1> QED
  BY <1>3 DEF N

\* f[i] is what the first i of the sequences ss join to.
Joins(S, ss, f) ==
    /\ f[0] = <<>> /\ f[Len(ss)] = FlattenSeq(ss)
    /\ \A i \in 0 .. Len(ss) : f[i] \in Seq(S)
    /\ \A i \in 1 .. Len(ss) : f[i] = f[i - 1] \o ss[i]

LEMMA JoinsExist ==
    ASSUME NEW S, NEW ss \in Seq(Seq(S))
    PROVE  \E f : Joins(S, ss, f)
<1> DEFINE n == Len(ss)
           Flat(f) == f = [i \in 1 .. Len(ss) |-> IF i = 1 THEN ss[i] ELSE f[i - 1] \o ss[i]]
           flatten == CHOOSE f : Flat(f)
<1>0. n \in Nat /\ \A i \in 1 .. n : ss[i] \in Seq(S)
  OBVIOUS
<1>1. n # 0 => FlattenSeq(ss) = flatten[n]
  BY DEF FlattenSeq
<1>2. \E f : Flat(f)
  <2>1. Len(ss) \in Nat /\ Len(ss) <= Len(ss)
    OBVIOUS
  <2>2. PICK f : Flats(S, ss, f, Len(ss))
    BY <2>1, FlatExists
  <2>3. Flat(f)
    BY <2>2 DEF Flats
  <2> HIDE DEF Flat
  <2> QED
    BY <2>3
<1>3. Flat(flatten)
  <2> HIDE DEF Flat
  <2> QED
    BY <1>2, Zenon
<1> HIDE DEF flatten
<1> DEFINE f == [i \in 0 .. n |-> IF i = 0 THEN <<>> ELSE flatten[i]]
<1>4. f[0] = <<>> /\ \A i \in 1 .. n : f[i] = flatten[i]
  <2>1. 0 \in 0 .. n /\ \A i \in 1 .. n : i \in 0 .. n /\ i # 0
    BY <1>0
  <2> HIDE DEF n
  <2> QED
    BY <2>1
<1>5. n = 0 => FlattenSeq(ss) = <<>>
  <2>1. SUFFICES ASSUME n = 0 PROVE FlattenSeq(ss) = <<>>
    OBVIOUS
  <2>2. ss = <<>>
    BY <2>1, EmptySeq
  <2> QED
    BY <2>1, <2>2 DEF FlattenSeq
<1> HIDE DEF f
<1>6. f[n] = FlattenSeq(ss)
  <2>1. n \in 1 .. n \/ n = 0
    BY <1>0
  <2> HIDE DEF n
  <2> QED
    BY <1>1, <1>4, <1>5, <2>1
<1>7. \A i \in 1 .. n : f[i] = f[i - 1] \o ss[i]
  <2> SUFFICES ASSUME NEW i \in 1 .. n PROVE f[i] = f[i - 1] \o ss[i]
    OBVIOUS
  <2>1. flatten[i] = IF i = 1 THEN ss[i] ELSE flatten[i - 1] \o ss[i]
    BY <1>3
  <2>2. CASE i = 1
    <3>1. ss[1] \in Seq(S)
      BY <1>0, <2>2
    <3>2. <<>> \o ss[1] = ss[1]
      BY <3>1
    <3>3. 1 - 1 = 0 /\ 1 \in 1 .. n
      BY <2>2
    <3>4. f[1] = ss[1] /\ f[1 - 1] = <<>>
      BY <1>4, <2>1, <2>2, <3>3
    <3> QED
      BY <2>2, <3>2, <3>4
  <2>3. CASE i # 1
    <3>1. i - 1 \in 1 .. n
      BY <1>0, <2>3
    <3> QED
      BY <1>4, <2>1, <2>3, <3>1
  <2> QED
    BY <2>2, <2>3
<1>8. \A i \in 0 .. n : f[i] \in Seq(S)
  <2> DEFINE N == {m \in Nat : m <= n => f[m] \in Seq(S)}
  <2>1. 0 \in N
    <3>1. <<>> \in Seq(S)
      OBVIOUS
    <3> QED
      BY <1>4, <3>1
  <2>2. ASSUME NEW m \in Nat, m \in N PROVE m + 1 \in N
    <3>1. SUFFICES ASSUME m + 1 <= n PROVE f[m + 1] \in Seq(S)
      OBVIOUS
    <3>2. m + 1 \in 1 .. n /\ m <= n /\ (m + 1) - 1 = m
      BY <1>0, <3>1
    <3>3. f[m + 1] = f[m] \o ss[m + 1]
      BY <1>7, <3>2
    <3>4. f[m] \in Seq(S) /\ ss[m + 1] \in Seq(S)
      BY <1>0, <2>2, <3>2
    <3> QED
      BY <3>3, <3>4
  <2> HIDE DEF N
  <2>3. Nat \subseteq N
    BY <2>1, <2>2, NumbersByInduction
  <2> QED
    BY <1>0, <2>3 DEF N
<1> QED
  BY <1>4, <1>6, <1>7, <1>8 DEF Joins

\* Each part begins the whole.
LEMMA JoinsBegin ==
    ASSUME NEW S, NEW ss \in Seq(Seq(S)), NEW f, Joins(S, ss, f)
    PROVE  \A i \in 0 .. Len(ss) : Begins(f[i], FlattenSeq(ss))
<1> DEFINE n == Len(ss)
           all == FlattenSeq(ss)
           N == {d \in Nat : d <= n => Begins(f[n - d], all)}
<1>0. n \in Nat /\ f[n] = all /\ (\A i \in 1 .. n : f[i] = f[i - 1] \o ss[i] /\ ss[i] \in Seq(S))
      /\ \A i \in 0 .. n : f[i] \in Seq(S)
  <2>1. n \in Nat /\ \A i \in 1 .. n : ss[i] \in Seq(S)
    OBVIOUS
  <2>2. /\ f[n] = all /\ \A i \in 1 .. n : f[i] = f[i - 1] \o ss[i]
        /\ \A i \in 0 .. n : f[i] \in Seq(S)
    BY Zenon DEF Joins
  <2> HIDE DEF n, all
  <2> QED
    BY <2>1, <2>2
<1>1. all \in Seq(S)
  <2>1. n \in 0 .. n
    BY <1>0
  <2> QED
    BY <1>0, <2>1
<1> HIDE DEF all, n
<1>2. 0 \in N
  <2>1. n - 0 = n
    BY <1>0
  <2>2. Begins(all, all)
    BY <1>1, BeginsSelf
  <2> QED
    BY <1>0, <2>1, <2>2
<1>3. ASSUME NEW d \in Nat, d \in N PROVE d + 1 \in N
  <2>1. SUFFICES ASSUME d + 1 <= n PROVE Begins(f[n - (d + 1)], all)
    OBVIOUS
  <2> DEFINE i == n - d
             a == f[i - 1]
             b == ss[i]
  <2>2. i \in 1 .. n /\ i - 1 = n - (d + 1) /\ i - 1 \in 0 .. n /\ i \in 0 .. n
    BY <1>0, <2>1
  <2>3. Begins(f[i], all)
    BY <1>0, <1>3, <2>1
  <2> HIDE DEF i
  <2>4. f[i] = a \o b /\ a \in Seq(S) /\ b \in Seq(S) /\ f[i] \in Seq(S)
    BY <1>0, <2>2
  <2> DEFINE c == f[i]
  <2> HIDE DEF a, b, c
  <2>5. Begins(a, a \o b)
    BY <2>4, BeginsJoined
  <2>6. Begins(a, c) /\ Begins(c, all) /\ c \in Seq(S)
    BY <2>3, <2>4, <2>5 DEF c
  <2>7. Begins(a, all)
    BY <1>1, <2>4, <2>6, BeginsOn
  <2> QED
    BY <2>2, <2>7 DEF a
<1> HIDE DEF N
<1>4. Nat \subseteq N
  BY <1>2, <1>3, NumbersByInduction
<1>5. ASSUME NEW i \in 0 .. n PROVE Begins(f[i], all)
  <2>1. n - i \in Nat /\ n - i <= n /\ n - (n - i) = i
    BY <1>0
  <2>2. n - i \in N
    BY <1>4, <2>1
  <2> QED
    BY <2>1, <2>2 DEF N
<1> QED
  BY <1>5 DEF all, n

-----------------------------------------------------------------------------
\* The hits of a part of a record begin those of the record.
LEMMA PartHitsBegin ==
    ASSUME NEW needle, Len(needle) \in Nat, Len(needle) > 0, NEW fold, NEW file, NEW row \in Nat,
           NEW start \in Nat, NEW c \in Nat, start <= c, NEW end \in Nat, c <= end
    PROVE  /\ PartHits(needle, fold, file, row, start, c) \in Seq(Hit)
           /\ Begins(PartHits(needle, fold, file, row, start, c), PartHits(needle, fold, file, row, start, end))
<1> DEFINE p(x) == PartHits(needle, fold, file, row, start, x)
           N == {d \in Nat : Begins(p(c), p(c + d))}
<1>1. ASSUME NEW x \in Nat, start <= x
      PROVE  p(x) \in Seq(Hit) /\ Begins(p(x), p(x + 1))
  <2> DEFINE o == x + 1 - Len(needle)
             h == HitAt(row, Len(needle), o)
             grows == start <= o /\ StandsAt(needle, fold, file, o)
  <2>1. p(x) \in Seq(Hit) /\ p(x + 1) = (IF grows THEN Append(p(x), h) ELSE p(x))
        /\ (start <= o => h \in Hit)
    BY <1>1, PartHitsGrow
  <2> DEFINE a == p(x)
             b == p(x + 1)
  <2> HIDE DEF p, o, h
  <2>2. CASE grows
    <3>1. a \in Seq(Hit) /\ h \in Hit /\ b = Append(a, h)
      BY <2>1, <2>2
    <3> HIDE DEF a, b
    <3> QED
      BY <3>1, BeginsAppend DEF a, b
  <2>3. CASE ~ grows
    <3>1. a \in Seq(Hit) /\ b = a
      BY <2>1, <2>3
    <3> HIDE DEF a, b
    <3> QED
      BY <3>1, BeginsSelf DEF a, b
  <2> QED
    BY <2>2, <2>3
<1>2. 0 \in N
  <2> HIDE DEF p
  <2>1. p(c) \in Seq(Hit) /\ c + 0 = c
    BY <1>1
  <2>2. Begins(p(c), p(c))
    BY <2>1, BeginsSelf
  <2> QED
    BY <2>1, <2>2
<1>3. ASSUME NEW d \in Nat, d \in N PROVE d + 1 \in N
  <2> HIDE DEF p
  <2> DEFINE x == c + d
             a == p(c)
             b == p(x)
             e == p(x + 1)
  <2>1. x \in Nat /\ start <= x /\ c + (d + 1) = x + 1 /\ x + 1 \in Nat /\ start <= x + 1
    OBVIOUS
  <2>2. Begins(a, b) /\ a \in Seq(Hit)
    BY <1>1, <1>3
  <2> HIDE DEF x
  <2>3. b \in Seq(Hit) /\ Begins(b, e) /\ e \in Seq(Hit)
    BY <1>1, <2>1
  <2> HIDE DEF a, b, e
  <2>4. Begins(a, e)
    BY <2>2, <2>3, BeginsOn
  <2> QED
    BY <2>1, <2>4 DEF a, e
<1> HIDE DEF N
<1>4. Nat \subseteq N
  BY <1>2, <1>3, NumbersByInduction
<1>5. end - c \in Nat /\ c + (end - c) = end
  OBVIOUS
<1>6. end - c \in N
  BY <1>4, <1>5
<1>7. Begins(p(c), p(end))
  <2> HIDE DEF p
  <2> QED
    BY <1>5, <1>6 DEF N
<1> QED
  BY <1>1, <1>7

\* The hits of each record of a file.
RecordHits(csv, needle, fold, file) ==
    [i \in 1 .. Len(Scanned(csv, file)) |->
        HitsIn(needle, fold, file, i - 1, Scanned(csv, file)[i])]

HitsBefore(csv, needle, fold, file) ==
    CHOOSE f : Joins(Hit, RecordHits(csv, needle, fold, file), f)

\* The hits before place c of record k + 1.
Reached(csv, needle, fold, file, k, c) ==
    HitsBefore(csv, needle, fold, file)[k]
        \o PartHits(needle, fold, file, k, Scanned(csv, file)[k + 1].start, c)

Associates(a, b, x) == a \o Append(b, x) = Append(a \o b, x)

LEMMA JoinAppend ==
    ASSUME NEW S, NEW a \in Seq(S), NEW b \in Seq(S), NEW x \in S
    PROVE  Associates(a, b, x)
<1> DEFINE c == a \o b
           d == Append(b, x)
           e == a \o d
           h == Append(c, x)
           m == Len(a)
           n == Len(b)
<1>1. /\ c \in Seq(S) /\ Len(c) = m + n
      /\ \A i \in 1 .. m + n : c[i] = IF i <= m THEN a[i] ELSE b[i - m]
  BY ConcatProperties
<1>2. d \in Seq(S) /\ Len(d) = n + 1 /\ d[n + 1] = x /\ \A i \in 1 .. n : d[i] = b[i]
  OBVIOUS
<1>3. m \in Nat /\ n \in Nat
  OBVIOUS
<1> HIDE DEF d
<1>4. /\ e \in Seq(S) /\ Len(e) = m + Len(d)
      /\ \A i \in 1 .. m + Len(d) : e[i] = IF i <= m THEN a[i] ELSE d[i - m]
  BY <1>2, ConcatProperties
<1> HIDE DEF c, e, m, n
<1>5. h \in Seq(S) /\ Len(h) = m + n + 1 /\ h[m + n + 1] = x /\ \A i \in 1 .. m + n : h[i] = c[i]
  BY <1>1, <1>3
<1> HIDE DEF h
<1>6. ASSUME NEW i \in 1 .. m + n + 1 PROVE e[i] = h[i]
  <2>1. CASE i = m + n + 1
    <3>1. ~ i <= m /\ i - m = n + 1 /\ i \in 1 .. m + Len(d)
      BY <1>2, <1>3, <2>1
    <3>2. e[i] = d[n + 1]
      BY <1>4, <3>1
    <3> QED
      BY <1>2, <1>5, <2>1, <3>2
  <2>2. CASE i # m + n + 1
    <3>1. i \in 1 .. m + n /\ i \in 1 .. m + Len(d) /\ (~ i <= m => i - m \in 1 .. n)
      BY <1>2, <1>3, <2>2
    <3> DEFINE j == i - m
    <3>2. e[i] = (IF i <= m THEN a[i] ELSE d[j]) /\ h[i] = (IF i <= m THEN a[i] ELSE b[j])
      BY <1>1, <1>4, <1>5, <3>1
    <3>3. ~ i <= m => j \in 1 .. n
      BY <3>1
    <3> HIDE DEF j
    <3> QED
      BY <1>2, <3>2, <3>3
  <2> QED
    BY <2>1, <2>2
<1>7. Len(e) = m + n + 1
  BY <1>2, <1>3, <1>4
<1>8. e = h
  BY <1>4, <1>5, <1>6, <1>7, SeqEqual
<1> QED
  BY <1>8 DEF e, d, h, c, Associates

LEMMA RecordHitsAre ==
    ASSUME NEW csv \in BOOLEAN, NEW file \in Seq(Bytes), NEW needle, Len(needle) \in Nat, Len(needle) > 0,
           NEW fold
    PROVE  LET all == Scanned(csv, file)
               ss == RecordHits(csv, needle, fold, file)
           IN  /\ ss \in Seq(Seq(Hit)) /\ Len(ss) = Len(all)
               /\ \A i \in 1 .. Len(all) :
                     ss[i] = PartHits(needle, fold, file, i - 1, all[i].start, all[i].end)
               /\ AllHits(csv, needle, fold, file) = FlattenSeq(ss)
<1> DEFINE all == Scanned(csv, file)
           ss == RecordHits(csv, needle, fold, file)
           h(i) == HitsIn(needle, fold, file, i - 1, all[i])
<1>1. all \in Seq(Spans) /\ Len(all) \in Nat
  BY ScannedFacts
<1>2. AllHits(csv, needle, fold, file) = FlattenSeq(ss)
  BY RecordsAreScanned DEF AllHits, RecordHits
<1>3. ss = [i \in 1 .. Len(all) |-> h(i)]
  BY DEF RecordHits
<1>4. ASSUME NEW i \in 1 .. Len(all)
      PROVE  h(i) = PartHits(needle, fold, file, i - 1, all[i].start, all[i].end) /\ h(i) \in Seq(Hit)
  <2> DEFINE start == all[i].start
             end == all[i].end
  <2>1. all[i] = Span(start, end) /\ start \in Nat /\ end \in Nat /\ start <= end
    BY RecordsInFile
  <2>2. h(i) = PartHits(needle, fold, file, i - 1, start, end)
    BY <2>1, Zenon DEF PartHits
  <2> HIDE DEF start, end, all, h
  <2>3. i - 1 \in Nat
    BY <1>1
  <2>4. PartHits(needle, fold, file, i - 1, start, end) \in Seq(Hit)
    BY <2>1, <2>3, PartHitsGrow
  <2> QED
    BY <2>2, <2>4 DEF start, end
<1> HIDE DEF all, ss, h
<1>5. ss \in Seq(Seq(Hit)) /\ Len(ss) = Len(all) /\ \A i \in 1 .. Len(all) : ss[i] = h(i)
  <2>1. \A i \in 1 .. Len(all) : h(i) \in Seq(Hit)
    BY <1>4
  <2> DEFINE T == Seq(Hit)
             n == Len(all)
  <2> HIDE DEF T, n
  <2>2. ss = [i \in 1 .. n |-> h(i)] /\ n \in Nat /\ \A i \in 1 .. n : h(i) \in T
    BY <1>1, <1>3, <2>1 DEF T, n
  <2>3. ss \in Seq(T) /\ Len(ss) = n /\ \A i \in 1 .. n : ss[i] = h(i)
    BY <2>2
  <2> QED
    BY <2>3 DEF T, n
<1> QED
  BY <1>2, <1>4, <1>5 DEF all, ss

LEMMA HitsBeforeJoins ==
    ASSUME NEW csv \in BOOLEAN, NEW file \in Seq(Bytes), NEW needle, Len(needle) \in Nat, Len(needle) > 0,
           NEW fold
    PROVE  Joins(Hit, RecordHits(csv, needle, fold, file), HitsBefore(csv, needle, fold, file))
<1> DEFINE ss == RecordHits(csv, needle, fold, file)
<1>1. ss \in Seq(Seq(Hit))
  BY RecordHitsAre
<1>2. \E g : Joins(Hit, ss, g)
  BY <1>1, JoinsExist
<1> QED
  BY <1>2, Zenon DEF HitsBefore

LEMMA HitsBeforeAre ==
    ASSUME NEW csv \in BOOLEAN, NEW file \in Seq(Bytes), NEW needle, Len(needle) \in Nat, Len(needle) > 0,
           NEW fold
    PROVE  LET f == HitsBefore(csv, needle, fold, file)
               n == Len(Scanned(csv, file))
               hits == AllHits(csv, needle, fold, file)
           IN  /\ f[0] = <<>> /\ f[n] = hits /\ hits \in Seq(Hit)
               /\ \A i \in 0 .. n : f[i] \in Seq(Hit) /\ Begins(f[i], hits)
               /\ \A i \in 1 .. n : f[i] = f[i - 1] \o RecordHits(csv, needle, fold, file)[i]
<1> DEFINE ss == RecordHits(csv, needle, fold, file)
           f == HitsBefore(csv, needle, fold, file)
           n == Len(Scanned(csv, file))
           hits == AllHits(csv, needle, fold, file)
<1>1. ss \in Seq(Seq(Hit)) /\ Len(ss) = n /\ hits = FlattenSeq(ss)
  BY RecordHitsAre
<1>2. n \in Nat
  BY ScannedFacts
<1>3. Joins(Hit, ss, f)
  BY HitsBeforeJoins
<1> HIDE DEF ss, f, n, hits
<1>4. \A i \in 0 .. n : Begins(f[i], hits)
  BY <1>1, <1>3, JoinsBegin
<1>5. /\ f[0] = <<>> /\ f[n] = hits /\ \A i \in 0 .. n : f[i] \in Seq(Hit)
      /\ \A i \in 1 .. n : f[i] = f[i - 1] \o ss[i]
  BY <1>1, <1>3, Zenon DEF Joins
<1>6. hits \in Seq(Hit)
  <2>1. n \in 0 .. n
    BY <1>2
  <2> QED
    BY <1>5, <2>1
<1> QED
  BY <1>4, <1>5, <1>6 DEF ss, f, n, hits

LEMMA HitsFacts ==
    ASSUME NEW csv \in BOOLEAN, NEW file \in Seq(Bytes), NEW needle, Len(needle) \in Nat, Len(needle) > 0,
           NEW fold
    PROVE  /\ AllHits(csv, needle, fold, file) \in Seq(Hit)
           /\ HitsBefore(csv, needle, fold, file)[0] = <<>>
           /\ HitsBefore(csv, needle, fold, file)[Len(Scanned(csv, file))] = AllHits(csv, needle, fold, file)
BY HitsBeforeAre

LEMMA HitsBeforeJoin ==
    ASSUME NEW csv \in BOOLEAN, NEW file \in Seq(Bytes), NEW needle, Len(needle) \in Nat, Len(needle) > 0,
           NEW fold
    PROVE  \A i \in 1 .. Len(Scanned(csv, file)) :
              HitsBefore(csv, needle, fold, file)[i]
                = HitsBefore(csv, needle, fold, file)[i - 1] \o RecordHits(csv, needle, fold, file)[i]
<1> DEFINE ss == RecordHits(csv, needle, fold, file)
           f == HitsBefore(csv, needle, fold, file)
           n == Len(Scanned(csv, file))
<1>1. Len(ss) = n /\ Joins(Hit, ss, f)
  BY RecordHitsAre, HitsBeforeJoins
<1> HIDE DEF ss, f, n
<1>2. \A i \in 1 .. n : f[i] = f[i - 1] \o ss[i]
  BY <1>1, Zenon DEF Joins
<1> QED
  BY <1>2 DEF ss, f, n

\* Where the search of record k + 1 has come to place c, every hit so far is one of
\* the file's first hits; none is missing before the record, nor after it.
LEMMA ReachedIs ==
    ASSUME NEW csv \in BOOLEAN, NEW file \in Seq(Bytes), NEW needle, Len(needle) \in Nat, Len(needle) > 0,
           NEW fold, NEW k \in Nat, k < Len(Scanned(csv, file)),
           NEW r, r = Scanned(csv, file)[k + 1], NEW c \in Nat, r.start <= c, c <= r.end
    PROVE  /\ Reached(csv, needle, fold, file, k, c) \in Seq(Hit)
           /\ Begins(Reached(csv, needle, fold, file, k, c), AllHits(csv, needle, fold, file))
           /\ c = r.start => Reached(csv, needle, fold, file, k, c) = HitsBefore(csv, needle, fold, file)[k]
           /\ c = r.end => Reached(csv, needle, fold, file, k, c) = HitsBefore(csv, needle, fold, file)[k + 1]
<1> DEFINE f == HitsBefore(csv, needle, fold, file)
           n == Len(Scanned(csv, file))
           hits == AllHits(csv, needle, fold, file)
           ss == RecordHits(csv, needle, fold, file)
           p(x) == PartHits(needle, fold, file, k, r.start, x)
<1>1. n \in Nat
  BY ScannedFacts
<1>2. k \in 0 .. n /\ k + 1 \in 1 .. n /\ k + 1 \in 0 .. n /\ (k + 1) - 1 = k
  BY <1>1
<1>3. r.start \in Nat /\ r.end \in Nat /\ r.start <= r.end
  <2> HIDE DEF n
  <2>1. k + 1 \in 1 .. Len(Scanned(csv, file))
    BY <1>2 DEF n
  <2> QED
    BY <2>1, RecordsInFile
<1>4. ss[k + 1] = p(r.end)
  <2>1. \A i \in 1 .. n : ss[i] = PartHits(needle, fold, file, i - 1, Scanned(csv, file)[i].start,
                                           Scanned(csv, file)[i].end)
    BY RecordHitsAre
  <2> HIDE DEF ss, n
  <2> QED
    BY <1>2, <2>1
<1>5. /\ hits \in Seq(Hit) /\ f[k] \in Seq(Hit) /\ Begins(f[k + 1], hits) /\ f[k + 1] \in Seq(Hit)
      /\ f[k + 1] = f[k] \o ss[k + 1]
  <2>1. \A i \in 0 .. n : f[i] \in Seq(Hit) /\ Begins(f[i], hits)
    BY HitsBeforeAre
  <2>2. hits \in Seq(Hit)
    BY HitsBeforeAre
  <2>3. \A i \in 1 .. n : f[i] = f[i - 1] \o ss[i]
    BY HitsBeforeJoin
  <2> HIDE DEF f, n, hits, ss
  <2> QED
    BY <1>2, <2>1, <2>2, <2>3
<1>6. Reached(csv, needle, fold, file, k, c) = f[k] \o p(c)
  BY DEF Reached
<1>7. p(c) \in Seq(Hit) /\ p(r.end) \in Seq(Hit) /\ Begins(p(c), p(r.end))
  BY <1>3, PartHitsBegin
<1>8. c = r.start => p(c) = <<>>
  BY <1>3, NoPartHits
<1> DEFINE a == f[k]
           b == p(c)
           d == p(r.end)
           w == f[k + 1]
<1> HIDE DEF f, n, hits, ss, p
<1>9. a \in Seq(Hit) /\ b \in Seq(Hit) /\ d \in Seq(Hit) /\ Begins(b, d) /\ w = a \o d /\ w \in Seq(Hit)
      /\ Begins(w, hits) /\ hits \in Seq(Hit) /\ (c = r.start => b = <<>>) /\ (c = r.end => b = d)
  BY <1>4, <1>5, <1>7, <1>8
<1> HIDE DEF a, b, d, w
<1>10. a \o b \in Seq(Hit) /\ Begins(a \o b, w)
  BY <1>9, BeginsBehind
<1>11. Begins(a \o b, hits)
  <2> DEFINE ab == a \o b
  <2>1. ab \in Seq(Hit) /\ Begins(ab, w)
    BY <1>10
  <2> HIDE DEF ab
  <2>2. Begins(ab, hits)
    BY <1>9, <2>1, BeginsOn
  <2> QED
    BY <2>2 DEF ab
<1>12. a \o <<>> = a
  BY <1>9
<1> QED
  BY <1>6, <1>9, <1>10, <1>11, <1>12 DEF a, b, d, w, f, hits

\* A record's last byte completes its hits.
LEMMA ReachedEnd ==
    ASSUME NEW csv \in BOOLEAN, NEW file \in Seq(Bytes), NEW needle, Len(needle) \in Nat, Len(needle) > 0,
           NEW fold, NEW k \in Nat, k < Len(Scanned(csv, file)), NEW next, next = k + 1,
           NEW end \in Nat, end = Scanned(csv, file)[next].end, Scanned(csv, file)[next].start <= end
    PROVE  Reached(csv, needle, fold, file, k, end) = HitsBefore(csv, needle, fold, file)[next]
<1> DEFINE r == Scanned(csv, file)[next]
<1>1. r = Scanned(csv, file)[k + 1] /\ end = r.end /\ r.start <= end /\ end <= r.end
  OBVIOUS
<1> HIDE DEF r
<1>2. Reached(csv, needle, fold, file, k, end) = HitsBefore(csv, needle, fold, file)[k + 1]
  BY <1>1, ReachedIs
<1> QED
  BY <1>2

\* A hit is added, or none.
Extends(matched, before, after, hit) ==
    /\ matched => hit \in Hit /\ after = Append(before, hit)
    /\ ~ matched => after = before

\* One byte more.
LEMMA ReachedGrows ==
    ASSUME NEW csv \in BOOLEAN, NEW file \in Seq(Bytes), NEW needle, Len(needle) \in Nat, Len(needle) > 0,
           NEW fold, NEW k \in Nat, k < Len(Scanned(csv, file)),
           NEW r, r = Scanned(csv, file)[k + 1], NEW c \in Nat, r.start <= c, c < r.end,
           NEW matched, matched = Matches(Pattern(needle, fold), Text(fold, file), r.start, Len(needle), c + 1)
    PROVE  Extends(matched, Reached(csv, needle, fold, file, k, c),
                   Reached(csv, needle, fold, file, k, c + 1),
                   HitAt(k, Len(needle), c + 1 - Len(needle)))
<1> DEFINE f == HitsBefore(csv, needle, fold, file)
           n == Len(Scanned(csv, file))
           p(x) == PartHits(needle, fold, file, k, r.start, x)
           o == c + 1 - Len(needle)
           hit == HitAt(k, Len(needle), o)
           stands == r.start <= o /\ StandsAt(needle, fold, file, o)
<1>1. n \in Nat
  BY ScannedFacts
<1>2. k \in 0 .. n /\ k + 1 \in 1 .. n
  BY <1>1
<1>3. r.start \in Nat /\ r.end \in Nat /\ r.end <= Len(file)
  <2> HIDE DEF n
  <2>1. k + 1 \in 1 .. Len(Scanned(csv, file))
    BY <1>2 DEF n
  <2> QED
    BY <2>1, RecordsInFile
<1>4. f[k] \in Seq(Hit)
  <2>1. \A i \in 0 .. n : f[i] \in Seq(Hit)
    BY HitsBeforeAre
  <2> HIDE DEF f, n
  <2> QED
    BY <1>2, <2>1
<1>5. p(c) \in Seq(Hit) /\ p(c + 1) = (IF stands THEN Append(p(c), hit) ELSE p(c))
      /\ (r.start <= o => hit \in Hit)
  <2> DEFINE start == r.start
  <2>1. start \in Nat /\ start <= c
    BY <1>3
  <2> HIDE DEF start
  <2>2. /\ PartHits(needle, fold, file, k, start, c) \in Seq(Hit)
        /\ PartHits(needle, fold, file, k, start, c + 1)
             = IF start <= o /\ StandsAt(needle, fold, file, o)
               THEN Append(PartHits(needle, fold, file, k, start, c), HitAt(k, Len(needle), o))
               ELSE PartHits(needle, fold, file, k, start, c)
        /\ start <= o => HitAt(k, Len(needle), o) \in Hit
    BY <2>1, PartHitsGrow
  <2> QED
    BY <2>2 DEF start
<1>6. matched <=> stands
  <2> DEFINE d == c + 1
             m == Len(needle)
             start == r.start
  <2>1. d \in Nat /\ d <= Len(file) /\ o = d - m /\ Len(file) \in Nat /\ start \in Nat
    BY <1>3
  <2> HIDE DEF d, o, start
  <2>2. Matches(Pattern(needle, fold), Text(fold, file), start, Len(needle), d)
          <=> start <= d - Len(needle) /\ StandsAt(needle, fold, file, d - Len(needle))
    BY <2>1, EndsHere
  <2> QED
    BY <2>1, <2>2 DEF d, start
<1>7. \A x : Reached(csv, needle, fold, file, k, x) = f[k] \o p(x)
  BY DEF Reached
<1> DEFINE a == f[k]
           b == p(c)
           e == p(c + 1)
<1> HIDE DEF f, n, p, o, hit
<1>8. a \in Seq(Hit) /\ b \in Seq(Hit) /\ (stands => hit \in Hit /\ e = Append(b, hit)) /\ (~ stands => e = b)
  BY <1>4, <1>5
<1> HIDE DEF a, b, e, stands
<1>9. stands => hit \in Hit /\ a \o e = Append(a \o b, hit)
  <2> SUFFICES ASSUME stands PROVE hit \in Hit /\ a \o e = Append(a \o b, hit)
    OBVIOUS
  <2>1. hit \in Hit /\ e = Append(b, hit)
    BY <1>8
  <2>2. a \o Append(b, hit) = Append(a \o b, hit)
    <3>1. Associates(a, b, hit)
      BY <1>8, <2>1, JoinAppend
    <3> QED
      BY <3>1, Zenon DEF Associates
  <2> QED
    BY <2>1, <2>2
<1>10. ~ stands => a \o e = a \o b
  BY <1>8
<1>11. Reached(csv, needle, fold, file, k, c) = a \o b /\ Reached(csv, needle, fold, file, k, c + 1) = a \o e
  BY <1>7 DEF a, b, e
<1> QED
  BY <1>6, <1>9, <1>10, <1>11 DEF hit, o, Extends
=============================================================================
