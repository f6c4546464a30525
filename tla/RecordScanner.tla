---------------------------- MODULE RecordScanner ----------------------------
(***************************************************************************)
(* The boundary scanners of leanrows-core (src/scan.rs) as operators on a   *)
(* scanner record, and the records a file has by a definition that mentions *)
(* neither chunks nor scanner states.  A byte is one of the classes the     *)
(* scanners tell apart, or a letter, which only a search tells from text.   *)
(* Offsets are positions between bytes: the byte at offset o of a file is   *)
(* file[o + 1].                                                             *)
(***************************************************************************)
EXTENDS Integers, Sequences, SequencesExt

Letters == {"a", "A", "b"}
Bytes == {"quote", "delim", "cr", "lf", "text"} \cup Letters
NoCr == -1

Span(from, to) == [start |-> from, end |-> to]

(* CsvBoundaryScanner::at_offset and LineBoundaryScanner::at_offset.        *)
ScannerAt(offset) ==
    [state |-> "field_start", offset |-> offset, start |-> offset, cr |-> NoCr]

(* The match on (state, byte) of the delimited scanner.                     *)
FieldState(state, byte) ==
    IF state = "quoted" THEN IF byte = "quote" THEN "quote_closed" ELSE "quoted"
    ELSE IF byte = "quote" /\ state \in {"field_start", "quote_closed"} THEN "quoted"
    ELSE IF byte = "delim" THEN "field_start"
    ELSE "unquoted"

(* Faulty: the byte after the boundary is taken for part of it.             *)
CompleteRecordLate(r, end, next) ==
    [r EXCEPT !.out = Append(@, Span(r.s.start, end)),
              !.s.start = next + 1, !.s.state = "field_start", !.s.cr = NoCr]

(* complete_record: the record that ends at `end` is handed to the callback *)
(* and the next one starts at `next`.                                       *)
CompleteRecord(r, end, next) ==
    [r EXCEPT !.out = Append(@, Span(r.s.start, end)),
              !.s.start = next, !.s.state = "field_start", !.s.cr = NoCr]

(* One turn of feed_inner's loop.  `r` is what the call has done so far: the *)
(* scanner, the records it emitted, the bytes it consumed and whether the    *)
(* callback stopped it.  The callback stops at the stop-th record.           *)
ConsumeByte(csv, r, byte, stop) ==
    LET at == r.s.offset
        step == [r EXCEPT !.s.offset = at + 1, !.n = @ + 1]
        halt(q) == [q EXCEPT !.stopped = Len(q.out) = stop]
        flushed == IF r.s.cr = NoCr THEN r ELSE halt(CompleteRecord(r, r.s.cr, at))
        plain(q) == [q EXCEPT !.s.offset = at + 1, !.n = @ + 1]
    IN  IF r.s.cr # NoCr /\ byte = "lf"
        THEN halt(CompleteRecord(step, r.s.cr, at + 1))
        ELSE IF flushed.stopped THEN flushed
        ELSE IF flushed.s.state # "quoted" /\ byte = "cr"
        THEN [plain(flushed) EXCEPT !.s.cr = at]
        ELSE IF flushed.s.state # "quoted" /\ byte = "lf"
        THEN halt(CompleteRecord(plain(flushed), at, at + 1))
        ELSE IF csv THEN [plain(flushed) EXCEPT !.s.state = FieldState(@, byte)]
        ELSE plain(flushed)

(* The line scanner has no field states: every CR and LF is a boundary.      *)
ConsumeLineByte(r, byte, stop) == ConsumeByte(FALSE, r, byte, stop)

(* feed_inner over a chunk: it returns early when the callback stops it.     *)
Feed(csv, scanner, chunk, stop) ==
    LET fed[i \in 0..Len(chunk)] ==
            IF i = 0
            THEN [s |-> scanner, out |-> <<>>, n |-> 0, stopped |-> FALSE]
            ELSE IF fed[i - 1].stopped THEN fed[i - 1]
            ELSE IF csv THEN ConsumeByte(TRUE, fed[i - 1], chunk[i], stop)
            ELSE ConsumeLineByte(fed[i - 1], chunk[i], stop)
    IN  fed[Len(chunk)]

(* finish: a pending CR or bytes after the last boundary make a last record. *)
Finish(scanner) ==
    IF scanner.cr # NoCr THEN <<Span(scanner.start, scanner.cr)>>
    ELSE IF scanner.start < scanner.offset
    THEN <<Span(scanner.start, scanner.offset)>>
    ELSE <<>>

(* The end-of-input diagnostic of the delimited scanner.                     *)
Unterminated(csv, scanner) == csv /\ scanner.state = "quoted"

-----------------------------------------------------------------------------
(* The reference.  A quote opens a quoted section when it stands first in a  *)
(* field; the section is closed by a quote that is not half of a pair.       *)
Closes(file, open, i) ==
    /\ file[i] = "quote"
    /\ Cardinality({j \in open + 1..i : file[j] = "quote"}) % 2 = 1
    /\ i < Len(file) => file[i + 1] # "quote"

Inside(file) ==
    LET inside[p \in 1..Len(file) + 1] ==
            \E a \in 1..p - 1 :
               /\ file[a] = "quote"
               /\ ~inside[a]
               /\ a = 1 \/ (file[a - 1] \in {"delim", "cr", "lf"} /\ ~inside[a - 1])
               /\ \A b \in a + 1..p - 1 : ~Closes(file, a, b)
    IN  inside

(* The bytes at which a record ends, each with the offset of the next one.   *)
Terminators(csv, file) ==
    LET free(i) == ~csv \/ ~Inside(file)[i]
        crlf(i) == i < Len(file) /\ file[i] = "cr" /\ file[i + 1] = "lf"
    IN  {<<i - 1, i>> : i \in {j \in 1..Len(file) :
            /\ free(j)
            /\ \/ file[j] = "cr" /\ ~crlf(j)
               \/ file[j] = "lf" /\ ~(j > 1 /\ crlf(j - 1))}}
        \cup {<<i - 1, i + 1>> : i \in {j \in 1..Len(file) : free(j) /\ crlf(j)}}

Records(csv, file) ==
    LET T == Terminators(csv, file)
        starts == {0} \cup {t[2] : t \in T}
        full == {Span(s, t[1]) : s \in starts, t \in T}
        ended == {r \in full : r.start <= r.end /\ \A t \in T : ~(r.start <= t[1] /\ t[1] < r.end)}
        tail == CHOOSE s \in starts : \A t \in starts : t <= s
        all == ended \cup (IF tail < Len(file) THEN {Span(tail, Len(file))} ELSE {})
        before(r) == {q \in all : q.start < r.start}
    IN  [i \in 1..Cardinality(all) |-> CHOOSE r \in all : Cardinality(before(r)) = i - 1]
=============================================================================
