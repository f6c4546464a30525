------------------------------- MODULE SortKeys -------------------------------
(***************************************************************************)
(* The keys of a column sort (src/sort/key.rs): where a record's key lies,    *)
(* how its bytes are decoded, what is kept of it in a descriptor, and how two  *)
(* keys are ordered, each one byte at a time so that the work budget may end   *)
(* anywhere; and the order the user asked for, by a definition.              *)
(***************************************************************************)
EXTENDS FieldProjection

CONSTANTS
    Prefix,   \* PREFIX: bytes of a key kept in its descriptor
    ExpLimit  \* the largest exponent that is not out of range

Codes == <<"lf", "cr", "space", "quote", "plus", "delim", "minus", "dot", "0", "1", "5",
           "e", "x">>
Code == [b \in {Codes[i] : i \in 1..Len(Codes)} |-> CHOOSE i \in 1..Len(Codes) : Codes[i] = b]
DigitOf == [b \in {"0", "1", "5"} |-> CASE b = "0" -> 0 [] b = "1" -> 1 [] b = "5" -> 5]
IsDigit(b) == b \in DOMAIN DigitOf
IsSpace(b) == b \in {"space", "lf", "cr"}

Cmp(x, y) == IF x < y THEN -1 ELSE IF x > y THEN 1 ELSE 0
Undecided == 2

LexCmp(p, q, rank(_)) ==
    LET differ == {i \in 1..AtMost(Len(p), Len(q)) : p[i] # q[i]}
        first == CHOOSE i \in differ : \A j \in differ : i <= j
    IN  IF differ = {} THEN Cmp(Len(p), Len(q)) ELSE Cmp(rank(p[first]), rank(q[first]))

BytesCmp(p, q) == LexCmp(p, q, LAMBDA b : Code[b])

-----------------------------------------------------------------------------
(* Locator: the field of the wanted column, quoting included.                 *)
Descriptor(row, span) ==
    [row |-> row, start |-> span.start, end |-> span.end, keyStart |-> 0, keyEnd |-> 0,
     quoted |-> FALSE, prefix |-> <<>>, len |-> 0, group |-> 0, sign |-> 0,
     magnitude |-> 0, leading |-> 0, digits |-> 0]

NewLocator(row, span) ==
    [kind |-> "locate", d |-> Descriptor(row, span), cursor |-> span.start,
     from |-> span.start, column |-> 0, state |-> "start"]

LocatorByte(l, byte, csv, target) ==
    LET at == l.cursor
        moved == [l EXCEPT !.cursor = at + 1]
    IN  CASE ~csv -> moved
          [] csv /\ l.state = "start" /\ byte = "quote" ->
                 [moved EXCEPT !.state = "quoted", !.d.quoted = @ \/ l.column = target]
          [] csv /\ l.state = "quoted" ->
                 IF byte = "quote" THEN [moved EXCEPT !.state = "closed"] ELSE moved
          [] csv /\ l.state = "closed" /\ byte = "quote" -> [moved EXCEPT !.state = "quoted"]
          [] csv /\ l.state # "quoted" /\ byte = "delim" ->
                 IF l.column = target
                 THEN [moved EXCEPT !.state = "found", !.d.keyStart = l.from, !.d.keyEnd = at]
                 ELSE [moved EXCEPT !.column = @ + 1, !.from = at + 1, !.state = "start"]
          [] OTHER -> [moved EXCEPT !.state = "unquoted"]

LocatorEnd(l, target) ==
    [l EXCEPT !.state = "found", !.d.keyEnd = l.cursor,
              !.d.keyStart = IF l.column = target THEN l.from ELSE l.cursor]

(* Cursor: the decoded bytes of a key, `out` being empty when a byte decodes to *)
(* nothing.                                                                   *)
NewCursor(d) ==
    [at |-> d.keyStart, end |-> d.keyEnd, quoted |-> d.quoted, closed |-> FALSE, first |-> TRUE]

CursorByte(c, byte) ==
    LET moved == [c EXCEPT !.at = @ + 1, !.first = FALSE]
        yields(k) == [c |-> k, out |-> <<byte>>]
        skips(k) == [c |-> k, out |-> <<>>]
    IN  CASE c.first /\ c.quoted -> skips(moved)
          [] ~c.first /\ c.quoted /\ c.closed ->
                 IF byte = "quote" THEN yields([moved EXCEPT !.closed = FALSE])
                 ELSE yields([moved EXCEPT !.closed = FALSE, !.quoted = FALSE])
          [] ~c.first /\ c.quoted /\ ~c.closed /\ byte = "quote" ->
                 skips([moved EXCEPT !.closed = TRUE])
          [] OTHER -> yields(moved)

-----------------------------------------------------------------------------
(* Number: a decimal with an exponent, blank space around it.                  *)
NewNumber ==
    [state |-> "start", negative |-> FALSE, expNegative |-> FALSE, exp |-> 0, expDigits |-> 0,
     beforeDot |-> 0, digits |-> 0, leading |-> 0, significant |-> FALSE, invalid |-> FALSE,
     overflow |-> FALSE]

(* Faulty: only the zeros before the point are leading ones.                   *)
DigitBeforeDot(n, b, integer) ==
    [n EXCEPT !.digits = @ + 1,
              !.beforeDot = IF integer THEN @ + 1 ELSE @,
              !.leading = IF integer /\ ~n.significant /\ b = "0" THEN @ + 1 ELSE @,
              !.significant = @ \/ b # "0"]

Digit(n, b, integer) ==
    [n EXCEPT !.digits = @ + 1,
              !.beforeDot = IF integer THEN @ + 1 ELSE @,
              !.leading = IF ~n.significant /\ b = "0" THEN @ + 1 ELSE @,
              !.significant = @ \/ b # "0"]

Exponent(n, b) ==
    LET next == n.exp * 10 + DigitOf[b]
    IN  [n EXCEPT !.expDigits = @ + 1,
                  !.exp = IF next <= ExpLimit THEN next ELSE @,
                  !.overflow = @ \/ next > ExpLimit]

NumberPush(n, b) ==
    LET go(state) == [n EXCEPT !.state = state]
        bad == [n EXCEPT !.invalid = TRUE]
        integer == n.state \in {"start", "sign", "integer"}
    IN  CASE n.invalid -> n
          [] ~n.invalid /\ IsSpace(b) ->
                 [n EXCEPT !.invalid = n.state \in {"sign", "e", "e_sign"},
                           !.state = IF @ = "start" THEN @ ELSE "blank"]
          [] ~n.invalid /\ n.state = "start" /\ b \in {"plus", "minus"} ->
                 [go("sign") EXCEPT !.negative = b = "minus"]
          [] ~n.invalid /\ integer /\ b = "dot" -> go("fraction")
          [] ~n.invalid /\ integer /\ IsDigit(b) -> Digit(go("integer"), b, TRUE)
          [] ~n.invalid /\ n.state = "fraction" /\ IsDigit(b) -> Digit(n, b, FALSE)
          [] ~n.invalid /\ n.state \in {"sign", "integer", "fraction"} /\ b = "e" ->
                 IF n.digits > 0 THEN go("e") ELSE bad
          [] ~n.invalid /\ n.state = "e" /\ b \in {"plus", "minus"} ->
                 [go("e_sign") EXCEPT !.expNegative = b = "minus"]
          [] ~n.invalid /\ n.state \in {"e", "e_sign", "exponent"} /\ IsDigit(b) ->
                 Exponent(go("exponent"), b)
          [] OTHER -> bad

(* Groups: numbers, then other texts, then blanks.                             *)
NumberFinish(n, d) ==
    LET blank == d.len = 0 \/ (n.state = "start" /\ ~n.invalid)
        plain == [d EXCEPT !.group = IF blank THEN 2 ELSE 1]
    IN  IF n.invalid \/ n.digits = 0 \/ n.state \in {"sign", "e", "e_sign"} THEN plain
        ELSE [d EXCEPT !.group = 0, !.leading = n.leading, !.digits = n.digits,
                       !.sign = IF ~n.significant THEN 0 ELSE IF n.negative THEN -1 ELSE 1,
                       !.magnitude = n.beforeDot - n.leading
                                       + (IF n.expNegative THEN -n.exp ELSE n.exp)]

OutOfRange(n) ==
    n.overflow /\ ~n.invalid /\ n.digits > 0 /\ n.state \notin {"sign", "e", "e_sign"}

NewBuilder(d) == [kind |-> "build", d |-> d, c |-> NewCursor(d), n |-> NewNumber]

BuilderByte(b, byte, numeric) ==
    LET step == CursorByte(b.c, byte)
        moved == [b EXCEPT !.c = step.c]
    IN  IF step.out = <<>> THEN moved
        ELSE [moved EXCEPT !.d.len = @ + 1,
                           !.d.prefix = IF Len(@) < Prefix THEN Append(@, byte) ELSE @,
                           !.n = IF numeric THEN NumberPush(@, byte) ELSE @]

-----------------------------------------------------------------------------
(* finish: the direction turns values, never the source order of equal keys.   *)
Directed(request, a, b, value) ==
    LET v == IF request.descending THEN -value ELSE value
    IN  IF v # 0 THEN v ELSE Cmp(a.row, b.row)

Signed(a, value) == IF a.sign < 0 THEN -value ELSE value

(* short_number_order: the digits behind the leading zeros, zeros to the right.  *)
Significant(d) ==
    LET ends == {i \in 1..Len(d.prefix) : d.prefix[i] = "e"}
        to == IF ends = {} THEN Len(d.prefix) ELSE (CHOOSE i \in ends : \A j \in ends : i <= j) - 1
        digits == SelectSeq(SubSeq(d.prefix, 1, to), IsDigit)
    IN  SubSeq(digits, d.leading + 1, Len(digits))

ShortNumberCmp(a, b) ==
    LET p == Significant(a)
        q == Significant(b)
        pad(s) == [i \in 1..AtMost(Len(p) + Len(q), Prefix) |->
                      IF i <= Len(s) THEN s[i] ELSE "0"]
    IN  BytesCmp(pad(p), pad(q))

(* decide.                                                                     *)
Decide(request, a, b) ==
    LET numbers == request.numeric /\ a.group = 0
        short == a.len <= Prefix /\ b.len <= Prefix
    IN  CASE request.numeric /\ a.group # b.group -> Cmp(a.group, b.group)
          [] request.numeric /\ a.group = b.group /\ a.group = 2 -> Cmp(a.row, b.row)
          [] numbers /\ a.group = b.group /\ a.sign # b.sign ->
                 Directed(request, a, b, Cmp(a.sign, b.sign))
          [] numbers /\ a.group = b.group /\ a.sign = b.sign /\ a.sign = 0 -> Cmp(a.row, b.row)
          [] numbers /\ a.group = b.group /\ a.sign = b.sign /\ a.sign # 0 ->
                 IF a.magnitude # b.magnitude
                 THEN Directed(request, a, b, Signed(a, Cmp(a.magnitude, b.magnitude)))
                 ELSE IF short THEN Directed(request, a, b, Signed(a, ShortNumberCmp(a, b)))
                 ELSE Undecided
          [] OTHER ->
                 IF BytesCmp(a.prefix, b.prefix) # 0
                 THEN Directed(request, a, b, BytesCmp(a.prefix, b.prefix))
                 ELSE IF short THEN Cmp(a.row, b.row) ELSE Undecided

(* Comparison: the full keys, read from the source side by side.                *)
Side(d) == [c |-> NewCursor(d), skip |-> d.leading, ended |-> FALSE]

NewComparison(request, a, b) ==
    [a |-> a, b |-> b, left |-> "unread", verdict |-> Undecided,
     sides |-> <<Side(a), Side(b)>>,
     numeric |-> request.numeric /\ a.group = 0 /\ b.group = 0]

Reading(cmp) == IF cmp.left = "unread" THEN 1 ELSE 2

(* Digits::next and Cursor::next at one raw byte: what the side yields, if        *)
(* anything; a number ends at its exponent.                                    *)
SideByte(side, numeric, byte) ==
    LET step == CursorByte(side.c, byte)
        moved == [side EXCEPT !.c = step.c]
    IN  CASE step.out = <<>> -> [side |-> moved, got |-> "unread"]
          [] step.out # <<>> /\ ~numeric -> [side |-> moved, got |-> byte]
          [] step.out # <<>> /\ numeric /\ byte = "e" ->
                 [side |-> [moved EXCEPT !.ended = TRUE], got |-> "end"]
          [] step.out # <<>> /\ numeric /\ IsDigit(byte) ->
                 IF side.skip > 0
                 THEN [side |-> [moved EXCEPT !.skip = @ - 1], got |-> "unread"]
                 ELSE [side |-> moved, got |-> byte]
          [] OTHER -> [side |-> moved, got |-> "unread"]

(* Faulty: the left value outlives the pair it was weighed in.                   *)
WeighStale(request, cmp, right) ==
    LET rank(v) == IF cmp.numeric THEN (IF v = "end" THEN 0 ELSE DigitOf[v])
                   ELSE IF v = "end" THEN 0 ELSE Code[v]
        value == Cmp(rank(cmp.left), rank(right))
    IN  IF cmp.left = "end" /\ right = "end"
        THEN [cmp EXCEPT !.verdict = Cmp(cmp.a.row, cmp.b.row)]
        ELSE IF value # 0
        THEN [cmp EXCEPT !.verdict = Directed(request, cmp.a, cmp.b,
                                        IF cmp.numeric THEN Signed(cmp.a, value) ELSE value)]
        ELSE cmp

(* The pair of values read decides, or the next pair is read.                   *)
Weigh(request, cmp, right) ==
    LET rank(v) == IF cmp.numeric THEN (IF v = "end" THEN 0 ELSE DigitOf[v])
                   ELSE IF v = "end" THEN 0 ELSE Code[v]
        value == Cmp(rank(cmp.left), rank(right))
    IN  IF cmp.left = "end" /\ right = "end"
        THEN [cmp EXCEPT !.verdict = Cmp(cmp.a.row, cmp.b.row)]
        ELSE IF value # 0
        THEN [cmp EXCEPT !.verdict = Directed(request, cmp.a, cmp.b,
                                        IF cmp.numeric THEN Signed(cmp.a, value) ELSE value)]
        ELSE [cmp EXCEPT !.left = "unread"]

Take(request, cmp, value) ==
    IF value = "unread" THEN cmp
    ELSE IF Reading(cmp) = 1 THEN [cmp EXCEPT !.left = value]
    ELSE Weigh(request, cmp, value)

SideDone(cmp) ==
    LET side == cmp.sides[Reading(cmp)] IN side.ended \/ side.c.at = side.c.end

CompareEnd(request, cmp) ==
    Take(request, [cmp EXCEPT !.sides[Reading(cmp)].ended = TRUE], "end")

CompareByte(request, cmp, byte) ==
    LET step == SideByte(cmp.sides[Reading(cmp)], cmp.numeric, byte)
    IN  Take(request, [cmp EXCEPT !.sides[Reading(cmp)] = step.side], step.got)

-----------------------------------------------------------------------------
(* The reference.  A key is the cell's text; a number has the value its decimal  *)
(* notation gives it, here times a power of ten that makes it whole.            *)
KeyText(csv, column, record) ==
    IF ~csv THEN (IF column = 0 THEN record ELSE <<>>)
    ELSE IF column < Len(FieldValues(record)) THEN FieldValues(record)[column + 1] ELSE <<>>

Trimmed(text) ==
    LET solid == {i \in 1..Len(text) : ~IsSpace(text[i])}
    IN  IF solid = {} THEN <<>>
        ELSE SubSeq(text, CHOOSE i \in solid : \A j \in solid : i <= j,
                          CHOOSE i \in solid : \A j \in solid : i >= j)

Natural(text) ==
    LET value[i \in 0..Len(text)] ==
            IF i = 0 THEN 0 ELSE value[i - 1] * 10 + DigitOf[text[i]]
    IN  value[Len(text)]

AllDigits(text) == \A i \in 1..Len(text) : IsDigit(text[i])
Unsigned(text) == IF text # <<>> /\ text[1] \in {"plus", "minus"} THEN Tail(text) ELSE text
IsMinus(text) == text # <<>> /\ text[1] = "minus"

(* The places of the exponent's letter, or the end of the text, and of the point. *)
Decimals(text) ==
    LET body == Unsigned(text)
        whole(e) == SubSeq(body, 1, e - 1)
        power(e) == SubSeq(body, e + 1, Len(body))
        split(e) == {p \in 1..e : p = e \/ body[p] = "dot"}
        digits(e, p) == SubSeq(body, 1, p - 1) \o SubSeq(body, p + 1, e - 1)
    IN  {[int |-> digits(e, p), frac |-> IF p = e THEN 0 ELSE e - 1 - p,
          exp |-> IF e > Len(body) THEN 0
                  ELSE (IF IsMinus(power(e)) THEN -1 ELSE 1) * Natural(Unsigned(power(e)))] :
             <<e, p>> \in {x \in (1..Len(body) + 1) \X (1..Len(body) + 1) :
                 LET e == x[1]
                     p == x[2]
                 IN  /\ p \in split(e)
                     /\ digits(e, p) # <<>> /\ AllDigits(digits(e, p))
                     /\ e <= Len(body) =>
                           /\ body[e] = "e"
                           /\ Unsigned(power(e)) # <<>> /\ AllDigits(Unsigned(power(e)))}}

Scale == 6
Powers == <<1, 10, 100, 1000, 10000, 100000, 1000000, 10000000>>

(* A number whose exponent is out of range is never compared.                   *)
TooLarge(text) == \E decimal \in Decimals(text) : decimal.exp \notin -ExpLimit..ExpLimit

Value(text) ==
    LET decimal == CHOOSE d \in Decimals(text) : TRUE
    IN  IF TooLarge(text) THEN 0
        ELSE (IF IsMinus(text) THEN -1 ELSE 1) * Natural(decimal.int)
                * Powers[Scale + decimal.exp - decimal.frac + 1]

GroupOf(text) ==
    IF Trimmed(text) = <<>> THEN 2 ELSE IF Decimals(Trimmed(text)) # {} THEN 0 ELSE 1

(* The record of row i stands before that of row j.                             *)
Before(request, key, i, j) ==
    LET p == key[i]
        q == key[j]
        value == IF request.numeric /\ GroupOf(p) = 0
                 THEN Cmp(Value(Trimmed(p)), Value(Trimmed(q)))
                 ELSE BytesCmp(p, q)
        turned == IF request.descending THEN -value ELSE value
    IN  IF request.numeric /\ GroupOf(p) # GroupOf(q) THEN GroupOf(p) < GroupOf(q)
        ELSE IF request.numeric /\ GroupOf(p) = 2 THEN i < j
        ELSE turned < 0 \/ (turned = 0 /\ i < j)
=============================================================================
