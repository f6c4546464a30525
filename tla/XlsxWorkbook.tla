------------------------------ MODULE XlsxWorkbook ------------------------------
(***************************************************************************)
(* What a workbook keeps while it is open: the number formats and the       *)
(* shared strings, read from their parts by read_styles and                 *)
(* read_shared_strings in crates/leanrows-core/src/xlsx/mod.rs, with the    *)
(* rules of xlsx/cell.rs for what a format makes of a number.               *)
(***************************************************************************)
EXTENDS XlsxPart, ExcelDates

CONSTANTS
    MaxCell,            \* max_cell_bytes, of the workbook and of a viewport
    MaxStyles,          \* max_styles
    MaxStrings,         \* max_shared_strings
    MaxStringText       \* max_shared_string_bytes

\* A symbol that only goes on with the character before it.
Continuation == "~"

\* utf8_prefix
Utf8Prefix(text, limit) ==
    IF Len(text) <= limit THEN text
    ELSE LET ends == {n \in 0 .. limit : n = 0 \/ text[n + 1] # Continuation}
         IN  SubSeq(text, 1, CHOOSE n \in ends : \A other \in ends : other <= n)

Digits == <<"0", "1", "2", "3", "4", "5", "6", "7", "8", "9">>
NoNumber == -1

\* A number beyond one digit is a single symbol where its digits do not matter.
Numerals ==
    [i \in 1 .. 10 |-> <<Digits[i], i - 1>>]
    \o << <<"14", 14>>, <<"22", 22>>, <<"2958465", 2958465>>, <<"2958466", 2958466>> >>

Worth(symbol) ==
    LET own == SelectSeq(Numerals, LAMBDA n : n[1] = symbol)
    IN  IF own = <<>> THEN NoNumber ELSE Head(own)[2]

\* parse_number and parse_u32
Number(text) ==
    IF Len(text) = 1 THEN Worth(Head(text))
    ELSE IF text # <<>> /\ ToSet(text) \subseteq ToSet(Digits)
    THEN FoldLeft(LAMBDA sum, digit : 10 * sum + Worth(digit), 0, text)
    ELSE NoNumber

-----------------------------------------------------------------------------
(* Number formats.                                                           *)

BuiltinKind(id) ==
    CASE id \in 14 .. 17 -> "Date"
      [] id \in (18 .. 21) \cup (45 .. 47) -> "Time"
      [] id = 22 -> "DateTime"
      [] OTHER -> "Plain"

Elapsed(inner) ==
    inner # <<>> /\ \E letter \in {"h", "m", "s"} : ToSet(inner) = {letter}

\* format_code_kind: skip is what the next symbol is part of.
FormatCodeKind(code) ==
    LET Seen(acc, b) ==
            CASE acc.skip = "quoted" -> [acc EXCEPT !.skip = IF b = "quote" THEN "" ELSE @]
              [] acc.skip = "escaped" -> [acc EXCEPT !.skip = ""]
              [] acc.skip = "inside" /\ b = "]" ->
                    [acc EXCEPT !.skip = "", !.kinds = IF Elapsed(acc.inner) THEN @ \cup {"time"} ELSE @]
              [] acc.skip = "inside" /\ b # "]" -> [acc EXCEPT !.inner = Append(@, b)]
              [] acc.skip = "" /\ b = "quote" -> [acc EXCEPT !.skip = "quoted"]
              [] acc.skip = "" /\ b \in {"\\", "_", "*"} -> [acc EXCEPT !.skip = "escaped"]
              [] acc.skip = "" /\ b = "[" -> [acc EXCEPT !.skip = "inside", !.inner = <<>>]
              [] acc.skip = "" /\ b \in {"d", "y"} -> [acc EXCEPT !.kinds = @ \cup {"date"}]
              [] acc.skip = "" /\ b \in {"h", "s"} -> [acc EXCEPT !.kinds = @ \cup {"time"}]
              [] acc.skip = "" /\ b = "m" -> [acc EXCEPT !.kinds = @ \cup {"month"}]
              [] OTHER -> acc
        end == FoldLeft(Seen, [skip |-> "", inner |-> <<>>, kinds |-> {}], code)
        \* A bracket that is not closed holds the rest.
        kinds == IF end.skip = "inside" /\ Elapsed(end.inner)
                 THEN end.kinds \cup {"time"} ELSE end.kinds
        time == "time" \in kinds
        date == "date" \in kinds \/ ("month" \in kinds /\ ~ time)
    IN  CASE date /\ time -> "DateTime"
          [] date /\ ~ time -> "Date"
          [] ~ date /\ time -> "Time"
          [] ~ date /\ ~ time -> "Plain"

SecondsPerDay == 86400
SerialLimit == 2958466

\* Seconds of a fraction of a day, to the nearest one.
Fraction(text) ==
    CASE text = <<>> -> 0
      [] text = <<".", "5">> -> 43200
      [] text = <<".", "999999">> -> SecondsPerDay
      [] OTHER -> NoNumber

\* serial_text. A serial is rounded to a second before it is split, so its last
\* instants belong to the next day.
DateAndTime(value, kind, date, seconds) ==
    CASE kind = "Time" -> <<TimeText(seconds)>>
      [] kind # "Time" /\ date = NoDate -> value
      [] kind = "Date" /\ date # NoDate -> <<DateText(date)>>
      [] kind = "DateTime" /\ date # NoDate -> <<DateText(date), TimeText(seconds)>>

RoundedSerial(value, kind, date1904, whole, part) ==
    IF kind = "Plain" \/ whole \notin 0 .. SerialLimit - 1 \/ part = NoNumber THEN value
    ELSE DateAndTime(value, kind, DateOf(whole + part \div SecondsPerDay, date1904),
                     part % SecondsPerDay)

SerialText(value, kind, date1904) ==
    LET point == SelectInSeq(value, LAMBDA symbol : symbol = ".")
        end == IF point = 0 THEN Len(value) ELSE point - 1
    IN  RoundedSerial(value, kind, date1904, Number(SubSeq(value, 1, end)),
                      Fraction(SubSeq(value, end + 1, Len(value))))

NoStyles == [inFormats |-> FALSE, inCells |-> FALSE, custom |-> <<>>, ids |-> <<>>]

CustomFormat(a, id, code) ==
    LET kind == IF code.found THEN FormatCodeKind(code.value) ELSE "Plain" IN
    IF id.bad \/ code.bad THEN [error |-> "MalformedXml"]
    ELSE IF ~ id.found \/ Number(id.value) = NoNumber THEN a
    ELSE [a EXCEPT !.custom = Append(@, <<Number(id.value), kind>>)]

CellFormat(a, id) ==
    LET number == IF id.found THEN Number(id.value) ELSE NoNumber IN
    IF id.bad THEN [error |-> "MalformedXml"]
    ELSE [a EXCEPT !.ids = Append(@, IF number # NoNumber THEN number ELSE 0)]

\* read_styles, for one token. The result is an error or the new state.
StyleNamed(a, x, name) ==
    LET opens == x.event \in {"Start", "Empty"} IN
    CASE opens /\ name = <<"numFmts">> -> [a EXCEPT !.inFormats = x.event = "Start"]
      [] opens /\ name = <<"cellXfs">> -> [a EXCEPT !.inCells = x.event = "Start"]
      [] opens /\ name = <<"numFmt">> /\ a.inFormats ->
            IF Len(a.custom) >= MaxStyles THEN [error |-> "TooManyStyles"]
            ELSE CustomFormat(a, Attribute(x, "numFmtId", FALSE), Attribute(x, "formatCode", FALSE))
      [] opens /\ name = <<"xf">> /\ a.inCells ->
            IF Len(a.ids) >= MaxStyles THEN [error |-> "TooManyStyles"]
            ELSE CellFormat(a, Attribute(x, "numFmtId", FALSE))
      [] x.event = "End" /\ name = <<"numFmts">> -> [a EXCEPT !.inFormats = FALSE]
      [] x.event = "End" /\ name = <<"cellXfs">> -> [a EXCEPT !.inCells = FALSE]
      [] OTHER -> a

StyleToken(a, x) == StyleNamed(a, x, Name(x))

\* The kind of each cell format: the first custom format with its id counts.
StyleKinds(a) ==
    LET Kind(id) ==
            LET own == {i \in DOMAIN a.custom : a.custom[i][1] = id}
            IN  IF own = {} THEN BuiltinKind(id)
                ELSE a.custom[CHOOSE i \in own : \A j \in own : i <= j][2]
    IN  [i \in DOMAIN a.ids |-> Kind(a.ids[i])]

-----------------------------------------------------------------------------
(* Shared strings.                                                           *)

NoItem == [text |-> <<>>, truncated |-> FALSE]
NoStrings == [inItem |-> FALSE, phonetic |-> 0, collecting |-> FALSE,
              item |-> NoItem, strings |-> <<>>, total |-> 0]

PushString(a) ==
    IF Len(a.strings) >= MaxStrings THEN [error |-> "TooManySharedStrings"]
    ELSE [a EXCEPT !.strings = Append(@, a.item), !.inItem = FALSE]

\* What a run of text adds to its item.
Lengthened(item, x) ==
    LET kept == Utf8Prefix(x.text, MaxCell - Len(item.text))
    IN  [text |-> item.text \o kept,
         truncated |-> item.truncated \/ Len(kept) < Len(x.text) \/ x.truncated]

BeginItem(a) == [a EXCEPT !.inItem = TRUE, !.item = NoItem, !.phonetic = 0]

\* read_shared_strings, for one token.
StringNamed(a, x, name) ==
    LET opens == x.event \in {"Start", "Empty"} IN
    CASE opens /\ name = <<"si">> ->
            IF x.event = "Empty" THEN PushString(BeginItem(a)) ELSE BeginItem(a)
      [] x.event = "Start" /\ name = <<"rPh">> -> [a EXCEPT !.phonetic = @ + 1]
      [] x.event = "Start" /\ name = <<"t">> /\ a.inItem /\ a.phonetic = 0 ->
            [a EXCEPT !.collecting = TRUE]
      [] x.event = "End" /\ name = <<"t">> /\ a.collecting ->
            IF a.total + x.total > MaxStringText THEN [error |-> "SharedStringsTooLarge"]
            ELSE [a EXCEPT !.total = @ + x.total, !.item = Lengthened(@, x),
                           !.collecting = FALSE]
      [] x.event = "End" /\ name = <<"rPh">> ->
            [a EXCEPT !.phonetic = IF @ > 0 THEN @ - 1 ELSE 0]
      [] x.event = "End" /\ name = <<"si">> /\ a.inItem -> PushString(a)
      [] OTHER -> a

StringToken(a, x) == StringNamed(a, x, Name(x))

\* The tokenizer collects the text of the item only.
StringText(a, b, x) ==
    IF Name(x) = <<"t">> /\ (a.collecting \/ b.collecting)
    THEN CollectText(x, b.collecting) ELSE x

=============================================================================
