------------------------------- MODULE XlsxSheet -------------------------------
(***************************************************************************)
(* One sheet of an open workbook: SheetCursor, RowBuilder and XlsxSheetScan *)
(* in crates/leanrows-core/src/xlsx/sheet.rs.                               *)
(*                                                                         *)
(* A scan reads the sheet once, in steps that end at a budget or when they  *)
(* are cancelled, and keeps copies of its cursor at row boundaries. A       *)
(* viewport starts from the copy nearest to its first row. Both go through  *)
(* the same cursor, and one turn of it is one step of this specification:   *)
(* it may be cancelled by another thread between any two.                   *)
(***************************************************************************)
EXTENDS XlsxPackage

CONSTANTS
    Books,              \* the workbooks that may be opened
    FileOf(_),          \* what each of them holds
    Pieces,             \* how many symbols the decompressor may give at once
    Budgets,            \* what a step may read, in compressed bytes
    Sizes,              \* how many rows a viewport may ask for
    MaxColumns,         \* max_columns
    MaxRowText,         \* max_row_bytes
    MaxRows,            \* XLSX_MAX_ROWS
    CheckpointCapacity, \* CHECKPOINT_CAPACITY
    FirstStride,        \* INITIAL_CHECKPOINT_STRIDE
    OutputFactor,       \* OUTPUT_BUDGET_FACTOR
    CancelEvery,        \* CANCELLATION_EVENTS
    DrainEvery,         \* chunks drained between two looks at the token
    MaxCancels          \* bound on cancellations

ASSUME XlsxAssumption ==
    /\ {CheckpointCapacity, FirstStride, OutputFactor, CancelEvery, DrainEvery} \subseteq Nat \ {0}
    /\ MaxCancels \in Nat /\ Pieces \subseteq Nat \ {0} /\ Sizes \subseteq Nat

VARIABLES
    book,       \* the workbook that is opened
    piece,      \* the pieces its parts come in
    task,       \* what the thread does: opening, a step, a viewport, or nothing
    context,    \* what the workbook gave so far: relationships, sheets, CellContext
    part,       \* the cursor over the part that is read, and what it gave so far
    scan,       \* XlsxSheetScan
    reader,     \* the cursor and the rows of a viewport
    cancels     \* cancellations that may still happen

xlsxVars == <<book, piece, task, context, part, scan, reader, cancels>>

NoRow == [index |-> 0, cells |-> <<>>, truncated |-> FALSE]
NoCell == [column |-> 0, kind |-> "", style |-> 0, value |-> <<>>, cut |-> FALSE,
           has |-> FALSE, inline |-> <<>>, inlineCut |-> FALSE, inValue |-> FALSE,
           inInline |-> FALSE, inText |-> FALSE, phonetic |-> 0]

\* RowBuilder, with the local state of next_row. A scan has none: on is FALSE.
NoBuilder == [on |-> FALSE, after |-> 0, collecting |-> FALSE,
              row |-> NoRow, bytes |-> 0, cell |-> NoCell]

\* The file: its archive, the sheet that is asked for, and what a reader expects.
File == FileOf(book)

\* The part that a cursor reads, and the one of the sheet that was chosen.
PartAt(entry) == File.archive.entries[entry]
SheetPart == PartAt(context.sheet)

CursorOver(sheet) ==
    OpenPart(sheet, MaxCell) @@
    [phase |-> "BeforeData", last |-> 0, row |-> 0, column |-> 0,
     events |-> 0, busy |-> FALSE]
NewCursor == CursorOver(SheetPart)

\* checkpoint
CursorCopy(c) ==
    [c EXCEPT !.stream = StreamCopy(@), !.xml = TokenizerCopy(@), !.events = 0]

-----------------------------------------------------------------------------
(* Cells.                                                                    *)

Columns == <<"A", "B", "C", "D">>

\* parse_reference: a letter, and the digits of the row if there are any.
BadReference == -1
Reference(text, row) ==
    IF text = <<>> \/ ~ Contains(Columns, Head(text)) THEN BadReference
    ELSE IF Tail(text) # <<>> /\ Number(Tail(text)) # row THEN BadReference
    ELSE (CHOOSE i \in DOMAIN Columns : Columns[i] = Head(text)) - 1

\* place
Place(b, column, text, cut) ==
    LET left == MaxRowText - b.bytes
        room == IF left < MaxCell THEN left ELSE MaxCell
        kept == Utf8Prefix(text, room)
        short == Len(kept) < Len(text)
        filled == b.row.cells \o [i \in 1 .. column - Len(b.row.cells) |-> NoItem]
    IN
    IF column >= MaxColumns THEN [b EXCEPT !.row.truncated = TRUE]
    ELSE [b EXCEPT !.bytes = @ + Len(kept),
                   !.row = [@ EXCEPT !.cells = Append(filled, [text |-> kept, truncated |-> cut \/ short]),
                                     !.truncated = @ \/ (short /\ room < MaxCell)]]

BooleanText(value) ==
    CASE value = <<"1">> -> <<"TRUE">>
      [] value = <<"0">> -> <<"FALSE">>
      [] OTHER -> value

\* A number that is shown as it is stored is cut if what is stored was cut.
PlaceNumber(b, text) == Place(b, b.cell.column, text, b.cell.cut /\ text = b.cell.value)

\* finish_cell. The result is the builder, or what is wrong.
FinishCell(b) ==
    LET cell == b.cell
        kinds == context.kinds
        string == Number(cell.value) + 1
    IN
    CASE cell.kind = "s" ->
            IF ~ cell.has THEN Place(b, cell.column, <<>>, FALSE)
            ELSE IF string \notin DOMAIN context.strings THEN [error |-> "SharedStringIndex"]
            ELSE Place(b, cell.column, context.strings[string].text,
                       context.strings[string].truncated)
      [] cell.kind = "inlineStr" -> Place(b, cell.column, cell.inline, cell.inlineCut)
      [] cell.kind = "b" -> Place(b, cell.column, BooleanText(cell.value), cell.cut)
      [] cell.kind = "n" ->
            IF cell.style = 0 /\ kinds = <<>> THEN Place(b, cell.column, cell.value, cell.cut)
            ELSE IF cell.style + 1 \notin DOMAIN kinds THEN [error |-> "StyleIndex"]
            ELSE PlaceNumber(b, SerialText(cell.value, kinds[cell.style + 1], context.date1904))
      [] OTHER -> Place(b, cell.column, cell.value, cell.cut)

-----------------------------------------------------------------------------
(* next_row. A turn has the cursor, the builder and out: "" to go on, "Row", *)
(* "SheetEnd", or what is wrong.                                             *)

Turned(c, b) == [c |-> c, b |-> b, out |-> ""]
Returns(c, b, out) == [c |-> c, b |-> b, out |-> out]

AfterCell(c, done) ==
    IF "error" \in DOMAIN done THEN Returns(c, NoBuilder, done.error) ELSE Turned(c, done)

\* row_event of <c>: the column, then the type, then the style. The cells of a
\* row that is not collected are checked for their columns only.
StyledCell(c, b, style) ==
    LET number == IF style.found THEN Number(style.value) ELSE 0
        begun == [b EXCEPT !.cell.style = number]
    IN
    IF style.bad THEN Returns(c, b, "MalformedXml")
    ELSE IF number = NoNumber THEN Returns(c, b, "StyleIndex")
    ELSE IF c.token = "Empty" THEN AfterCell(c, FinishCell(begun))
    ELSE Turned(c, begun)

TypedCell(c, b, type) ==
    IF type.bad THEN Returns(c, b, "MalformedXml")
    ELSE StyledCell(c, [b EXCEPT !.cell.kind = IF type.found THEN Head(type.value) ELSE "n"],
                    Attribute(c.xml, "s", FALSE))

PlacedCell(c, b, column) ==
    IF column < c.column THEN Returns(c, b, "BadCellReference")
    ELSE IF ~ b.collecting THEN Turned([c EXCEPT !.column = column + 1], b)
    ELSE TypedCell([c EXCEPT !.column = column + 1],
                   [b EXCEPT !.cell = [NoCell EXCEPT !.column = column]],
                   Attribute(c.xml, "t", FALSE))

CellAt(c, b, place) ==
    IF place.bad THEN Returns(c, b, "MalformedXml")
    ELSE PlacedCell(c, b, IF place.found THEN Reference(place.value, c.row) ELSE c.column)

StartCell(c, b) == CellAt(c, b, Attribute(c.xml, "r", FALSE))

Collecting(c, on) == [c EXCEPT !.xml = CollectText(@, on)]

\* row_event of a start tag
RowStart(c, b) ==
    LET name == Name(c.xml)
        opens == c.token = "Start"
        cell == b.cell
    IN
    CASE name = <<"c">> -> StartCell(c, b)
      [] name = <<"v">> /\ cell.kind # "" ->
            IF opens THEN Turned(Collecting(c, TRUE),
                                 [b EXCEPT !.cell = [@ EXCEPT !.inValue = TRUE, !.has = TRUE]])
            ELSE Turned(c, [b EXCEPT !.cell.has = TRUE])
      [] name = <<"is">> /\ cell.kind # "" /\ opens -> Turned(c, [b EXCEPT !.cell.inInline = TRUE])
      [] name = <<"rPh">> /\ cell.inInline /\ opens -> Turned(c, [b EXCEPT !.cell.phonetic = @ + 1])
      [] name = <<"t">> /\ cell.inInline /\ cell.phonetic = 0 /\ opens ->
            Turned(Collecting(c, TRUE), [b EXCEPT !.cell.inText = TRUE])
      [] OTHER -> Turned(c, b)

ClosedCell(done) == IF "error" \in DOMAIN done THEN done ELSE [done EXCEPT !.cell.kind = ""]

\* row_event of an end tag
RowEnd(c, b) ==
    LET name == Name(c.xml)
        cell == b.cell
    IN
    CASE name = <<"row">> ->
            Returns([c EXCEPT !.last = c.row, !.phase = "InData"],
                  [b EXCEPT !.cell = NoCell, !.collecting = FALSE], "Row")
      [] name = <<"v">> /\ cell.inValue ->
            Turned(Collecting(c, FALSE),
                   [b EXCEPT !.cell = [@ EXCEPT !.inValue = FALSE, !.value = c.xml.text,
                                                !.cut = c.xml.truncated]])
      [] name = <<"t">> /\ cell.inText ->
            Turned(Collecting(c, FALSE),
                   [b EXCEPT !.cell = [@ EXCEPT !.inText = FALSE, !.inline = @ \o c.xml.text,
                                                !.inlineCut = @ \/ c.xml.truncated]])
      [] name = <<"rPh">> /\ cell.inInline ->
            Turned(c, [b EXCEPT !.cell.phonetic = IF @ > 0 THEN @ - 1 ELSE 0])
      [] name = <<"is">> -> Turned(c, [b EXCEPT !.cell.inInline = FALSE])
      [] name = <<"c">> /\ cell.kind # "" -> AfterCell(c, ClosedCell(FinishCell(b)))
      [] OTHER -> Turned(c, b)

\* start_row, and what next_row does with the number. A row of which the
\* viewport has no use is read without its cells.
RowNumbered(c, b, number) ==
    LET collects == b.on /\ number > b.after
        reset == [b EXCEPT !.collecting = collects, !.bytes = IF collects THEN 0 ELSE @,
                           !.row = IF collects THEN [NoRow EXCEPT !.index = number - 1] ELSE @]
    IN
    IF number <= c.last \/ number > MaxRows THEN Returns(c, b, "BadRowNumber")
    ELSE IF c.token = "Empty"
    THEN Returns([c EXCEPT !.last = number], [reset EXCEPT !.collecting = FALSE], "Row")
    ELSE Turned([c EXCEPT !.row = number, !.column = 0, !.phase = "InRow"], reset)

RowAt(c, b, at) ==
    IF at.bad THEN Returns(c, b, "MalformedXml")
    ELSE RowNumbered(c, b, IF at.found THEN Number(at.value) ELSE c.last + 1)

StartRow(c, b) == RowAt(c, b, Attribute(c.xml, "r", FALSE))

SheetData == <<"sheetData">>
EndsSheet(c, b) == Returns([c EXCEPT !.phase = "After"], b, "SheetEnd")

\* next_row, for one event
SheetToken(c, b) ==
    LET opens == c.token \in {"Start", "Empty"}
        name == Name(c.xml)
    IN
    CASE c.token = "Eof" ->
            IF c.phase \in {"BeforeData", "After"} THEN EndsSheet(c, b)
            ELSE Returns(c, b, "MalformedXml")
      [] c.token # "Eof" /\ c.phase = "BeforeData" ->
            IF ~ (opens /\ name = SheetData) THEN Turned(c, b)
            ELSE IF c.token = "Empty" THEN EndsSheet(c, b)
            ELSE Turned([c EXCEPT !.phase = "InData"], b)
      [] c.token # "Eof" /\ c.phase = "InData" ->
            IF opens /\ name = <<"row">> THEN StartRow(c, b)
            ELSE IF c.token = "End" /\ name = SheetData THEN EndsSheet(c, b)
            ELSE Turned(c, b)
      [] c.token # "Eof" /\ c.phase = "InRow" ->
            IF opens THEN RowStart(c, b)
            ELSE IF c.token = "End" THEN RowEnd(c, b) ELSE Turned(c, b)
      [] c.token # "Eof" /\ c.phase = "After" -> EndsSheet(c, b)

\* Once around the loop of next_event, which looks at the token now and then,
\* and the handling of the event if there is one.
Handled(c, b) ==
    IF c.token = "" THEN Turned(c, b)
    ELSE IF c.token \in Tokens \cup {"Eof"} THEN SheetToken([c EXCEPT !.busy = FALSE], b)
    ELSE Returns(c, b, c.token)

Turn(c, b, cancelled) ==
    LET counted == IF c.busy THEN c.events ELSE (c.events + 1) % CancelEvery IN
    IF ~ c.busy /\ counted = 0 /\ cancelled
    THEN Returns([c EXCEPT !.events = counted], b, "Cancelled")
    ELSE Handled(ReadToken(SheetPart, [c EXCEPT !.events = counted, !.busy = TRUE], piece), b)

-----------------------------------------------------------------------------
(* Opening: the directory, then the relationships of the package, those of  *)
(* the workbook, the workbook, its styles and its strings, and the scan.     *)

Idle == [kind |-> "idle", cancelled |-> FALSE]
NoPart == [token |-> ""]
NoReader == [rows |-> <<>>]
NoScan == [complete |-> FALSE, checkpoints |-> <<>>]
NoContext == [related |-> <<>>, sheets |-> <<>>, date1904 |-> FALSE,
              kinds |-> <<>>, strings |-> <<>>, sheet |-> 0]

\* PartCursor::open. A part that is missing reads as one without tokens, or
\* the workbook is refused for it.
NoSuchPart(gathered, required) ==
    [entry |-> 0, gathered |-> gathered, events |-> 0,
     token |-> IF required THEN "MissingPart" ELSE "Eof"]

PartOver(entry, name, limit, gathered, required) ==
    IF entry = 0 THEN NoSuchPart(gathered, required)
    ELSE OpenPart(PartAt(entry), limit)
         @@ [entry |-> entry, base |-> BaseOf(name), gathered |-> gathered, events |-> 0]

PartNamed(name, limit, gathered, required) ==
    PartOver(EntryOf(File.archive, name), name, limit, gathered, required)

\* The part of the first relationship in a list, if there is one.
PartRelated(own, limit, gathered) ==
    IF own = <<>> THEN NoSuchPart(gathered, FALSE)
    ELSE PartNamed(Head(own).target, limit, gathered, TRUE)

XlsxInit ==
    /\ book \in Books /\ piece \in Pieces
    /\ task = [Idle EXCEPT !.kind = "directory"]
    /\ context = NoContext
    /\ part = NoPart
    /\ scan = NoScan
    /\ reader = NoReader
    /\ cancels = MaxCancels

Refused(error) ==
    /\ task' = [Idle EXCEPT !.kind = error]
    /\ part' = NoPart /\ reader' = NoReader

\* A cancellation is looked for before the directory and after the workbook.
ReadDirectory ==
    LET error == IF task.cancelled THEN "Cancelled" ELSE DirectoryError(File.archive) IN
    /\ task.kind = "directory"
    /\ IF error # "" THEN Refused(error)
       ELSE /\ task' = [task EXCEPT !.kind = "package"]
            /\ part' = PartNamed(<<"_rels", "">>, 0, NoRelationships, FALSE)
            /\ UNCHANGED reader
    /\ UNCHANGED <<book, piece, context, scan, cancels>>

Begins(kind, cursor) ==
    /\ task' = [task EXCEPT !.kind = kind]
    /\ part' = cursor
    /\ UNCHANGED <<scan, reader>>

\* open_xlsx and XlsxSheetScan::new
BeginScan(chosen) ==
    IF "error" \in DOMAIN chosen THEN Refused(chosen.error) /\ UNCHANGED <<context, scan>>
    ELSE LET sheet == context.sheets[chosen.sheet]
             entry == EntryOf(File.archive, sheet.part)
             error == IF SheetError(File.archive, sheet) # "" THEN SheetError(File.archive, sheet)
                      ELSE OpenError(PartAt(entry))
         IN  IF error # "" THEN Refused(error) /\ UNCHANGED <<context, scan>>
             ELSE /\ context' = [context EXCEPT !.strings = part.gathered.strings, !.sheet = entry]
                  /\ scan' = [cursor |-> CursorOver(PartAt(entry)), checkpoints |-> <<>>,
                              stride |-> FirstStride, next |-> FirstStride, complete |-> FALSE]
                  /\ task' = Idle /\ part' = NoPart /\ UNCHANGED reader

\* XlsxWorkbook::open, once a part is read to its end.
PackageEnds(found) ==
    /\ IF found.error # "" THEN Refused(found.error) /\ UNCHANGED scan
       ELSE Begins("related", PartNamed(RelationshipsPart(found.part), 0, NoRelationships, FALSE)
                              @@ [workbook |-> found.part])
    /\ UNCHANGED context

PartEnds ==
    CASE task.kind = "package" -> PackageEnds(WorkbookPart(part.gathered.list))
      [] task.kind = "related" ->
            /\ context' = [context EXCEPT !.related = part.gathered.list]
            /\ Begins("workbook", PartNamed(part.workbook, 0, NoWorkbook, TRUE))
      [] task.kind = "workbook" ->
            /\ context' = [context EXCEPT !.sheets = part.gathered.sheets,
                                          !.date1904 = part.gathered.date1904]
            /\ IF task.cancelled THEN Refused("Cancelled") /\ UNCHANGED scan
               ELSE Begins("styles", PartRelated(PartOfKind(context.related, "/styles"), 0, NoStyles))
      [] task.kind = "styles" ->
            /\ context' = [context EXCEPT !.kinds = StyleKinds(part.gathered)]
            /\ Begins("strings", PartRelated(PartOfKind(context.related, "/sharedStrings"),
                                             MaxCell, NoStrings))
      [] task.kind = "strings" -> BeginScan(ChosenSheet(context.sheets, File.wanted))

\* What one token adds to what its part gave so far, or an error.
TokenGives(kind, gathered, x, base) ==
    CASE kind \in {"package", "related"} -> RelationshipToken(gathered, x, base)
      [] kind = "workbook" -> WorkbookToken(gathered, x, context.related)
      [] kind = "styles" -> StyleToken(gathered, x)
      [] kind = "strings" -> StringToken(gathered, x)

Gathered(read, gathered) ==
    IF "error" \in DOMAIN gathered THEN Refused(gathered.error)
    ELSE /\ part' = [read EXCEPT
                !.gathered = gathered, !.token = "",
                !.xml = IF task.kind = "strings" THEN StringText(read.gathered, gathered, @)
                        ELSE @]
         /\ UNCHANGED <<task, reader>>

\* One token of a part, or its end. The strings look at the token of the call
\* every so many events.
PartRead(at) ==
    LET counted == IF at.token \in Tokens THEN (at.events + 1) % CancelEvery ELSE at.events
        read == [at EXCEPT !.events = counted]
    IN
    IF at.token = "Eof" THEN PartEnds
    ELSE /\ UNCHANGED <<context, scan>>
         /\ IF at.token = "" THEN part' = read /\ UNCHANGED <<task, reader>>
            ELSE IF at.token \notin Tokens THEN Refused(at.token)
            ELSE IF task.kind = "strings" /\ counted = 0 /\ task.cancelled THEN Refused("Cancelled")
            ELSE Gathered(read, TokenGives(task.kind, at.gathered, at.xml, at.base))

Opening == {"package", "related", "workbook", "styles", "strings"}

OpenTurn ==
    /\ task.kind \in Opening
    /\ PartRead(IF part.token # "" THEN part ELSE ReadToken(PartAt(part.entry), part, piece))
    /\ UNCHANGED <<book, piece, cancels>>

-----------------------------------------------------------------------------
(* The scan.                                                                 *)

Consumed == Packed(SheetPart, scan.cursor.stream.produced)

\* step. Each call has a generation of its own.
BeginStep ==
    /\ task.kind = "idle" /\ ~ scan.complete
    /\ \E budget \in Budgets :
          task' = [kind |-> "step", cancelled |-> FALSE, budget |-> budget, fresh |-> TRUE,
                   consumed |-> Consumed, produced |-> scan.cursor.stream.produced]
    /\ UNCHANGED <<book, piece, context, part, scan, reader, cancels>>

\* add_checkpoint: when the list is full, every second one is kept.
Halved(list) == [i \in 1 .. Len(list) \div 2 |-> list[2 * i]]

AddCheckpoint(s) ==
    LET full == Len(s.checkpoints) = CheckpointCapacity
        kept == IF full THEN Halved(s.checkpoints) ELSE s.checkpoints
        stride == IF full THEN s.stride * 2 ELSE s.stride
    IN  [s EXCEPT !.checkpoints = Append(kept, CursorCopy(s.cursor)), !.stride = stride,
                  !.next = s.cursor.last + stride]

BudgetUsed(produced) ==
    \/ Packed(SheetPart, produced) - task.consumed >= task.budget
    \/ produced - task.produced >= task.budget * OutputFactor

\* The loop of step: at its head it looks at the token.
Scanned(turn) ==
    LET moved == [scan EXCEPT !.cursor = turn.c] IN
    CASE turn.out = "" ->
            /\ scan' = moved /\ task' = [task EXCEPT !.fresh = FALSE]
            /\ UNCHANGED <<reader, part>>
      [] turn.out = "Row" ->
            /\ scan' = IF turn.c.last >= scan.next THEN AddCheckpoint(moved) ELSE moved
            /\ task' = IF BudgetUsed(turn.c.stream.produced) THEN Idle
                       ELSE [task EXCEPT !.fresh = TRUE]
            /\ UNCHANGED <<reader, part>>
      [] turn.out = "SheetEnd" ->
            /\ scan' = moved
            /\ task' = [kind |-> "drain", cancelled |-> task.cancelled, chunks |-> 0]
            /\ UNCHANGED <<reader, part>>
      [] turn.out = "Cancelled" -> scan' = moved /\ task' = Idle /\ UNCHANGED <<reader, part>>
      [] OTHER -> scan' = moved /\ Refused(turn.out)

ScanTurn ==
    /\ task.kind = "step"
    /\ IF task.fresh /\ task.cancelled THEN task' = Idle /\ UNCHANGED <<scan, reader, part>>
       ELSE Scanned(Turn(scan.cursor, NoBuilder, task.cancelled))
    /\ UNCHANGED <<book, piece, context, cancels>>

\* drain, once around: the rest of the part, for its size and its checksum.
Drained(filled) ==
    LET chunks == (task.chunks + 1) % DrainEvery
        drained == [scan EXCEPT !.cursor.stream = filled.s]
    IN
    IF filled.error # "" THEN scan' = drained /\ Refused(filled.error)
    ELSE /\ scan' = [drained EXCEPT !.complete = ~ filled.more]
         /\ task' = IF ~ filled.more \/ (chunks = 0 /\ task.cancelled) THEN Idle
                    ELSE [task EXCEPT !.chunks = chunks]
         /\ UNCHANGED <<reader, part>>

DrainTurn ==
    LET s == scan.cursor.stream IN
    /\ task.kind = "drain"
    /\ Drained(Fill(SheetPart, Consume(s, s.produced - s.read), piece))
    /\ UNCHANGED <<book, piece, context, cancels>>

-----------------------------------------------------------------------------
(* A viewport.                                                               *)

\* Faulty variant: rows are numbered from one, the first row of a viewport
\* from zero.
ResumedAfter(first) ==
    LET before == {i \in DOMAIN scan.checkpoints : scan.checkpoints[i].last <= first + 1}
    IN  IF before = {} THEN NewCursor
        ELSE CursorCopy(scan.checkpoints[CHOOSE i \in before : \A j \in before : j <= i])

\* The last checkpoint at or before a row, or the start of the sheet.
Resumed(first) ==
    LET before == {i \in DOMAIN scan.checkpoints : scan.checkpoints[i].last <= first}
    IN  IF before = {} THEN NewCursor
        ELSE CursorCopy(scan.checkpoints[CHOOSE i \in before : \A j \in before : j <= i])

BeginRows(first, size) ==
    /\ task.kind = "idle"
    /\ task' = [Idle EXCEPT !.kind = "rows"]
    /\ reader' = [rows |-> <<>>, first |-> first, size |-> size, next |-> first, end |-> FALSE,
                  cursor |-> Resumed(first), builder |-> [NoBuilder EXCEPT !.on = TRUE, !.after = first]]
    /\ UNCHANGED <<book, piece, context, part, scan, cancels>>

\* A row was read: the rows before it that are not stored are empty ones.
WithRow(r, row) ==
    LET room == r.size - Len(r.rows)
        missing == row.index - r.next
        blanks == [i \in 1 .. (IF missing < room THEN missing ELSE room) |->
                      [NoRow EXCEPT !.index = r.next + i - 1]]
    IN  [r EXCEPT !.rows = @ \o blanks \o (IF missing < room THEN <<row>> ELSE <<>>),
                  !.next = row.index + 1]

ReadDone(r) == Len(r.rows) = r.size \/ r.end

\* read_rows, for one turn of its cursor.
RowsRead(turn) ==
    LET moved == [reader EXCEPT !.cursor = turn.c, !.builder = turn.b] IN
    CASE turn.out = "" -> reader' = moved /\ UNCHANGED <<task, part>>
      [] turn.out = "Row" ->
            /\ reader' = IF turn.c.last - 1 < reader.first THEN moved
                         ELSE WithRow(moved, turn.b.row)
            /\ UNCHANGED <<task, part>>
      [] turn.out = "SheetEnd" -> reader' = [moved EXCEPT !.end = TRUE] /\ UNCHANGED <<task, part>>
      [] turn.out = "Cancelled" -> task' = Idle /\ reader' = NoReader /\ UNCHANGED part
      [] OTHER -> Refused(turn.out)

RowsTurn ==
    /\ task.kind = "rows" /\ ~ ReadDone(reader)
    /\ RowsRead(Turn(reader.cursor, reader.builder, task.cancelled))
    /\ UNCHANGED <<book, piece, context, scan, cancels>>

\* xlsx_snapshot shows the rows.
ShowRows ==
    /\ task.kind = "rows" /\ ReadDone(reader)
    /\ task' = Idle /\ reader' = NoReader
    /\ UNCHANGED <<book, piece, context, part, scan, cancels>>

\* Another thread cancels what this one does.
CancelTask ==
    /\ task.kind \in {"directory", "step", "drain", "rows"} \cup Opening
    /\ ~ task.cancelled /\ cancels > 0
    /\ task' = [task EXCEPT !.cancelled = TRUE]
    /\ cancels' = cancels - 1
    /\ UNCHANGED <<book, piece, context, part, scan, reader>>

XlsxNext ==
    \/ ReadDirectory \/ OpenTurn \/ BeginStep \/ ScanTurn \/ DrainTurn
    \/ \E first \in 0 .. MaxRows, size \in Sizes : BeginRows(first, size)
    \/ RowsTurn \/ ShowRows \/ CancelTask

XlsxSpec == XlsxInit /\ [][XlsxNext]_xlsxVars

-----------------------------------------------------------------------------
Errors == {task.kind} \ ({"directory", "idle", "step", "drain", "rows", "Cancelled"} \cup Opening)

\* A scan does not look into cells, so these are found by a viewport only.
CellErrors == {"SharedStringIndex", "StyleIndex"}

\* The rows that a viewport of the book must show. shown has the rows that are
\* stored, by index, with their cells cut to the limits of a viewport.
ExpectedRows(first, size) ==
    [i \in 1 .. (IF File.rows < first + size THEN (IF File.rows < first THEN 0 ELSE File.rows - first)
                 ELSE size) |->
        IF first + i - 1 \in DOMAIN File.shown
        THEN [index |-> first + i - 1] @@ File.shown[first + i - 1]
        ELSE [NoRow EXCEPT !.index = first + i - 1]]

\* A viewport shows the rows that the sheet stores, however the sheet was cut
\* into pieces and steps and from whichever checkpoint it is read, also when a
\* step was cancelled in the middle of a row; the scan counts them all and is
\* complete only when the size and the checksum of the part are right; and no
\* workbook is refused except for what is wrong with it.
SheetRowsAreExact ==
    /\ task.kind = "rows" /\ ReadDone(reader) =>
          reader.rows = ExpectedRows(reader.first, reader.size)
    /\ scan.complete => scan.cursor.last = File.rows /\ File.errors \subseteq CellErrors
    /\ Errors \subseteq File.errors
    /\ Len(scan.checkpoints) <= CheckpointCapacity

\* A cell whose text is too long is cut between two characters: so docs/XLSX.md
\* says, and so does utf8_prefix, which sees what the tokenizer kept of it.
CutsAtCharacters ==
    task.kind = "rows" =>
        \A i \in DOMAIN reader.rows : \A cell \in ToSet(reader.rows[i].cells), full \in File.texts :
            cell.truncated /\ IsStrictPrefix(cell.text, full)
                => full[Len(cell.text) + 1] # Continuation

=============================================================================
