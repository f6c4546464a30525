------------------------------ MODULE XlsxPackage ------------------------------
(***************************************************************************)
(* The package around a workbook: ZipDirectory::read and find in            *)
(* crates/leanrows-core/src/xlsx/zip.rs, the relationships and the list of  *)
(* sheets of XlsxWorkbook::open in xlsx/mod.rs, and the choice of a sheet   *)
(* by open_xlsx in crates/leanrows-win32/src/document_engine.rs.            *)
(*                                                                         *)
(* An archive has                                                           *)
(*   magic     what its first bytes say: "zip", "ole" or another thing,     *)
(*   size      its length in bytes,                                         *)
(*   ends      what looks like the end record of an archive, by position,   *)
(*   entries   the records of its directory, which are parts with a name.   *)
(* A name is the sequence of its segments; that of the relationships of a   *)
(* part stands beside it under _rels, and is written without ".rels".       *)
(***************************************************************************)
EXTENDS XlsxWorkbook

CONSTANTS
    EndBytes,           \* END_RECORD_BYTES
    MaxComment,         \* MAX_COMMENT_BYTES
    MaxEntries,         \* max_zip_entries
    MaxDirectory,       \* max_central_directory_bytes
    MaxSheets           \* max_sheets

ASSUME PackageAssumption == {EndBytes, MaxComment, MaxEntries, MaxDirectory, MaxSheets} \subseteq Nat

\* Part names are the same in upper and in lower case.
Folded(name) == [i \in DOMAIN name |-> CASE name[i] = "XL" -> "xl"
                                         [] name[i] = "Workbook" -> "workbook"
                                         [] OTHER -> name[i]]
SameName(one, other) == Folded(one) = Folded(other)

-----------------------------------------------------------------------------
(* ZipDirectory::read.                                                       *)

\* Faulty variant: any end record counts, also one inside a comment.
AnyEnd(a) == a.ends

\* The end record is the last that is followed by just its own comment.
Ends(a) ==
    {e \in a.ends : /\ e.at + EndBytes + e.comment = a.size
                    /\ e.at >= a.size - EndBytes - MaxComment}

EndError(a, end) ==
    FirstError(<<
        <<end.locator \/ end.marked, "Zip64Unsupported">>,
        <<end.disk # 0 \/ end.here # end.count, "MalformedZip">>,
        <<end.count > MaxEntries, "TooManyEntries">>,
        <<end.offset + end.length > end.at, "Truncated">>,
        <<end.length > MaxDirectory, "MalformedZip">> >>)

\* The record at place i of the directory, after those before it were read.
RecordError(entries, i) ==
    IF i > Len(entries) THEN "MalformedZip"
    ELSE FirstError(<<
        <<~ entries[i].wellFormed, "MalformedZip">>,
        <<entries[i].marked, "Zip64Unsupported">>,
        <<entries[i].encrypted, "EncryptedEntry">>,
        <<\E j \in 1 .. i - 1 : SameName(entries[j].name, entries[i].name), "DuplicateEntry">> >>)

RecordsError(entries, count) ==
    LET bad == {i \in 1 .. count : RecordError(entries, i) # ""}
    IN  IF bad = {} THEN ""
        ELSE RecordError(entries, CHOOSE i \in bad : \A j \in bad : i <= j)

EndOf(a) == CHOOSE e \in Ends(a) : \A other \in Ends(a) : other.at <= e.at

DirectoryError(a) ==
    CASE a.magic = "ole" -> "LegacyOrEncrypted"
      [] a.magic \notin {"ole", "zip"} -> "NotZip"
      [] a.magic = "zip" /\ Ends(a) = {} -> "Truncated"
      [] a.magic = "zip" /\ Ends(a) # {} ->
            IF EndError(a, EndOf(a)) # "" THEN EndError(a, EndOf(a))
            ELSE RecordsError(a.entries, EndOf(a).count)

\* find: where the part of a name is, 0 if there is none.
EntryOf(a, name) ==
    LET own == {i \in 1 .. EndOf(a).count : SameName(a.entries[i].name, name)}
    IN  IF own = {} THEN 0 ELSE CHOOSE i \in own : TRUE

-----------------------------------------------------------------------------
(* Relationships.                                                            *)

\* resolve_target
Resolved(base, target) ==
    LET Walk(parts, segment) ==
            CASE segment \in {"", ".", "/"} -> parts
              [] segment = ".." -> IF parts = <<>> THEN parts ELSE Front(parts)
              [] OTHER -> Append(parts, segment)
    IN  FoldLeft(Walk, <<>>, IF target # <<>> /\ Head(target) = "/" THEN target ELSE base \o target)

\* relationships_part, and back again
RelationshipsPart(part) ==
    IF part = <<>> THEN <<"_rels", "">> ELSE Front(part) \o <<"_rels", Last(part)>>
BaseOf(name) == SubSeq(name, 1, Len(name) - 2)

EndsWith(kind, ending) == kind # <<>> /\ Last(kind) = ending

NoRelationships == [list |-> <<>>]

Related(a, base, id, kind, target, mode) ==
    LET external == mode.found /\ mode.value = <<"External">> IN
    IF id.bad THEN [error |-> "MalformedXml"]
    ELSE IF ~ id.found THEN a
    ELSE IF kind.bad \/ target.bad \/ mode.bad THEN [error |-> "MalformedXml"]
    ELSE [a EXCEPT !.list = Append(@,
            [id |-> id.value, kind |-> kind.value, external |-> external,
             target |-> IF external THEN target.value ELSE Resolved(base, target.value)])]

Opens(x) == x.event \in {"Start", "Empty"}

\* read_relationships, for one token. The result is an error or the new state.
RelationshipToken(a, x, base) ==
    IF ~ (Opens(x) /\ Name(x) = <<"Relationship">>) THEN a
    ELSE IF Len(a.list) >= MaxSheets * 4 THEN [error |-> "TooManySheets"]
    ELSE Related(a, base, Attribute(x, "Id", FALSE), Attribute(x, "Type", FALSE),
                 Attribute(x, "Target", FALSE), Attribute(x, "TargetMode", FALSE))

OfKind(list, ending) == SelectSeq(list, LAMBDA r : EndsWith(r.kind, ending))

\* The part of the workbook, or what is wrong with it.
WorkbookPart(list) ==
    LET own == OfKind(list, "/officeDocument") IN
    CASE own = <<>> -> [part |-> <<"xl", "workbook">>, error |-> ""]
      [] own # <<>> -> [part |-> Head(own).target,
                        error |-> IF Head(own).external THEN "ExternalRelationship" ELSE ""]

\* The part of the styles or of the strings: one that is not external.
PartOfKind(list, ending) == SelectSeq(OfKind(list, ending), LAMBDA r : ~ r.external)

-----------------------------------------------------------------------------
(* The workbook.                                                             *)

NoWorkbook == [sheets |-> <<>>, date1904 |-> FALSE]

Visibility(state) == ~ (state.found /\ state.value \in {<<"hidden">>, <<"veryHidden">>})

Listed(a, list, name, state, id) ==
    LET own == SelectSeq(list, LAMBDA r : id.found /\ r.id = id.value) IN
    IF name.bad \/ state.bad \/ id.bad THEN [error |-> "MalformedXml"]
    ELSE [a EXCEPT !.sheets = Append(@,
            [visible |-> Visibility(state),
             worksheet |-> own # <<>> /\ EndsWith(Head(own).kind, "/worksheet"),
             external |-> own # <<>> /\ Head(own).external,
             part |-> IF own = <<>> THEN <<>> ELSE Head(own).target])]

\* XlsxWorkbook::open, for one token of the workbook.
WorkbookToken(a, x, list) ==
    LET dates == Attribute(x, "date1904", FALSE) IN
    CASE Opens(x) /\ Name(x) = <<"workbookPr">> ->
            IF dates.bad THEN [error |-> "MalformedXml"]
            ELSE [a EXCEPT !.date1904 = dates.found /\ dates.value \in {<<"1">>, <<"true">>}]
      [] Opens(x) /\ Name(x) = <<"sheet">> ->
            IF Len(a.sheets) >= MaxSheets THEN [error |-> "TooManySheets"]
            ELSE Listed(a, list, Attribute(x, "name", FALSE), Attribute(x, "state", FALSE),
                        Attribute(x, "id", TRUE))
      [] OTHER -> a

\* is_offered, default_sheet and the choice of open_xlsx: wanted is 0 when no
\* sheet was asked for. The result is a sheet, or what is wrong.
Offered(sheets) == {i \in DOMAIN sheets : sheets[i].worksheet /\ sheets[i].visible}

ChosenSheet(sheets, wanted) ==
    CASE wanted = 0 /\ Offered(sheets) = {} -> [error |-> "NoWorksheet"]
      [] wanted = 0 /\ Offered(sheets) # {} ->
            [sheet |-> CHOOSE i \in Offered(sheets) : \A j \in Offered(sheets) : i <= j]
      [] wanted # 0 -> IF wanted \in Offered(sheets) THEN [sheet |-> wanted]
                       ELSE [error |-> "SheetOutOfRange"]

\* open_sheet_stream, up to the part itself.
SheetError(a, sheet) ==
    FirstError(<<
        <<sheet.external, "ExternalRelationship">>,
        <<~ sheet.worksheet, "NotWorksheet">>,
        <<EntryOf(a, sheet.part) = 0, "MissingPart">> >>)

=============================================================================
