------------------------------ MODULE MCXlsxBooks ------------------------------
(***************************************************************************)
(* Small workbooks for XlsxSheet: what each holds, written as symbols, and   *)
(* what a reader of the file expects to see.                                *)
(***************************************************************************)
EXTENDS Integers, Sequences, SequencesExt, FiniteSets, TLC

Named(name, value) == <<" ", name, "=", "quote">> \o value \o <<"quote">>
Open(name, attributes) == <<"<", name>> \o attributes \o <<">">>
Alone(name, attributes) == <<"<", name>> \o attributes \o <<"/", ">">>
Shut(name) == <<"<", "/", name, ">">>
Within(name, content) == Open(name, <<>>) \o content \o Shut(name)

\* A part as writers make it, and ways in which one is damaged.
Part(text) ==
    [name |-> <<>>, text |-> text, method |-> "deflate", good |-> Len(text), declared |-> Len(text),
     sound |-> TRUE, ratio |-> 2, local |-> "same", inside |-> TRUE,
     wellFormed |-> TRUE, marked |-> FALSE, encrypted |-> FALSE]
StoredPart(text) == [Part(text) EXCEPT !.method = "stored", !.ratio = 1]

-----------------------------------------------------------------------------
(* Packages.                                                                 *)

Relation(id, kind, target) ==
    Alone("Relationship", Named("Id", <<id>>) \o Named("Type", <<"type", kind>>)
                          \o Named("Target", target))
Outside(id, kind) ==
    Alone("Relationship", Named("Target", <<"web">>) \o Named("TargetMode", <<"External">>)
                          \o Named("Id", <<id>>) \o Named("Type", <<kind>>))
Relationships(list) == Part(Within("Relationships", list))

Tab(id, state) ==
    Alone("sheet", Named("name", <<id>>) \o (IF state = "" THEN <<>> ELSE Named("state", <<state>>))
                   \o <<" ", "r", ":", "id", "=", "'", id, "'">>)
Workbook(dates, tabs) ==
    Part(Alone("workbookPr", IF dates = "" THEN <<>> ELSE Named("date1904", <<dates>>))
         \o Within("sheets", tabs))

At(name, content) == [content EXCEPT !.name = name]

\* An archive of these parts without a comment, written at once.
Archive(parts) ==
    LET count == Len(parts) IN
    [magic |-> "zip", size |-> 100, entries |-> parts,
     ends |-> {[at |-> 98, comment |-> 0, locator |-> FALSE, marked |-> FALSE, disk |-> 0,
                here |-> count, count |-> count, length |-> count, offset |-> 80]}]

\* Its comment looks like an end record, one that counts no parts.
WithComment(archive) ==
    [archive EXCEPT !.ends = {[end EXCEPT !.at = 94, !.comment = 4] : end \in @}
                             \cup {[end EXCEPT !.at = 97, !.here = 0, !.count = 0] : end \in @}]

\* A package with the parts where most writers put them.
Package(workbook, styles, strings, sheet) ==
    Archive(<<
        At(<<"_rels", "">>, Relationships(Relation("r1", "/officeDocument", <<"xl", "/", "workbook">>))),
        At(<<"xl", "_rels", "workbook">>,
           Relationships(Relation("r1", "/worksheet", <<"sheet">>) \o Relation("r2", "/styles", <<"styles">>)
                         \o Relation("r3", "/sharedStrings", <<"strings">>))),
        At(<<"xl", "workbook">>, workbook),
        At(<<"xl", "styles">>, styles), At(<<"xl", "strings">>, strings),
        At(<<"xl", "sheet">>, sheet)>>)

\* Places of the parts in it.
PackageAt == 1
RelatedAt == 2
WorkbookAt == 3
StylesAt == 4
StringsAt == 5

\* One with names in capitals, paths with dots, and sheets of other kinds.
OddPackage(styles, strings, sheet) ==
    Archive(<<
        At(<<"_rels", "">>,
           Relationships(Alone("Relationship", Named("Type", <<"/officeDocument">>))
                         \o Relation("r1", "/core", <<"core">>)
                         \o Relation("r2", "/officeDocument", <<"/", "XL", "/", ".", "/", "workbook">>))),
        At(<<"xl", "sheet">>, sheet),
        At(<<"xl", "_rels", "workbook">>,
           Relationships(Outside("r4", "/styles") \o Relation("r1", "/chartsheet", <<"sheet">>)
                         \o Relation("r5", "/styles", <<"styles">>)
                         \o Relation("r2", "/worksheet", <<"..", "/", "..", "/", "xl", "/", "/", "sheet">>)
                         \o Relation("r6", "/sharedStrings", <<"strings">>))),
        At(<<"XL", "Workbook">>,
           Workbook("0", Tab("r1", "") \o Tab("r2", "hidden") \o Tab("r9", "") \o Tab("r2", "visible"))),
        At(<<"xl", "styles">>, styles), At(<<"xl", "strings">>, strings)>>)

\* One with nothing but a workbook where it is looked for without relationships
\* of the package, and a sheet.
BarePackage(dates, sheet) ==
    Archive(<<
        At(<<"xl", "workbook">>, Workbook(dates, Tab("r1", ""))),
        At(<<"xl", "_rels", "workbook">>, Relationships(Relation("r1", "/worksheet", <<"sheet">>))),
        At(<<"xl", "sheet">>, sheet)>>)

-----------------------------------------------------------------------------
Styles ==
    Part(Open("numFmts", <<>>)
         \o Alone("numFmt", Named("numFmtId", <<"8">>)
                \o Named("formatCode", <<"[", "h", "]", "m", "\\", "d">>))
         \o Alone("numFmt", Named("formatCode", <<"&", "quot", ";", "y", "&", "quot", ";">>)
                \o Named("numFmtId", <<"9">>))
         \o Shut("numFmts") \o Alone("xf", Named("numFmtId", <<"22">>))
         \o Open("cellXfs", <<>>) \o Alone("xf", <<>>)
         \o Alone("xf", Named("numFmtId", <<"14">>)) \o Alone("xf", Named("numFmtId", <<"8">>))
         \o Alone("xf", Named("numFmtId", <<"9">>)) \o Alone("xf", Named("numFmtId", <<"22">>))
         \o Shut("cellXfs"))

Phonetic == Within("rPh", Within("t", <<"p">>))
Text(content) == Within("t", content)

\* 0: a text with a phonetic run. 1: nothing. 2: two runs. 3: one that is long.
Strings ==
    Part(Within("si", Phonetic \o Text(<<"a", "b">>)) \o Alone("si", <<>>)
         \o Within("si", Text(<<"c", "cr", "lf">>) \o Phonetic \o Text(<<"&", "amp", ";">>))
         \o Within("si", Text(<<"d", "e", "f", "g", "h">>)))

Cell(place, type, content) ==
    Open("c", Named("r", place) \o (IF type = "" THEN <<>> ELSE Named("t", <<type>>))) \o content \o Shut("c")
Value(content) == Within("v", content)
RowOf(number, cells) == Open("row", Named("r", <<number>>)) \o cells \o Shut("row")

Prolog == <<"bom", "<", "?", "xml", " ", "encoding", "=", "utf-8", "?", ">">>
          \o Open("worksheet", <<>>) \o Alone("dimension", <<>>)
Epilog == Alone("pageMargins", Named("left", <<"1">>)) \o Shut("worksheet")

Kept(text) == [text |-> text, truncated |-> FALSE]
Cut(text) == [text |-> text, truncated |-> TRUE]
Shown(cells) == [cells |-> cells, truncated |-> FALSE]
CutRow(cells) == [cells |-> cells, truncated |-> TRUE]

Sheet(rows) == Prolog \o Within("sheetData", rows) \o Epilog

Contents(archive, rows, shown, errors) ==
    [archive |-> archive, wanted |-> 0, rows |-> rows, shown |-> shown, errors |-> errors, texts |-> {}]

OneTab == Workbook("", Tab("r1", ""))
Book(sheet, rows, shown, errors) ==
    Contents(Package(OneTab, Styles, Strings, sheet), rows, shown, errors)

\* Days and times as a reader of the file expects them.
Day(year, month, day) == ToString(<<year, month, day>>)
Clock(hours, minutes, seconds) == ToString(<<"time", hours, minutes, seconds>>)

\* Rows that are missing, rows that do not say their number, every kind of
\* cell, comments, CDATA, text that is too long, and cells beyond the columns.
Rich ==
    Contents(WithComment(OddPackage(Styles, Strings, Part(Sheet(
            RowOf("1", Cell(<<"A", "1">>, "s", Value(<<"0">>)) \o Cell(<<"C">>, "s", Value(<<"2">>)))
            \o Alone("row", <<>>)
            \o RowOf("4", Open("c", Named("s", <<"1">>)) \o Value(<<"5">>) \o Shut("c")
                     \o Cell(<<"B", "4">>, "inlineStr",
                             Within("is", Phonetic \o Text(<<"<", "!", "[CDATA[", "]", "x", "]", "]", ">">>)
                                          \o Text(<<"y", "~">>)))
                     \o Alone("c", Named("r", <<"D", "4">>)))
            \o Open("row", <<>>) \o Cell(<<"A", "5">>, "b", Value(<<"1">>)) \o Shut("row"))))),
         5,
         (0 :> Shown(<<Kept(<<"a", "b">>), Kept(<<>>), Kept(<<"c", "lf", "&">>)>>)) @@
         (1 :> Shown(<<>>)) @@
         (3 :> CutRow(<<Kept(<<Day(1900, 1, 5)>>), Kept(<<"]", "x", "y", "~">>)>>)) @@
         (4 :> Shown(<<Kept(<<"TRUE">>)>>)),
         {})

\* Long cells: one is cut by its own limit, the next by that of the row.
Long ==
    Book(StoredPart(Within("sheetData",
            RowOf("2", Cell(<<"A">>, "s", Value(<<"3">>))
                       \o Cell(<<"B">>, "str", Value(<<"x", "~", "y", "~">>)))
            \o <<"<", "!", "-", "-", "<", "-", "-", "-", ">">>
            \o Open("row", <<>>) \o Open("c", Named("s", <<"2">>) \o Named("t", <<"n">>))
            \o Value(<<"7", ".", "5">>) \o Shut("c") \o Open("c", Named("s", <<"3">>))
            \o Value(<<"7">>) \o Shut("c") \o Shut("row"))),
         3,
         (1 :> CutRow(<<Cut(<<"d", "e", "f", "g">>), Cut(<<"x", "~">>)>>)) @@
         (2 :> Shown(<<Kept(<<Clock(12, 0, 0)>>), Kept(<<"7">>)>>)),
         {})

\* Many short rows, so that checkpoints are thinned out.
Tall ==
    Book(Part(Within("sheetData",
            FlattenSeq([i \in 1 .. 6 |-> Alone("row", IF i = 5 THEN Named("r", <<"6">>) ELSE <<>>)]))
            \o Epilog),
         7, [i \in {0, 1, 2, 3, 5, 6} |-> Shown(<<>>)], {})

\* Serials where a calendar or a rounding may go wrong, in both date systems.
Serial(style, content) == Open("c", Named("s", <<style>>)) \o Value(content) \o Shut("c")
Dated(dates, rows, shown) ==
    Contents(Package(Workbook(dates, Tab("r1", "")), Styles, Strings, Part(Sheet(rows))), 1, shown, {})

From1900 ==
    Dated("0", RowOf("1", Serial("1", <<"6", "0">>) \o Serial("4", <<"5", "9", ".", "999999">>)
                          \o Serial("4", <<"2958465", ".", "999999">>)),
          0 :> Shown(<<Kept(<<Day(1900, 2, 29)>>), Kept(<<Day(1900, 2, 29), Clock(0, 0, 0)>>),
                       Kept(<<"2958465", ".", "999999">>)>>))
From1904 ==
    Dated("true", RowOf("1", Serial("1", <<"0">>) \o Serial("1", <<"2958466">>)
                             \o Serial("4", <<"6", "0", ".", "5">>)),
          0 :> Shown(<<Kept(<<Day(1904, 1, 1)>>), Kept(<<"2958466">>),
                       Kept(<<Day(1904, 3, 1), Clock(12, 0, 0)>>)>>))

\* No relationships of the package, no styles and no strings.
Bare ==
    Contents(BarePackage("1", Part(Within("sheetData", RowOf("1", Serial("0", <<"5">>)
                                                         \o Cell(<<"B">>, "s", <<>>))))),
             1, 0 :> Shown(<<Kept(<<"5">>), Kept(<<>>)>>), {})

-----------------------------------------------------------------------------
\* The same few rows in a package that is damaged, or in XML that is not right.
Rows == RowOf("1", Cell(<<"A">>, "", Value(<<"5">>))) \o RowOf("3", <<>>)
RowsShown == (0 :> Shown(<<Kept(<<"5">>)>>)) @@ (2 :> Shown(<<>>))
Faulty(sheet, errors) == Book(sheet, 3, RowsShown, errors)
Plain == Part(Sheet(Rows))
Broken(archive, errors) == Contents(archive, 3, RowsShown, errors)

Sound == Package(OneTab, Styles, Strings, Plain)
Ending(end) == [Sound EXCEPT !.ends = {end}]
End == CHOOSE end \in Sound.ends : TRUE
Replaced(place, content) == [Sound EXCEPT !.entries[place] = At(@.name, content)]
TabList(text) == Replaced(WorkbookAt, Workbook("", text))
Kin(text) == Replaced(RelatedAt, Relationships(text))
Root(text) == Replaced(PackageAt, Relationships(text))

\* What is wrong with the archive, in the order in which it is found.
DamagedArchives == <<
    Broken([Sound EXCEPT !.magic = "ole"], {"LegacyOrEncrypted"}),
    Broken([Sound EXCEPT !.magic = "text"], {"NotZip"}),
    Broken([Sound EXCEPT !.size = 101], {"Truncated"}),
    Broken([Ending([End EXCEPT !.at = 93, !.comment = 5]) EXCEPT !.size = 100], {"Truncated"}),
    Broken(Ending([End EXCEPT !.locator = TRUE]), {"Zip64Unsupported"}),
    Broken(Ending([End EXCEPT !.here = 1]), {"MalformedZip"}),
    Broken(Ending([End EXCEPT !.count = 8, !.here = 8]), {"TooManyEntries"}),
    Broken(Ending([End EXCEPT !.offset = 93]), {"Truncated"}),
    Broken(Ending([End EXCEPT !.length = 8]), {"MalformedZip"}),
    Broken(Ending([End EXCEPT !.count = 7, !.here = 7]), {"MalformedZip"}),
    Broken(Ending([End EXCEPT !.count = 5, !.here = 5]), {"MissingPart"}),
    Broken([Sound EXCEPT !.entries[2].wellFormed = FALSE], {"MalformedZip"}),
    Broken([Sound EXCEPT !.entries[2].marked = TRUE], {"Zip64Unsupported"}),
    Broken([Sound EXCEPT !.entries[6].encrypted = TRUE], {"EncryptedEntry"}),
    Broken([Sound EXCEPT !.entries[6].name = <<"XL", "Workbook">>], {"DuplicateEntry"}),
    Broken([Sound EXCEPT !.entries[WorkbookAt].method = "bzip2"], {"UnsupportedCompression"}),
    Broken([Sound EXCEPT !.entries[WorkbookAt].local = "another"], {"MalformedZip"}),
    Broken([Sound EXCEPT !.entries[6].inside = FALSE], {"Truncated"}),
    Broken([Sound EXCEPT !.entries[6].declared = 900], {"EntryTooLarge"}),
    Broken([Sound EXCEPT !.entries[6].method = "stored"], {"MalformedZip"})
>>

\* What is wrong with the relationships, the sheets, the styles or the strings.
DamagedPackages == <<
    Broken(Root(Outside("r1", "/officeDocument")), {"ExternalRelationship"}),
    Broken(Root(Relation("r1", "/officeDocument", <<"">>)), {"MissingPart"}),
    Broken(Root(Alone("Relationship", <<" ", "Id">>)), {"MalformedXml"}),
    Broken(Kin(FlattenSeq([i \in 1 .. 17 |-> Relation("r1", "/x", <<"x">>)])), {"TooManySheets"}),
    Broken(Kin(Outside("r1", "/worksheet")), {"ExternalRelationship"}),
    Broken(Kin(Relation("r1", "/worksheet", <<"none">>)), {"MissingPart"}),
    Broken(Kin(Relation("r1", "/chartsheet", <<"sheet">>)), {"NoWorksheet"}),
    Broken(Kin(Relation("r1", "/worksheet", <<"sheet">>) \o Relation("r2", "/styles", <<"none">>)),
           {"MissingPart"}),
    Broken(TabList(Tab("r1", "veryHidden")), {"NoWorksheet"}),
    Broken(TabList(FlattenSeq([i \in 1 .. 5 |-> Tab("r1", "")])), {"TooManySheets"}),
    Broken(TabList(Alone("sheet", <<" ", "name">>)), {"MalformedXml"}),
    [Broken(TabList(Tab("r1", "hidden") \o Tab("r1", "")), {"SheetOutOfRange"}) EXCEPT !.wanted = 1],
    [Broken(TabList(Tab("r2", "") \o Tab("r1", "")), {}) EXCEPT !.wanted = 2],
    Broken(Replaced(StylesAt, Part(Within("cellXfs", FlattenSeq([i \in 1 .. 6 |-> Alone("xf", <<>>)])))),
           {"TooManyStyles"}),
    Broken(Replaced(StringsAt, Part(FlattenSeq([i \in 1 .. 5 |-> Alone("si", <<>>)]))),
           {"TooManySharedStrings"}),
    Broken(Replaced(StringsAt, Part(Within("si", Text([i \in 1 .. 14 |-> "x"])))),
           {"SharedStringsTooLarge"})
>>

\* What is wrong with the sheet.
DamagedSheets == <<
    Faulty([Plain EXCEPT !.sound = FALSE], {"ChecksumMismatch"}),
    Faulty([Plain EXCEPT !.declared = @ + 1], {"SizeMismatch"}),
    Faulty([Plain EXCEPT !.declared = @ - 1], {"SizeMismatch"}),
    Faulty([Plain EXCEPT !.good = @ - 3], {"CorruptData"}),
    Faulty([Plain EXCEPT !.ratio = 9], {"CompressionRatio"}),
    Faulty([Plain EXCEPT !.ratio = 9, !.declared = 5], {"CompressionRatio", "SizeMismatch"}),
    Faulty(Part(Sheet(Rows \o RowOf("2", <<>>))), {"BadRowNumber"}),
    Faulty(Part(Sheet(Rows \o RowOf("4", Cell(<<"A", "3">>, "", <<>>)))), {"BadCellReference"}),
    Faulty(Part(Sheet(Rows \o RowOf("4", Cell(<<"B">>, "", <<>>) \o Cell(<<"A">>, "", <<>>)))),
           {"BadCellReference"}),
    [Faulty(Part(Sheet(Rows \o RowOf("4", Cell(<<"A">>, "s", Value(<<"9">>))))),
            {"SharedStringIndex"}) EXCEPT !.rows = 4],
    [Faulty(Part(Sheet(Rows \o RowOf("4", Open("c", Named("s", <<"9">>)) \o Shut("c")))),
            {"StyleIndex"}) EXCEPT !.rows = 4],
    Faulty(Part(Prolog \o Open("sheetData", <<>>) \o Rows), {"MalformedXml"}),
    Faulty(Part(<<"<", "!", "DOCTYPE", ">">> \o Sheet(Rows)), {"Doctype"}),
    Faulty(Part(<<"utf16">> \o Sheet(Rows)), {"UnsupportedEncoding"}),
    Faulty(Part(Sheet(Rows \o <<"&", "no", ";">>)), {"MalformedXml"}),
    Faulty(Part(Sheet(Rows \o <<"<", " ">>)), {"MalformedXml"})
>>

Damaged == DamagedArchives \o DamagedPackages \o DamagedSheets

\* A cell of characters of two bytes each, longer than a cell may be.
Wide ==
    [Book(Part(Sheet(RowOf("1", Cell(<<"A">>, "str", Value(<<"x", "y", "~", "z", "~">>))))),
          1, (0 :> Shown(<<Cut(<<"x", "y", "~">>)>>)), {})
        EXCEPT !.texts = {<<"x", "y", "~", "z", "~">>}]

=============================================================================
