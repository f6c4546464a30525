-------------------------------- MODULE XlsxPart --------------------------------
(***************************************************************************)
(* A part of a workbook, read through the bounded window of EntryStream in  *)
(* crates/leanrows-core/src/xlsx/zip.rs, and PartCursor of xlsx/mod.rs.     *)
(*                                                                         *)
(* A part is what the archive holds under one name:                         *)
(*   text      its symbols, once they are decompressed,                     *)
(*   method    "stored" or "deflate", or another that is not supported,     *)
(*   good      how many of them the decompressor gives before it fails,     *)
(*   declared  the size in the directory, sound, whether the CRC-32 is that *)
(*             of the text,                                                 *)
(*   ratio     symbols per compressed byte,                                 *)
(*   local     whether the local header names the "same" part,              *)
(*   inside    whether the data ends before the directory begins.           *)
(* The file is opened without sharing writes, so a part does not change.    *)
(***************************************************************************)
EXTENDS XmlTokenizer, FiniteSets

CONSTANTS
    WindowSymbols,      \* WINDOW_BYTES
    MaxEntrySymbols,    \* max_entry_bytes
    MaxRatio,           \* max_compression_ratio
    RatioAfter          \* ratio_check_after_bytes

\* Compressed bytes behind the first symbols, rounded up.
Packed(part, symbols) == (symbols + part.ratio - 1) \div part.ratio

RatioExceeded(produced, consumed) ==
    produced > RatioAfter /\ produced > consumed * MaxRatio

\* The error of the first check that fails, "" if none does.
FirstError(checks) ==
    LET failed == SelectSeq(checks, LAMBDA check : check[1])
    IN  IF failed = <<>> THEN "" ELSE Head(failed)[2]

Size(part) == Packed(part, Len(part.text))

\* ZipDirectory::open: what the directory says is checked before anything is
\* read, then the local header.
OpenError(part) ==
    FirstError(<<
        <<part.method \notin {"stored", "deflate"}, "UnsupportedCompression">>,
        <<part.declared > MaxEntrySymbols, "EntryTooLarge">>,
        <<RatioExceeded(part.declared, Size(part)), "CompressionRatio">>,
        <<part.method = "stored" /\ part.declared # Size(part), "MalformedZip">>,
        <<part.local # "same", "MalformedZip">>,
        <<~ part.inside, "Truncated">> >>)

\* EntryStream: the window holds what was produced after the symbol read.
NewStream == [read |-> 0, produced |-> 0, done |-> FALSE]

Available(part, s) == SubSeq(part.text, s.read + 1, s.produced)

Consume(s, count) == [s EXCEPT !.read = @ + count]

\* checkpoint: the window and the decompressor are copied, the input is not.
StreamCopy(s) == s

\* accept_output
AcceptError(part, s) ==
    CASE s.produced > part.declared \/ s.produced > MaxEntrySymbols -> "SizeMismatch"
      [] s.produced <= part.declared /\ s.produced <= MaxEntrySymbols
         /\ RatioExceeded(s.produced, Packed(part, s.produced)) -> "CompressionRatio"
      [] OTHER -> ""

\* finish: the size and the checksum of the whole part.
FinishError(part, s) ==
    IF s.produced # part.declared THEN "SizeMismatch"
    ELSE IF ~ part.sound THEN "ChecksumMismatch" ELSE ""

\* What a decompressor gives at once: at most a piece, and never over the end of
\* the window.
Given(part, s, piece) ==
    LET room == WindowSymbols - (s.produced % WindowSymbols)
        left == part.good - s.produced
    IN  CHOOSE k \in {piece, room, left} : k <= piece /\ k <= room /\ k <= left

Accepted(part, grown, error) ==
    IF part.method = "stored" /\ grown.produced = Len(part.text)
    THEN [s |-> [grown EXCEPT !.done = TRUE], more |-> TRUE,
          error |-> IF error = "" THEN FinishError(part, grown) ELSE error]
    ELSE [s |-> grown, more |-> TRUE, error |-> error]

\* fill, when nothing is available: more says that something is now. The end
\* of a stored part comes with its last symbols, that of a compressed one in a
\* call that gives none.
Filled(part, s, count) ==
    CASE s.done -> [s |-> s, more |-> FALSE, error |-> ""]
      [] ~ s.done /\ count = 0 /\ part.good < Len(part.text) ->
            [s |-> s, more |-> FALSE, error |-> "CorruptData"]
      [] ~ s.done /\ count = 0 /\ part.good = Len(part.text) ->
            [s |-> [s EXCEPT !.done = TRUE], more |-> FALSE, error |-> FinishError(part, s)]
      [] ~ s.done /\ count > 0 ->
            LET grown == [s EXCEPT !.produced = @ + count]
            IN  Accepted(part, grown, AcceptError(part, grown))

Fill(part, s, piece) == Filled(part, s, Given(part, s, piece))

\* What the tokenizer makes of the window.
Fed(c, s, fed) ==
    [c EXCEPT !.stream = Consume(s, fed.used), !.xml = fed.x, !.token = fed.x.event]

TokenOf(part, c, filled) ==
    IF filled.error # "" THEN [c EXCEPT !.stream = filled.s, !.token = filled.error]
    ELSE IF filled.more THEN Fed(c, filled.s, Feed(c.xml, Available(part, filled.s)))
    ELSE [c EXCEPT !.stream = filled.s,
                   !.token = IF MayFinish(c.xml) THEN "Eof" ELSE "MalformedXml"]

\* The loop of next_event and of PartCursor::next, once around: what is left
\* of the window, or else a new piece, goes through the tokenizer up to the
\* next token. The result has the token, or "Eof", or the error, or "".
ReadToken(part, c, piece) ==
    TokenOf(part, c,
            IF c.stream.read < c.stream.produced
            THEN [s |-> c.stream, more |-> TRUE, error |-> ""]
            ELSE Fill(part, c.stream, piece))

\* PartCursor::open
OpenPart(part, limit) ==
    [stream |-> NewStream, xml |-> NewTokenizer(limit), token |-> OpenError(part)]

=============================================================================
