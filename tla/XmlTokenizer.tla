----------------------------- MODULE XmlTokenizer -----------------------------
(***************************************************************************)
(* The streaming tokenizer of crates/leanrows-core/src/xlsx/xml.rs.         *)
(*                                                                         *)
(* A part is a sequence of symbols: a name, an entity name or a number is   *)
(* one symbol, and so is each character that the tokenizer treats apart.    *)
(* The tokenizer takes one symbol after another and keeps no reference to   *)
(* its input, so it may be copied between two symbols and go on later.      *)
(***************************************************************************)
EXTENDS Integers, Sequences, SequencesExt

CONSTANTS
    MaxTagSymbols,      \* max_tag_bytes
    MaxEntitySymbols    \* MAX_ENTITY_BYTES

CR == "cr"
LF == "lf"
Space == " "
Quotes == {"'", "quote"}
ByteOrderMark == "bom"
WideMark == "utf16"     \* a byte order mark of UTF-16, or a zero byte

\* event is the token that the last symbol completed, or what is wrong.
NewTokenizer(limit) ==
    [state |-> "Start", quote |-> "", count |-> 0, tag |-> <<>>, entity |-> <<>>,
     markup |-> <<>>, collect |-> FALSE, text |-> <<>>, limit |-> limit,
     total |-> 0, truncated |-> FALSE, cr |-> FALSE, have |-> FALSE, event |-> ""]

Tokens == {"Start", "Empty", "End", "Text"}

\* checkpoint: a copy taken between tokens.
TokenizerCopy(x) ==
    [NewTokenizer(x.limit) EXCEPT !.state = x.state, !.quote = x.quote,
                                  !.count = x.count, !.entity = x.entity]

CollectText(x, collect) ==
    [x EXCEPT !.collect = collect, !.text = <<>>, !.total = 0, !.truncated = FALSE,
              !.have = FALSE, !.cr = FALSE]

Malformed(x) == [x EXCEPT !.event = "MalformedXml"]

-----------------------------------------------------------------------------
(* Names and attributes of the tag that was read.                            *)

Local(name) ==
    LET colons == {i \in DOMAIN name : name[i] = ":"}
    IN  SubSeq(name, (IF colons = {} THEN 0 ELSE CHOOSE i \in colons : \A j \in colons : j <= i) + 1,
               Len(name))

TagBody(x) ==
    LET body == IF x.tag # <<>> /\ Head(x.tag) = "/" THEN Tail(x.tag) ELSE x.tag
    IN  IF body # <<>> /\ Last(body) = "/" THEN Front(body) ELSE body

\* The first place from i on whose symbol is in S, or the one after the last.
FirstIn(body, i, S) ==
    LET from[j \in i .. Len(body) + 1] ==
            IF j > Len(body) \/ body[j] \in S THEN j ELSE from[j + 1]
    IN  from[i]

SkipSpace(body, i) ==
    LET from[j \in i .. Len(body) + 1] ==
            IF j > Len(body) \/ body[j] # Space THEN j ELSE from[j + 1]
    IN  from[i]

Name(x) ==
    LET body == TagBody(x) IN Local(SubSeq(body, 1, FirstIn(body, 1, {Space, "/"}) - 1))

BadEntity == "bad"

\* decode_entity. A character reference is a number the model knows.
DecodeEntity(entity) ==
    CASE entity = <<"lt">> -> "<"
      [] entity = <<"gt">> -> ">"
      [] entity = <<"amp">> -> "&"
      [] entity = <<"quot">> -> "quote"
      [] entity = <<"apos">> -> "'"
      [] entity \in {<<"#", "13">>, <<"#", "xD">>} -> CR
      [] OTHER -> BadEntity

\* decode_entities: open is the entity that is being read.
DecodeEntities(value) ==
    LET Decoded(acc, b) ==
            IF acc.reads /\ b = ";"
            THEN [acc EXCEPT !.reads = FALSE, !.open = <<>>,
                             !.out = Append(@, DecodeEntity(acc.open))]
            ELSE IF acc.reads THEN [acc EXCEPT !.open = Append(@, b)]
            ELSE IF b = "&" THEN [acc EXCEPT !.reads = TRUE]
            ELSE [acc EXCEPT !.out = Append(@, b)]
        end == FoldLeft(Decoded, [out |-> <<>>, open |-> <<>>, reads |-> FALSE], value)
    IN  [bad |-> end.reads \/ BadEntity \in ToSet(end.out), value |-> end.out]

NoAttribute == [found |-> FALSE, bad |-> FALSE, value |-> <<>>]
BadAttribute == [found |-> FALSE, bad |-> TRUE, value |-> <<>>]

\* The places of one attribute in a tag: of its name, the equals sign, and the
\* quotes around its value.
EqualsOf(body, start) == SkipSpace(body, FirstIn(body, start, {"=", Space}))
QuoteOf(body, equals) == SkipSpace(body, equals + 1)
ShutOf(body, open) == FirstIn(body, open + 1, {body[open]})
NameAt(body, start) == SubSeq(body, start, FirstIn(body, start, {"=", Space}) - 1)

Found(decoded) ==
    [found |-> ~ decoded.bad, bad |-> decoded.bad, value |-> decoded.value]

\* attribute: what stands before the attribute looked for must be well formed.
\* from[i] looks at what is left of the tag from i on.
AttributeIn(body, name, prefixed) ==
    LET n == Len(body)
        Valued(start, open, shut, rest) ==
            IF shut > n THEN BadAttribute
            ELSE IF Local(NameAt(body, start)) = <<name>>
                    /\ (":" \in ToSet(NameAt(body, start))) = prefixed
            THEN Found(DecodeEntities(SubSeq(body, open + 1, shut - 1)))
            ELSE rest[shut + 1]
        Quoted(start, open, rest) ==
            IF open > n \/ body[open] \notin Quotes THEN BadAttribute
            ELSE Valued(start, open, ShutOf(body, open), rest)
        Named(start, equals, rest) ==
            IF start > n THEN NoAttribute
            ELSE IF equals > n \/ body[equals] # "=" THEN BadAttribute
            ELSE Quoted(start, QuoteOf(body, equals), rest)
        At(start, rest) == Named(start, EqualsOf(body, start), rest)
        from[i \in 1 .. n + 1] == At(SkipSpace(body, i), from)
    IN  from[FirstIn(body, 1, {Space})]

Attribute(x, name, prefixed) == AttributeIn(TagBody(x), name, prefixed)

-----------------------------------------------------------------------------
(* feed, one symbol at a time.                                               *)

PushText(x, b) ==
    IF ~ x.collect THEN x
    ELSE [x EXCEPT !.have = TRUE, !.total = @ + 1,
                   !.text = IF Len(@) < x.limit THEN Append(@, b) ELSE @,
                   !.truncated = @ \/ Len(x.text) >= x.limit]

FlushCr(x) == IF x.cr THEN PushText([x EXCEPT !.cr = FALSE], LF) ELSE x

\* push_raw_text: CR LF and a lone CR become LF.
PushRaw(x, b) ==
    LET flushed == FlushCr(x)
    IN  IF x.cr /\ b = LF THEN flushed
        ELSE IF b = CR THEN [flushed EXCEPT !.cr = TRUE]
        ELSE PushText(flushed, b)

PushTag(x, b) ==
    IF Len(x.tag) >= MaxTagSymbols THEN Malformed(x) ELSE [x EXCEPT !.tag = Append(@, b)]

FromText(x, b) ==
    CASE b = "<" ->
            LET y == [FlushCr(x) EXCEPT !.state = "TagOpen", !.tag = <<>>]
            IN  IF y.collect /\ y.have THEN [y EXCEPT !.event = "Text"] ELSE y
      [] b = "&" -> [FlushCr(x) EXCEPT !.entity = <<>>, !.state = "TextEntity"]
      [] OTHER -> PushRaw(x, b)

FromStart(x, b) ==
    CASE b = ByteOrderMark -> [x EXCEPT !.state = "Text"]
      [] b = WideMark -> [x EXCEPT !.event = "UnsupportedEncoding"]
      [] OTHER -> FromText([x EXCEPT !.state = "Text"], b)

FromEntity(x, b) ==
    IF b # ";"
    THEN IF Len(x.entity) >= MaxEntitySymbols THEN Malformed(x)
         ELSE [x EXCEPT !.entity = Append(@, b)]
    ELSE IF DecodeEntity(x.entity) = BadEntity THEN Malformed(x)
    ELSE [PushText(x, DecodeEntity(x.entity)) EXCEPT !.state = "Text"]

FromTagOpen(x, b) ==
    CASE b = "/" -> [x EXCEPT !.tag = Append(@, b), !.state = "Tag"]
      [] b = "!" -> [x EXCEPT !.markup = <<>>, !.state = "Bang"]
      [] b = "?" -> [x EXCEPT !.markup = <<>>, !.count = 0, !.state = "Instruction"]
      [] b \in {Space, ">"} -> Malformed(x)
      [] OTHER -> [PushTag(x, b) EXCEPT !.state = "Tag", !.quote = ""]

TagEvent(x) ==
    CASE Head(x.tag) = "/" -> "End"
      [] Last(x.tag) = "/" -> "Empty"
      [] OTHER -> "Start"

FromTag(x, b) ==
    CASE x.quote # "" -> PushTag([x EXCEPT !.quote = IF b = @ THEN "" ELSE @], b)
      [] x.quote = "" /\ b = ">" -> [x EXCEPT !.state = "Text", !.event = TagEvent(x)]
      [] x.quote = "" /\ b = "<" -> Malformed(x)
      [] OTHER -> PushTag([x EXCEPT !.quote = IF b \in Quotes THEN b ELSE ""], b)

FromBang(x, b) ==
    LET seen == Append(x.markup, b) IN
    CASE seen = <<"-", "-">> -> [x EXCEPT !.state = "Comment", !.count = 0]
      [] seen = <<"[CDATA[">> -> [x EXCEPT !.state = "CData", !.count = 0]
      [] seen = <<"DOCTYPE">> -> [x EXCEPT !.event = "Doctype"]
      [] seen = <<"-">> -> [x EXCEPT !.markup = seen]
      [] OTHER -> Malformed(x)

\* count is the number of dashes or brackets that were read in a row.
FromComment(x, b) ==
    CASE b = ">" /\ x.count >= 2 -> [x EXCEPT !.state = "Text"]
      [] b = "-" -> [x EXCEPT !.count = IF @ < 2 THEN @ + 1 ELSE @]
      [] OTHER -> [x EXCEPT !.count = 0]

FromCData(x, b) ==
    CASE b = ">" /\ x.count >= 2 -> [x EXCEPT !.state = "Text"]
      [] b = "]" /\ x.count >= 2 -> PushRaw(x, "]")
      [] b = "]" /\ x.count < 2 -> [x EXCEPT !.count = @ + 1]
      [] OTHER ->
            LET one == IF x.count > 0 THEN PushRaw(x, "]") ELSE x
                two == IF x.count > 1 THEN PushRaw(one, "]") ELSE one
            IN  [PushRaw(two, b) EXCEPT !.count = 0]

\* check_declaration: an encoding that is named must be UTF-8.
Declared(markup) ==
    "encoding" \in ToSet(markup) /\ SubSeq(markup, 1, 2) = <<"xml", Space>>
        => "utf-8" \in ToSet(markup)

\* count is 1 after a question mark.
FromInstruction(x, b) ==
    IF x.count = 1 /\ b = ">"
    THEN [x EXCEPT !.state = "Text",
                   !.event = IF Declared(x.markup) THEN "" ELSE "UnsupportedEncoding"]
    ELSE LET seen == IF x.count = 1 THEN Append(x.markup, "?") ELSE x.markup
         IN  [x EXCEPT !.count = IF b = "?" THEN 1 ELSE 0,
                       !.markup = IF b = "?" THEN seen ELSE Append(seen, b)]

Symbol(x, b) ==
    CASE x.state = "Start" -> FromStart(x, b)
      [] x.state = "Text" -> FromText(x, b)
      [] x.state = "TextEntity" -> FromEntity(x, b)
      [] x.state = "TagOpen" -> FromTagOpen(x, b)
      [] x.state = "Tag" -> FromTag(x, b)
      [] x.state = "Bang" -> FromBang(x, b)
      [] x.state = "Comment" -> FromComment(x, b)
      [] x.state = "CData" -> FromCData(x, b)
      [] x.state = "Instruction" -> FromInstruction(x, b)

\* feed: up to the symbol that completes a token. used is their number.
Feed(x, input) ==
    LET Taken(acc, b) ==
            IF acc.x.event # "" THEN acc
            ELSE [x |-> Symbol(acc.x, b), used |-> acc.used + 1]
    IN  FoldLeft(Taken, [x |-> [x EXCEPT !.event = ""], used |-> 0], input)

\* finish: whether the input may end here.
MayFinish(x) == x.state \in {"Start", "Text"}

=============================================================================
