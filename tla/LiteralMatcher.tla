---------------------------- MODULE LiteralMatcher ----------------------------
(***************************************************************************)
(* The literal matcher of leanrows-core (src/query.rs, CompiledLiteral): a   *)
(* failure table and one step per byte, so that a match may be cut anywhere   *)
(* and resumed from a number; and the hits of a file by a definition that     *)
(* knows neither.                                                            *)
(***************************************************************************)
EXTENDS RecordScanner

(* Folding touches ASCII letters only; other bytes stay raw.                  *)
Folded(fold, byte) == IF fold /\ byte = "A" THEN "a" ELSE byte

(* The longest border of a matched prefix that `byte` continues: the loop     *)
(* shared by the table's construction and by the search.                      *)
FallBack(needle, failure, state, byte) ==
    LET fall[s \in 0..state] ==
            IF s > 0 /\ needle[s + 1] # byte THEN fall[failure[s]] ELSE s
        at == fall[state]
    IN  IF needle[at + 1] = byte THEN at + 1 ELSE at

(* CompiledLiteral::new: failure[i] is the border of the prefix of length i.  *)
Compiled(needle, fold) ==
    LET bytes == [i \in 1..Len(needle) |-> Folded(fold, needle[i])]
        table[i \in 1..Len(needle)] ==
            IF i = 1 THEN <<0>>
            ELSE Append(table[i - 1],
                        FallBack(bytes, table[i - 1], table[i - 1][i - 1], bytes[i]))
    IN  [bytes |-> bytes, failure |-> table[Len(needle)], fold |-> fold]

(* Faulty: the search starts afresh after a match.                            *)
AdvanceAfresh(literal, state, byte) ==
    LET next == FallBack(literal.bytes, literal.failure, state, Folded(literal.fold, byte))
    IN  IF next = Len(literal.bytes) THEN [state |-> 0, matched |-> TRUE]
        ELSE [state |-> next, matched |-> FALSE]

(* CompiledLiteral::advance.                                                  *)
Advance(literal, state, byte) ==
    LET next == FallBack(literal.bytes, literal.failure, state, Folded(literal.fold, byte))
    IN  IF next = Len(literal.bytes)
        THEN [state |-> literal.failure[next], matched |-> TRUE]
        ELSE [state |-> next, matched |-> FALSE]

-----------------------------------------------------------------------------
(* The reference: every place of a record where the needle stands, overlaps    *)
(* included, in the order of the file.                                        *)
StandsAt(needle, fold, file, o) ==
    \A i \in 1..Len(needle) : Folded(fold, file[o + i]) = Folded(fold, needle[i])

HitsIn(needle, fold, file, row, span) ==
    LET last == span.end - Len(needle)
        places == {o \in span.start..last : StandsAt(needle, fold, file, o)}
    IN  [i \in 1..Cardinality(places) |->
            LET o == CHOOSE p \in places : Cardinality({r \in places : r < p}) = i - 1
            IN  [row |-> row, span |-> Span(o, o + Len(needle))]]

AllHits(csv, needle, fold, file) ==
    LET records == Records(csv, file)
    IN  FlattenSeq([i \in 1..Len(records) |->
                        HitsIn(needle, fold, file, i - 1, records[i])])
=============================================================================
