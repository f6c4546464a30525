--------------------------- MODULE FieldProjection ---------------------------
(***************************************************************************)
(* project_delimited_record (src/projection.rs): the fields of the visible  *)
(* prefix of one record, under limits on fields and decoded bytes, and the   *)
(* fields the whole record has by definition.                                *)
(***************************************************************************)
EXTENDS RecordScanner

AtMost(a, b) == IF a <= b THEN a ELSE b

(* FieldAccumulator::new and new_field: a field past the limit keeps nothing. *)
NewField(at, projected, left, limits) ==
    [from |-> at, decoded |-> <<>>, escaped |-> FALSE, quoted |-> FALSE, cut |-> FALSE,
     keep |-> IF projected < limits.fields THEN AtMost(limits.perField, left) ELSE 0]

(* Faulty: bytes past the limit are dropped without a mark.                  *)
PushSilently(field, byte) ==
    IF Len(field.decoded) < field.keep
    THEN [field EXCEPT !.decoded = Append(@, byte)] ELSE field

(* push_decoded.                                                             *)
Push(field, byte) ==
    IF Len(field.decoded) < field.keep
    THEN [field EXCEPT !.decoded = Append(@, byte)]
    ELSE [field EXCEPT !.cut = TRUE]

(* finish_field and FieldAccumulator::finish.                                *)
FinishField(p, to, rawCut, limits) ==
    IF Len(p.fields) = limits.fields
    THEN [p EXCEPT !.omitted = TRUE]
    ELSE [p EXCEPT !.left = @ - AtMost(Len(p.field.decoded), @),
                   !.fields = Append(@,
                       [from |-> p.field.from, to |-> to, decoded |-> p.field.decoded,
                        quoted |-> p.field.quoted, escaped |-> p.field.escaped,
                        rawCut |-> rawCut, decodedCut |-> p.field.cut])]

NextField(p, at, limits) ==
    LET done == FinishField(p, at - 1, FALSE, limits)
    IN  [done EXCEPT !.state = "field_start",
                     !.field = NewField(at, Len(done.fields), done.left, limits)]

(* One turn of the cursor loop over the visible bytes.                       *)
ProjectByte(p, at, byte, limits) ==
    CASE p.state = "quoted" /\ byte = "quote" -> [p EXCEPT !.state = "quote_closed"]
      [] p.state = "quoted" /\ byte # "quote" -> [p EXCEPT !.field = Push(@, byte)]
      [] p.state = "field_start" /\ byte = "quote" ->
             [p EXCEPT !.state = "quoted", !.field.quoted = TRUE]
      [] p.state = "quote_closed" /\ byte = "quote" ->
             [p EXCEPT !.state = "quoted", !.field = [Push(@, byte) EXCEPT !.escaped = TRUE]]
      [] p.state # "quoted" /\ byte = "delim" -> NextField(p, at, limits)
      [] OTHER -> [p EXCEPT !.state = "unquoted", !.field = Push(@, byte)]

(* project_delimited_record.  `cut` says the prefix is not the whole record. *)
Project(bytes, cut, limits) ==
    LET projected[i \in 0..Len(bytes)] ==
            IF i = 0
            THEN [state |-> "field_start", fields |-> <<>>, omitted |-> FALSE,
                  left |-> limits.total, field |-> NewField(0, 0, limits.total, limits)]
            ELSE ProjectByte(projected[i - 1], i, bytes[i], limits)
        last == FinishField(projected[Len(bytes)], Len(bytes), cut, limits)
    IN  [fields |-> last.fields, fieldsCut |-> last.omitted \/ cut]

-----------------------------------------------------------------------------
(* PreviewBuilder (document_engine.rs): a visible value in units, line breaks  *)
(* escaped, cut at a limit and marked when anything of it is missing.  The     *)
(* marker's four units count as one.                                          *)
Marker == <<"marker">>

Escaped(bytes) ==
    FlattenSeq([i \in 1..Len(bytes) |->
        IF bytes[i] \in {"cr", "lf"} THEN <<"escape", bytes[i]>> ELSE <<bytes[i]>>])

CellText(bytes, omitted, limit) ==
    LET units == Escaped(bytes)
        kept == SubSeq(units, 1, AtMost(Len(units), limit))
    IN  IF (omitted \/ Len(units) > limit) /\ limit >= Len(Marker)
        THEN SubSeq(kept, 1, AtMost(Len(kept), limit - Len(Marker))) \o Marker
        ELSE kept

(* build_cached_row: a cell for each projected field, or one for the record.   *)
CellsOf(csv, bytes, cut, limits) ==
    IF csv
    THEN LET p == Project(bytes, cut, limits)
         IN  [k \in 1..Len(p.fields) |->
                CellText(p.fields[k].decoded,
                         p.fields[k].rawCut \/ p.fields[k].decodedCut, limits.units)]
    ELSE <<CellText(bytes, cut, limits.units)>>

-----------------------------------------------------------------------------
(* The reference: a field lies between two delimiters outside quotes; its    *)
(* value drops the opening quote, the closing one and the first of each pair. *)
FieldValue(record, from, to) ==
    LET open == from + 1
        quoted == from < to /\ record[open] = "quote"
        closing == {i \in open + 1..to : Closes(record, open, i)}
        close == IF closing = {} THEN to + 1
                 ELSE CHOOSE i \in closing : \A j \in closing : i <= j
        even(i) == Cardinality({j \in open + 1..i : record[j] = "quote"}) % 2 = 0
        kept == {i \in open..to :
                   ~quoted \/ i > close
                   \/ (i > open /\ i < close /\ (record[i] # "quote" \/ even(i)))}
        indices == SetToSortSeq(kept, LAMBDA i, j : i < j)
    IN  [k \in 1..Len(indices) |-> record[indices[k]]]

FieldValues(record) ==
    LET delims == {i \in 1..Len(record) : record[i] = "delim" /\ ~Inside(record)[i]}
        ends == SetToSortSeq(delims \cup {Len(record) + 1}, LAMBDA i, j : i < j)
    IN  [k \in 1..Len(ends) |->
            FieldValue(record, IF k = 1 THEN 0 ELSE ends[k - 1], ends[k] - 1)]

(* A projection tells no lie about the record it shows a prefix of.          *)
HonestProjection(p, record, limits) ==
    LET values == FieldValues(record)
    IN  /\ Len(p.fields) <= Len(values)
        /\ ~p.fieldsCut => Len(p.fields) = Len(values)
        /\ \A k \in 1..Len(p.fields) :
              /\ IsPrefix(p.fields[k].decoded, values[k])
              /\ ~p.fields[k].rawCut /\ ~p.fields[k].decodedCut
                    => p.fields[k].decoded = values[k]
              /\ k < Len(p.fields) => p.fields[k + 1].from = p.fields[k].to + 1
        /\ Len(FlattenSeq([k \in 1..Len(p.fields) |-> p.fields[k].decoded])) <= limits.total

(* A cell without a marker is the whole value; with one, a prefix of it.        *)
HonestCells(cells, values, limits) ==
    \A k \in 1..Len(cells) :
        LET whole == Escaped(values[k])
            text == SelectSeq(cells[k], LAMBDA u : u # "marker")
        IN  /\ Len(cells[k]) <= limits.units
            /\ IsPrefix(text, whole)
            /\ text = cells[k] /\ limits.units >= Len(Marker) => text = whole
=============================================================================
