--------------------------- MODULE MCDocumentReader ---------------------------
(***************************************************************************)
(* The instance of DocumentReader that TLC checks: files in which a CR-LF   *)
(* pair, a quoted line break, a doubled quote or an unterminated quote can   *)
(* fall on either side of a read, a quantum or a truncated preview.          *)
(***************************************************************************)
EXTENDS DocumentReader

Delimited(bytes) == [csv |-> TRUE, bytes |-> bytes]
Lines(bytes) == [csv |-> FALSE, bytes |-> bytes]

MCDocuments == {
    Delimited(<<>>),
    Lines(<<"cr", "lf", "cr">>),
    Delimited(<<"cr", "text", "text">>),
    Delimited(<<"quote", "lf", "quote", "lf">>),
    Delimited(<<"lf", "quote", "text">>),
    Delimited(<<"quote", "quote", "quote", "delim">>) }

MCRewrites == {<<"text", "lf">>, <<"lf", "text", "text", "lf">>}

MCFieldLimits == [fields |-> 2, perField |-> 1, total |-> 1, units |-> 1]
=============================================================================
