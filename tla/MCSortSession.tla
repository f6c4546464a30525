----------------------------- MODULE MCSortSession ----------------------------
(***************************************************************************)
(* The instance of SortSession that TLC checks: keys that share a prefix,      *)
(* quoted keys, missing columns, equal values written differently, blanks,     *)
(* texts among numbers, an exponent out of range and an empty document, with    *)
(* tunings that end an advance anywhere and need no, one or two merge passes.  *)
(***************************************************************************)
EXTENDS SortSession

Request(csv, column, numeric, descending, bytes) ==
    [csv |-> csv, column |-> column, numeric |-> numeric, descending |-> descending,
     bytes |-> bytes]

Quoted == <<"x", "delim", "quote", "x", "x", "quote", "quote", "1", "quote", "lf",
            "x", "lf",
            "0", "delim", "x", "x", "quote", "1", "lf",
            "0", "delim", "x", "x", "quote", "0", "delim", "x">>
Numbers == <<"0", "dot", "0", "1", "lf", "0", "dot", "1", "e", "minus", "1", "lf",
             "1", "0", "0", "lf", "lf", "0", "1", "e", "minus", "5", "lf">>
Mixed == <<"minus", "1", "5", "5", "cr", "lf", "x", "lf", "minus", "1", "5", "1", "dot", "cr",
           "space", "5", "cr", "minus", "0">>

MCRequests == {
    Request(TRUE, 1, FALSE, FALSE, Quoted),
    Request(TRUE, 1, FALSE, TRUE, Quoted),
    Request(FALSE, 0, TRUE, FALSE, Numbers),
    Request(FALSE, 0, TRUE, TRUE, Mixed),
    Request(FALSE, 0, TRUE, FALSE, <<"1", "lf", "1", "e", "5", "5", "lf", "1">>),
    Request(FALSE, 0, FALSE, TRUE, <<"x", "x", "1", "lf", "x", "lf", "x", "x", "1", "lf", "x", "x", "0">>),
    Request(TRUE, 0, FALSE, FALSE, <<>>) }

Tuning(capacity, fanIn, step) == [batch |-> capacity, fanIn |-> fanIn, step |-> step]

MCTunings == {Tuning(2, 2, 1), Tuning(1, 3, 4), Tuning(3, 2, 7), Tuning(5, 2, 3)}
=============================================================================
