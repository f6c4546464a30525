---------------------------- MODULE MCQuerySession ----------------------------
(***************************************************************************)
(* The instance of QuerySession that TLC checks: overlapping hits, a hit       *)
(* across a quoted line break, one that only a record's end breaks, and more   *)
(* hits than the hit file holds.                                             *)
(***************************************************************************)
EXTENDS QuerySession

Query(csv, bytes, needle, fold) ==
    [csv |-> csv, bytes |-> bytes, needle |-> needle, fold |-> fold, windows |-> FALSE]

MCSearches == {
    Query(FALSE, <<"a", "A", "a", "cr", "a", "a">>, <<"a", "a">>, TRUE),
    Query(TRUE, <<"a", "b", "a", "b", "a", "a", "lf">>, <<"a", "b", "a", "a">>, FALSE),
    Query(TRUE, <<"quote", "lf", "quote", "lf", "quote", "lf">>, <<"lf">>, TRUE),
    Query(FALSE, <<"lf", "a", "a", "a", "a">>, <<"a">>, FALSE) }

MCSearchRewrites == {<<"a">>, <<"a", "a", "a", "a", "a", "a", "a">>}
=============================================================================
