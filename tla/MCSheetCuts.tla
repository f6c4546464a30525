------------------------------- MODULE MCSheetCuts -------------------------------
(***************************************************************************)
(* A sheet with one cell that is longer than a cell may be and has a        *)
(* character of two bytes across that limit.                                *)
(***************************************************************************)
EXTENDS XlsxSheet, MCXlsxBooks

MCBooks == {"wide"}
MCFileOf(b) == Wide

=============================================================================
