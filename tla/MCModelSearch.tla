--------------------------- MODULE MCModelSearch ---------------------------
(***************************************************************************)
(* ModelSearch for TLC: more models than the search wants and than may be  *)
(* fetched at a time.                                                      *)
(***************************************************************************)
EXTENDS ModelSearch, TLC

=============================================================================
