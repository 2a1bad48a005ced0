--------------------------- MODULE MCEvaluations ---------------------------
(***************************************************************************)
(* Evaluations for TLC: two calls, one after the other or at the same time *)
(***************************************************************************)
EXTENDS Evaluations, TLC
=============================================================================
