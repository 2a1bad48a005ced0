---------------------------- MODULE MCDocsIndex -----------------------------
(***************************************************************************)
(* DocsIndex for TLC.                                                      *)
(***************************************************************************)
EXTENDS DocsIndex, TLC
=============================================================================
