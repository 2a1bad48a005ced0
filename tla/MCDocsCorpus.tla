---------------------------- MODULE MCDocsCorpus ----------------------------
(***************************************************************************)
(* DocsCorpus for TLC.                                                     *)
(***************************************************************************)
EXTENDS DocsCorpus, TLC

CONSTANT s1

\* Two pages of the one shard, and one that no shard covers.
OneShardResults == {<<s1, NoShard, s1>>}

QuerySymmetry == Permutations(Queries)
=============================================================================
