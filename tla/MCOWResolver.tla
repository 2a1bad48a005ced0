---------------------------- MODULE MCOWResolver ----------------------------
(***************************************************************************)
(* OWResolver for TLC.                                                     *)
(***************************************************************************)
EXTENDS OWResolver, TLC

CONSTANTS u1, u2, n1, n2

\* u1 uses both namespaces, u2 shares the first.
MCRequests == {<<u1, n1>>, <<u1, n2>>, <<u2, n1>>}
CallSymmetry == Permutations(Calls)

\* u1 and u2 share n1.
SharedNamespace == {<<u1, n1>>, <<u2, n1>>}
OneUser == {<<u1, n1>>}
=============================================================================
