-------------------------- MODULE MCPoolController --------------------------
(***************************************************************************)
(* PoolController on small instances.                                      *)
(***************************************************************************)
EXTENDS PoolProperties, TLC

\* IDs are random and interchangeable.
Symmetry == Permutations(Ids)
=============================================================================
