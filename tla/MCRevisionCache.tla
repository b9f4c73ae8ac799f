-------------------------- MODULE MCRevisionCache --------------------------
(***************************************************************************)
(* Instances of RevisionCache for TLC.                                     *)
(***************************************************************************)
EXTENDS RevisionCache, TLC

Symmetry == Permutations(Nodes) \cup Permutations(Txs)
=============================================================================
