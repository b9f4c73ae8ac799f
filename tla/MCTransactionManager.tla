------------------------ MODULE MCTransactionManager ------------------------
(***************************************************************************)
(* Instances of TransactionManager for TLC.                                *)
(***************************************************************************)
EXTENDS TransactionManager, TLC

Symmetry == Permutations(Participants)
=============================================================================
