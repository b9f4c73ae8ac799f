--------------------------- MODULE MCSessionChangelog ---------------------------
(***************************************************************************)
(* Instances of SessionChangelog for TLC.                                   *)
(***************************************************************************)
EXTENDS SessionChangelog, TLC

CONSTANTS t1, t2, t3

Symmetry == Permutations(Local) \cup Permutations(Txs \ Local)

=============================================================================
