------------------------- MODULE MCBruteForceProtector -------------------------
(***************************************************************************)
(* Small instances of BruteForceProtector.                                  *)
(***************************************************************************)
EXTENDS BruteForceProtector

=============================================================================
