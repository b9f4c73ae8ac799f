--------------------------- MODULE MCClusterTask ---------------------------
(***************************************************************************)
(* Instances of ClusterTask for TLC.  Callers are interchangeable, so sets *)
(* of asynchronous callers that differ by a permutation are left out of    *)
(* AsyncSets, and so are the nodes that could be the first coordinator.    *)
(***************************************************************************)
EXTENDS ClusterTask
=============================================================================
