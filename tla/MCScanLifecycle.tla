-------------------------- MODULE MCScanLifecycle ---------------------------
(* Instances of ScanLifecycle for TLC.                                       *)
EXTENDS ScanLifecycle, TLC

MCSymmetry == Permutations(Workers) \union Permutations(Tasks)
=============================================================================
