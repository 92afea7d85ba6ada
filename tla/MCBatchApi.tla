----------------------------- MODULE MCBatchApi ----------------------------
(* Small instances of BatchApi for TLC.                                     *)
EXTENDS BatchApi, TLC

(* Identities that the specification only compares.                         *)
Symmetry == Permutations(Batches) \cup Permutations(Sessions)
=============================================================================
