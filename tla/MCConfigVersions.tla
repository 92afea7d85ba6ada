-------------------------- MODULE MCConfigVersions -------------------------
(* Small instances of ConfigVersions for TLC.                               *)
EXTENDS ConfigVersions, TLC

(* Identities that the specification only compares.                         *)
Symmetry ==
  Permutations(Batches) \cup Permutations(Requests) \cup Permutations(Sources)
=============================================================================
