--------------------------- MODULE MCBatchRunner ---------------------------
(* Small instances of BatchRunner for TLC.                                  *)
EXTENDS BatchRunner, TLC

(* Identities that the specification only compares.                         *)
Symmetry ==
  Permutations(Batches) \cup Permutations(Handlers) \cup Permutations(Sources)

(* Reaches is the transitive closure of transition()'s guard: every single  *)
(* transition is in it, one more transition stays in it, and every pair in  *)
(* it is a transition or begins with one.                                   *)
ASSUME ReachesIsClosure ==
  \A from, to \in Statuses :
    /\ CanTransition(from, to) => Reaches(from, to)
    /\ \A mid \in Statuses :
         Reaches(from, mid) /\ CanTransition(mid, to) => Reaches(from, to)
    /\ Reaches(from, to) =>
         \/ CanTransition(from, to)
         \/ \E mid \in Statuses : CanTransition(from, mid) /\ Reaches(mid, to)
=============================================================================
