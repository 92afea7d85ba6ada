--------------------------- MODULE BatchLifecycle --------------------------
(***************************************************************************)
(* What a batch promises to everyone who reads its committed row: it is    *)
(* created once, it only moves forward along the lifecycle table, it may   *)
(* fail from any live state, a terminal state is final, and (FairSpec) a   *)
(* run that was accepted ends.  Nothing is said of who moves it.           *)
(***************************************************************************)
EXTENDS BatchStateMachine

CONSTANT Batches

VARIABLE status

Init == status = [b \in Batches |-> NoRow]

Create(b) ==
  /\ status[b] = NoRow
  /\ status' = [status EXCEPT ![b] = "CREATED"]

(* One committed transaction: one or more accepted transitions of the row.  *)
Advance(b) ==
  \E to \in Statuses :
    /\ Reaches(status[b], to)
    /\ status' = [status EXCEPT ![b] = to]

Next == \E b \in Batches : Create(b) \/ Advance(b)

Spec == Init /\ [][Next]_status

FairSpec == Spec /\ \A b \in Batches : WF_status(Advance(b))
=============================================================================
