------------------------------ MODULE MCRerun ------------------------------
(* Two runs over the same rows, the ids of the second in reverse order.     *)
EXTENDS Rerun, MCRows

MCOneExternal == {e1}

MCReverseRank == i1 :> 5 @@ i2 :> 4 @@ e1 :> 3 @@ e2 :> 2 @@ e3 :> 1
=============================================================================
