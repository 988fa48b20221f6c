------------------------------- MODULE MCFloor -------------------------------
(* A small floor: what two sales use up, and dishes that are alike.           *)
EXTENDS Floor, TLC

CONSTANTS flour, oil, x1, x2

MCUses == (x1 :> (flour :> 1 @@ oil :> 1)) @@ (x2 :> (flour :> 2 @@ oil :> 0))

MCAdjustments == {-1, 1}

Symmetric == Permutations(Items)
=============================================================================
