------------------------------ MODULE MCTangle ------------------------------
(***************************************************************************)
(* Instances of Tangle for TLC: a parent and its child.                    *)
(***************************************************************************)
EXTENDS Tangle, TLC

CONSTANTS parent, child

MCParents == parent :> {} @@ child :> {parent}

TaskSymmetry == Permutations(Tasks)
=============================================================================
