------------------------------- MODULE MC_Htvic -------------------------------
(***************************************************************************)
(* Instances of Htvic for TLC: vectors whose table entries before probe    *)
(* are addresses (as the platform leaves them), not vector numbers.       *)
(***************************************************************************)
EXTENDS Htvic

MC_IvtOrig == [v \in Vectors |-> 496 + 4 * v]

====
