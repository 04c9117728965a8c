-------------------------------- MODULE MCTimer --------------------------------
(* Instances of Timer for TLC. *)
EXTENDS Timer, TLC

IdSymmetry == Permutations(Ids)
===============================================================================
