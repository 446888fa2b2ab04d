------------------------------ MODULE MCGrantTimes ------------------------------
(* Instances of GrantTimes for TLC. *)
EXTENDS GrantTimes, TLC

MCSkews == {-2, 0}

Symmetry == Permutations(Callers) \cup Permutations(GrantIds)
================================================================================
