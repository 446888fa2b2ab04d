-------------------------- MODULE MCGrantTransactions --------------------------
(* Instances of GrantTransactions for TLC. *)
EXTENDS GrantTransactions, TLC

NoSkew  == {0}

Symmetry == Permutations(Callers) \cup Permutations(GrantIds)
================================================================================
