----------------------------- MODULE MCGrantListing -----------------------------
(* Instances of GrantListing for TLC. *)
EXTENDS GrantListing, TLC

(* Every put and revocation of the instance's grants. *)
Mutations ==
  [op : {"put"}, scope : Scopes, key : Keys, limit : {NULL}, expires_at : Expiries \cup {NULL}]
    \cup [op : {"revoke"}, id : GrantIds]

AnyCall == Mutations \cup [op : {"resolve"}, scope : Scopes, key : Keys]

(* No subject or feature filter. *)
AllKeys == {Keys}

Symmetry == Permutations(Keys)
================================================================================
