------------------------------ MODULE MCAgentTools ------------------------------
(* Instances of AgentTools for TLC. *)
EXTENDS AgentTools, TLC

(* A put with a limit and one with an expiry, and every revocation. *)
Mutations ==
  [op : {"put"}, scope : Scopes, key : Keys, limit : Limits, expires_at : {NULL}]
    \cup [op : {"put"}, scope : Scopes, key : Keys, limit : {NULL}, expires_at : Expiries]
    \cup [op : {"revoke"}, id : GrantIds]

Symmetry == Permutations(Agents)
================================================================================
