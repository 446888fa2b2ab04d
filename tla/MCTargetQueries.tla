----------------------------- MODULE MCTargetQueries -----------------------------
(* Instances of TargetQueries for TLC. *)
EXTENDS TargetQueries

(* Puts with a limit or an expiry or neither, revocations, and queries. *)
AnyCall ==
  [op : {"put"}, scope : Scopes, key : Keys, limit : StoredLimits, expires_at : {NULL}]
    \cup [op : {"put"}, scope : Scopes, key : Keys, limit : {NULL}, expires_at : Expiries]
    \cup [op : {"revoke"}, id : GrantIds]
    \cup [op : {"resolve"}, scope : Scopes, key : Keys]
================================================================================
