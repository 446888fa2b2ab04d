------------------------------ MODULE GrantTables ------------------------------
(***************************************************************************)
(* The two tables of migrations/001_create_entitlements.sql and the SQL    *)
(* expressions over their rows.  created_at and updated_at, which no       *)
(* statement reads back to decide anything, are in GrantTimes.             *)
(***************************************************************************)
EXTENDS Integers

CONSTANTS
  Scopes,         \* (scope_kind, scope_id) pairs
  Keys,           \* (subject, feature_key) pairs inside a scope
  GrantIds,       \* the grant ids random_id may draw
  Limits,         \* i64 values a request's limit may parse to
  Expiries,       \* instants a request's expires_at may parse to, in ticks
  TicksPerMicro,  \* ticks of the RFC 3339 clock in one PostgreSQL microsecond
  NULL,           \* the SQL null
  NoRow           \* what a lookup finds where no row is stored

(* limit_value carries CHECK (limit_value > 0). *)
StoredLimits == {l \in Limits : l > 0} \cup {NULL}

Instants == Int \cup {NULL}

(* A row of entitlement_grants, keyed by its grant_id. *)
Grant == [scope : Scopes, key : Keys, limit : StoredLimits,
          expires_at : Instants, revoked_at : Instants]

ASSUME TablesAssumption ==
  /\ Limits \subseteq Int
  /\ Expiries \subseteq Int
  /\ TicksPerMicro \in Nat \ {0}
  /\ NULL \notin Int
  /\ NoRow \notin Int
  /\ NoRow \notin Grant

(* pg_timestamp_representable: the instant is a whole microsecond. *)
PgRepresentable(t) == t % TicksPerMicro = 0

(* What a timestamptz column keeps of an instant. *)
PgTimestamp(t) == IF t = NULL THEN NULL ELSE t - (t % TicksPerMicro)

(* The predicate resolve_entitlement joins entitlement_grants on. *)
Active(row, now) ==
  /\ row.revoked_at = NULL
  /\ row.expires_at = NULL \/ row.expires_at > now
================================================================================
