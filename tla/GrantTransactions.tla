--------------------------- MODULE GrantTransactions ---------------------------
(***************************************************************************)
(* put_grant, revoke_grant and resolve_entitlement of the PostgreSQL       *)
(* plugin as transactions that interleave on the two tables.  Each await   *)
(* of a handler is a step; a caller slot stands for one request future     *)
(* with the database session it holds.  Statements run at PostgreSQL's     *)
(* READ COMMITTED level: a statement sees what was committed when it       *)
(* starts (or when the row lock it waited for is granted), and the rows    *)
(* its own transaction wrote.  Uncommitted rows live in tx until Commit.   *)
(***************************************************************************)
EXTENDS GrantTables, FiniteSets

CONSTANTS
  Callers,         \* request slots that may be in flight at once
  Instances,       \* names context.caller_instance() may return
  AdminCallers,    \* config.admin_callers
  ResolveCallers,  \* config.resolve_callers
  UnknownId,       \* a well-formed grant id no grant has
  PoolSize,        \* connections of the pool
  ClockSkews,      \* host clock minus database clock, in ticks
  MaxClock,        \* bound: the database clock stops here
  MaxRevision,     \* the largest bigint: advancing past it is an error
  Free             \* the owner of an unlocked row

ASSUME TransactionsAssumption ==
  /\ AdminCallers \subseteq Instances
  /\ ResolveCallers \subseteq Instances
  /\ UnknownId \notin GrantIds
  /\ PoolSize \in Nat \ {0}
  /\ ClockSkews \subseteq Int
  /\ MaxClock \in Nat
  /\ MaxRevision \in Nat \ {0}
  /\ Free \notin Callers

VARIABLES
  clock,       \* the database clock, in ticks
  revision,    \* committed entitlement_scopes: scope -> policy_revision
  grants,      \* committed entitlement_grants: grant_id -> row
  scopeOwner,  \* row locks on entitlement_scopes, uncommitted inserts included
  grantOwner,  \* row locks on entitlement_grants, uncommitted inserts included
  pc,          \* the await a request stands at
  request,     \* the request it serves
  tx,          \* the locals and uncommitted rows of its transaction
  response     \* what it returned

tables == <<revision, grants>>
locks  == <<scopeOwner, grantOwner>>
vars   == <<clock, tables, locks, pc, request, tx, response>>

--------------------------------------------------------------------------------
(* Requests, transaction-local state and responses.                        *)

PutRequests == [op : {"put"}, scope : Scopes, key : Keys,
                limit : Limits \cup {NULL}, expires_at : Expiries \cup {NULL}]

RevokeRequests == [op : {"revoke"}, id : GrantIds \cup {UnknownId}]

ResolveRequests == [op : {"resolve"}, scope : Scopes, key : Keys]

Requests == PutRequests \cup RevokeRequests \cup ResolveRequests

(* started: transaction_timestamp(); revision: the value read under the     *)
(* scope lock; scopeRow, grantRow: the rows this transaction has written.   *)
NoTx == [started |-> 0, scope |-> NoRow, revision |-> 0, id |-> NoRow,
         scopeRow |-> NoRow, grantRow |-> NoRow]

Transactions == [started : Int, scope : Scopes \cup {NoRow}, revision : Nat,
                 id : GrantIds \cup {NoRow}, scopeRow : Nat \cup {NoRow},
                 grantRow : Grant \cup {NoRow}]

Statuses == {"none", "ok", "forbidden", "invalid", "not_found", "failure"}

Responses == [status : Statuses, scope : Scopes \cup {NoRow},
              id : GrantIds \cup {NoRow}, changed : BOOLEAN, granted : BOOLEAN,
              limit : StoredLimits, revision : Nat]

NoReply == [status |-> "none", scope |-> NoRow, id |-> NoRow, changed |-> FALSE,
            granted |-> FALSE, limit |-> NULL, revision |-> 0]

Refusal(status) == [NoReply EXCEPT !.status = status]

(* The awaits at which a handler may be suspended. *)
Awaits == {"begin", "ensure_scope", "lock_scope", "lock_grant", "update_grant",
           "insert_grant", "locate", "revoke_grant", "advance", "commit", "read"}

Stages == Awaits \cup {"idle", "done"}

Init ==
  /\ clock = 0
  /\ revision = [s \in Scopes |-> NoRow]
  /\ grants = [g \in GrantIds |-> NoRow]
  /\ scopeOwner = [s \in Scopes |-> Free]
  /\ grantOwner = [g \in GrantIds |-> Free]
  /\ pc = [c \in Callers |-> "idle"]
  /\ request = [c \in Callers |-> NULL]
  /\ tx = [c \in Callers |-> NoTx]
  /\ response = [c \in Callers |-> NoReply]

--------------------------------------------------------------------------------
(* What a statement of caller c sees and may lock.                          *)

(* entitlement_scopes.policy_revision as c sees it. *)
ScopeRow(c, s) == IF tx[c].scopeRow # NoRow THEN tx[c].scopeRow ELSE revision[s]

(* The committed grants, of all keys and of one (scope, subject, feature). *)
Stored == {g \in GrantIds : grants[g] # NoRow}

(* Fault: the key is unique, and looked up, among unrevoked rows only.       *)
UnrevokedRowsOf(s, k) ==
  {g \in Stored : grants[g].scope = s /\ grants[g].key = k /\ grants[g].revoked_at = NULL}

RowsOf(s, k) == {g \in Stored : grants[g].scope = s /\ grants[g].key = k}

(* Another transaction has inserted this (scope, subject, feature) and has  *)
(* neither committed nor rolled back: the unique index makes c wait.        *)
InsertInProgress(c, s, k) ==
  \E d \in Callers \ {c} :
    /\ tx[d].grantRow # NoRow
    /\ grants[tx[d].id] = NoRow
    /\ tx[d].grantRow.scope = s /\ tx[d].grantRow.key = k

(* Fault: a new expiry alone is not seen as a change. *)
DiffersButForExpiry(row, q) == row.limit # q.limit \/ row.revoked_at # NULL

(* put_grant's `changed`: the stored row is not what the request asks for. *)
Differs(row, q) ==
  \/ row.limit # q.limit
  \/ row.expires_at # q.expires_at
  \/ row.revoked_at # NULL

CanLockScope(c, s) == scopeOwner[s] \in {Free, c}
CanLockGrant(c, g) == grantOwner[g] \in {Free, c}

(* The end of c's transaction and of its future: locks go, reply stays. *)
Finish(c, reply) ==
  /\ pc' = [pc EXCEPT ![c] = "done"]
  /\ tx' = [tx EXCEPT ![c] = NoTx]
  /\ response' = [response EXCEPT ![c] = reply]
  /\ scopeOwner' = [s \in Scopes |-> IF scopeOwner[s] = c THEN Free ELSE scopeOwner[s]]
  /\ grantOwner' = [g \in GrantIds |-> IF grantOwner[g] = c THEN Free ELSE grantOwner[g]]

Goto(c, stage) == pc' = [pc EXCEPT ![c] = stage]

--------------------------------------------------------------------------------
(* Entering a handler.  Authorization, validation and the reading of the    *)
(* host clock happen in one poll, before the first await.                   *)

Admit(c, q, authorized, valid) ==
  /\ pc[c] = "idle"
  /\ IF authorized /\ valid
     THEN /\ Goto(c, "begin")
          /\ request' = [request EXCEPT ![c] = q]
          /\ UNCHANGED response
     ELSE /\ Goto(c, "done")
          /\ response' = [response EXCEPT ![c] =
                            Refusal(IF authorized THEN "invalid" ELSE "forbidden")]
          /\ UNCHANGED request
  /\ UNCHANGED <<clock, tables, locks, tx>>

(* Fault: limits below 1 are let through. *)
ValidPutAnyLimit(q, now) ==
  q.expires_at = NULL \/ (PgRepresentable(q.expires_at) /\ q.expires_at > now)

(* Fault: instants finer than a microsecond are let through. *)
ValidPutAnyInstant(q, now) ==
  /\ q.limit = NULL \/ q.limit > 0
  /\ q.expires_at = NULL \/ q.expires_at > now

(* `now` is OffsetDateTime::now_utc() on the host. *)
ValidPut(q, now) ==
  /\ q.limit = NULL \/ q.limit > 0
  /\ q.expires_at = NULL \/ (PgRepresentable(q.expires_at) /\ q.expires_at > now)

(* wellFormed: the names, dimensions and number and time formats parse.     *)
PutGrant(c) ==
  \E q \in PutRequests, caller \in Instances, wellFormed \in BOOLEAN, skew \in ClockSkews :
    Admit(c, q, caller \in AdminCallers, wellFormed /\ ValidPut(q, clock + skew))

(* A caller learns a grant id from a committed put or a listing.            *)
RevokeGrant(c) ==
  \E g \in Stored \cup {UnknownId}, caller \in Instances, wellFormed \in BOOLEAN :
    Admit(c, [op |-> "revoke", id |-> g], caller \in AdminCallers, wellFormed)

ResolveEntitlement(c) ==
  \E q \in ResolveRequests, caller \in Instances, wellFormed \in BOOLEAN :
    Admit(c, q, caller \in ResolveCallers, wellFormed)

(* The requests that hold a connection of the pool. *)
Connected == {c \in Callers : pc[c] \in Awaits \ {"begin"}}

(* A connection comes free and the transaction starts: its timestamp is     *)
(* fixed here.                                                              *)
Begin(c) ==
  /\ pc[c] = "begin"
  /\ Cardinality(Connected) < PoolSize
  /\ tx' = [tx EXCEPT ![c].started = clock]
  /\ Goto(c, CASE request[c].op = "put" -> "ensure_scope"
               [] request[c].op = "revoke" -> "locate"
               [] request[c].op = "resolve" -> "read")
  /\ UNCHANGED <<clock, tables, locks, request, response>>

--------------------------------------------------------------------------------
(* put_grant                                                                *)

(* Fault: the INSERT runs on the pool and commits by itself. *)
EnsureScopeOutside(c) ==
  LET s == request[c].scope IN
  /\ pc[c] = "ensure_scope"
  /\ CanLockScope(c, s)
  /\ revision' = IF revision[s] = NoRow THEN [revision EXCEPT ![s] = 0] ELSE revision
  /\ tx' = [tx EXCEPT ![c].scope = s]
  /\ Goto(c, "lock_scope")
  /\ UNCHANGED <<clock, grants, locks, request, response>>

(* INSERT ... ON CONFLICT DO NOTHING: waits for an uncommitted insert of    *)
(* the same scope, never for a lock on a committed row.                     *)
EnsureScope(c) ==
  LET s == request[c].scope IN
  /\ pc[c] = "ensure_scope"
  /\ \/ /\ revision[s] # NoRow
        /\ tx' = [tx EXCEPT ![c].scope = s]
        /\ UNCHANGED scopeOwner
     \/ /\ revision[s] = NoRow
        /\ CanLockScope(c, s)
        /\ tx' = [tx EXCEPT ![c].scope = s, ![c].scopeRow = 0]
        /\ scopeOwner' = [scopeOwner EXCEPT ![s] = c]
  /\ Goto(c, "lock_scope")
  /\ UNCHANGED <<clock, tables, grantOwner, request, response>>

(* Fault: the SELECT lacks FOR UPDATE. *)
ReadScope(c) ==
  LET s == tx[c].scope IN
  /\ pc[c] = "lock_scope"
  /\ ScopeRow(c, s) # NoRow
  /\ tx' = [tx EXCEPT ![c].revision = ScopeRow(c, s)]
  /\ Goto(c, IF request[c].op = "put" THEN "lock_grant" ELSE "revoke_grant")
  /\ UNCHANGED <<clock, tables, locks, request, response>>

(* SELECT policy_revision ... FOR UPDATE, the same statement in put_grant   *)
(* and revoke_grant.                                                        *)
LockScope(c) ==
  LET s == tx[c].scope IN
  /\ pc[c] = "lock_scope"
  /\ CanLockScope(c, s)
  /\ ScopeRow(c, s) # NoRow
  /\ scopeOwner' = [scopeOwner EXCEPT ![s] = c]
  /\ tx' = [tx EXCEPT ![c].revision = ScopeRow(c, s)]
  /\ Goto(c, IF request[c].op = "put" THEN "lock_grant" ELSE "revoke_grant")
  /\ UNCHANGED <<clock, tables, grantOwner, request, response>>

(* SELECT grant_id, ... FOR UPDATE, then the comparison with the request.   *)
LockGrant(c) ==
  LET q == request[c] IN
  /\ pc[c] = "lock_grant"
  /\ \/ /\ RowsOf(q.scope, q.key) = {}
        /\ Goto(c, "insert_grant")
        /\ UNCHANGED <<tx, grantOwner>>
     \/ \E g \in RowsOf(q.scope, q.key) :
          /\ CanLockGrant(c, g)
          /\ grantOwner' = [grantOwner EXCEPT ![g] = c]
          /\ tx' = [tx EXCEPT ![c].id = g]
          /\ Goto(c, IF Differs(grants[g], q) THEN "update_grant" ELSE "commit")
  /\ UNCHANGED <<clock, tables, scopeOwner, request, response>>

(* Fault: the UPDATE leaves revoked_at as it is. *)
UpdateLimitsOnly(c) ==
  LET q == request[c]
      g == tx[c].id IN
  /\ pc[c] = "update_grant"
  /\ CanLockGrant(c, g)
  /\ grantOwner' = [grantOwner EXCEPT ![g] = c]
  /\ tx' = [tx EXCEPT ![c].grantRow =
              [grants[g] EXCEPT !.limit = q.limit,
                                !.expires_at = PgTimestamp(q.expires_at)]]
  /\ Goto(c, "advance")
  /\ UNCHANGED <<clock, tables, scopeOwner, request, response>>

(* Fault: a grant that gets another expiry alone keeps its scope at the     *)
(* revision it has.                                                         *)
RenewSilently(c) ==
  LET q == request[c]
      g == tx[c].id
      material == grants[g].limit # q.limit \/ grants[g].revoked_at # NULL IN
  /\ pc[c] = "update_grant"
  /\ CanLockGrant(c, g)
  /\ grantOwner' = [grantOwner EXCEPT ![g] = c]
  /\ tx' = [tx EXCEPT ![c].scopeRow = IF material THEN NoRow ELSE tx[c].revision,
                      ![c].grantRow = [grants[g] EXCEPT !.limit = q.limit,
                                         !.expires_at = PgTimestamp(q.expires_at),
                                         !.revoked_at = NULL]]
  /\ Goto(c, IF material THEN "advance" ELSE "commit")
  /\ UNCHANGED <<clock, tables, scopeOwner, request, response>>

UpdateGrant(c) ==
  LET q == request[c]
      g == tx[c].id IN
  /\ pc[c] = "update_grant"
  /\ CanLockGrant(c, g)
  /\ grantOwner' = [grantOwner EXCEPT ![g] = c]
  /\ tx' = [tx EXCEPT ![c].grantRow =
              [grants[g] EXCEPT !.limit = q.limit,
                                !.expires_at = PgTimestamp(q.expires_at),
                                !.revoked_at = NULL]]
  /\ Goto(c, "advance")
  /\ UNCHANGED <<clock, tables, scopeOwner, request, response>>

(* The unique index refuses a second row of the key; random_id collides     *)
(* with no id in use.                                                       *)
InsertGrant(c) ==
  LET q == request[c] IN
  /\ pc[c] = "insert_grant"
  /\ RowsOf(q.scope, q.key) = {}
  /\ ~InsertInProgress(c, q.scope, q.key)
  /\ \E g \in GrantIds :
       /\ grants[g] = NoRow /\ grantOwner[g] = Free
       /\ grantOwner' = [grantOwner EXCEPT ![g] = c]
       /\ tx' = [tx EXCEPT ![c].id = g,
                           ![c].grantRow = [scope |-> q.scope, key |-> q.key,
                                            limit |-> q.limit,
                                            expires_at |-> PgTimestamp(q.expires_at),
                                            revoked_at |-> NULL]]
  /\ Goto(c, "advance")
  /\ UNCHANGED <<clock, tables, scopeOwner, request, response>>

--------------------------------------------------------------------------------
(* revoke_grant                                                             *)

(* Fault: the grant is locked before its scope. *)
LocateForUpdate(c) ==
  LET g == request[c].id IN
  /\ pc[c] = "locate"
  /\ IF g \in Stored
     THEN /\ CanLockGrant(c, g)
          /\ grantOwner' = [grantOwner EXCEPT ![g] = c]
          /\ tx' = [tx EXCEPT ![c].scope = grants[g].scope, ![c].id = g]
          /\ Goto(c, "lock_scope")
          /\ UNCHANGED <<scopeOwner, response>>
     ELSE Finish(c, Refusal("not_found"))
  /\ UNCHANGED <<clock, tables, request>>

(* SELECT scope_kind, scope_id: takes no lock, so the scope it finds is     *)
(* used after others may have run.                                          *)
Locate(c) ==
  LET g == request[c].id IN
  /\ pc[c] = "locate"
  /\ IF g \in Stored
     THEN /\ tx' = [tx EXCEPT ![c].scope = grants[g].scope, ![c].id = g]
          /\ Goto(c, "lock_scope")
          /\ UNCHANGED <<locks, response>>
     ELSE Finish(c, Refusal("not_found"))
  /\ UNCHANGED <<clock, tables, request>>

(* Fault: a revocation is not counted as a policy change. *)
MarkRevokedSilently(c) ==
  LET g == tx[c].id IN
  /\ pc[c] = "revoke_grant"
  /\ CanLockGrant(c, g)
  /\ grantOwner' = [grantOwner EXCEPT ![g] = c]
  /\ tx' = [tx EXCEPT ![c].grantRow = [grants[g] EXCEPT !.revoked_at = tx[c].started]]
  /\ Goto(c, "commit")
  /\ UNCHANGED <<clock, tables, scopeOwner, request, response>>

(* Fault: the UPDATE lacks AND revoked_at IS NULL. *)
MarkRevokedAgain(c) ==
  LET g == tx[c].id IN
  /\ pc[c] = "revoke_grant"
  /\ CanLockGrant(c, g)
  /\ grantOwner' = [grantOwner EXCEPT ![g] = c]
  /\ tx' = [tx EXCEPT ![c].grantRow = [grants[g] EXCEPT !.revoked_at = tx[c].started]]
  /\ Goto(c, "advance")
  /\ UNCHANGED <<clock, tables, scopeOwner, request, response>>

(* UPDATE ... WHERE grant_id = $1 AND revoked_at IS NULL, and its row count. *)
MarkRevoked(c) ==
  LET g == tx[c].id IN
  /\ pc[c] = "revoke_grant"
  /\ IF grants[g].revoked_at = NULL
     THEN /\ CanLockGrant(c, g)
          /\ grantOwner' = [grantOwner EXCEPT ![g] = c]
          /\ tx' = [tx EXCEPT ![c].grantRow =
                      [grants[g] EXCEPT !.revoked_at = tx[c].started]]
          /\ Goto(c, "advance")
     ELSE /\ Goto(c, "commit")
          /\ UNCHANGED <<tx, grantOwner>>
  /\ UNCHANGED <<clock, tables, scopeOwner, request, response>>

--------------------------------------------------------------------------------
(* The end of both mutations, and of any request.                           *)

(* UPDATE entitlement_scopes SET policy_revision = policy_revision + 1      *)
(* RETURNING policy_revision; PostgreSQL refuses to overflow the bigint.    *)
Advance(c) ==
  LET s == tx[c].scope IN
  /\ pc[c] = "advance"
  /\ CanLockScope(c, s)
  /\ IF ScopeRow(c, s) < MaxRevision
     THEN /\ tx' = [tx EXCEPT ![c].scopeRow = ScopeRow(c, s) + 1]
          /\ scopeOwner' = [scopeOwner EXCEPT ![s] = c]
          /\ Goto(c, "commit")
          /\ UNCHANGED <<grantOwner, response>>
     ELSE Finish(c, Refusal("failure"))
  /\ UNCHANGED <<clock, tables, request>>

Changed(c) == tx[c].grantRow # NoRow

(* Fault: the revision read under the lock is returned even after a change. *)
StaleMutationReply(c) ==
  [NoReply EXCEPT !.status = "ok", !.scope = tx[c].scope, !.id = tx[c].id,
     !.changed = Changed(c), !.revision = tx[c].revision]

MutationReply(c) ==
  [NoReply EXCEPT !.status = "ok", !.scope = tx[c].scope, !.id = tx[c].id,
     !.changed = Changed(c),
     !.revision = IF Changed(c) THEN tx[c].scopeRow ELSE tx[c].revision]

(* COMMIT publishes both rows at once.  The acknowledgement may be lost, in *)
(* which case the caller gets a runtime failure for a mutation that stands. *)
Commit(c) ==
  /\ pc[c] = "commit"
  /\ revision' = IF tx[c].scopeRow = NoRow THEN revision
                 ELSE [revision EXCEPT ![tx[c].scope] = tx[c].scopeRow]
  /\ grants' = IF tx[c].grantRow = NoRow THEN grants
               ELSE [grants EXCEPT ![tx[c].id] = tx[c].grantRow]
  /\ \/ Finish(c, MutationReply(c))
     \/ Finish(c, Refusal("failure"))
  /\ UNCHANGED <<clock, request>>

(* resolve_entitlement's one statement: scope LEFT JOIN active grant. *)
Resolve(c) ==
  LET q    == request[c]
      hits == {g \in RowsOf(q.scope, q.key) : Active(grants[g], tx[c].started)}
      reply == [NoReply EXCEPT !.status = "ok", !.scope = q.scope]
  IN
  /\ pc[c] = "read"
  /\ \/ /\ revision[q.scope] = NoRow
        /\ Finish(c, reply)
     \/ /\ revision[q.scope] # NoRow
        /\ hits = {}
        /\ Finish(c, [reply EXCEPT !.revision = revision[q.scope]])
     \/ /\ revision[q.scope] # NoRow
        /\ \E g \in hits :
             Finish(c, [reply EXCEPT !.revision = revision[q.scope], !.id = g,
                          !.granted = TRUE, !.limit = grants[g].limit])
  /\ UNCHANGED <<clock, tables, request>>

(* Any await may end in an error, or the future may be dropped there, or    *)
(* the host may crash: the transaction rolls back and its locks go.  All of *)
(* it is one step: what is left out is a reply that is given up while the   *)
(* rollback, or a COMMIT already sent, has still to come.                   *)
Fail(c) ==
  /\ pc[c] \in Awaits
  /\ Finish(c, Refusal("failure"))
  /\ UNCHANGED <<clock, tables, request>>

(* The caller takes the response and may call again. *)
Return(c) ==
  /\ pc[c] = "done"
  /\ Goto(c, "idle")
  /\ request' = [request EXCEPT ![c] = NULL]
  /\ response' = [response EXCEPT ![c] = NoReply]
  /\ UNCHANGED <<clock, tables, locks, tx>>

Tick ==
  /\ clock + TicksPerMicro <= MaxClock
  /\ clock' = clock + TicksPerMicro
  /\ UNCHANGED <<tables, locks, pc, request, tx, response>>

(* The steps of a request the database and the executor carry forward. *)
Proceed(c) ==
  \/ Begin(c) \/ EnsureScope(c) \/ LockScope(c) \/ LockGrant(c)
  \/ UpdateGrant(c) \/ InsertGrant(c) \/ Locate(c) \/ MarkRevoked(c)
  \/ Advance(c) \/ Commit(c) \/ Resolve(c)

Next ==
  \/ Tick
  \/ \E c \in Callers :
       \/ PutGrant(c) \/ RevokeGrant(c) \/ ResolveEntitlement(c)
       \/ Proceed(c) \/ Fail(c) \/ Return(c)

Spec == Init /\ [][Next]_vars

(* A ready future is polled and PostgreSQL runs what it is sent.  A session *)
(* waiting for a row queues for it, so a row that keeps coming free is      *)
(* granted in the end: strong fairness.                                     *)
FairSpec == Spec /\ \A c \in Callers : SF_vars(Proceed(c))

--------------------------------------------------------------------------------
(* Properties.                                                              *)

Rev(s) == IF revision[s] = NoRow THEN 0 ELSE revision[s]

(* Every variable keeps the type its column or local has: in particular no  *)
(* stored limit breaks CHECK (limit_value > 0) and no revision its CHECK.   *)
TypeOK ==
  /\ clock \in Nat
  /\ revision \in [Scopes -> Nat \cup {NoRow}]
  /\ grants \in [GrantIds -> Grant \cup {NoRow}]
  /\ scopeOwner \in [Scopes -> Callers \cup {Free}]
  /\ grantOwner \in [GrantIds -> Callers \cup {Free}]
  /\ pc \in [Callers -> Stages]
  /\ request \in [Callers -> Requests \cup {NULL}]
  /\ tx \in [Callers -> Transactions]
  /\ response \in [Callers -> Responses]

(* A scope is listed only once something was granted in it: a failure after *)
(* the INSERT of put_grant's scope leaves no scope behind at revision 0.    *)
NoEmptyScope ==
  \A s \in Scopes :
    IF revision[s] = NoRow
    THEN \A g \in Stored : grants[g].scope # s
    ELSE revision[s] >= 1 /\ \E g \in Stored : grants[g].scope = s

(* FOR UPDATE on the scope is lock enough: behind it no lookup, update,     *)
(* insert or advance waits for another transaction, the insert meets no     *)
(* row of its key, and the row revoke_grant located without a lock is still *)
(* there in the same scope.                                                 *)
ScopeLockSuffices ==
  \A c \in Callers :
    /\ pc[c] \in {"lock_grant", "insert_grant"} =>
         \A g \in RowsOf(request[c].scope, request[c].key) : CanLockGrant(c, g)
    /\ pc[c] = "insert_grant" =>
         /\ RowsOf(request[c].scope, request[c].key) = {}
         /\ ~InsertInProgress(c, request[c].scope, request[c].key)
    /\ pc[c] \in {"update_grant", "revoke_grant"} =>
         /\ CanLockGrant(c, tx[c].id)
         /\ tx[c].id \in Stored /\ grants[tx[c].id].scope = tx[c].scope
    /\ pc[c] = "advance" => CanLockScope(c, tx[c].scope)

(* c's next statement waits for a row or an uncommitted insert of d's. *)
WaitsFor(c, d) ==
  LET q == request[c]
      g == tx[c].id IN
  /\ c # d
  /\ \/ /\ pc[c] = "ensure_scope"
        /\ revision[q.scope] = NoRow /\ scopeOwner[q.scope] = d
     \/ pc[c] \in {"lock_scope", "advance"} /\ scopeOwner[tx[c].scope] = d
     \/ pc[c] = "lock_grant" /\ \E h \in RowsOf(q.scope, q.key) : grantOwner[h] = d
     \/ pc[c] = "update_grant" /\ grantOwner[g] = d
     \/ pc[c] = "revoke_grant" /\ grants[g].revoked_at = NULL /\ grantOwner[g] = d
     \/ /\ pc[c] = "insert_grant"
        /\ tx[d].grantRow # NoRow /\ grants[tx[d].id] = NoRow
        /\ tx[d].grantRow.scope = q.scope /\ tx[d].grantRow.key = q.key

(* Nobody waits for a caller who waits for another: PostgreSQL's deadlock   *)
(* detector has nothing to find, and whoever holds what another needs goes  *)
(* on to its commit.                                                        *)
NobodyWaitsInTurn ==
  \A c, d, e \in Callers : WaitsFor(c, d) => ~WaitsFor(d, e)

(* At most one grant is stored per scope, subject and feature, so put_grant *)
(* and resolve_entitlement, which fetch at most one, leave none unread.     *)
OneGrantPerKey ==
  \A g, h \in Stored :
    grants[g].scope = grants[h].scope /\ grants[g].key = grants[h].key => g = h

(* While the scope still has the revision a mutation returned, what it did  *)
(* stands: an exact retry of the put would change nothing, and the revoked  *)
(* grant is revoked.                                                        *)
MutationsHoldAtTheirRevision ==
  \A c \in Callers :
    LET q == request[c]
        r == response[c] IN
    pc[c] = "done" /\ r.status = "ok" /\ q.op \in {"put", "revoke"} =>
      /\ r.revision <= Rev(r.scope)
      /\ r.revision = Rev(r.scope) =>
           IF q.op = "put"
           THEN r.id \in RowsOf(q.scope, q.key) /\ ~Differs(grants[r.id], q)
           ELSE grants[q.id].revoked_at # NULL

(* What a reader of a scope can tell apart: its grants, not when they were  *)
(* revoked.                                                                 *)
Content(s) ==
  [g \in {h \in Stored : grants[h].scope = s} |->
     <<grants[g].key, grants[g].limit, grants[g].expires_at, grants[g].revoked_at = NULL>>]

(* "Every material mutation advances that scope's revision in the same      *)
(* transaction": what a scope grants and its revision change together, the  *)
(* revision by one, and neither without the other.                          *)
MutationsAdvance ==
  \A s \in Scopes :
    \/ Content(s)' = Content(s) /\ Rev(s)' = Rev(s)
    \/ Content(s)' # Content(s) /\ Rev(s)' = Rev(s) + 1

MaterialMutationsAdvance == [][MutationsAdvance]_vars

(* Every admitted call comes back: the scope locks deadlock nobody and      *)
(* starve nobody.                                                           *)
EveryCallReturns == \A c \in Callers : pc[c] \in Awaits ~> pc[c] = "done"

(* The transactions together are the service that EntitlementService        *)
(* promises: each call takes effect at the step that ends it.               *)
Policy == [s \in Scopes |-> Rev(s)]

PhaseOf(stage) == IF stage = "begin" THEN "asked"
                  ELSE IF stage \in Awaits THEN "open" ELSE stage

Phase == [c \in Callers |-> PhaseOf(pc[c])]

Opened == [c \in Callers |-> IF PhaseOf(pc[c]) = "open" THEN tx[c].started ELSE 0]

Service == INSTANCE EntitlementService WITH
  policy <- Policy, facts <- grants, phase <- Phase, opened <- Opened

ImplementsService == Service!Spec

--------------------------------------------------------------------------------
(* The inductive invariant behind the safety properties.                    *)

(* The awaits of a mutation that knows its scope, and those past its lock.  *)
Locked  == {"lock_grant", "update_grant", "insert_grant", "revoke_grant",
            "advance", "commit"}
Engaged == Locked \cup {"lock_scope"}

PutOnly    == {"ensure_scope", "lock_grant", "update_grant", "insert_grant"}
RevokeOnly == {"locate", "revoke_grant"}

(* A request under way passed validation and is at an await of its handler. *)
RequestInv(c) ==
  /\ pc[c] \in Awaits => request[c] \in Requests
  /\ pc[c] \in Awaits /\ request[c].op = "put" =>
       /\ request[c].limit = NULL \/ request[c].limit > 0
       /\ request[c].expires_at = NULL \/ PgRepresentable(request[c].expires_at)
  /\ pc[c] \in PutOnly => request[c].op = "put"
  /\ pc[c] \in RevokeOnly => request[c].op = "revoke"
  /\ pc[c] = "read" => request[c].op = "resolve"
  /\ pc[c] \in Engaged => request[c].op \in {"put", "revoke"}

(* A transaction works on its request's scope, and past the scope lock has  *)
(* read the scope's current revision.                                       *)
ScopeInv(c) ==
  /\ pc[c] \notin Engaged =>
       /\ tx[c].scope = NoRow /\ tx[c].id = NoRow
       /\ tx[c].scopeRow = NoRow /\ tx[c].grantRow = NoRow
  /\ pc[c] \in Engaged =>
       /\ tx[c].scope \in Scopes
       /\ ScopeRow(c, tx[c].scope) # NoRow
       /\ request[c].op = "put" => tx[c].scope = request[c].scope
       /\ request[c].op = "revoke" =>
            /\ tx[c].id = request[c].id
            /\ tx[c].id \in Stored /\ grants[tx[c].id].scope = tx[c].scope
  /\ tx[c].scopeRow # NoRow => scopeOwner[tx[c].scope] = c
  /\ pc[c] \in Engaged \ {"commit"} =>
       tx[c].scopeRow = NoRow \/ (tx[c].scopeRow = 0 /\ revision[tx[c].scope] = NoRow)
  /\ pc[c] \in Locked =>
       scopeOwner[tx[c].scope] = c /\ tx[c].revision = Rev(tx[c].scope)

(* The row a transaction has written is a material change of its scope, and *)
(* no other transaction can be changing that scope.                         *)
GrantInv(c) ==
  LET row == tx[c].grantRow
      g   == tx[c].id IN
  /\ pc[c] = "update_grant" =>
       g \in RowsOf(request[c].scope, request[c].key) /\ Differs(grants[g], request[c])
  /\ pc[c] = "insert_grant" => RowsOf(request[c].scope, request[c].key) = {}
  /\ pc[c] \in Engaged \ {"advance", "commit"} => row = NoRow
  /\ pc[c] = "advance" => row # NoRow
  /\ row # NoRow =>
       /\ g \in GrantIds /\ grantOwner[g] = c /\ row.scope = tx[c].scope
       /\ IF g \in Stored
          THEN /\ grants[g].scope = row.scope /\ grants[g].key = row.key
               /\ \/ grants[g].limit # row.limit
                  \/ grants[g].expires_at # row.expires_at
                  \/ (grants[g].revoked_at = NULL) # (row.revoked_at = NULL)
          ELSE RowsOf(row.scope, row.key) = {}
  /\ pc[c] = "commit" => tx[c].scopeRow =
       IF row = NoRow THEN NoRow ELSE Rev(tx[c].scope) + 1

(* The row a put asks for. *)
Asked(q) == [scope |-> q.scope, key |-> q.key, limit |-> q.limit,
             expires_at |-> q.expires_at, revoked_at |-> NULL]

(* What a commit is about to leave in the table is what was asked for.      *)
TargetInv(c) ==
  LET q   == request[c]
      row == tx[c].grantRow
      g   == tx[c].id IN
  /\ row # NoRow =>
       IF q.op = "put" THEN row = Asked(q)
       ELSE /\ grants[g].revoked_at = NULL
            /\ row = [grants[g] EXCEPT !.revoked_at = tx[c].started]
  /\ pc[c] = "commit" /\ row = NoRow =>
       IF q.op = "put" THEN g \in GrantIds /\ grants[g] = Asked(q)
       ELSE grants[g].revoked_at # NULL

(* Locks are held by the transactions that took them, the grant's under its *)
(* scope's.                                                                 *)
LockInv ==
  /\ \A s \in Scopes : scopeOwner[s] # Free =>
       pc[scopeOwner[s]] \in Engaged /\ tx[scopeOwner[s]].scope = s
  /\ \A g \in GrantIds : grantOwner[g] # Free =>
       /\ pc[grantOwner[g]] \in {"update_grant", "advance", "commit"}
       /\ tx[grantOwner[g]].id = g

IInv ==
  /\ TypeOK
  /\ NoEmptyScope
  /\ OneGrantPerKey
  /\ LockInv
  /\ \A c \in Callers : RequestInv(c) /\ ScopeInv(c) /\ GrantInv(c) /\ TargetInv(c)
================================================================================
