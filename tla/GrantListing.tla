------------------------------ MODULE GrantListing ------------------------------
(***************************************************************************)
(* list_grants, and an admin client that walks a scope's pages by cursor,  *)
(* while the calls of EntitlementService go on.  GrantTransactions         *)
(* implements that service, so what a snapshot sees of the tables is the   *)
(* service's policy and facts.  Each await of the handler is a step.       *)
(***************************************************************************)
EXTENDS GrantTables, FiniteSets, Sequences

CONSTANTS
  Callers, Requests, MaxClock,  \* of EntitlementService
  Listers,       \* admin clients that walk pages
  Instances,     \* names context.caller_instance() may return
  AdminCallers,  \* config.admin_callers
  KeyFilters,    \* the keys a subject filter and a feature filter leave
  PageLimits,    \* i64 values a request's limit may have
  PageCap,       \* the largest limit let through: 200 in the code
  MaxRevision    \* bound: no call takes a scope past this revision

(* GrantIds are ordered as PostgreSQL orders the texts. *)
ASSUME ListingAssumption ==
  /\ GrantIds \subseteq Nat /\ IsFiniteSet(GrantIds)
  /\ \A q \in Requests : q.op = "put" =>
       /\ q.scope \in Scopes /\ q.key \in Keys
       /\ q.limit \in StoredLimits /\ q.expires_at \in Instants
  /\ AdminCallers \subseteq Instances
  /\ KeyFilters \subseteq SUBSET Keys
  /\ PageLimits \subseteq Int
  /\ PageCap \in Nat \ {0}
  /\ MaxRevision \in Nat
  /\ MaxClock \in Nat

VARIABLES
  clock, policy, facts, phase, request, opened, response,  \* EntitlementService
  stage,   \* the await a lister's call stands at, or what its walk has come to
  query,   \* the filters and page limit of the walk
  cursor,  \* the cursor of the call
  tx,      \* the locals of its read-only transaction
  page,    \* the response
  listed,  \* the grant ids of the walk's earlier pages
  steady,  \* the grants that matched, unchanged, since the walk began
  past     \* scope -> its grants at each revision it has had, from 0 on

service == <<clock, policy, facts, phase, request, opened, response>>
walk    == <<stage, query, cursor, tx, page, listed>>
vars    == <<service, walk, steady, past>>

Service == INSTANCE EntitlementService

--------------------------------------------------------------------------------
(* The statement's expressions over a row, judged at `now`.                 *)

(* Fault: an instant counts as expired only after expires_at. *)
StatusPastExpiry(row, now) ==
  IF row.revoked_at # NULL THEN "revoked"
  ELSE IF row.expires_at # NULL /\ row.expires_at < now THEN "expired" ELSE "active"

(* The CASE that reports effective_status. *)
EffectiveStatus(row, now) ==
  IF row.revoked_at # NULL THEN "revoked"
  ELSE IF row.expires_at # NULL /\ row.expires_at <= now THEN "expired" ELSE "active"

(* The WHERE conjunct of the status filter: a comparison with NULL fails. *)
StatusAdmits(status, row, now) ==
  \/ status = "all"
  \/ status = "active" /\ Active(row, now)
  \/ /\ status = "expired"
     /\ row.revoked_at = NULL
     /\ row.expires_at # NULL /\ row.expires_at <= now
  \/ status = "revoked" /\ row.revoked_at # NULL

(* The grants of table `view` that pass the scope, key and status filters. *)
Matching(view, q, now) ==
  {g \in GrantIds : /\ view[g] # NoRow
                    /\ view[g].scope = q.scope /\ view[g].key \in q.keys
                    /\ StatusAdmits(q.status, view[g], now)}

(* Fault: the cursor's own row is read again. *)
BeyondOrAt(ids, after) == {g \in ids : after = NULL \/ g >= after}

(* grant_id > cursor, or no cursor. *)
Beyond(ids, after) == {g \in ids : after = NULL \/ g > after}

(* ORDER BY grant_id LIMIT n. *)
FirstOf(ids, n) == {g \in ids : Cardinality({h \in ids : h < g}) < n}

LastOf(ids) == CHOOSE g \in ids : \A h \in ids : h <= g

--------------------------------------------------------------------------------
Queries == [scope : Scopes, keys : KeyFilters, limit : PageLimits,
            status : {"active", "expired", "revoked", "all"}]

Awaits == {"begin", "set_isolation", "read_revision", "read_rows", "commit"}

NoTx == [started |-> 0, repeatable |-> FALSE, view |-> NoRow, revision |-> 0,
         rows |-> {}]

(* A row of the response, as the statement selected it. *)
Item(view, g, now) == [key |-> view[g].key, limit |-> view[g].limit,
                       expires_at |-> view[g].expires_at,
                       status |-> EffectiveStatus(view[g], now)]

NoPage == [items |-> <<>>, next_cursor |-> NULL, policy_revision |-> 0, at |-> 0]

Init ==
  /\ Service!Init
  /\ stage = [l \in Listers |-> "idle"]
  /\ query = [l \in Listers |-> NULL]
  /\ cursor = [l \in Listers |-> NULL]
  /\ tx = [l \in Listers |-> NoTx]
  /\ page = [l \in Listers |-> NoPage]
  /\ listed = [l \in Listers |-> {}]
  /\ steady = [l \in Listers |-> {}]
  /\ past = [s \in Scopes |-> <<facts>>]

Goto(l, next) == stage' = [stage EXCEPT ![l] = next]

(* The history the properties speak of goes along with every step. *)
Track ==
  /\ past' = [s \in Scopes |-> IF policy'[s] = policy[s] THEN past[s]
                               ELSE Append(past[s], facts')]
  /\ steady' = [l \in Listers |->
       IF query'[l] = NULL THEN {}
       ELSE LET matching == Matching(facts', query'[l], clock') IN
            IF query[l] = NULL THEN matching
            ELSE {g \in steady[l] \cap matching : facts'[g] = facts[g]}]

--------------------------------------------------------------------------------
(* list_grants, await by await.                                             *)

ValidQuery(q) == q.limit \in 1..PageCap

(* A walk's first call.  wellFormed: the names and dimensions are valid. *)
ListGrants(l) ==
  /\ stage[l] = "idle"
  /\ \E q \in Queries, caller \in Instances, wellFormed \in BOOLEAN :
       IF caller \in AdminCallers /\ wellFormed /\ ValidQuery(q)
       THEN Goto(l, "begin") /\ query' = [query EXCEPT ![l] = q]
       ELSE Goto(l, "refused") /\ UNCHANGED query
  /\ UNCHANGED <<service, cursor, tx, page, listed>>
  /\ Track

(* transaction_timestamp() is fixed here, before the snapshot. *)
Begin(l) ==
  /\ stage[l] = "begin"
  /\ tx' = [tx EXCEPT ![l].started = clock]
  /\ Goto(l, "set_isolation")
  /\ UNCHANGED <<service, query, cursor, page, listed>>
  /\ Track

(* Fault: the transaction stays READ COMMITTED. *)
KeepIsolation(l) ==
  /\ stage[l] = "set_isolation"
  /\ Goto(l, "read_revision")
  /\ UNCHANGED <<service, query, cursor, tx, page, listed>>
  /\ Track

(* SET TRANSACTION ISOLATION LEVEL REPEATABLE READ READ ONLY. *)
SetIsolation(l) ==
  /\ stage[l] = "set_isolation"
  /\ tx' = [tx EXCEPT ![l].repeatable = TRUE]
  /\ Goto(l, "read_revision")
  /\ UNCHANGED <<service, query, cursor, page, listed>>
  /\ Track

(* The first query: a REPEATABLE READ transaction's snapshot is of now. *)
ReadRevision(l) ==
  /\ stage[l] = "read_revision"
  /\ tx' = [tx EXCEPT ![l].revision = policy[query[l].scope], ![l].view = facts]
  /\ Goto(l, "read_rows")
  /\ UNCHANGED <<service, query, cursor, page, listed>>
  /\ Track

(* The rows, one more than the page holds. *)
ReadRows(l) ==
  LET q    == query[l]
      view == IF tx[l].repeatable THEN tx[l].view ELSE facts
      rows == FirstOf(Beyond(Matching(view, q, tx[l].started), cursor[l]), q.limit + 1)
  IN
  /\ stage[l] = "read_rows"
  /\ tx' = [tx EXCEPT ![l].view = view, ![l].rows = rows]
  /\ Goto(l, "commit")
  /\ UNCHANGED <<service, query, cursor, page, listed>>
  /\ Track

(* Fault: the cursor is the id of the row after the page. *)
PageBefore(l) ==
  LET more == Cardinality(tx[l].rows) > query[l].limit
      kept == FirstOf(tx[l].rows, query[l].limit) IN
  [items |-> [g \in kept |-> Item(tx[l].view, g, tx[l].started)],
   next_cursor |-> IF more THEN LastOf(tx[l].rows) ELSE NULL,
   policy_revision |-> tx[l].revision, at |-> tx[l].started]

(* The response: `limit` of the rows, and a cursor if there was one more.   *)
(* `at` is the instant its statuses are of; the response itself has none.   *)
PageOf(l) ==
  LET more == Cardinality(tx[l].rows) > query[l].limit
      kept == FirstOf(tx[l].rows, query[l].limit) IN
  [items |-> [g \in kept |-> Item(tx[l].view, g, tx[l].started)],
   next_cursor |-> IF more THEN LastOf(kept) ELSE NULL,
   policy_revision |-> tx[l].revision, at |-> tx[l].started]

Commit(l) ==
  /\ stage[l] = "commit"
  /\ page' = [page EXCEPT ![l] = PageOf(l)]
  /\ tx' = [tx EXCEPT ![l] = NoTx]
  /\ Goto(l, "page")
  /\ UNCHANGED <<service, query, cursor, listed>>
  /\ Track

(* Any await may end in a runtime failure. *)
Fail(l) ==
  /\ stage[l] \in Awaits
  /\ tx' = [tx EXCEPT ![l] = NoTx]
  /\ Goto(l, "failed")
  /\ UNCHANGED <<service, query, cursor, page, listed>>
  /\ Track

--------------------------------------------------------------------------------
(* The client between its calls.                                            *)

(* It takes the page and asks for the one at next_cursor, or has them all. *)
TakePage(l) ==
  /\ stage[l] = "page"
  /\ listed' = [listed EXCEPT ![l] = @ \cup DOMAIN page[l].items]
  /\ cursor' = [cursor EXCEPT ![l] = page[l].next_cursor]
  /\ Goto(l, IF page[l].next_cursor = NULL THEN "walked" ELSE "begin")
  /\ page' = [page EXCEPT ![l] = NoPage]
  /\ UNCHANGED <<service, query, tx>>
  /\ Track

(* It asks for the same page again. *)
Retry(l) ==
  /\ stage[l] = "failed"
  /\ Goto(l, "begin")
  /\ UNCHANGED <<service, query, cursor, tx, page, listed>>
  /\ Track

Leave(l) ==
  /\ stage[l] \in {"walked", "failed", "refused"}
  /\ Goto(l, "idle")
  /\ query' = [query EXCEPT ![l] = NULL]
  /\ cursor' = [cursor EXCEPT ![l] = NULL]
  /\ listed' = [listed EXCEPT ![l] = {}]
  /\ UNCHANGED <<service, tx, page>>
  /\ Track

--------------------------------------------------------------------------------
(* The service, and all steps together.                                     *)

Serve ==
  /\ Service!Next
  /\ \A s \in Scopes : policy'[s] <= MaxRevision
  /\ UNCHANGED walk
  /\ Track

(* The steps of a call the database and the executor carry forward. *)
Proceed(l) ==
  Begin(l) \/ SetIsolation(l) \/ ReadRevision(l) \/ ReadRows(l) \/ Commit(l)

Next ==
  \/ Serve
  \/ \E l \in Listers :
       \/ ListGrants(l) \/ Proceed(l) \/ Fail(l) \/ TakePage(l) \/ Retry(l) \/ Leave(l)

Spec == Init /\ [][Next]_vars

(* The handler's future is polled, PostgreSQL answers a query that waits    *)
(* for no lock, and the client takes the page it is handed.                 *)
FairSpec ==
  Spec /\ \A l \in Listers : WF_vars(Proceed(l) \/ TakePage(l))

--------------------------------------------------------------------------------
(* Properties.                                                              *)

(* A page shows one state of its scope: the rows and statuses are those the *)
(* scope had at the very revision the page names, whatever is committed     *)
(* between the read of the revision and the read of the rows.               *)
PageIsOneRevision ==
  \A l \in Listers : stage[l] = "page" =>
    LET p    == page[l]
        q    == query[l]
        then == past[q.scope][p.policy_revision + 1]
        left == Beyond(Matching(then, q, p.at), cursor[l])
    IN /\ DOMAIN p.items = FirstOf(left, q.limit)
       /\ \A g \in DOMAIN p.items : p.items[g] = Item(then, g, p.at)
       /\ p.next_cursor = NULL <=> Cardinality(left) <= q.limit

(* A walk that has read its last page has listed every grant that matched   *)
(* its filters, unchanged, from the first call on: mutations elsewhere in   *)
(* the scope and repeated calls make it skip none.                          *)
StandingGrantsAreListed ==
  \A l \in Listers : stage[l] = "walked" => steady[l] \subseteq listed[l]

(* No page repeats a grant of an earlier one, not even a grant put, revoked *)
(* or expired between the two.                                              *)
NothingListedTwice ==
  \A l \in Listers : stage[l] = "page" => listed[l] \cap DOMAIN page[l].items = {}

(* The statement says three times over what a grant's status is, and        *)
(* resolve_entitlement once more: what a page calls active is what a        *)
(* resolve at that instant and revision grants, nothing else is, and a      *)
(* filtered page reports no other status than its filter's.                 *)
StatusesAgree ==
  \A l \in Listers : stage[l] = "page" =>
    LET then == past[query[l].scope][page[l].policy_revision + 1] IN
    \A g \in DOMAIN page[l].items :
      LET status == page[l].items[g].status IN
      /\ status = "active" <=> Active(then[g], page[l].at)
      /\ query[l].status \in {"all", status}

(* Whatever is put meanwhile, a page that names a next one leaves fewer ids *)
(* to list than were left before it, and no step within a walk, a retry     *)
(* included, brings any back: so many pages at most are asked for.          *)
PagesMoveOn ==
  [][\A l \in Listers : stage'[l] \in Awaits =>
       LET left      == Cardinality(Beyond(GrantIds, cursor[l]))
           leftAfter == Cardinality(Beyond(GrantIds, cursor'[l]))
       IN IF stage[l] = "page" THEN leftAfter < left ELSE leftAfter <= left]_vars

(* A walk comes to its end or to a failure even while grants are put into   *)
(* the scope: the cursor passes over each id once.                          *)
EveryWalkEnds ==
  \A l \in Listers : stage[l] = "begin" ~> stage[l] \in {"walked", "failed"}
================================================================================
