------------------------------- MODULE GrantTimes -------------------------------
(***************************************************************************)
(* The transactions and time: created_at and updated_at of the grants, and *)
(* how long what a resolve returned is so.  A row's times are each the     *)
(* transaction_timestamp() of its writer, which is fixed before the writer *)
(* waits for the scope's lock, so that changes may carry their times in    *)
(* another order than they were made in.                                   *)
(***************************************************************************)
EXTENDS GrantTransactions

VARIABLES
  created,  \* created_at of the grants stored: grant_id -> instant
  updated,  \* updated_at
  until     \* history: the expiry of the grant that a call's resolve found

times == <<created, updated>>
timed == <<vars, times, until>>

TimedInit ==
  /\ Init
  /\ created = [g \in GrantIds |-> NoRow]
  /\ updated = [g \in GrantIds |-> NoRow]
  /\ until = [c \in Callers |-> NULL]

(* Fault: a put that changes a grant sets created_at. *)
CreatedAtChange(c, g) ==
  IF tx[c].grantRow.revoked_at = NULL THEN tx[c].started ELSE created[g]

(* DEFAULT transaction_timestamp() of an insert; no UPDATE names the column. *)
CreatedAt(c, g) == IF g \in Stored THEN created[g] ELSE tx[c].started

(* The row that COMMIT publishes has the times its statement gave it.       *)
TimedCommit(c) ==
  LET g == tx[c].id IN
  /\ Commit(c)
  /\ IF Changed(c)
     THEN /\ created' = [created EXCEPT ![g] = CreatedAt(c, g)]
          /\ updated' = [updated EXCEPT ![g] = tx[c].started]
     ELSE UNCHANGED times
  /\ UNCHANGED until

(* The response has no expires_at: how long a fact is so is kept beside it. *)
TimedResolve(c) ==
  /\ Resolve(c)
  /\ until' = [until EXCEPT ![c] =
                 IF response'[c].granted THEN grants[response'[c].id].expires_at ELSE NULL]
  /\ UNCHANGED times

TimedReturn(c) ==
  /\ Return(c)
  /\ until' = [until EXCEPT ![c] = NULL]
  /\ UNCHANGED times

(* No other statement of a handler writes a time. *)
TimedProceed(c) ==
  \/ TimedCommit(c) \/ TimedResolve(c)
  \/ /\ \/ Begin(c) \/ EnsureScope(c) \/ LockScope(c) \/ LockGrant(c)
        \/ UpdateGrant(c) \/ InsertGrant(c) \/ Locate(c) \/ MarkRevoked(c)
        \/ Advance(c)
     /\ UNCHANGED <<times, until>>

TimedNext ==
  \/ Tick /\ UNCHANGED <<times, until>>
  \/ \E c \in Callers :
       \/ TimedProceed(c) \/ TimedReturn(c)
       \/ /\ PutGrant(c) \/ RevokeGrant(c) \/ ResolveEntitlement(c) \/ Fail(c)
          /\ UNCHANGED <<times, until>>

TimedSpec == TimedInit /\ [][TimedNext]_timed

--------------------------------------------------------------------------------
(* A revoked grant's times, which list_grants reports side by side, agree:  *)
(* it was last updated when it was revoked and not before it was created,   *)
(* though the revocation may have begun long before its turn came.  Of the  *)
(* times of a grant that stands nothing of the kind is so.                  *)
RevocationFollowsCreation ==
  \A g \in Stored : grants[g].revoked_at # NULL =>
    created[g] <= updated[g] /\ updated[g] = grants[g].revoked_at

(* "Every material mutation advances that scope's revision": at a revision  *)
(* that a resolve named, time alone changes what it found.  Until the       *)
(* expiry its grant then had, asking again would find the same grant with   *)
(* the same limit; from then on, and after a denial, a denial.              *)
FactsStandUntilExpiry ==
  \A c \in Callers :
    LET q   == request[c]
        r   == response[c]
        now == {g \in RowsOf(q.scope, q.key) : Active(grants[g], clock)} IN
    pc[c] = "done" /\ r.status = "ok" /\ q.op = "resolve" =>
      /\ r.revision <= Rev(q.scope)
      /\ r.revision = Rev(q.scope) =>
           IF r.granted /\ (until[c] = NULL \/ until[c] > clock)
           THEN now = {r.id} /\ grants[r.id].limit = r.limit
           ELSE now = {}

--------------------------------------------------------------------------------
(* The inductive invariants behind them.  A call that revokes a grant began *)
(* after the grant was known, hence created.                                *)

(* The request of c is to revoke a grant, not an id no grant has. *)
Revokes(c) ==
  pc[c] \in Awaits /\ request[c].op = "revoke" /\ request[c].id # UnknownId

CallTimesInv(c) ==
  /\ tx[c].started \in 0 .. clock
  /\ Revokes(c) =>
       /\ request[c].id \in Stored
       /\ pc[c] # "begin" => created[request[c].id] <= tx[c].started

TimesInv ==
  /\ created \in [GrantIds -> Nat \cup {NoRow}]
  /\ updated \in [GrantIds -> Nat \cup {NoRow}]
  /\ \A g \in Stored : created[g] \in 0 .. clock
  /\ \A c \in Callers : CallTimesInv(c)

(* The grant a resolve found keeps its expiry while its scope's revision    *)
(* stays.                                                                   *)
UntilInv(c) ==
  LET r == response[c] IN
  pc[c] = "done" /\ r.status = "ok" /\ request[c].op = "resolve" /\ r.granted
    /\ r.revision = Rev(request[c].scope) => until[c] = grants[r.id].expires_at
================================================================================
