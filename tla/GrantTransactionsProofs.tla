------------------------ MODULE GrantTransactionsProofs ------------------------
(***************************************************************************)
(* IInv is an inductive invariant of GrantTransactions, for any callers,   *)
(* scopes, keys, grant ids, limits, expiries, clock skews, pool size and   *)
(* bounds; the safety properties that follow from it, and from a step that *)
(* starts in it; and the refinement of EntitlementService.                 *)
(***************************************************************************)
EXTENDS GrantTransactions, TLAPS

--------------------------------------------------------------------------------
(* Frames: what a step of one caller leaves of the others.                  *)

CallerInv(c) == RequestInv(c) /\ ScopeInv(c) /\ GrantInv(c) /\ TargetInv(c)

(* A step leaves d where it is, with the locks it has. *)
Keeps(d) ==
  /\ pc'[d] = pc[d] /\ request'[d] = request[d] /\ tx'[d] = tx[d]
  /\ \A s \in Scopes : scopeOwner[s] = d => scopeOwner'[s] = d
  /\ \A g \in GrantIds : grantOwner[g] = d => grantOwner'[g] = d

(* The markers and the null records have the types the invariant gives them. *)
LEMMA ConstantTypes ==
  /\ NoTx \in Transactions
  /\ NoReply \in Responses
  /\ \A status \in Statuses : Refusal(status) \in Responses
  /\ NoRow \notin Nat /\ 0 # NoRow
  /\ NULL \in StoredLimits /\ NULL \in Instants /\ NULL \notin Int
  /\ NoRow \notin Grant
  /\ Awaits \subseteq Stages
<1>1. NoTx \in Transactions
  BY TablesAssumption DEF NoTx, Transactions
<1>2. NoRow \notin Nat /\ 0 # NoRow /\ NULL \notin Int /\ NoRow \notin Grant
  BY TablesAssumption
<1>3. NULL \in StoredLimits /\ NULL \in Instants
  BY DEF StoredLimits, Instants
<1>4. NoReply \in Responses
  BY <1>3 DEF NoReply, Responses, Statuses
<1>5. \A status \in Statuses : Refusal(status) \in Responses
  BY <1>4 DEF Refusal, Responses
<1>6. Awaits \subseteq Stages
  BY DEF Stages
<1> QED BY <1>1, <1>2, <1>3, <1>4, <1>5, <1>6

(* A caller that a step leaves alone keeps its invariant as long as the     *)
(* tables do not change.                                                    *)
LEMMA Bystander ==
  ASSUME NEW d \in Callers, CallerInv(d), Keeps(d), UNCHANGED tables
  PROVE  CallerInv(d)'
<1>1. RequestInv(d)'
  BY DEF CallerInv, RequestInv, Keeps
<1>2. ScopeInv(d)'
  BY DEF CallerInv, ScopeInv, Keeps, tables, ScopeRow, Rev, Stored, Engaged
<1>3. GrantInv(d)'
  BY DEF CallerInv, GrantInv, Keeps, tables, Rev, Stored, RowsOf, Differs
<1>4. TargetInv(d)'
  BY DEF CallerInv, TargetInv, Keeps, tables, Asked
<1> QED BY <1>1, <1>2, <1>3, <1>4 DEF CallerInv

(* A step of c on the locks and its own transaction: what is left to show.  *)
LEMMA QuietStep ==
  ASSUME IInv, NEW c \in Callers, UNCHANGED tables,
         TypeOK', LockInv', CallerInv(c)', \A d \in Callers \ {c} : Keeps(d)
  PROVE  IInv'
<1>1. NoEmptyScope' /\ OneGrantPerKey'
  BY DEF IInv, NoEmptyScope, OneGrantPerKey, Stored, tables
<1>2. ASSUME NEW d \in Callers PROVE CallerInv(d)'
  BY Bystander DEF IInv, CallerInv
<1> QED BY <1>1, <1>2 DEF IInv, CallerInv

(* Finish forgets the transaction and frees its locks, whatever becomes of  *)
(* the rows it wrote.                                                       *)
LEMMA FinishFrame ==
  ASSUME IInv, NEW c \in Callers, NEW reply \in Responses, Finish(c, reply), UNCHANGED request
  PROVE  /\ LockInv' /\ CallerInv(c)' /\ \A d \in Callers \ {c} : Keeps(d)
         /\ scopeOwner' \in [Scopes -> Callers \cup {Free}]
         /\ grantOwner' \in [GrantIds -> Callers \cup {Free}]
         /\ pc' \in [Callers -> Stages] /\ tx' \in [Callers -> Transactions]
         /\ response' \in [Callers -> Responses]
<1> USE ConstantTypes DEF Finish
<1>1. LockInv'
  BY DEF IInv, TypeOK, LockInv
<1>2. CallerInv(c)'
  BY DEF IInv, TypeOK, CallerInv, RequestInv, ScopeInv, GrantInv, TargetInv, Awaits, Engaged, Locked,
         PutOnly, RevokeOnly, NoTx
<1>3. \A d \in Callers \ {c} : Keeps(d)
  BY DEF IInv, TypeOK, Keeps
<1>4. /\ scopeOwner' \in [Scopes -> Callers \cup {Free}]
      /\ grantOwner' \in [GrantIds -> Callers \cup {Free}]
      /\ pc' \in [Callers -> Stages] /\ tx' \in [Callers -> Transactions]
      /\ response' \in [Callers -> Responses]
  BY DEF IInv, TypeOK, Stages
<1> QED BY <1>1, <1>2, <1>3, <1>4

(* A rollback. *)
LEMMA FinishStep ==
  ASSUME IInv, NEW c \in Callers, NEW reply \in Responses, Finish(c, reply),
         UNCHANGED <<clock, tables, request>>
  PROVE  IInv'
<1>1. TypeOK'
  BY FinishFrame DEF IInv, TypeOK, tables
<1> QED BY <1>1, FinishFrame, QuietStep

--------------------------------------------------------------------------------
(* Entering and leaving a handler.                                          *)

(* What Admit does: a request its handler may work on is let through, or it *)
(* is refused at once.                                                      *)
Entered(c, q) ==
  /\ pc[c] = "idle"
  /\ \/ /\ Goto(c, "begin")
        /\ request' = [request EXCEPT ![c] = q]
        /\ UNCHANGED response
        /\ q.op = "put" => /\ q.limit = NULL \/ q.limit > 0
                           /\ q.expires_at = NULL \/ PgRepresentable(q.expires_at)
     \/ /\ Goto(c, "done")
        /\ \E status \in Statuses : response' = [response EXCEPT ![c] = Refusal(status)]
        /\ UNCHANGED request
  /\ UNCHANGED <<clock, tables, locks, tx>>

(* The entry of a validated request: only its stage and request change. *)
LEMMA EnteredStep ==
  ASSUME IInv, NEW c \in Callers, NEW q \in Requests, Entered(c, q)
  PROVE  IInv'
<1> USE ConstantTypes DEF Entered, Goto, tables, locks
<1>1. TypeOK'
  BY DEF IInv, TypeOK, Stages, Awaits
<1>2. LockInv'
  BY DEF IInv, TypeOK, LockInv, Engaged, Locked
<1>3. CallerInv(c)'
  <2>1. pc'[c] \in {"begin", "done"} /\ tx'[c] = tx[c] /\ (pc'[c] = "begin" => request'[c] = q)
    BY DEF IInv, TypeOK
  <2>2. RequestInv(c)'
    BY <2>1 DEF IInv, TypeOK, RequestInv, Awaits, Engaged, Locked, PutOnly, RevokeOnly
  <2>3. ScopeInv(c)' /\ GrantInv(c)' /\ TargetInv(c)'
    BY <2>1 DEF IInv, ScopeInv, GrantInv, TargetInv, Engaged, Locked
  <2> QED BY <2>2, <2>3 DEF CallerInv
<1>4. \A d \in Callers \ {c} : Keeps(d)
  BY DEF IInv, TypeOK, Keeps
<1> QED BY <1>1, <1>2, <1>3, <1>4, QuietStep

(* put_grant, revoke_grant and resolve_entitlement up to their first await. *)
LEMMA EnterStep ==
  ASSUME IInv, NEW c \in Callers, PutGrant(c) \/ RevokeGrant(c) \/ ResolveEntitlement(c)
  PROVE  IInv'
<1>1. CASE PutGrant(c)
  <2>1. PICK q \in PutRequests, caller \in Instances, wellFormed \in BOOLEAN, skew \in ClockSkews :
          Admit(c, q, caller \in AdminCallers, wellFormed /\ ValidPut(q, clock + skew))
    BY <1>1 DEF PutGrant
  <2>2. wellFormed /\ ValidPut(q, clock + skew) =>
          /\ q.limit = NULL \/ q.limit > 0
          /\ q.expires_at = NULL \/ PgRepresentable(q.expires_at)
    BY DEF ValidPut
  <2>3. q \in Requests
    BY DEF Requests
  <2>4. Entered(c, q)
    BY <2>1, <2>2 DEF Admit, Entered, Statuses
  <2> QED BY <2>3, <2>4, EnteredStep
<1>2. CASE RevokeGrant(c)
  <2>1. PICK g \in Stored \cup {UnknownId}, caller \in Instances, wellFormed \in BOOLEAN :
          Admit(c, [op |-> "revoke", id |-> g], caller \in AdminCallers, wellFormed)
    BY <1>2 DEF RevokeGrant
  <2>2. [op |-> "revoke", id |-> g] \in Requests
    BY DEF Requests, RevokeRequests, Stored
  <2>3. Entered(c, [op |-> "revoke", id |-> g])
    BY <2>1 DEF Admit, Entered, Statuses
  <2> QED BY <2>2, <2>3, EnteredStep
<1>3. CASE ResolveEntitlement(c)
  <2>1. PICK q \in ResolveRequests, caller \in Instances, wellFormed \in BOOLEAN :
          Admit(c, q, caller \in ResolveCallers, wellFormed)
    BY <1>3 DEF ResolveEntitlement
  <2>2. q \in Requests /\ q.op # "put"
    BY DEF Requests, ResolveRequests
  <2>3. Entered(c, q)
    BY <2>1, <2>2 DEF Admit, Entered, Statuses
  <2> QED BY <2>2, <2>3, EnteredStep
<1> QED BY <1>1, <1>2, <1>3

(* A transaction that begins has written and locked nothing. *)
LEMMA BeginStep ==
  ASSUME IInv, NEW c \in Callers, Begin(c)
  PROVE  IInv'
<1> USE DEF Begin, Goto, tables, locks
<1>0. /\ request[c] \in Requests /\ request[c].op \in {"put", "revoke", "resolve"}
      /\ pc'[c] \in {"ensure_scope", "locate", "read"}
  BY DEF IInv, TypeOK, RequestInv, Awaits, Requests, PutRequests, RevokeRequests, ResolveRequests
<1>1. TypeOK'
  <2>1. pc' \in [Callers -> Stages]
    BY <1>0 DEF IInv, TypeOK, Stages, Awaits
  <2>2. [tx[c] EXCEPT !.started = clock] \in Transactions
    <3>1. tx[c] \in Transactions /\ clock \in Int
      BY DEF IInv, TypeOK
    <3> QED BY <3>1 DEF Transactions
  <2>3. tx' \in [Callers -> Transactions]
    BY <2>2 DEF IInv, TypeOK
  <2> QED BY <2>1, <2>3 DEF IInv, TypeOK
<1>2. LockInv'
  BY DEF IInv, TypeOK, LockInv, Engaged, Locked
<1>3. CallerInv(c)'
  <2>1. /\ tx'[c].scope = NoRow /\ tx'[c].id = NoRow
        /\ tx'[c].scopeRow = NoRow /\ tx'[c].grantRow = NoRow
    BY DEF IInv, TypeOK, ScopeInv, Engaged, Locked, Transactions
  <2>2. RequestInv(c)'
    BY <1>0 DEF IInv, TypeOK, RequestInv, Awaits, Engaged, Locked, PutOnly, RevokeOnly
  <2>3. ScopeInv(c)' /\ GrantInv(c)' /\ TargetInv(c)'
    BY <1>0, <2>1 DEF ScopeInv, GrantInv, TargetInv, Engaged, Locked
  <2> QED BY <2>2, <2>3 DEF CallerInv
<1>4. \A d \in Callers \ {c} : Keeps(d)
  BY DEF IInv, TypeOK, Keeps
<1> QED BY <1>1, <1>2, <1>3, <1>4, QuietStep

(* An error, a dropped future or a crash at any await rolls back. *)
LEMMA FailStep ==
  ASSUME IInv, NEW c \in Callers, Fail(c)
  PROVE  IInv'
BY FinishStep, ConstantTypes DEF Fail, Statuses

(* A caller that takes its response holds nothing any more. *)
LEMMA ReturnStep ==
  ASSUME IInv, NEW c \in Callers, Return(c)
  PROVE  IInv'
<1> USE ConstantTypes DEF Return, Goto, tables, locks
<1>1. TypeOK'
  BY DEF IInv, TypeOK, Stages
<1>2. LockInv'
  BY DEF IInv, TypeOK, LockInv, Engaged, Locked
<1>3. CallerInv(c)'
  BY DEF IInv, TypeOK, CallerInv, RequestInv, ScopeInv, GrantInv, TargetInv, Awaits, Engaged, Locked,
         PutOnly, RevokeOnly
<1>4. \A d \in Callers \ {c} : Keeps(d)
  BY DEF IInv, TypeOK, Keeps
<1> QED BY <1>1, <1>2, <1>3, <1>4, QuietStep

(* A resolve that replies has only read. *)
LEMMA ResolveStep ==
  ASSUME IInv, NEW c \in Callers, Resolve(c)
  PROVE  IInv'
<1> DEFINE q     == request[c]
           reply == [NoReply EXCEPT !.status = "ok", !.scope = q.scope]
<1>1. q.scope \in Scopes
  BY DEF Resolve, IInv, RequestInv, Awaits, Requests, PutRequests, RevokeRequests, ResolveRequests
<1>2. revision[q.scope] \in Nat \cup {NoRow}
  BY <1>1 DEF IInv, TypeOK
<1>3. reply \in Responses
  BY <1>1, ConstantTypes DEF Responses, Statuses
<1>4. CASE revision[q.scope] = NoRow /\ Finish(c, reply)
  BY <1>3, <1>4, FinishStep DEF Resolve
<1>5. CASE /\ revision[q.scope] # NoRow
           /\ Finish(c, [reply EXCEPT !.revision = revision[q.scope]])
  <2>1. [reply EXCEPT !.revision = revision[q.scope]] \in Responses
    BY <1>2, <1>3, <1>5 DEF Responses
  <2> QED BY <2>1, <1>5, FinishStep DEF Resolve
<1>6. ASSUME revision[q.scope] # NoRow, NEW g \in RowsOf(q.scope, q.key),
             Finish(c, [reply EXCEPT !.revision = revision[q.scope], !.id = g,
                          !.granted = TRUE, !.limit = grants[g].limit])
      PROVE  IInv'
  <2>1. g \in GrantIds /\ grants[g].limit \in StoredLimits
    BY DEF IInv, TypeOK, RowsOf, Stored, Grant
  <2>2. [reply EXCEPT !.revision = revision[q.scope], !.id = g,
           !.granted = TRUE, !.limit = grants[g].limit] \in Responses
    BY <1>2, <1>3, <1>6, <2>1 DEF Responses
  <2> QED BY <2>2, <1>6, FinishStep DEF Resolve
<1> QED BY <1>4, <1>5, <1>6 DEF Resolve

--------------------------------------------------------------------------------
(* The awaits of put_grant and revoke_grant.                                *)

(* The scope of a put is stored, or is this transaction's own first row. *)
LEMMA EnsureScopeStep ==
  ASSUME IInv, NEW c \in Callers, EnsureScope(c)
  PROVE  IInv'
<1> DEFINE s == request[c].scope
<1> USE ConstantTypes DEF EnsureScope, Goto, tables
<1>0. /\ s \in Scopes /\ request[c] \in Requests /\ request[c].op = "put"
      /\ tx[c] \in Transactions /\ scopeOwner[s] # c
      /\ tx[c].scopeRow = NoRow /\ tx[c].grantRow = NoRow /\ tx[c].id = NoRow
  <2>1. request[c] \in Requests /\ request[c].op = "put"
    BY DEF IInv, RequestInv, Awaits, PutOnly
  <2>2. s \in Scopes
    BY <2>1 DEF Requests, PutRequests, RevokeRequests, ResolveRequests
  <2>3. scopeOwner[s] # c
    BY <2>2, TransactionsAssumption DEF IInv, LockInv, Engaged, Locked
  <2>4. /\ tx[c] \in Transactions
        /\ tx[c].scopeRow = NoRow /\ tx[c].grantRow = NoRow /\ tx[c].id = NoRow
    BY DEF IInv, TypeOK, ScopeInv, Engaged, Locked
  <2> QED BY <2>1, <2>2, <2>3, <2>4
<1>1. /\ tx'[c].scope = s /\ tx'[c].id = NoRow /\ tx'[c].grantRow = NoRow
      /\ \/ revision[s] # NoRow /\ tx'[c].scopeRow = NoRow
         \/ revision[s] = NoRow /\ tx'[c].scopeRow = 0 /\ scopeOwner'[s] = c
      /\ pc'[c] = "lock_scope"
  BY <1>0 DEF IInv, TypeOK, Transactions
<1>2. TypeOK'
  <2>1. tx' \in [Callers -> Transactions]
    BY <1>0 DEF IInv, TypeOK, Transactions
  <2>2. scopeOwner' \in [Scopes -> Callers \cup {Free}] /\ pc' \in [Callers -> Stages]
    BY <1>0 DEF IInv, TypeOK, Stages, Awaits
  <2> QED BY <2>1, <2>2 DEF IInv, TypeOK
<1>3. LockInv'
  BY <1>0, <1>1 DEF IInv, TypeOK, LockInv, Engaged, Locked
<1>4. CallerInv(c)'
  <2>1. RequestInv(c)'
    BY <1>0, <1>1 DEF IInv, RequestInv, Awaits, Engaged, Locked, PutOnly, RevokeOnly
  <2>2. ScopeInv(c)'
    BY <1>0, <1>1 DEF IInv, ScopeInv, ScopeRow, Engaged, Locked
  <2>3. GrantInv(c)'
    BY <1>1 DEF GrantInv, Engaged, Locked
  <2>4. TargetInv(c)'
    BY <1>1 DEF TargetInv
  <2> QED BY <2>1, <2>2, <2>3, <2>4 DEF CallerInv
<1>5. \A d \in Callers \ {c} : Keeps(d)
  BY <1>0, TransactionsAssumption DEF IInv, TypeOK, Keeps, CanLockScope
<1> QED BY <1>2, <1>3, <1>4, <1>5, QuietStep

(* The revision read under the lock is the current one. *)
LEMMA LockScopeStep ==
  ASSUME IInv, NEW c \in Callers, LockScope(c)
  PROVE  IInv'
<1> DEFINE s == tx[c].scope
<1> USE ConstantTypes DEF LockScope, Goto, tables
<1>0. /\ s \in Scopes /\ tx[c] \in Transactions /\ ScopeRow(c, s) \in Nat
      /\ ScopeRow(c, s) = Rev(s) /\ request[c].op \in {"put", "revoke"}
      /\ tx[c].grantRow = NoRow
  BY DEF IInv, TypeOK, RequestInv, ScopeInv, GrantInv, ScopeRow, Rev, Engaged, Locked, Transactions
<1>1. /\ tx'[c] = [tx[c] EXCEPT !.revision = ScopeRow(c, s)]
      /\ tx'[c].scope = s /\ tx'[c].id = tx[c].id /\ tx'[c].grantRow = NoRow
      /\ tx'[c].scopeRow = tx[c].scopeRow /\ tx'[c].revision = Rev(s)
      /\ scopeOwner'[s] = c
      /\ pc'[c] = IF request[c].op = "put" THEN "lock_grant" ELSE "revoke_grant"
  BY <1>0 DEF IInv, TypeOK, Transactions
<1>2. TypeOK'
  <2>1. tx' \in [Callers -> Transactions]
    BY <1>0, <1>1 DEF IInv, TypeOK, Transactions
  <2>2. scopeOwner' \in [Scopes -> Callers \cup {Free}] /\ pc' \in [Callers -> Stages]
    BY <1>0 DEF IInv, TypeOK, Stages, Awaits
  <2> QED BY <2>1, <2>2 DEF IInv, TypeOK
<1>3. LockInv'
  BY <1>0, <1>1 DEF IInv, TypeOK, LockInv, Engaged, Locked
<1>4. CallerInv(c)'
  <2>1. RequestInv(c)'
    BY <1>0, <1>1 DEF IInv, RequestInv, Awaits, Engaged, Locked, PutOnly, RevokeOnly
  <2>2. ScopeInv(c)'
    BY <1>0, <1>1 DEF IInv, ScopeInv, ScopeRow, Rev, Stored, Engaged, Locked
  <2>3. GrantInv(c)'
    BY <1>0, <1>1 DEF GrantInv, Engaged, Locked
  <2>4. TargetInv(c)'
    BY <1>1 DEF TargetInv
  <2> QED BY <2>1, <2>2, <2>3, <2>4 DEF CallerInv
<1>5. \A d \in Callers \ {c} : Keeps(d)
  BY <1>0, TransactionsAssumption DEF IInv, TypeOK, Keeps, CanLockScope
<1> QED BY <1>2, <1>3, <1>4, <1>5, QuietStep

(* The grant of the key is locked and compared, or there is none to lock. *)
LEMMA LockGrantStep ==
  ASSUME IInv, NEW c \in Callers, LockGrant(c)
  PROVE  IInv'
<1> DEFINE q == request[c]
<1> USE ConstantTypes DEF LockGrant, Goto, tables
<1>0. /\ q.op = "put" /\ q \in Requests /\ tx[c].scope = q.scope /\ tx[c] \in Transactions
      /\ tx[c].grantRow = NoRow /\ tx[c].scope \in Scopes
      /\ tx[c].scopeRow = NoRow \/ (tx[c].scopeRow = 0 /\ revision[q.scope] = NoRow)
      /\ scopeOwner[q.scope] = c /\ tx[c].revision = Rev(q.scope)
      /\ \A g \in GrantIds : grantOwner[g] # c
  BY TransactionsAssumption
     DEF IInv, TypeOK, RequestInv, ScopeInv, GrantInv, LockInv, Awaits, Engaged, Locked, PutOnly
<1>1. CASE RowsOf(q.scope, q.key) = {} /\ Goto(c, "insert_grant") /\ UNCHANGED <<tx, grantOwner>>
  <2>1. pc'[c] = "insert_grant"
    BY <1>1 DEF IInv, TypeOK
  <2>2. TypeOK'
    BY <1>1 DEF IInv, TypeOK, Stages, Awaits
  <2>3. LockInv'
    BY <1>0, <1>1, <2>1 DEF IInv, TypeOK, LockInv, Engaged, Locked
  <2>4. CallerInv(c)'
    <3>1. RequestInv(c)'
      BY <1>0, <1>1, <2>1 DEF IInv, RequestInv, Awaits, Engaged, Locked, PutOnly, RevokeOnly
    <3>2. ScopeInv(c)'
      BY <1>0, <1>1, <2>1 DEF IInv, ScopeInv, ScopeRow, Rev, Engaged, Locked
    <3>3. GrantInv(c)'
      BY <1>0, <1>1, <2>1 DEF GrantInv, RowsOf, Stored, Engaged, Locked
    <3>4. TargetInv(c)'
      BY <1>0, <1>1, <2>1 DEF TargetInv
    <3> QED BY <3>1, <3>2, <3>3, <3>4 DEF CallerInv
  <2>5. \A d \in Callers \ {c} : Keeps(d)
    BY <1>1 DEF IInv, TypeOK, Keeps
  <2> QED BY <2>2, <2>3, <2>4, <2>5, QuietStep
<1>2. ASSUME NEW g \in RowsOf(q.scope, q.key), CanLockGrant(c, g),
             grantOwner' = [grantOwner EXCEPT ![g] = c], tx' = [tx EXCEPT ![c].id = g],
             Goto(c, IF Differs(grants[g], q) THEN "update_grant" ELSE "commit")
      PROVE  IInv'
  <2>1. /\ g \in GrantIds /\ g \in Stored /\ grants[g].scope = q.scope
        /\ pc'[c] = IF Differs(grants[g], q) THEN "update_grant" ELSE "commit"
        /\ tx'[c] = [tx[c] EXCEPT !.id = g]
        /\ grantOwner'[g] = c
    BY <1>2 DEF IInv, TypeOK, RowsOf, Stored
  <2>2. /\ tx'[c].id = g /\ tx'[c].scope = q.scope /\ tx'[c].revision = tx[c].revision
        /\ tx'[c].scopeRow = tx[c].scopeRow /\ tx'[c].grantRow = NoRow
    BY <1>0, <2>1 DEF Transactions
  <2>3. tx[c].scopeRow = NoRow
    BY <1>0, <2>1 DEF IInv, NoEmptyScope
  <2>8. ~Differs(grants[g], q) => grants[g] = Asked(q)
    <3>1. grants[g] \in Grant /\ grants[g].scope = q.scope /\ grants[g].key = q.key
      BY <2>1 DEF IInv, TypeOK, RowsOf, Stored
    <3> QED BY <3>1 DEF Differs, Asked, Grant
  <2>4. TypeOK'
    <3>1. tx' \in [Callers -> Transactions]
      BY <1>0, <1>2, <2>1 DEF IInv, TypeOK, Transactions
    <3>2. grantOwner' \in [GrantIds -> Callers \cup {Free}] /\ pc' \in [Callers -> Stages]
      BY <1>2, <2>1 DEF IInv, TypeOK, Stages, Awaits
    <3> QED BY <3>1, <3>2 DEF IInv, TypeOK
  <2>5. LockInv'
    BY <1>0, <1>2, <2>1, <2>2 DEF IInv, TypeOK, LockInv, Engaged, Locked
  <2>6. CallerInv(c)'
    <3>1. RequestInv(c)'
      BY <1>0, <2>1 DEF IInv, RequestInv, Awaits, Engaged, Locked, PutOnly, RevokeOnly
    <3>2. ScopeInv(c)'
      BY <1>0, <2>1, <2>2, <2>3 DEF IInv, ScopeInv, ScopeRow, Rev, Engaged, Locked
    <3>3. GrantInv(c)'
      BY <1>0, <1>2, <2>1, <2>2, <2>3 DEF GrantInv, RowsOf, Stored, Differs, Engaged, Locked
    <3>4. TargetInv(c)'
      BY <1>0, <2>1, <2>2, <2>8 DEF TargetInv
    <3> QED BY <3>1, <3>2, <3>3, <3>4 DEF CallerInv
  <2>7. \A d \in Callers \ {c} : Keeps(d)
    BY <1>2, <2>1, TransactionsAssumption DEF IInv, TypeOK, Keeps, CanLockGrant
  <2> QED BY <2>4, <2>5, <2>6, <2>7, QuietStep
<1> QED BY <1>1, <1>2

(* The row an update is about to write differs from the stored one.         *)
LEMMA UpdateGrantStep ==
  ASSUME IInv, NEW c \in Callers, UpdateGrant(c)
  PROVE  IInv'
<1> DEFINE q   == request[c]
           g   == tx[c].id
           row == [grants[g] EXCEPT !.limit = q.limit,
                                    !.expires_at = PgTimestamp(q.expires_at),
                                    !.revoked_at = NULL]
<1> USE ConstantTypes DEF UpdateGrant, Goto, tables
<1>0. /\ q.op = "put" /\ q \in Requests /\ tx[c].scope = q.scope /\ tx[c] \in Transactions
      /\ q.limit = NULL \/ q.limit > 0
      /\ q.expires_at = NULL \/ PgRepresentable(q.expires_at)
      /\ g \in RowsOf(q.scope, q.key) /\ Differs(grants[g], q) /\ scopeOwner[q.scope] = c
      /\ tx[c].revision = Rev(q.scope)
      /\ \A h \in GrantIds : grantOwner[h] = c => h = g
  BY TransactionsAssumption
     DEF IInv, TypeOK, RequestInv, ScopeInv, GrantInv, LockInv, Awaits, Engaged, Locked, PutOnly
<1>1. /\ g \in GrantIds /\ g \in Stored /\ grants[g] \in Grant
      /\ grants[g].scope = q.scope /\ grants[g].key = q.key
  BY <1>0 DEF IInv, TypeOK, RowsOf, Stored
<1>2. q \in PutRequests
  BY <1>0 DEF Requests, RevokeRequests, ResolveRequests
<1>3. PgTimestamp(q.expires_at) = q.expires_at /\ q.expires_at \in Instants
  BY <1>0, <1>2, TablesAssumption DEF PgTimestamp, PgRepresentable, PutRequests, Instants
<1>4. q.limit \in StoredLimits
  BY <1>0, <1>2 DEF PutRequests, StoredLimits
<1>5. /\ row \in Grant /\ row.scope = q.scope /\ row.key = q.key /\ row.limit = q.limit
      /\ row.expires_at = q.expires_at /\ row.revoked_at = NULL /\ row # NoRow
  BY <1>1, <1>3, <1>4 DEF Grant
<1>6. /\ tx' = [tx EXCEPT ![c].grantRow = row]
      /\ pc'[c] = "advance" /\ grantOwner'[g] = c
  BY <1>1 DEF IInv, TypeOK
<1> HIDE DEF row
<1>61. /\ tx'[c].grantRow = row /\ tx'[c].id = g /\ tx'[c].scope = tx[c].scope
      /\ tx'[c].scopeRow = tx[c].scopeRow /\ tx'[c].revision = tx[c].revision
      /\ tx'[c] \in Transactions
  BY <1>0, <1>5, <1>6 DEF IInv, TypeOK, Transactions
<1>62. row = Asked(q)
  BY <1>1, <1>5 DEF Grant, Asked
<1>7. TypeOK'
  <2>1. tx' \in [Callers -> Transactions]
    BY <1>61, <1>6 DEF IInv, TypeOK
  <2>2. grantOwner' \in [GrantIds -> Callers \cup {Free}] /\ pc' \in [Callers -> Stages]
    BY <1>1 DEF IInv, TypeOK, Stages, Awaits
  <2> QED BY <2>1, <2>2 DEF IInv, TypeOK
<1>8. LockInv'
  BY <1>0, <1>1, <1>6, <1>61 DEF IInv, TypeOK, LockInv, Engaged, Locked
<1>9. CallerInv(c)'
  <2>1. RequestInv(c)'
    BY <1>0, <1>6, <1>61 DEF IInv, RequestInv, Awaits, Engaged, Locked, PutOnly, RevokeOnly
  <2>2. ScopeInv(c)'
    BY <1>0, <1>6, <1>61 DEF IInv, ScopeInv, ScopeRow, Rev, Engaged, Locked
  <2>3. GrantInv(c)'
    BY <1>0, <1>1, <1>5, <1>6, <1>61 DEF GrantInv, Stored, Differs, Engaged, Locked
  <2>4. TargetInv(c)'
    BY <1>0, <1>1, <1>5, <1>6, <1>61, <1>62 DEF TargetInv, Asked
  <2> QED BY <2>1, <2>2, <2>3, <2>4 DEF CallerInv
<1>10. \A d \in Callers \ {c} : Keeps(d)
  BY <1>1, TransactionsAssumption DEF IInv, TypeOK, Keeps, CanLockGrant
<1> QED BY <1>7, <1>8, <1>9, <1>10, QuietStep

(* The row an insert is about to write is the first of its key.             *)
LEMMA InsertGrantStep ==
  ASSUME IInv, NEW c \in Callers, InsertGrant(c)
  PROVE  IInv'
<1> DEFINE q   == request[c]
           row == [scope |-> q.scope, key |-> q.key, limit |-> q.limit,
                   expires_at |-> PgTimestamp(q.expires_at), revoked_at |-> NULL]
<1> USE ConstantTypes DEF InsertGrant, Goto, tables
<1>0. /\ q.op = "put" /\ q \in Requests /\ tx[c].scope = q.scope /\ tx[c] \in Transactions
      /\ q.limit = NULL \/ q.limit > 0
      /\ q.expires_at = NULL \/ PgRepresentable(q.expires_at)
      /\ RowsOf(q.scope, q.key) = {} /\ scopeOwner[q.scope] = c
      /\ tx[c].revision = Rev(q.scope)
      /\ \A h \in GrantIds : grantOwner[h] # c
  BY TransactionsAssumption
     DEF IInv, TypeOK, RequestInv, ScopeInv, GrantInv, LockInv, Awaits, Engaged, Locked, PutOnly
<1>1. PICK g \in GrantIds :
        /\ grants[g] = NoRow /\ grantOwner[g] = Free
        /\ grantOwner' = [grantOwner EXCEPT ![g] = c]
        /\ tx' = [tx EXCEPT ![c].id = g, ![c].grantRow = row]
  OBVIOUS
<1>2. q \in PutRequests
  BY <1>0 DEF Requests, RevokeRequests, ResolveRequests
<1>3. PgTimestamp(q.expires_at) = q.expires_at /\ q.expires_at \in Instants
  BY <1>0, <1>2, TablesAssumption DEF PgTimestamp, PgRepresentable, PutRequests, Instants
<1>4. q.limit \in StoredLimits
  BY <1>0, <1>2 DEF PutRequests, StoredLimits
<1>5. row \in Grant /\ row # NoRow
  BY <1>2, <1>3, <1>4 DEF Grant, PutRequests
<1>51. row.scope = q.scope /\ row.key = q.key /\ row = Asked(q)
  BY <1>3 DEF Asked
<1> HIDE DEF row
<1>52. tx'[c] = [tx[c] EXCEPT !.id = g, !.grantRow = row]
  BY <1>1 DEF IInv, TypeOK
<1>6. /\ tx'[c].grantRow = row /\ tx'[c].id = g /\ tx'[c].scope = tx[c].scope
      /\ tx'[c].scopeRow = tx[c].scopeRow /\ tx'[c].revision = tx[c].revision
      /\ tx'[c] \in Transactions /\ pc'[c] = "advance" /\ grantOwner'[g] = c
  <2>1. pc'[c] = "advance" /\ grantOwner'[g] = c
    BY <1>1 DEF IInv, TypeOK
  <2>2. tx'[c].grantRow = row /\ tx'[c].id = g /\ tx'[c] \in Transactions
    BY <1>0, <1>5, <1>52 DEF Transactions
  <2>3. /\ tx'[c].scope = tx[c].scope /\ tx'[c].scopeRow = tx[c].scopeRow
        /\ tx'[c].revision = tx[c].revision
    BY <1>0, <1>52 DEF Transactions
  <2> QED BY <2>1, <2>2, <2>3
<1>7. TypeOK'
  <2>1. tx' \in [Callers -> Transactions]
    BY <1>1, <1>6 DEF IInv, TypeOK
  <2>2. grantOwner' \in [GrantIds -> Callers \cup {Free}] /\ pc' \in [Callers -> Stages]
    BY <1>1 DEF IInv, TypeOK, Stages, Awaits
  <2> QED BY <2>1, <2>2 DEF IInv, TypeOK
<1>8. LockInv'
  BY <1>0, <1>1, <1>6 DEF IInv, TypeOK, LockInv, Engaged, Locked
<1>9. CallerInv(c)'
  <2>1. RequestInv(c)'
    BY <1>0, <1>6 DEF IInv, RequestInv, Awaits, Engaged, Locked, PutOnly, RevokeOnly
  <2>2. ScopeInv(c)'
    BY <1>0, <1>6 DEF IInv, ScopeInv, ScopeRow, Rev, Engaged, Locked
  <2>3. GrantInv(c)'
    <3>1. (RowsOf(tx[c].grantRow.scope, tx[c].grantRow.key) = {})'
      BY <1>0, <1>51, <1>6 DEF RowsOf, Stored
    <3>2. (tx[c].id \notin Stored)'
      BY <1>1, <1>6 DEF Stored
    <3>3. /\ tx'[c].grantRow # NoRow /\ tx'[c].grantRow.scope = tx'[c].scope
          /\ tx'[c].id \in GrantIds /\ grantOwner'[tx'[c].id] = c
      BY <1>0, <1>1, <1>5, <1>51, <1>6
    <3> HIDE DEF InsertGrant
    <3> QED BY <1>6, <3>1, <3>2, <3>3 DEF GrantInv, Engaged, Locked
  <2>4. TargetInv(c)'
    BY <1>0, <1>5, <1>51, <1>6 DEF TargetInv, Asked
  <2> QED BY <2>1, <2>2, <2>3, <2>4 DEF CallerInv
<1>10. \A d \in Callers \ {c} : Keeps(d)
  BY <1>1, TransactionsAssumption DEF IInv, TypeOK, Keeps
<1> QED BY <1>7, <1>8, <1>9, <1>10, QuietStep

(* The row revoke_grant located names the scope it will lock. *)
LEMMA LocateStep ==
  ASSUME IInv, NEW c \in Callers, Locate(c)
  PROVE  IInv'
<1> DEFINE g == request[c].id
<1> USE ConstantTypes DEF Locate, Goto, tables, locks
<1>0. request[c] \in Requests /\ request[c].op = "revoke" /\ tx[c] \in Transactions
      /\ tx[c].scopeRow = NoRow /\ tx[c].grantRow = NoRow
  BY DEF IInv, TypeOK, RequestInv, ScopeInv, Awaits, RevokeOnly, Engaged, Locked
<1>1. CASE g \in Stored
  <2>1. g \in GrantIds /\ grants[g] \in Grant /\ grants[g].scope \in Scopes
    BY <1>1 DEF IInv, TypeOK, Stored, Grant
  <2>2. revision[grants[g].scope] # NoRow
    BY <1>1, <2>1 DEF IInv, NoEmptyScope
  <2>3. /\ tx'[c].scope = grants[g].scope /\ tx'[c].id = g /\ tx'[c] \in Transactions
        /\ tx'[c].scopeRow = NoRow /\ tx'[c].grantRow = NoRow /\ pc'[c] = "lock_scope"
    BY <1>0, <1>1, <2>1 DEF IInv, TypeOK, Transactions
  <2>4. TypeOK'
    BY <1>1, <2>3 DEF IInv, TypeOK, Stages, Awaits
  <2>5. LockInv'
    BY <1>1 DEF IInv, TypeOK, LockInv, Engaged, Locked
  <2>6. CallerInv(c)'
    <3>1. RequestInv(c)'
      BY <1>0, <2>3 DEF IInv, RequestInv, Awaits, Engaged, Locked, PutOnly, RevokeOnly
    <3>2. ScopeInv(c)'
      BY <1>0, <1>1, <2>1, <2>2, <2>3 DEF IInv, ScopeInv, ScopeRow, Stored, Engaged, Locked
    <3>3. GrantInv(c)'
      BY <2>3 DEF GrantInv, Engaged, Locked
    <3>4. TargetInv(c)'
      BY <2>3 DEF TargetInv
    <3> QED BY <3>1, <3>2, <3>3, <3>4 DEF CallerInv
  <2>7. \A d \in Callers \ {c} : Keeps(d)
    BY <1>1 DEF IInv, TypeOK, Keeps
  <2> QED BY <2>4, <2>5, <2>6, <2>7, QuietStep
<1>2. CASE g \notin Stored
  BY <1>2, FinishStep DEF Statuses
<1> QED BY <1>1, <1>2

(* The row a revocation is about to write turns a grant from unrevoked to   *)
(* revoked, in the scope it was located in.                                 *)
LEMMA MarkRevokedStep ==
  ASSUME IInv, NEW c \in Callers, MarkRevoked(c)
  PROVE  IInv'
<1> DEFINE g   == tx[c].id
           row == [grants[g] EXCEPT !.revoked_at = tx[c].started]
<1> USE ConstantTypes DEF MarkRevoked, Goto, tables
<1>0. /\ request[c] \in Requests /\ request[c].op = "revoke" /\ tx[c] \in Transactions
      /\ tx[c].id = request[c].id /\ g \in Stored /\ grants[g].scope = tx[c].scope
      /\ tx[c].scope \in Scopes /\ scopeOwner[tx[c].scope] = c
      /\ tx[c].revision = Rev(tx[c].scope) /\ tx[c].grantRow = NoRow
      /\ \A h \in GrantIds : grantOwner[h] # c
  BY TransactionsAssumption
     DEF IInv, TypeOK, RequestInv, ScopeInv, GrantInv, LockInv, Awaits, Engaged, Locked, RevokeOnly
<1>1. g \in GrantIds /\ grants[g] \in Grant /\ grants[g] # NoRow
  BY <1>0 DEF IInv, TypeOK, Stored
<1>2. revision[tx[c].scope] # NoRow /\ tx[c].scopeRow = NoRow
  <2>1. revision[tx[c].scope] # NoRow
    BY <1>0 DEF IInv, NoEmptyScope
  <2> QED BY <2>1 DEF IInv, ScopeInv, Engaged, Locked
<1>3. CASE grants[g].revoked_at = NULL
  <2>1. /\ row \in Grant /\ row.scope = grants[g].scope /\ row.key = grants[g].key
        /\ row.revoked_at = tx[c].started /\ row.revoked_at # NULL /\ row # NoRow
    BY <1>0, <1>1 DEF Grant, Instants, Transactions
  <2>12. /\ tx' = [tx EXCEPT ![c].grantRow = row]
         /\ pc'[c] = "advance" /\ grantOwner'[g] = c
    BY <1>1, <1>3 DEF IInv, TypeOK
  <2>13. row = [grants[g] EXCEPT !.revoked_at = tx[c].started] /\ tx'[c].started = tx[c].started
    BY <1>0, <2>12 DEF IInv, TypeOK, Transactions
  <2> HIDE DEF row
  <2>2. /\ tx'[c].grantRow = row /\ tx'[c].id = g /\ tx'[c].scope = tx[c].scope
        /\ tx'[c].scopeRow = NoRow /\ tx'[c].revision = tx[c].revision
        /\ tx'[c] \in Transactions /\ pc'[c] = "advance" /\ grantOwner'[g] = c
    BY <1>0, <1>2, <2>1, <2>12 DEF IInv, TypeOK, Transactions
  <2>3. TypeOK'
    <3>1. tx' \in [Callers -> Transactions]
      BY <2>2, <2>12 DEF IInv, TypeOK
    <3>2. grantOwner' \in [GrantIds -> Callers \cup {Free}] /\ pc' \in [Callers -> Stages]
      BY <1>1, <1>3 DEF IInv, TypeOK, Stages, Awaits
    <3> QED BY <3>1, <3>2 DEF IInv, TypeOK
  <2>4. LockInv'
    BY <1>0, <1>1, <1>3, <2>2 DEF IInv, TypeOK, LockInv, Engaged, Locked
  <2>5. CallerInv(c)'
    <3>1. RequestInv(c)'
      BY <1>0, <2>2 DEF IInv, RequestInv, Awaits, Engaged, Locked, PutOnly, RevokeOnly
    <3>2. ScopeInv(c)'
      BY <1>0, <1>2, <2>2 DEF IInv, ScopeInv, ScopeRow, Rev, Stored, Engaged, Locked
    <3>3. GrantInv(c)'
      BY <1>0, <1>1, <1>3, <2>1, <2>2 DEF GrantInv, Stored, Engaged, Locked
    <3>4. TargetInv(c)'
      BY <1>0, <1>1, <1>3, <2>2, <2>13 DEF TargetInv
    <3> QED BY <3>1, <3>2, <3>3, <3>4 DEF CallerInv
  <2>6. \A d \in Callers \ {c} : Keeps(d)
    BY <1>1, <1>3, TransactionsAssumption DEF IInv, TypeOK, Keeps, CanLockGrant
  <2> QED BY <2>3, <2>4, <2>5, <2>6, QuietStep
<1>4. CASE grants[g].revoked_at # NULL
  <2>1. pc'[c] = "commit" /\ tx' = tx /\ grantOwner' = grantOwner
    BY <1>4 DEF IInv, TypeOK
  <2>2. TypeOK'
    BY <1>4 DEF IInv, TypeOK, Stages, Awaits
  <2>3. LockInv'
    BY <1>0, <2>1 DEF IInv, TypeOK, LockInv, Engaged, Locked
  <2>4. CallerInv(c)'
    <3>1. RequestInv(c)'
      BY <1>0, <2>1 DEF IInv, RequestInv, Awaits, Engaged, Locked, PutOnly, RevokeOnly
    <3>2. ScopeInv(c)'
      BY <1>0, <1>2, <2>1 DEF IInv, ScopeInv, ScopeRow, Rev, Stored, Engaged, Locked
    <3>3. GrantInv(c)'
      BY <1>0, <1>2, <2>1 DEF GrantInv, Engaged, Locked
    <3>4. TargetInv(c)'
      BY <1>0, <1>4, <2>1 DEF TargetInv
    <3> QED BY <3>1, <3>2, <3>3, <3>4 DEF CallerInv
  <2>5. \A d \in Callers \ {c} : Keeps(d)
    BY <2>1 DEF IInv, TypeOK, Keeps
  <2> QED BY <2>2, <2>3, <2>4, <2>5, QuietStep
<1> QED BY <1>3, <1>4

(* The row of the scope that Advance writes is one past the committed one.  *)
LEMMA AdvanceStep ==
  ASSUME IInv, NEW c \in Callers, Advance(c)
  PROVE  IInv'
<1> DEFINE s == tx[c].scope
<1> USE ConstantTypes DEF Advance, Goto, tables
<1>0. /\ s \in Scopes /\ tx[c] \in Transactions /\ ScopeRow(c, s) = Rev(s) /\ Rev(s) \in Nat
      /\ request[c] \in Requests /\ request[c].op \in {"put", "revoke"} /\ scopeOwner[s] = c
      /\ tx[c].grantRow # NoRow
  <2>1. s \in Scopes /\ tx[c] \in Transactions /\ scopeOwner[s] = c /\ tx[c].grantRow # NoRow
    BY DEF IInv, TypeOK, ScopeInv, GrantInv, Engaged, Locked
  <2>2. ScopeRow(c, s) = Rev(s) /\ Rev(s) \in Nat
    BY <2>1 DEF IInv, TypeOK, ScopeInv, ScopeRow, Rev, Engaged, Locked
  <2>3. request[c] \in Requests /\ request[c].op \in {"put", "revoke"}
    BY DEF IInv, RequestInv, Awaits, Engaged, Locked
  <2> QED BY <2>1, <2>2, <2>3
<1>1. CASE ScopeRow(c, s) < MaxRevision
  <2>1. /\ tx'[c].scopeRow = Rev(s) + 1 /\ tx'[c].scope = s /\ tx'[c].id = tx[c].id
        /\ tx'[c].grantRow = tx[c].grantRow /\ tx'[c].revision = tx[c].revision
        /\ tx'[c] \in Transactions /\ pc'[c] = "commit" /\ scopeOwner'[s] = c
        /\ tx'[c].scopeRow # NoRow /\ grantOwner' = grantOwner /\ tx'[c].started = tx[c].started
    BY <1>0, <1>1 DEF IInv, TypeOK, Transactions
  <2>2. TypeOK'
    <3>1. tx' \in [Callers -> Transactions]
      BY <1>1, <2>1 DEF IInv, TypeOK
    <3>2. scopeOwner' \in [Scopes -> Callers \cup {Free}] /\ pc' \in [Callers -> Stages]
      BY <1>0, <1>1 DEF IInv, TypeOK, Stages, Awaits
    <3> QED BY <1>1, <2>1, <3>1, <3>2 DEF IInv, TypeOK
  <2>3. LockInv'
    BY <1>0, <1>1, <2>1 DEF IInv, TypeOK, LockInv, Engaged, Locked
  <2>4. CallerInv(c)'
    <3>1. RequestInv(c)'
      BY <1>0, <2>1 DEF IInv, RequestInv, Awaits, Engaged, Locked, PutOnly, RevokeOnly
    <3>2. ScopeInv(c)'
      BY <1>0, <2>1 DEF IInv, ScopeInv, ScopeRow, Rev, Stored, Engaged, Locked
    <3>3. GrantInv(c)'
      BY <1>0, <2>1 DEF IInv, GrantInv, Stored, RowsOf, Rev, Engaged, Locked
    <3>4. TargetInv(c)'
      BY <1>0, <2>1 DEF IInv, TargetInv, Asked
    <3> QED BY <3>1, <3>2, <3>3, <3>4 DEF CallerInv
  <2>5. \A d \in Callers \ {c} : Keeps(d)
    BY <1>0, <1>1, <2>1 DEF IInv, TypeOK, Keeps
  <2> QED BY <2>2, <2>3, <2>4, <2>5, QuietStep
<1>2. CASE ~(ScopeRow(c, s) < MaxRevision)
  BY <1>2, FinishStep DEF Statuses
<1> QED BY <1>1, <1>2

--------------------------------------------------------------------------------
(* COMMIT: the only step that changes the tables.                           *)

(* Nothing, or one material change of one grant and its scope's revision.   *)
LEMMA CommitShape ==
  ASSUME IInv, NEW c \in Callers, Commit(c)
  PROVE  /\ MutationReply(c) \in Responses
         /\ \/ tx[c].grantRow = NoRow /\ UNCHANGED tables
            \/ /\ tx[c].grantRow \in Grant /\ tx[c].scope \in Scopes /\ tx[c].id \in GrantIds
               /\ revision' = [revision EXCEPT ![tx[c].scope] = Rev(tx[c].scope) + 1]
               /\ grants' = [grants EXCEPT ![tx[c].id] = tx[c].grantRow]
<1> USE ConstantTypes
<1>1. /\ tx[c] \in Transactions /\ tx[c].scope \in Scopes
      /\ tx[c].scopeRow = IF tx[c].grantRow = NoRow THEN NoRow ELSE Rev(tx[c].scope) + 1
      /\ tx[c].grantRow # NoRow => tx[c].id \in GrantIds
  BY DEF Commit, IInv, TypeOK, ScopeInv, GrantInv, Engaged, Locked
<1>2. Rev(tx[c].scope) \in Nat
  BY <1>1 DEF IInv, TypeOK, Rev
<1>3. MutationReply(c) \in Responses
  <2>1. /\ tx[c].scope \in Scopes \cup {NoRow} /\ tx[c].id \in GrantIds \cup {NoRow}
        /\ Changed(c) \in BOOLEAN /\ "ok" \in Statuses
        /\ (IF Changed(c) THEN tx[c].scopeRow ELSE tx[c].revision) \in Nat
    BY <1>1, <1>2 DEF Changed, Transactions, Statuses
  <2> HIDE DEF Changed
  <2> QED BY <2>1 DEF MutationReply, Responses
<1>4. CASE tx[c].grantRow = NoRow
  BY <1>1, <1>3, <1>4 DEF Commit, tables
<1>5. CASE tx[c].grantRow # NoRow
  BY <1>1, <1>2, <1>3, <1>5 DEF Commit, Transactions
<1> QED BY <1>4, <1>5

(* A caller elsewhere is untouched by a commit: it holds no lock on that    *)
(* scope, and the rows it relies on are of other scopes.                    *)
LEMMA CommitBystander ==
  ASSUME IInv, NEW c \in Callers, NEW d \in Callers \ {c}, pc[c] = "commit",
         tx[c].grantRow # NoRow, tx[c].grantRow \in Grant,
         revision' = [revision EXCEPT ![tx[c].scope] = Rev(tx[c].scope) + 1],
         grants' = [grants EXCEPT ![tx[c].id] = tx[c].grantRow],
         Keeps(d)
  PROVE  CallerInv(d)'
<1> DEFINE s == tx[c].scope
           g == tx[c].id
<1>1. /\ s \in Scopes /\ g \in GrantIds /\ scopeOwner[s] = c /\ grantOwner[g] = c
      /\ tx[c].grantRow.scope = s /\ (g \in Stored => grants[g].scope = s)
  BY DEF IInv, ScopeInv, GrantInv, Engaged, Locked
<1>2. revision'[s] # NoRow /\ \A t \in Scopes \ {s} : revision'[t] = revision[t]
  BY <1>1, ConstantTypes DEF IInv, TypeOK, Rev
<1>3. /\ \A h \in Stored : h \in Stored' /\ grants'[h].scope = grants[h].scope
      /\ \A h \in GrantIds \ {g} : grants'[h] = grants[h] /\ (h \in Stored <=> h \in Stored')
  BY <1>1, ConstantTypes DEF IInv, TypeOK, Stored
<1>4. pc[d] \in Locked => tx[d].scope # s
  BY <1>1 DEF IInv, ScopeInv
<1>5. tx[d].scopeRow # NoRow => tx[d].scope # s
  BY <1>1 DEF IInv, ScopeInv
<1>6. tx[d].grantRow # NoRow => tx[d].id # g
  BY <1>1 DEF IInv, GrantInv
<1>7. ASSUME NEW t \in Scopes \ {s}, NEW k
      PROVE  RowsOf(t, k)' = RowsOf(t, k) /\ g \notin RowsOf(t, k)
  BY <1>1, <1>3 DEF RowsOf, Stored, IInv, TypeOK
<1>8. RequestInv(d)'
  BY DEF IInv, RequestInv, Keeps
<1>9. ScopeInv(d)'
  BY <1>1, <1>2, <1>3, <1>4, <1>5 DEF IInv, ScopeInv, ScopeRow, Rev, Keeps, Engaged
<1>10. GrantInv(d)'
  <2>1. pc[d] \in Locked => tx[d].scope \in Scopes \ {s}
    BY <1>4 DEF IInv, ScopeInv, Engaged
  <2>2. pc[d] \in {"update_grant", "insert_grant"} => request[d].scope \in Scopes \ {s}
    BY <2>1 DEF IInv, ScopeInv, RequestInv, Engaged, Locked, PutOnly
  <2>3. pc'[d] = pc[d] /\ request'[d] = request[d] /\ tx'[d] = tx[d]
    BY DEF Keeps
  <2>4. pc[d] = "update_grant" =>
          (/\ tx[d].id \in RowsOf(request[d].scope, request[d].key)
           /\ Differs(grants[tx[d].id], request[d]))'
    <3> SUFFICES ASSUME pc[d] = "update_grant"
                 PROVE  (/\ tx[d].id \in RowsOf(request[d].scope, request[d].key)
                         /\ Differs(grants[tx[d].id], request[d]))'
      OBVIOUS
    <3>1. /\ tx[d].id \in RowsOf(request[d].scope, request[d].key)
          /\ Differs(grants[tx[d].id], request[d])
      BY DEF IInv, GrantInv
    <3>2. tx[d].id \in GrantIds \ {g}
      BY <1>7, <2>2, <3>1 DEF RowsOf, Stored
    <3> QED BY <1>3, <1>7, <2>2, <2>3, <3>1, <3>2 DEF Differs
  <2>5. pc[d] = "insert_grant" => (RowsOf(request[d].scope, request[d].key) = {})'
    BY <1>7, <2>2, <2>3 DEF IInv, GrantInv
  <2>6. tx[d].grantRow # NoRow =>
          /\ pc[d] \in {"advance", "commit"}
          /\ tx[d].id \in GrantIds \ {g} /\ grantOwner[tx[d].id] = d
          /\ tx[d].grantRow.scope = tx[d].scope
    BY <1>6 DEF IInv, GrantInv, ScopeInv
  <2>7. tx[d].grantRow # NoRow /\ tx[d].id \notin Stored =>
          (RowsOf(tx[d].grantRow.scope, tx[d].grantRow.key) = {})'
    BY <1>7, <2>1, <2>3, <2>6 DEF IInv, GrantInv, Locked
  <2>8. pc[d] = "commit" => Rev(tx[d].scope)' = Rev(tx[d].scope)
    BY <1>2, <2>1, <2>3 DEF Rev, Locked
  <2>9. tx[d].grantRow # NoRow =>
          /\ grantOwner'[tx[d].id] = d /\ grants'[tx[d].id] = grants[tx[d].id]
          /\ tx[d].id \in Stored <=> tx[d].id \in Stored'
    BY <1>3, <2>6 DEF Keeps
  <2>10. (tx[d].id \in Stored)' <=> tx[d].id \in Stored'
    BY <2>3
  <2> QED BY <2>3, <2>4, <2>5, <2>6, <2>7, <2>8, <2>9, <2>10 DEF IInv, GrantInv
<1>11. TargetInv(d)'
  <2>1. pc'[d] = pc[d] /\ request'[d] = request[d] /\ tx'[d] = tx[d]
    BY DEF Keeps
  <2>2. tx[d].grantRow # NoRow => tx[d].id \in GrantIds \ {g}
    BY <1>6 DEF IInv, GrantInv
  <2>3. pc[d] = "commit" => tx[d].scope \in Scopes \ {s} /\ request[d].op \in {"put", "revoke"}
    BY <1>4 DEF IInv, ScopeInv, RequestInv, Engaged, Locked
  <2>4. pc[d] = "commit" /\ tx[d].grantRow = NoRow => tx[d].id \in GrantIds \ {g}
    <3> SUFFICES ASSUME pc[d] = "commit", tx[d].grantRow = NoRow
                 PROVE  tx[d].id \in GrantIds \ {g}
      OBVIOUS
    <3>1. CASE request[d].op = "put"
      <4>1. tx[d].scope = request[d].scope /\ tx[d].id \in GrantIds
            /\ grants[tx[d].id] = Asked(request[d])
        BY <3>1 DEF IInv, ScopeInv, TargetInv, Engaged, Locked
      <4>2. grants[tx[d].id].scope # s /\ grants[tx[d].id] \in Grant \cup {NoRow}
        BY <2>3, <4>1 DEF IInv, TypeOK, Asked
      <4>3. grants[tx[d].id] # NoRow
        <5>1. request[d] \in PutRequests
          BY <3>1 DEF IInv, RequestInv, Awaits, Requests, PutRequests, RevokeRequests, ResolveRequests
        <5>2. Asked(request[d]) \in Grant
          BY <3>1, <5>1, TablesAssumption
             DEF IInv, RequestInv, Awaits, PutRequests, Asked, Grant, StoredLimits, Instants
        <5> QED BY <4>1, <5>2, ConstantTypes
      <4> QED BY <1>1, <4>1, <4>2, <4>3 DEF Stored
    <3>2. CASE request[d].op = "revoke"
      BY <1>1, <2>3, <3>2 DEF IInv, ScopeInv, Stored, Engaged, Locked
    <3> QED BY <2>3, <3>1, <3>2
  <2> QED BY <1>3, <2>1, <2>2, <2>4 DEF IInv, TargetInv, Asked
<1> QED BY <1>8, <1>9, <1>10, <1>11 DEF CallerInv

(* What a commit publishes keeps the whole invariant. *)
LEMMA CommitStep ==
  ASSUME IInv, NEW c \in Callers, Commit(c)
  PROVE  IInv'
<1> USE ConstantTypes
<1> DEFINE s == tx[c].scope
           g == tx[c].id
<1>1. MutationReply(c) \in Responses /\ Refusal("failure") \in Responses
  BY CommitShape DEF Statuses
<1>2. PICK reply \in Responses : Finish(c, reply)
  BY <1>1 DEF Commit
<1>3. CASE tx[c].grantRow = NoRow
  BY <1>2, <1>3, CommitShape, FinishStep DEF Commit, tables
<1>4. CASE tx[c].grantRow # NoRow
  <2>1. /\ tx[c].grantRow \in Grant /\ s \in Scopes /\ g \in GrantIds
        /\ revision' = [revision EXCEPT ![s] = Rev(s) + 1]
        /\ grants' = [grants EXCEPT ![g] = tx[c].grantRow]
    BY <1>4, CommitShape
  <2>2. /\ tx[c].grantRow.scope = s
        /\ IF g \in Stored THEN grants[g].scope = s /\ grants[g].key = tx[c].grantRow.key
                           ELSE RowsOf(s, tx[c].grantRow.key) = {}
    BY <1>4 DEF IInv, GrantInv
  <2>3. Rev(s) \in Nat
    BY <2>1 DEF IInv, TypeOK, Rev
  <2>4. TypeOK'
    <3>1. revision' \in [Scopes -> Nat \cup {NoRow}] /\ grants' \in [GrantIds -> Grant \cup {NoRow}]
      BY <2>1, <2>3 DEF IInv, TypeOK
    <3> QED BY <1>2, <3>1, FinishFrame DEF Commit, IInv, TypeOK
  <2>5. NoEmptyScope'
    <3>1. /\ g \in Stored' /\ grants'[g].scope = s /\ revision'[s] = Rev(s) + 1
          /\ revision'[s] # NoRow /\ revision'[s] >= 1
      BY <2>1, <2>2, <2>3 DEF IInv, TypeOK, Stored
    <3>2. ASSUME NEW t \in Scopes \ {s}
          PROVE  /\ revision'[t] = revision[t]
                 /\ \A h \in GrantIds : (h \in Stored /\ grants[h].scope = t)
                                       <=> (h \in Stored' /\ grants'[h].scope = t)
      BY <2>1, <2>2 DEF IInv, TypeOK, Stored
    <3> QED BY <3>1, <3>2 DEF IInv, NoEmptyScope, Stored
  <2>6. OneGrantPerKey'
    <3>1. \A h \in Stored' \ {g} : h \in Stored /\ grants'[h] = grants[h]
      BY <2>1 DEF IInv, TypeOK, Stored
    <3>2. \A h \in Stored' \ {g} : ~(grants'[h].scope = s /\ grants'[h].key = tx[c].grantRow.key)
      BY <2>2, <3>1 DEF IInv, OneGrantPerKey, RowsOf
    <3>3. grants'[g] = tx[c].grantRow
      BY <2>1 DEF IInv, TypeOK
    <3> QED BY <2>2, <3>1, <3>2, <3>3 DEF IInv, OneGrantPerKey
  <2>7. ASSUME NEW d \in Callers \ {c} PROVE CallerInv(d)'
    BY <1>2, <1>4, <2>1, FinishFrame, CommitBystander DEF Commit
  <2> QED BY <1>2, <2>4, <2>5, <2>6, <2>7, FinishFrame DEF IInv, CallerInv, Commit
<1> QED BY <1>3, <1>4

--------------------------------------------------------------------------------
(* The theorems.                                                            *)

(* The empty tables satisfy the inductive invariant. *)
LEMMA InitIInv == Init => IInv
<1> SUFFICES ASSUME Init PROVE IInv
  OBVIOUS
<1> USE ConstantTypes DEF Init
<1>1. TypeOK
  BY DEF TypeOK, Stages
<1>2. NoEmptyScope /\ OneGrantPerKey
  BY DEF NoEmptyScope, OneGrantPerKey, Stored
<1>3. LockInv
  BY DEF LockInv
<1>4. \A c \in Callers : RequestInv(c) /\ ScopeInv(c) /\ GrantInv(c) /\ TargetInv(c)
  BY DEF RequestInv, ScopeInv, GrantInv, TargetInv, Awaits, Engaged, Locked, PutOnly, RevokeOnly, NoTx
<1> QED BY <1>1, <1>2, <1>3, <1>4 DEF IInv

(* Every step of every caller, and of the clock, preserves it. *)
LEMMA NextIInv == IInv /\ [Next]_vars => IInv'
<1> SUFFICES ASSUME IInv, [Next]_vars PROVE IInv'
  OBVIOUS
<1>1. ASSUME UNCHANGED <<tables, locks, pc, request, tx, response>>, clock' \in Nat
      PROVE  IInv'
  <2>1. TypeOK' /\ LockInv'
    BY <1>1 DEF IInv, TypeOK, LockInv, tables, locks
  <2>2. NoEmptyScope' /\ OneGrantPerKey'
    BY <1>1 DEF IInv, NoEmptyScope, OneGrantPerKey, Stored, tables
  <2>3. ASSUME NEW d \in Callers PROVE CallerInv(d)'
    <3>1. Keeps(d)
      BY <1>1 DEF Keeps, locks
    <3> QED BY <1>1, <3>1, Bystander DEF IInv, CallerInv
  <2> QED BY <2>1, <2>2, <2>3 DEF IInv, CallerInv
<1>2. CASE Tick
  BY <1>1, <1>2, TablesAssumption DEF Tick, IInv, TypeOK
<1>3. CASE UNCHANGED vars
  BY <1>1, <1>3 DEF vars, IInv, TypeOK
<1>4. ASSUME NEW c \in Callers, PutGrant(c) \/ RevokeGrant(c) \/ ResolveEntitlement(c)
      PROVE  IInv'
  BY <1>4, EnterStep
<1>5. ASSUME NEW c \in Callers, Proceed(c) PROVE IInv'
  BY <1>5, BeginStep, EnsureScopeStep, LockScopeStep, LockGrantStep, UpdateGrantStep,
     InsertGrantStep, LocateStep, MarkRevokedStep, AdvanceStep, CommitStep, ResolveStep
     DEF Proceed
<1>6. ASSUME NEW c \in Callers, Fail(c) \/ Return(c) PROVE IInv'
  BY <1>6, FailStep, ReturnStep
<1> QED BY <1>2, <1>3, <1>4, <1>5, <1>6 DEF Next

(* The strengthened invariant behind every safety theorem of this module. *)
THEOREM Inductive == Spec => []IInv
<1>1. Init => IInv
  BY InitIInv
<1>2. IInv /\ [Next]_vars => IInv'
  BY NextIInv
<1> QED BY <1>1, <1>2, PTL DEF Spec

(* Every variable keeps its type, whatever the handlers interleave into:    *)
(* no stored limit below 1, no negative revision.                           *)
THEOREM Typing == Spec => []TypeOK
<1>1. IInv => TypeOK
  BY DEF IInv
<1> QED BY <1>1, Inductive, PTL

(* The scope and key of a put, and of a resolve, name at most one row.      *)
THEOREM UniqueGrants == Spec => []OneGrantPerKey
<1>1. IInv => OneGrantPerKey
  BY DEF IInv
<1> QED BY <1>1, Inductive, PTL

(* No failure leaves a scope row without a grant, or at revision 0.         *)
THEOREM ScopesAreUsed == Spec => []NoEmptyScope
<1>1. IInv => NoEmptyScope
  BY DEF IInv
<1> QED BY <1>1, Inductive, PTL

--------------------------------------------------------------------------------
(* The scope lock is lock enough.                                           *)

(* Whoever has a stored grant locked has its scope locked. *)
LEMMA GrantLockUnderScopeLock ==
  ASSUME IInv, NEW d \in Callers, NEW g \in Stored, grantOwner[g] = d
  PROVE  scopeOwner[grants[g].scope] = d
<1>1. /\ g \in GrantIds /\ pc[d] \in {"update_grant", "advance", "commit"} /\ tx[d].id = g
      /\ scopeOwner[tx[d].scope] = d
  BY TransactionsAssumption DEF IInv, LockInv, ScopeInv, Stored, Locked
<1>2. request[d].op \in {"put", "revoke"} /\ (request[d].op = "put" => tx[d].scope = request[d].scope)
  BY <1>1 DEF IInv, RequestInv, ScopeInv, Engaged, Locked
<1>3. CASE pc[d] = "update_grant"
  BY <1>1, <1>2, <1>3 DEF IInv, GrantInv, RequestInv, PutOnly, RowsOf
<1>4. CASE tx[d].grantRow # NoRow
  BY <1>1, <1>4 DEF IInv, GrantInv
<1>5. CASE pc[d] = "commit" /\ tx[d].grantRow = NoRow
  <2>1. CASE request[d].op = "put"
    <3>1. grants[g] = Asked(request[d])
      BY <1>1, <1>5, <2>1 DEF IInv, TargetInv
    <3> QED BY <1>1, <1>2, <2>1, <3>1 DEF Asked
  <2>2. CASE request[d].op = "revoke"
    BY <1>1, <1>5, <2>2 DEF IInv, ScopeInv, Engaged, Locked
  <2> QED BY <1>2, <2>1, <2>2
<1> QED BY <1>1, <1>3, <1>4, <1>5 DEF IInv, GrantInv

(* The invariant keeps callers behind a scope's lock from waiting.          *)
LEMMA LockedWaitForNobody == IInv => ScopeLockSuffices
<1> SUFFICES ASSUME IInv, NEW c \in Callers
             PROVE  /\ pc[c] \in {"lock_grant", "insert_grant"} =>
                         \A g \in RowsOf(request[c].scope, request[c].key) : CanLockGrant(c, g)
                    /\ pc[c] = "insert_grant" =>
                         /\ RowsOf(request[c].scope, request[c].key) = {}
                         /\ ~InsertInProgress(c, request[c].scope, request[c].key)
                    /\ pc[c] \in {"update_grant", "revoke_grant"} =>
                         /\ CanLockGrant(c, tx[c].id)
                         /\ tx[c].id \in Stored /\ grants[tx[c].id].scope = tx[c].scope
                    /\ pc[c] = "advance" => CanLockScope(c, tx[c].scope)
  BY DEF ScopeLockSuffices
<1>1. pc[c] \in Locked => scopeOwner[tx[c].scope] = c
  BY DEF IInv, ScopeInv
<1>2. pc[c] \in {"lock_grant", "update_grant", "insert_grant"} => tx[c].scope = request[c].scope
  BY DEF IInv, RequestInv, ScopeInv, PutOnly, Engaged, Locked
<1>3. ASSUME pc[c] \in Locked, NEW g \in Stored, grants[g].scope = tx[c].scope
      PROVE  CanLockGrant(c, g)
  <2>1. grantOwner[g] \in Callers \cup {Free}
    BY DEF IInv, TypeOK, Stored
  <2>2. CASE grantOwner[g] \in Callers
    BY <1>1, <1>3, <2>2, GrantLockUnderScopeLock DEF CanLockGrant
  <2> QED BY <2>1, <2>2 DEF CanLockGrant
<1>4. pc[c] \in {"lock_grant", "insert_grant"} =>
        \A g \in RowsOf(request[c].scope, request[c].key) : CanLockGrant(c, g)
  BY <1>2, <1>3 DEF RowsOf, Locked
<1>5. pc[c] = "insert_grant" =>
        /\ RowsOf(request[c].scope, request[c].key) = {}
        /\ ~InsertInProgress(c, request[c].scope, request[c].key)
  <2> SUFFICES ASSUME pc[c] = "insert_grant"
               PROVE  /\ RowsOf(request[c].scope, request[c].key) = {}
                      /\ ~InsertInProgress(c, request[c].scope, request[c].key)
    OBVIOUS
  <2>1. ASSUME NEW d \in Callers \ {c}, tx[d].grantRow # NoRow
        PROVE  scopeOwner[tx[d].grantRow.scope] = d
    BY <2>1 DEF IInv, ScopeInv, GrantInv, Engaged, Locked
  <2> QED BY <1>1, <1>2, <2>1 DEF IInv, GrantInv, InsertInProgress, Locked
<1>6. pc[c] \in {"update_grant", "revoke_grant"} =>
        tx[c].id \in Stored /\ grants[tx[c].id].scope = tx[c].scope
  BY <1>2 DEF IInv, GrantInv, RequestInv, ScopeInv, RevokeOnly, RowsOf, Engaged, Locked
<1>7. pc[c] \in {"update_grant", "revoke_grant"} => CanLockGrant(c, tx[c].id)
  BY <1>3, <1>6 DEF Locked
<1>8. pc[c] = "advance" => CanLockScope(c, tx[c].scope)
  BY <1>1 DEF CanLockScope, Locked
<1> QED BY <1>4, <1>5, <1>6, <1>7, <1>8

(* Behind its scope's lock a mutation waits for nobody, meets no row of its *)
(* key when it inserts, and finds the located grant where it was.           *)
THEOREM LockOrder == Spec => []ScopeLockSuffices
  BY LockedWaitForNobody, Inductive, PTL

(* Only a scope's row is waited for, and only by callers that hold no row.  *)
THEOREM NoWaitingInTurn == Spec => []NobodyWaitsInTurn
<1>1. ASSUME IInv, NEW c \in Callers, NEW d \in Callers, WaitsFor(c, d)
      PROVE  /\ pc[c] \in {"ensure_scope", "lock_scope"}
             /\ \E s \in Scopes : scopeOwner[s] = d
             /\ pc[c] = "lock_scope" => scopeOwner[tx[c].scope] = d
  <2>1. ScopeLockSuffices /\ c # d /\ d # Free
    BY <1>1, LockedWaitForNobody, TransactionsAssumption DEF WaitsFor
  <2>2. pc[c] # "lock_grant"
    BY <1>1, <2>1 DEF ScopeLockSuffices, WaitsFor, CanLockGrant
  <2>3. pc[c] \notin {"update_grant", "revoke_grant"}
    BY <1>1, <2>1 DEF ScopeLockSuffices, WaitsFor, CanLockGrant
  <2>4. pc[c] # "insert_grant"
    BY <1>1, <2>1 DEF ScopeLockSuffices, WaitsFor, InsertInProgress
  <2>5. pc[c] # "advance"
    BY <1>1, <2>1 DEF ScopeLockSuffices, WaitsFor, CanLockScope
  <2>6. CASE pc[c] = "ensure_scope"
    <3>1. scopeOwner[request[c].scope] = d
      BY <1>1, <2>6 DEF WaitsFor
    <3>2. request[c].op = "put" /\ request[c] \in Requests
      BY <1>1, <2>6 DEF IInv, RequestInv, PutOnly, Awaits
    <3>3. request[c].scope \in Scopes
      BY <3>2 DEF Requests, PutRequests, RevokeRequests, ResolveRequests
    <3> QED BY <2>6, <3>1, <3>3
  <2>7. CASE pc[c] = "lock_scope"
    <3>1. tx[c].scope \in Scopes
      BY <1>1, <2>7 DEF IInv, ScopeInv, Engaged
    <3> QED BY <1>1, <2>7, <3>1 DEF WaitsFor
  <2> QED BY <1>1, <2>2, <2>3, <2>4, <2>5, <2>6, <2>7 DEF WaitsFor
<1>2. ASSUME IInv, NEW d \in Callers, NEW s \in Scopes, scopeOwner[s] = d
      PROVE  pc[d] \in Engaged /\ tx[d].scope = s
  BY <1>2, TransactionsAssumption DEF IInv, LockInv
<1>3. ASSUME IInv, NEW c \in Callers, NEW d \in Callers, NEW e \in Callers,
             WaitsFor(c, d), WaitsFor(d, e)
      PROVE  FALSE
  <2>1. PICK s \in Scopes : scopeOwner[s] = d
    BY <1>1, <1>3
  <2>2. pc[d] \in Engaged /\ tx[d].scope = s
    BY <1>2, <1>3, <2>1
  <2>3. pc[d] = "lock_scope" /\ scopeOwner[tx[d].scope] = e
    BY <1>1, <1>3, <2>2 DEF Engaged, Locked
  <2> QED BY <1>3, <2>1, <2>2, <2>3 DEF WaitsFor
<1>4. IInv => NobodyWaitsInTurn
  BY <1>3 DEF NobodyWaitsInTurn
<1> QED BY <1>4, Inductive, PTL

--------------------------------------------------------------------------------
(* Material mutations and revisions.                                        *)

(* No step but a commit writes the committed tables. *)
LEMMA OnlyCommitsWrite ==
  ASSUME [Next]_vars
  PROVE  UNCHANGED tables \/ \E c \in Callers : Commit(c)
<1>1. ASSUME NEW c \in Callers, PutGrant(c) \/ RevokeGrant(c) \/ ResolveEntitlement(c)
      PROVE  UNCHANGED tables
  BY <1>1 DEF PutGrant, RevokeGrant, ResolveEntitlement, Admit
<1>2. ASSUME NEW c \in Callers, Proceed(c), ~Commit(c) PROVE UNCHANGED tables
  BY <1>2 DEF Proceed, Begin, EnsureScope, LockScope, LockGrant, UpdateGrant, InsertGrant,
              Locate, MarkRevoked, Advance, Resolve
<1>3. ASSUME NEW c \in Callers, Fail(c) \/ Return(c) PROVE UNCHANGED tables
  BY <1>3 DEF Fail, Return
<1> QED BY <1>1, <1>2, <1>3 DEF Next, Tick, vars

(* What the commit of a material change does, grant by grant and scope by   *)
(* scope.                                                                   *)
LEMMA CommitEffect ==
  ASSUME IInv, NEW c \in Callers, Commit(c), tx[c].grantRow # NoRow
  PROVE  LET s == tx[c].scope
             g == tx[c].id
             row == tx[c].grantRow IN
         /\ s \in Scopes /\ g \in GrantIds /\ row \in Grant /\ row.scope = s
         /\ grants'[g] = row /\ \A h \in GrantIds \ {g} : grants'[h] = grants[h]
         /\ g \in Stored => grants[g].scope = s
         /\ Rev(s) \in Nat
         /\ \A t \in Scopes : Rev(t)' = IF t = s THEN Rev(t) + 1 ELSE Rev(t)
<1>1. /\ tx[c].grantRow \in Grant /\ tx[c].scope \in Scopes /\ tx[c].id \in GrantIds
      /\ revision' = [revision EXCEPT ![tx[c].scope] = Rev(tx[c].scope) + 1]
      /\ grants' = [grants EXCEPT ![tx[c].id] = tx[c].grantRow]
  BY CommitShape
<1>2. Rev(tx[c].scope) \in Nat
  BY <1>1 DEF IInv, TypeOK, Rev
<1>3. /\ revision'[tx[c].scope] = Rev(tx[c].scope) + 1
      /\ \A t \in Scopes \ {tx[c].scope} : revision'[t] = revision[t]
      /\ grants'[tx[c].id] = tx[c].grantRow
      /\ \A h \in GrantIds \ {tx[c].id} : grants'[h] = grants[h]
  BY <1>1 DEF IInv, TypeOK
<1>4. ASSUME NEW t \in Scopes
      PROVE  Rev(t)' = IF t = tx[c].scope THEN Rev(t) + 1 ELSE Rev(t)
  BY <1>2, <1>3, ConstantTypes DEF Rev
<1>5. /\ tx[c].grantRow.scope = tx[c].scope
      /\ (tx[c].id \in Stored => grants[tx[c].id].scope = tx[c].scope)
  BY DEF IInv, GrantInv
<1> QED BY <1>1, <1>2, <1>3, <1>4, <1>5

(* "Every material mutation advances that scope's revision in the same      *)
(* transaction", and nothing else does: what the unchanged, rolled back and *)
(* failed calls leave is the same grants at the same revision.              *)
THEOREM MutationsAdvanceRevision == Spec => MaterialMutationsAdvance
<1>1. IInv /\ [Next]_vars => MutationsAdvance
  <2> SUFFICES ASSUME IInv, [Next]_vars, NEW t \in Scopes
               PROVE  \/ Content(t)' = Content(t) /\ Rev(t)' = Rev(t)
                      \/ Content(t)' # Content(t) /\ Rev(t)' = Rev(t) + 1
    BY DEF MutationsAdvance
  <2>1. CASE UNCHANGED tables
    BY <2>1 DEF tables, Content, Rev, Stored
  <2>2. ASSUME NEW c \in Callers, Commit(c), tx[c].grantRow = NoRow
        PROVE  UNCHANGED tables
    BY <2>2, CommitShape, ConstantTypes
  <2>3. ASSUME NEW c \in Callers, Commit(c), tx[c].grantRow # NoRow, t # tx[c].scope
        PROVE  Content(t)' = Content(t) /\ Rev(t)' = Rev(t)
    <3>1. Rev(t)' = Rev(t)
      BY <2>3, CommitEffect
    <3>2. \A h \in GrantIds : (h \in Stored /\ grants[h].scope = t)
                            <=> (h \in Stored' /\ grants'[h].scope = t)
      BY <2>3, CommitEffect DEF Stored
    <3>3. \A h \in GrantIds : h \in Stored /\ grants[h].scope = t => grants'[h] = grants[h]
      BY <2>3, CommitEffect
    <3>4. {h \in Stored : grants[h].scope = t} = {h \in Stored' : grants'[h].scope = t}
      BY <3>2 DEF Stored
    <3> QED BY <3>1, <3>3, <3>4 DEF Content, Stored
  <2>4. ASSUME NEW c \in Callers, Commit(c), tx[c].grantRow # NoRow, t = tx[c].scope
        PROVE  Content(t)' # Content(t) /\ Rev(t)' = Rev(t) + 1
    <3> DEFINE g   == tx[c].id
               row == tx[c].grantRow
    <3>1. Rev(t)' = Rev(t) + 1 /\ g \in GrantIds /\ grants'[g] = row /\ row # NoRow /\ row.scope = t
      BY <2>4, CommitEffect
    <3>2. g \in DOMAIN Content(t)'
      BY <3>1 DEF Content, Stored
    <3>3. CASE g \notin Stored
      <4>1. g \notin DOMAIN Content(t)
        BY <3>3 DEF Content
      <4> QED BY <3>1, <3>2, <4>1
    <3>4. CASE g \in Stored
      <4>1. /\ grants[g].scope = t
            /\ \/ grants[g].limit # row.limit
               \/ grants[g].expires_at # row.expires_at
               \/ (grants[g].revoked_at = NULL) # (row.revoked_at = NULL)
        BY <2>4, <3>4 DEF IInv, GrantInv
      <4>2. Content(t)[g] = <<grants[g].key, grants[g].limit, grants[g].expires_at,
                              grants[g].revoked_at = NULL>>
        BY <3>4, <4>1 DEF Content
      <4>3. Content(t)'[g] = <<row.key, row.limit, row.expires_at, row.revoked_at = NULL>>
        BY <3>1 DEF Content, Stored
      <4>4. Content(t)'[g] # Content(t)[g]
        BY <4>1, <4>2, <4>3
      <4> QED BY <3>1, <4>4
    <3> QED BY <3>3, <3>4
  <2> QED BY <2>1, <2>2, <2>3, <2>4, OnlyCommitsWrite
<1> QED BY <1>1, Inductive, PTL DEF Spec, MaterialMutationsAdvance

--------------------------------------------------------------------------------
(* Replies hold at the revision they name.                                  *)

(* The rows a resolve's fact was read from, its expiry apart, and what      *)
(* MutationsHoldAtTheirRevision says, for caller d; and the scope its reply *)
(* is about.                                                                *)
FactHolds(d) ==
  LET q == request[d]
      r == response[d] IN
  /\ r.revision <= Rev(q.scope)
  /\ r.revision = Rev(q.scope) =>
       IF r.granted
       THEN /\ r.id \in RowsOf(q.scope, q.key)
            /\ grants[r.id].revoked_at = NULL /\ grants[r.id].limit = r.limit
       ELSE \A g \in RowsOf(q.scope, q.key) : ~Active(grants[g], clock)

MutationHolds(d) ==
  LET q == request[d]
      r == response[d] IN
  /\ r.revision <= Rev(r.scope)
  /\ r.revision = Rev(r.scope) =>
       IF q.op = "put"
       THEN r.id \in RowsOf(q.scope, q.key) /\ ~Differs(grants[r.id], q)
       ELSE grants[q.id].revoked_at # NULL

AboutScope(d) ==
  LET q == request[d]
      r == response[d] IN
  /\ q.op \in {"put", "resolve"} => q.scope \in Scopes /\ r.scope = q.scope
  /\ q.op = "revoke" => q.id \in Stored /\ grants[q.id].scope = r.scope /\ r.scope \in Scopes
  /\ q.op \in {"put", "revoke", "resolve"}

ReplyInv(d) ==
  pc[d] = "done" /\ response[d].status = "ok" =>
    /\ AboutScope(d)
    /\ IF request[d].op = "resolve" THEN FactHolds(d) ELSE MutationHolds(d)

(* A transaction's timestamp is not ahead of the database clock. *)
StartedInv == \A c \in Callers : tx[c].started <= clock

AllReplies == StartedInv /\ \A d \in Callers : ReplyInv(d)

KeepsReply(d) == pc'[d] = pc[d] /\ request'[d] = request[d] /\ response'[d] = response[d]

(* Time makes a denial no less a denial. *)
LEMMA QuietReply ==
  ASSUME TypeOK, NEW d \in Callers, ReplyInv(d), KeepsReply(d), UNCHANGED tables,
         clock' \in Nat, clock <= clock'
  PROVE  ReplyInv(d)'
<1> SUFFICES ASSUME pc[d] = "done", response[d].status = "ok"
             PROVE  /\ AboutScope(d)'
                    /\ (IF request[d].op = "resolve" THEN FactHolds(d) ELSE MutationHolds(d))'
  BY DEF ReplyInv, KeepsReply
<1>1. AboutScope(d)'
  BY DEF ReplyInv, KeepsReply, AboutScope, Stored, tables
<1>2. CASE request[d].op = "resolve"
  <2>1. ASSUME NEW g \in Stored, ~Active(grants[g], clock) PROVE ~Active(grants[g], clock')
    <3>1. grants[g] \in Grant
      BY DEF TypeOK, Stored
    <3> QED BY <2>1, <3>1, TablesAssumption DEF TypeOK, Active, Grant, Instants
  <2>2. FactHolds(d)
    BY <1>2 DEF ReplyInv
  <2>3. \A g \in GrantIds : (g \in Stored <=> g \in Stored') /\ grants'[g] = grants[g]
    BY DEF Stored, tables
  <2>4. revision' = revision
    BY DEF tables
  <2>5. FactHolds(d)'
    BY <2>1, <2>2, <2>3, <2>4 DEF FactHolds, KeepsReply, RowsOf, Rev, Stored
  <2> QED BY <1>1, <1>2, <2>5 DEF KeepsReply
<1>3. CASE request[d].op # "resolve"
  <2>1. MutationHolds(d)'
    BY <1>3 DEF ReplyInv, MutationHolds, KeepsReply, RowsOf, Rev, Stored, Differs, tables
  <2> QED BY <1>1, <1>3, <2>1 DEF KeepsReply
<1> QED BY <1>2, <1>3

(* A commit in the scope of a reply leaves its revision behind; a commit    *)
(* elsewhere leaves its rows alone.                                         *)
LEMMA CommittedReply ==
  ASSUME IInv, NEW c \in Callers, Commit(c), tx[c].grantRow # NoRow,
         NEW d \in Callers \ {c}, ReplyInv(d), KeepsReply(d)
  PROVE  ReplyInv(d)'
<1> SUFFICES ASSUME pc[d] = "done", response[d].status = "ok"
             PROVE  /\ AboutScope(d)'
                    /\ (IF request[d].op = "resolve" THEN FactHolds(d) ELSE MutationHolds(d))'
  BY DEF ReplyInv, KeepsReply
<1> DEFINE s == tx[c].scope
           g == tx[c].id
           t == response[d].scope
<1>1. /\ s \in Scopes /\ g \in GrantIds /\ tx[c].grantRow # NoRow
      /\ tx[c].grantRow.scope = s /\ grants'[g] = tx[c].grantRow
      /\ \A h \in GrantIds \ {g} : grants'[h] = grants[h]
      /\ g \in Stored => grants[g].scope = s
      /\ Rev(s) \in Nat /\ \A u \in Scopes : Rev(u)' = IF u = s THEN Rev(u) + 1 ELSE Rev(u)
  BY CommitEffect
<1>2. AboutScope(d)
  BY DEF ReplyInv
<1>3. t \in Scopes
  BY <1>2 DEF AboutScope
<1>4. /\ \A h \in Stored : h \in Stored' /\ grants'[h].scope = grants[h].scope
      /\ \A h \in Stored' : grants'[h].scope # s => h # g /\ h \in Stored /\ grants'[h] = grants[h]
      /\ \A h \in Stored : grants[h].scope # s => h # g /\ grants'[h] = grants[h]
  BY <1>1 DEF Stored
<1>5. AboutScope(d)'
  BY <1>2, <1>4 DEF AboutScope, KeepsReply
<1>6. response[d].revision \in Nat /\ Rev(t) \in Nat
  BY <1>3, ConstantTypes DEF IInv, TypeOK, Responses, Rev
<1>7. \A u \in Scopes : u = t => Rev(u)' = IF t = s THEN Rev(t) + 1 ELSE Rev(t)
  BY <1>1
<1>8. clock' = clock
  BY DEF Commit
<1>9. CASE request[d].op = "resolve"
  <2>1. FactHolds(d) /\ request[d].scope = t
    BY <1>2, <1>9 DEF ReplyInv, AboutScope
  <2>2. Rev(request[d].scope)' = IF t = s THEN Rev(t) + 1 ELSE Rev(t)
    BY <1>3, <1>7, <2>1 DEF KeepsReply, Rev
  <2>3. t # s => \A h \in GrantIds : (h \in RowsOf(t, request[d].key))
                            <=> (h \in Stored' /\ grants'[h].scope = t /\ grants'[h].key = request[d].key)
    BY <1>4 DEF RowsOf
  <2>4. t # s => \A h \in RowsOf(t, request[d].key) : grants'[h] = grants[h]
    BY <1>4 DEF RowsOf
  <2>5. FactHolds(d)'
    BY <1>6, <1>8, <2>1, <2>2, <2>3, <2>4 DEF FactHolds, KeepsReply, RowsOf, Stored
  <2> QED BY <1>5, <1>9, <2>5 DEF KeepsReply
<1>10. CASE request[d].op # "resolve"
  <2>1. MutationHolds(d)
    BY <1>10 DEF ReplyInv
  <2>2. Rev(response[d].scope)' = IF t = s THEN Rev(t) + 1 ELSE Rev(t)
    BY <1>3, <1>7 DEF KeepsReply, Rev
  <2>3. ASSUME t = s PROVE MutationHolds(d)'
    BY <1>6, <2>1, <2>2, <2>3 DEF MutationHolds, KeepsReply
  <2>4. ASSUME t # s, request[d].op = "put" PROVE MutationHolds(d)'
    <3>1. request[d].scope = t
      BY <1>2, <2>4 DEF AboutScope
    <3> QED BY <1>4, <1>6, <2>1, <2>2, <2>4, <3>1 DEF MutationHolds, KeepsReply, RowsOf, Differs
  <2>5. ASSUME t # s, request[d].op = "revoke" PROVE MutationHolds(d)'
    <3>1. request[d].id \in Stored /\ grants[request[d].id].scope = t
      BY <1>2, <2>5 DEF AboutScope
    <3> QED BY <1>4, <1>6, <2>1, <2>2, <2>5, <3>1 DEF MutationHolds, KeepsReply
  <2>6. MutationHolds(d)'
    BY <1>2, <1>10, <2>3, <2>4, <2>5 DEF AboutScope
  <2> QED BY <1>5, <1>10, <2>6 DEF KeepsReply
<1> QED BY <1>9, <1>10

(* A commit answers with the revision it leaves, and outdates the answers it
   contradicts. *)
LEMMA CommitReplies ==
  ASSUME IInv, NEW c \in Callers, Commit(c)
  PROVE  ReplyInv(c)'
<1> DEFINE q == request[c]
           s == tx[c].scope
           g == tx[c].id
           r == MutationReply(c)
<1>1. pc'[c] = "done" /\ request' = request
      /\ (response'[c] = r \/ response'[c] = Refusal("failure"))
  BY DEF Commit, Finish, IInv, TypeOK
<1>2. Refusal("failure").status # "ok"
  BY DEF Refusal, NoReply
<1>3. ASSUME response'[c] = r PROVE ReplyInv(c)'
  <2>1. /\ q.op \in {"put", "revoke"} /\ s \in Scopes /\ q \in Requests
        /\ q.op = "put" => s = q.scope
        /\ q.op = "revoke" => g = q.id /\ g \in Stored /\ grants[g].scope = s
        /\ tx[c].revision = Rev(s)
        /\ tx[c].scopeRow = IF tx[c].grantRow = NoRow THEN NoRow ELSE Rev(s) + 1
    BY DEF Commit, IInv, RequestInv, ScopeInv, GrantInv, Awaits, Engaged, Locked
  <2>2. Rev(s) \in Nat
    BY <2>1 DEF IInv, TypeOK, Rev
  <2>3. /\ r.scope = s /\ r.id = g
        /\ r.revision = IF tx[c].grantRow = NoRow THEN Rev(s) ELSE Rev(s) + 1
    BY <2>1 DEF MutationReply, NoReply, Changed
  <2>4. ASSUME NEW t \in Scopes, t = s PROVE Rev(t)' = r.revision
    <3>1. CASE tx[c].grantRow = NoRow
      <4>1. revision' = revision
        BY <3>1, CommitShape, ConstantTypes DEF tables
      <4> QED BY <2>3, <2>4, <3>1, <4>1 DEF Rev
    <3>2. CASE tx[c].grantRow # NoRow
      BY <2>3, <2>4, <3>2, CommitEffect
    <3> QED BY <3>1, <3>2
  <2>5. CASE q.op = "put"
    <3>1. g \in GrantIds /\ grants'[g] = Asked(q) /\ Asked(q) # NoRow
      <4>1. Asked(q) \in Grant
        <5>1. q \in PutRequests
          BY <2>1, <2>5 DEF Requests, PutRequests, RevokeRequests, ResolveRequests
        <5> QED BY <2>5, <5>1, TablesAssumption
                DEF Commit, IInv, RequestInv, Awaits, PutRequests, Asked, Grant, StoredLimits, Instants
      <4>2. CASE tx[c].grantRow = NoRow
        <5>1. grants' = grants
          BY <4>2, CommitShape, ConstantTypes DEF tables
        <5> QED BY <2>5, <4>1, <4>2, <5>1, ConstantTypes DEF Commit, IInv, TargetInv
      <4>3. CASE tx[c].grantRow # NoRow
        <5>1. tx[c].grantRow = Asked(q)
          BY <2>5, <4>3 DEF IInv, TargetInv
        <5> QED BY <4>1, <4>3, <5>1, CommitEffect, ConstantTypes
      <4> QED BY <4>2, <4>3
    <3>2. /\ r.id \in Stored' /\ grants'[r.id].scope = q.scope /\ grants'[r.id].key = q.key
          /\ grants'[r.id].limit = q.limit /\ grants'[r.id].expires_at = q.expires_at
          /\ grants'[r.id].revoked_at = NULL
      BY <2>3, <3>1 DEF Asked, Stored
    <3>3. AboutScope(c)'
      BY <1>1, <1>3, <2>1, <2>3, <2>5 DEF AboutScope
    <3>4. r.revision \in Nat /\ Rev(response[c].scope)' = r.revision
      BY <1>3, <2>1, <2>2, <2>3, <2>4 DEF Rev
    <3>5. MutationHolds(c)'
      BY <1>1, <1>3, <2>5, <3>2, <3>4 DEF MutationHolds, RowsOf, Differs
    <3> QED BY <1>1, <2>5, <3>3, <3>5 DEF ReplyInv
  <2>6. CASE q.op = "revoke"
    <3>1. g \in GrantIds /\ g \in Stored' /\ grants'[g].scope = s /\ grants'[g].revoked_at # NULL
      <4>1. CASE tx[c].grantRow = NoRow
        <5>1. grants' = grants
          BY <4>1, CommitShape, ConstantTypes DEF tables
        <5> QED BY <2>1, <2>6, <4>1, <5>1 DEF Commit, IInv, TargetInv, Stored
      <4>2. CASE tx[c].grantRow # NoRow
        <5>1. tx[c].grantRow = [grants[g] EXCEPT !.revoked_at = tx[c].started]
          BY <2>6, <4>2 DEF IInv, TargetInv
        <5>2. tx[c].started \in Int /\ grants[g] \in Grant
          BY <2>1, <2>6 DEF IInv, TypeOK, Transactions, Stored
        <5>3. tx[c].grantRow.revoked_at = tx[c].started
          BY <5>1, <5>2 DEF Grant
        <5> QED BY <4>2, <5>2, <5>3, CommitEffect, ConstantTypes DEF Stored
      <4> QED BY <4>1, <4>2
    <3>2. AboutScope(c)'
      BY <1>1, <1>3, <2>1, <2>3, <2>6, <3>1 DEF AboutScope
    <3>3. r.revision \in Nat /\ Rev(response[c].scope)' = r.revision
      BY <1>3, <2>1, <2>2, <2>3, <2>4 DEF Rev
    <3>4. MutationHolds(c)'
      BY <1>1, <1>3, <2>1, <2>6, <3>1, <3>3 DEF MutationHolds
    <3> QED BY <1>1, <2>6, <3>2, <3>4 DEF ReplyInv
  <2> QED BY <2>1, <2>5, <2>6
<1> QED BY <1>1, <1>2, <1>3 DEF ReplyInv

(* A resolve answers with what is stored at the revision it read. *)
LEMMA ResolveReplies ==
  ASSUME IInv, StartedInv, NEW c \in Callers, Resolve(c)
  PROVE  ReplyInv(c)'
<1> DEFINE q     == request[c]
           reply == [NoReply EXCEPT !.status = "ok", !.scope = q.scope]
           hits  == {g \in RowsOf(q.scope, q.key) : Active(grants[g], tx[c].started)}
<1>1. q.op = "resolve" /\ q.scope \in Scopes /\ tx[c].started \in Int /\ tx[c].started <= clock
  BY DEF Resolve, IInv, TypeOK, RequestInv, StartedInv, Transactions, Awaits, Requests,
         PutRequests, RevokeRequests, ResolveRequests
<1>2. /\ pc'[c] = "done" /\ request' = request /\ clock' = clock /\ grants' = grants
      /\ revision' = revision
  BY DEF Resolve, Finish, IInv, TypeOK, tables
<1>3. revision[q.scope] \in Nat \cup {NoRow} /\ Rev(q.scope) \in Nat
  BY <1>1 DEF IInv, TypeOK, Rev
<1>4. \A g \in RowsOf(q.scope, q.key) : g \notin hits => ~Active(grants[g], clock)
  BY <1>1, TablesAssumption DEF IInv, TypeOK, Active, Grant, Instants, RowsOf, Stored
<1>5. /\ response'[c].scope = q.scope
      /\ response'[c].revision = Rev(q.scope)
      /\ IF response'[c].granted
         THEN response'[c].id \in hits /\ response'[c].limit = grants[response'[c].id].limit
         ELSE \A g \in RowsOf(q.scope, q.key) : ~Active(grants[g], clock)
  <2>1. CASE revision[q.scope] = NoRow /\ Finish(c, reply)
    <3>1. response'[c] = reply /\ Rev(q.scope) = 0
      BY <2>1 DEF Finish, IInv, TypeOK, Rev
    <3>2. RowsOf(q.scope, q.key) = {}
      BY <1>1, <2>1 DEF IInv, NoEmptyScope, RowsOf
    <3> QED BY <3>1, <3>2 DEF NoReply
  <2>2. CASE /\ revision[q.scope] # NoRow /\ hits = {}
             /\ Finish(c, [reply EXCEPT !.revision = revision[q.scope]])
    <3>1. response'[c] = [reply EXCEPT !.revision = revision[q.scope]]
          /\ Rev(q.scope) = revision[q.scope]
      BY <2>2 DEF Finish, IInv, TypeOK, Rev
    <3> QED BY <1>4, <2>2, <3>1 DEF NoReply
  <2>3. ASSUME revision[q.scope] # NoRow, NEW g \in hits,
               Finish(c, [reply EXCEPT !.revision = revision[q.scope], !.id = g,
                            !.granted = TRUE, !.limit = grants[g].limit])
        PROVE  /\ response'[c].scope = q.scope
               /\ response'[c].revision = Rev(q.scope)
               /\ response'[c].granted
               /\ response'[c].id \in hits /\ response'[c].limit = grants[response'[c].id].limit
    <3>1. response'[c] = [reply EXCEPT !.revision = revision[q.scope], !.id = g,
                            !.granted = TRUE, !.limit = grants[g].limit]
          /\ Rev(q.scope) = revision[q.scope]
      BY <2>3 DEF Finish, IInv, TypeOK, Rev
    <3> QED BY <3>1 DEF NoReply
  <2> QED BY <2>1, <2>2, <2>3 DEF Resolve
<1>6. AboutScope(c)'
  BY <1>1, <1>2, <1>5 DEF AboutScope
<1>7. FactHolds(c)'
  <2>1. \A g \in hits : g \in RowsOf(q.scope, q.key) /\ grants[g].revoked_at = NULL
    BY DEF Active
  <2>2. (Rev(request[c].scope) = response[c].revision /\ Rev(request[c].scope) \in Nat)'
    BY <1>2, <1>3, <1>5 DEF Rev
  <2>3. RowsOf(request[c].scope, request[c].key)' = RowsOf(q.scope, q.key)
    BY <1>2 DEF RowsOf, Stored
  <2> QED BY <1>2, <1>5, <2>1, <2>2, <2>3 DEF FactHolds
<1> QED BY <1>1, <1>2, <1>6, <1>7 DEF ReplyInv

(* The steps that end in no "ok" reply. *)
LEMMA SilentSteps ==
  ASSUME IInv, NEW c \in Callers,
         \/ PutGrant(c) \/ RevokeGrant(c) \/ ResolveEntitlement(c) \/ Fail(c) \/ Return(c)
         \/ Proceed(c) /\ ~Commit(c) /\ ~Resolve(c)
  PROVE  /\ clock' = clock /\ UNCHANGED tables
         /\ \A d \in Callers \ {c} : KeepsReply(d) /\ tx'[d] = tx[d]
         /\ pc'[c] # "done" \/ response'[c].status # "ok"
         /\ tx'[c].started \in {tx[c].started, clock, 0}
<1> TypeOK
  BY DEF IInv
<1> USE DEF Goto, KeepsReply, TypeOK, tables
<1>1. \A status \in Statuses \ {"ok"} : Refusal(status).status # "ok"
  BY DEF Refusal, NoReply
<1>2. ASSUME NEW q, NEW authorized, NEW valid, Admit(c, q, authorized, valid)
      PROVE  /\ clock' = clock /\ UNCHANGED tables
             /\ \A d \in Callers \ {c} : KeepsReply(d) /\ tx'[d] = tx[d]
             /\ pc'[c] # "done" \/ response'[c].status # "ok"
             /\ tx'[c].started \in {tx[c].started, clock, 0}
  BY <1>1, <1>2 DEF Admit, Refusal, NoReply
<1>3. CASE PutGrant(c) \/ RevokeGrant(c) \/ ResolveEntitlement(c)
  BY <1>2, <1>3 DEF PutGrant, RevokeGrant, ResolveEntitlement
<1>4. ASSUME NEW status \in {"failure", "not_found"}, Finish(c, Refusal(status)),
             UNCHANGED <<clock, tables, request>>
      PROVE  /\ clock' = clock /\ UNCHANGED tables
             /\ \A d \in Callers \ {c} : KeepsReply(d) /\ tx'[d] = tx[d]
             /\ pc'[c] # "done" \/ response'[c].status # "ok"
             /\ tx'[c].started \in {tx[c].started, clock, 0}
  BY <1>1, <1>4 DEF Finish, Statuses, NoTx
<1>5. CASE Fail(c)
  BY <1>4, <1>5 DEF Fail
<1>6. CASE Return(c)
  BY <1>6 DEF Return
<1>7. CASE Begin(c)
  <2>1. tx[c] \in Transactions
    OBVIOUS
  <2>2. tx'[c].started = clock
    BY <1>7, <2>1 DEF Begin, Transactions
  <2>3. pc'[c] # "done"
    <3>1. request[c].op \in {"put", "revoke", "resolve"}
      BY <1>7 DEF Begin, IInv, RequestInv, Awaits, Requests, PutRequests, RevokeRequests, ResolveRequests
    <3> QED BY <1>7, <3>1 DEF Begin
  <2> QED BY <1>7, <2>2, <2>3 DEF Begin
<1>8. CASE EnsureScope(c) \/ LockScope(c) \/ LockGrant(c) \/ UpdateGrant(c) \/ InsertGrant(c)
  <2>1. tx[c] \in Transactions
    OBVIOUS
  <2>2. CASE EnsureScope(c)
    BY <2>1, <2>2 DEF EnsureScope, Transactions
  <2>3. CASE LockScope(c)
    BY <2>1, <2>3 DEF LockScope, Transactions
  <2>4. CASE LockGrant(c)
    BY <2>1, <2>4 DEF LockGrant, Transactions
  <2>5. CASE UpdateGrant(c)
    BY <2>1, <2>5 DEF UpdateGrant, Transactions
  <2>6. CASE InsertGrant(c)
    BY <2>1, <2>6 DEF InsertGrant, Transactions
  <2> QED BY <1>8, <2>2, <2>3, <2>4, <2>5, <2>6
<1>9. CASE Locate(c)
  BY <1>4, <1>9 DEF Locate, Transactions
<1>10. CASE MarkRevoked(c)
  BY <1>10 DEF MarkRevoked, Transactions
<1>11. CASE Advance(c)
  BY <1>4, <1>11 DEF Advance, Transactions
<1> QED BY <1>3, <1>5, <1>6, <1>7, <1>8, <1>9, <1>10, <1>11 DEF Proceed

(* Every step keeps the answers true at the revisions they name. *)
LEMMA NextReplies == IInv /\ IInv' /\ AllReplies /\ [Next]_vars => AllReplies'
<1> SUFFICES ASSUME IInv, IInv', AllReplies, [Next]_vars PROVE AllReplies'
  OBVIOUS
<1>1. ASSUME NEW c \in Callers,
             \/ PutGrant(c) \/ RevokeGrant(c) \/ ResolveEntitlement(c) \/ Fail(c) \/ Return(c)
             \/ Proceed(c) /\ ~Commit(c) /\ ~Resolve(c)
      PROVE  AllReplies'
  <2>1. /\ clock' = clock /\ UNCHANGED tables
        /\ \A d \in Callers \ {c} : KeepsReply(d) /\ tx'[d] = tx[d]
        /\ pc'[c] # "done" \/ response'[c].status # "ok"
        /\ tx'[c].started \in {tx[c].started, clock, 0}
    BY <1>1, SilentSteps DEF IInv
  <2>2. StartedInv'
    BY <2>1 DEF AllReplies, StartedInv, IInv, TypeOK
  <2>3. ASSUME NEW d \in Callers \ {c} PROVE ReplyInv(d)'
    BY <2>1, QuietReply DEF AllReplies, IInv, TypeOK
  <2>4. ReplyInv(c)'
    BY <2>1 DEF ReplyInv
  <2> QED BY <2>2, <2>3, <2>4 DEF AllReplies
<1>2. ASSUME NEW c \in Callers, Commit(c) \/ Resolve(c) PROVE AllReplies'
  <2>1. /\ clock' = clock /\ tx'[c].started = 0
        /\ \A d \in Callers \ {c} : KeepsReply(d) /\ tx'[d] = tx[d]
    <3>1. ASSUME NEW reply, Finish(c, reply), UNCHANGED <<clock, request>>
          PROVE  /\ clock' = clock /\ tx'[c].started = 0
                 /\ \A d \in Callers \ {c} : KeepsReply(d) /\ tx'[d] = tx[d]
      BY <3>1 DEF Finish, KeepsReply, IInv, TypeOK, NoTx
    <3> QED BY <1>2, <3>1 DEF Commit, Resolve
  <2>2. StartedInv'
    BY <2>1 DEF AllReplies, StartedInv, IInv, TypeOK
  <2>3. CASE Resolve(c)
    <3>1. UNCHANGED tables
      BY <2>3 DEF Resolve
    <3>2. ASSUME NEW d \in Callers \ {c} PROVE ReplyInv(d)'
      BY <2>1, <3>1, QuietReply DEF AllReplies, IInv, TypeOK
    <3> QED BY <2>2, <2>3, <3>2, ResolveReplies DEF AllReplies
  <2>4. CASE Commit(c)
    <3>1. ASSUME NEW d \in Callers \ {c} PROVE ReplyInv(d)'
      <4>1. CASE tx[c].grantRow = NoRow
        <5>1. UNCHANGED tables
          BY <2>4, <4>1, CommitShape, ConstantTypes
        <5> QED BY <2>1, <5>1, QuietReply DEF AllReplies, IInv, TypeOK
      <4>2. CASE tx[c].grantRow # NoRow
        BY <2>1, <2>4, <4>2, CommittedReply DEF AllReplies
      <4> QED BY <4>1, <4>2
    <3> QED BY <2>2, <2>4, <3>1, CommitReplies DEF AllReplies
  <2> QED BY <1>2, <2>3, <2>4
<1>3. ASSUME UNCHANGED <<tables, locks, pc, request, tx, response>>, clock <= clock'
      PROVE  AllReplies'
  <2>1. StartedInv'
    BY <1>3 DEF AllReplies, StartedInv, IInv, TypeOK, Transactions
  <2>2. ASSUME NEW d \in Callers PROVE ReplyInv(d)'
    BY <1>3, QuietReply DEF AllReplies, IInv, TypeOK, KeepsReply
  <2> QED BY <2>1, <2>2 DEF AllReplies
<1>4. CASE Tick
  BY <1>3, <1>4, TablesAssumption DEF Tick, IInv, TypeOK
<1>5. CASE UNCHANGED vars
  BY <1>3, <1>5 DEF vars, IInv, TypeOK
<1> QED BY <1>1, <1>2, <1>4, <1>5 DEF Next, Proceed

(* Nobody has an answer at the start. *)
LEMMA InitReplies == Init => AllReplies
BY TablesAssumption DEF Init, AllReplies, StartedInv, ReplyInv, NoTx

(* What a put or a revocation reported stands for as long as the scope is   *)
(* at the revision it reported: an exact retry of the put changes nothing.  *)
THEOREM MutationsHold == Spec => []MutationsHoldAtTheirRevision
<1>1. AllReplies => MutationsHoldAtTheirRevision
  BY DEF AllReplies, ReplyInv, MutationHolds, MutationsHoldAtTheirRevision
<1> QED BY <1>1, InitIInv, NextIInv, InitReplies, NextReplies, PTL DEF Spec

--------------------------------------------------------------------------------
(* The refinement.  GrantTransactions implements EntitlementService: the   *)
(* empty tables are its initial state, and every step is one of its steps  *)
(* or a stutter.                                                           *)

(* The service's initial state. *)
LEMMA InitMaps == Init => Service!Init
<1> SUFFICES ASSUME Init PROVE Service!Init
  OBVIOUS
<1>1. Policy = [s \in Scopes |-> 0]
  BY DEF Init, Policy, Rev
<1>2. Phase = [c \in Callers |-> "idle"]
  BY DEF Init, Phase, PhaseOf, Awaits
<1>3. Opened = [c \in Callers |-> 0]
  BY DEF Init, Opened, PhaseOf, Awaits
<1>4. response = [c \in Callers |-> Service!Blank]
  BY DEF Init, NoReply, Service!Blank
<1> QED BY <1>1, <1>2, <1>3, <1>4 DEF Init, Service!Init

(* What the service sees of a caller's step from one stage to the next. *)
LEMMA StageMaps ==
  ASSUME TypeOK, NEW c \in Callers, pc' = [pc EXCEPT ![c] = pc'[c]],
         \A d \in Callers \ {c} : tx'[d].started = tx[d].started
  PROVE  /\ Phase' = [Phase EXCEPT ![c] = PhaseOf(pc'[c])]
         /\ Opened' = [Opened EXCEPT ![c] = IF PhaseOf(pc'[c]) = "open"
                                            THEN tx'[c].started ELSE 0]
<1>1. \A d \in Callers \ {c} : pc'[d] = pc[d]
  BY DEF TypeOK
<1>2. Phase' = [d \in Callers |-> PhaseOf(pc'[d])]
  BY DEF Phase, PhaseOf
<1>3. Opened' = [d \in Callers |-> IF PhaseOf(pc'[d]) = "open" THEN tx'[d].started ELSE 0]
  BY DEF Opened, PhaseOf
<1>4. Phase = [d \in Callers |-> PhaseOf(pc[d])]
  BY DEF Phase
<1>5. Opened = [d \in Callers |-> IF PhaseOf(pc[d]) = "open" THEN tx[d].started ELSE 0]
  BY DEF Opened
<1>6. Phase' = [Phase EXCEPT ![c] = PhaseOf(pc'[c])]
  BY <1>1, <1>2, <1>4
<1>7. Opened' = [Opened EXCEPT ![c] = IF PhaseOf(pc'[c]) = "open" THEN tx'[c].started ELSE 0]
  BY <1>1, <1>3, <1>5
<1> QED BY <1>6, <1>7

(* An await inside a transaction that changes neither tables nor replies is *)
(* nothing the service sees.                                                *)
LEMMA StutterMaps ==
  ASSUME TypeOK, NEW c \in Callers, pc' = [pc EXCEPT ![c] = pc'[c]],
         PhaseOf(pc[c]) = "open", PhaseOf(pc'[c]) = "open",
         \A d \in Callers : tx'[d].started = tx[d].started,
         UNCHANGED <<clock, tables, request, response>>
  PROVE  UNCHANGED Service!vars
<1>1. Phase' = Phase
  <2>1. Phase[c] = "open" /\ Phase = [Phase EXCEPT ![c] = "open"]
    BY DEF Phase
  <2> QED BY <2>1, StageMaps
<1>2. Opened' = Opened
  <2>1. Opened = [Opened EXCEPT ![c] = tx[c].started]
    BY DEF Opened
  <2> QED BY <2>1, StageMaps
<1>3. Policy' = Policy
  BY DEF Policy, Rev, tables
<1> QED BY <1>1, <1>2, <1>3 DEF Service!vars, tables

(* A call that ends: its answer, and the time it was opened at forgotten. *)
LEMMA AnswerMaps ==
  ASSUME TypeOK, NEW c \in Callers, NEW reply \in Responses,
         pc' = [pc EXCEPT ![c] = "done"],
         \A d \in Callers \ {c} : tx'[d].started = tx[d].started,
         response' = [response EXCEPT ![c] = reply],
         UNCHANGED <<clock, request>>
  PROVE  Service!Answer(c, reply)
<1>1. pc'[c] = "done" /\ PhaseOf("done") = "done"
  BY DEF TypeOK, PhaseOf, Awaits
<1>2. Phase' = [Phase EXCEPT ![c] = "done"] /\ Opened' = [Opened EXCEPT ![c] = 0]
  BY <1>1, StageMaps
<1> QED BY <1>2 DEF Service!Answer

--------------------------------------------------------------------------------
(* Action by action.                                                        *)

(* A request that enters its handler is asked, or refused on the spot. *)
LEMMA AdmitMaps ==
  ASSUME TypeOK, NEW c \in Callers, NEW q \in Requests,
         NEW authorized \in BOOLEAN, NEW valid \in BOOLEAN,
         Admit(c, q, authorized, valid)
  PROVE  Service!Ask(c) \/ Service!Refuse(c)
<1>1. /\ pc[c] = "idle" /\ Phase[c] = "idle"
      /\ UNCHANGED <<clock, Policy, grants>>
  BY DEF Admit, Phase, PhaseOf, Awaits, Policy, Rev, tables
<1>2. CASE authorized /\ valid
  <2>1. pc' = [pc EXCEPT ![c] = "begin"] /\ pc'[c] = "begin" /\ PhaseOf("begin") = "asked"
    BY <1>2 DEF Admit, Goto, TypeOK, PhaseOf
  <2>2. Phase' = [Phase EXCEPT ![c] = "asked"] /\ Opened' = [Opened EXCEPT ![c] = 0]
    BY <2>1, StageMaps DEF Admit
  <2>3. Opened[c] = 0
    BY <1>1 DEF Opened, PhaseOf, Awaits
  <2>4. Opened' = Opened
    BY <2>2, <2>3 DEF Opened
  <2>5. request' = [request EXCEPT ![c] = q] /\ response' = response
    BY <1>2 DEF Admit
  <2> QED BY <1>1, <2>2, <2>4, <2>5 DEF Service!Ask
<1>3. CASE ~(authorized /\ valid)
  <2> DEFINE status == IF authorized THEN "invalid" ELSE "forbidden"
  <2>1. /\ pc' = [pc EXCEPT ![c] = "done"]
        /\ response' = [response EXCEPT ![c] = Refusal(status)]
        /\ UNCHANGED <<request, tx>>
    BY <1>3 DEF Admit, Goto
  <2>2. Refusal(status) \in Responses
    BY ConstantTypes DEF Statuses
  <2>3. Service!Answer(c, Refusal(status))
    BY <1>1, <2>1, <2>2, AnswerMaps
  <2>4. Refusal(status) = Service!Refused(status)
    BY DEF Refusal, NoReply, Service!Refused, Service!Blank
  <2> QED BY <1>1, <2>3, <2>4 DEF Service!Refuse
<1> QED BY <1>2, <1>3

(* Making a call. *)
LEMMA EnterMaps ==
  ASSUME TypeOK, NEW c \in Callers,
         PutGrant(c) \/ RevokeGrant(c) \/ ResolveEntitlement(c)
  PROVE  Service!Ask(c) \/ Service!Refuse(c)
<1>1. CASE PutGrant(c)
  <2>1. PICK q \in PutRequests, caller \in Instances, wellFormed \in BOOLEAN,
             skew \in ClockSkews :
           Admit(c, q, caller \in AdminCallers, wellFormed /\ ValidPut(q, clock + skew))
    BY <1>1 DEF PutGrant
  <2> DEFINE valid == wellFormed /\ ValidPut(q, clock + skew)
  <2>2. q \in Requests /\ (caller \in AdminCallers) \in BOOLEAN
    BY DEF Requests
  <2>3. valid \in BOOLEAN
    BY DEF ValidPut
  <2> HIDE DEF valid
  <2>4. Admit(c, q, caller \in AdminCallers, valid)
    BY <2>1 DEF valid
  <2> QED BY <2>2, <2>3, <2>4, AdmitMaps
<1>2. CASE RevokeGrant(c)
  <2>1. PICK g \in Stored \cup {UnknownId}, caller \in Instances, wellFormed \in BOOLEAN :
           Admit(c, [op |-> "revoke", id |-> g], caller \in AdminCallers, wellFormed)
    BY <1>2 DEF RevokeGrant
  <2>2. [op |-> "revoke", id |-> g] \in Requests /\ (caller \in AdminCallers) \in BOOLEAN
    BY DEF Requests, RevokeRequests, Stored
  <2> QED BY <2>1, <2>2, AdmitMaps
<1>3. CASE ResolveEntitlement(c)
  <2>1. PICK q \in ResolveRequests, caller \in Instances, wellFormed \in BOOLEAN :
           Admit(c, q, caller \in ResolveCallers, wellFormed)
    BY <1>3 DEF ResolveEntitlement
  <2>2. q \in Requests /\ (caller \in ResolveCallers) \in BOOLEAN
    BY DEF Requests
  <2> QED BY <2>1, <2>2, AdmitMaps
<1> QED BY <1>1, <1>2, <1>3

(* A transaction that begins fixes the instant the call judges expiry at. *)
LEMMA BeginMaps ==
  ASSUME IInv, NEW c \in Callers, Begin(c)
  PROVE  Service!Open(c)
<1>1. /\ Phase[c] = "asked"
      /\ UNCHANGED <<clock, Policy, grants, request, response>>
  BY DEF Begin, Phase, PhaseOf, Awaits, Policy, Rev, tables
<1>2. request[c].op \in {"put", "revoke", "resolve"}
  BY DEF Begin, IInv, RequestInv, Awaits, Requests, PutRequests, RevokeRequests, ResolveRequests
<1>3. /\ pc'[c] \in {"ensure_scope", "locate", "read"}
      /\ pc' = [pc EXCEPT ![c] = pc'[c]]
  BY <1>2 DEF Begin, Goto, IInv, TypeOK
<1>4. PhaseOf(pc'[c]) = "open"
  BY <1>3 DEF PhaseOf, Awaits
<1>5. /\ tx'[c].started = clock
      /\ \A d \in Callers \ {c} : tx'[d].started = tx[d].started
  BY DEF Begin, IInv, TypeOK, Transactions
<1>6. Phase' = [Phase EXCEPT ![c] = "open"] /\ Opened' = [Opened EXCEPT ![c] = clock]
  BY <1>3, <1>4, <1>5, StageMaps DEF IInv
<1> QED BY <1>1, <1>6 DEF Service!Open

(* An error before the commit: the service did nothing. *)
LEMMA AbandonMaps ==
  ASSUME TypeOK, NEW c \in Callers, pc[c] \in Awaits,
         Finish(c, Refusal("failure")), UNCHANGED <<clock, tables, request>>
  PROVE  Service!Abandon(c)
<1>1. Phase[c] \in {"asked", "open"} /\ UNCHANGED <<Policy, grants>>
  BY DEF Phase, PhaseOf, Policy, Rev, tables
<1>2. Refusal("failure") \in Responses
  BY ConstantTypes DEF Statuses
<1>3. Refusal("failure") = Service!Refused("failure")
  BY DEF Refusal, NoReply, Service!Refused, Service!Blank
<1>4. \A d \in Callers \ {c} : tx'[d].started = tx[d].started
  BY DEF Finish, TypeOK
<1>5. Service!Answer(c, Refusal("failure"))
  BY <1>2, <1>4, AnswerMaps DEF Finish
<1> QED BY <1>1, <1>3, <1>5 DEF Service!Abandon

(* A caller that takes its reply and may call again. *)
LEMMA ReturnMaps ==
  ASSUME TypeOK, NEW c \in Callers, Return(c)
  PROVE  Service!Return(c)
<1>1. Phase[c] = "done" /\ UNCHANGED <<clock, Policy, grants>>
  BY DEF Return, Phase, PhaseOf, Awaits, Policy, Rev, tables
<1>2. pc' = [pc EXCEPT ![c] = "idle"] /\ pc'[c] = "idle" /\ PhaseOf("idle") = "idle"
  BY DEF Return, Goto, TypeOK, PhaseOf, Awaits
<1>3. Phase' = [Phase EXCEPT ![c] = "idle"] /\ Opened' = [Opened EXCEPT ![c] = 0]
  BY <1>2, StageMaps DEF Return
<1>4. Opened[c] = 0
  BY <1>1 DEF Opened, Phase
<1>5. Opened' = Opened
  BY <1>3, <1>4 DEF Opened
<1> QED BY <1>1, <1>3, <1>5 DEF Return, NoReply, Service!Return, Service!Blank

(* The statements that neither end a transaction nor touch the tables. *)
LEMMA StatementMaps ==
  ASSUME IInv, NEW c \in Callers,
         \/ EnsureScope(c) \/ LockScope(c) \/ LockGrant(c)
         \/ UpdateGrant(c) \/ InsertGrant(c) \/ MarkRevoked(c)
  PROVE  UNCHANGED Service!vars
<1>1. UNCHANGED <<clock, tables, request, response>>
  BY DEF EnsureScope, LockScope, LockGrant, UpdateGrant, InsertGrant, MarkRevoked
<1>2. /\ pc[c] \in Awaits \ {"begin"}
      /\ pc' = [pc EXCEPT ![c] = pc'[c]] /\ pc'[c] \in Awaits \ {"begin"}
  BY DEF EnsureScope, LockScope, LockGrant, UpdateGrant, InsertGrant, MarkRevoked,
         Goto, Awaits, IInv, TypeOK
<1>3. \A d \in Callers : tx'[d].started = tx[d].started
  <2>1. CASE EnsureScope(c)
    BY <2>1 DEF EnsureScope, IInv, TypeOK, Transactions
  <2>2. CASE LockScope(c)
    BY <2>2 DEF LockScope, IInv, TypeOK, Transactions
  <2>3. CASE LockGrant(c)
    <3>1. tx' = tx \/ \E g \in GrantIds : tx' = [tx EXCEPT ![c].id = g]
      BY <2>3 DEF LockGrant, RowsOf, Stored
    <3>2. CASE tx' = tx
      BY <3>2
    <3>3. ASSUME NEW g \in GrantIds, tx' = [tx EXCEPT ![c].id = g]
          PROVE  \A d \in Callers : tx'[d].started = tx[d].started
      <4>1. tx \in [Callers -> Transactions]
        BY DEF IInv, TypeOK
      <4> QED BY <3>3, <4>1 DEF Transactions
    <3> QED BY <3>1, <3>2, <3>3
  <2>4. CASE UpdateGrant(c)
    BY <2>4 DEF UpdateGrant, IInv, TypeOK, Transactions
  <2>5. CASE InsertGrant(c)
    <3> DEFINE q   == request[c]
               row == [scope |-> q.scope, key |-> q.key, limit |-> q.limit,
                       expires_at |-> PgTimestamp(q.expires_at), revoked_at |-> NULL]
    <3>1. PICK g \in GrantIds : tx' = [tx EXCEPT ![c].id = g, ![c].grantRow = row]
      BY <2>5 DEF InsertGrant
    <3> HIDE DEF row
    <3>2. tx \in [Callers -> Transactions]
      BY DEF IInv, TypeOK
    <3> QED BY <3>1, <3>2 DEF Transactions
  <2>6. CASE MarkRevoked(c)
    <3> DEFINE row == [grants[tx[c].id] EXCEPT !.revoked_at = tx[c].started]
    <3>1. tx' = tx \/ tx' = [tx EXCEPT ![c].grantRow = row]
      BY <2>6 DEF MarkRevoked
    <3> HIDE DEF row
    <3>2. tx \in [Callers -> Transactions]
      BY DEF IInv, TypeOK
    <3>3. CASE tx' = tx
      BY <3>3
    <3>4. ASSUME tx' = [tx EXCEPT ![c].grantRow = row]
          PROVE  \A d \in Callers : tx'[d].started = tx[d].started
      BY <3>2, <3>4 DEF Transactions
    <3> QED BY <3>1, <3>3, <3>4
  <2> QED BY <2>1, <2>2, <2>3, <2>4, <2>5, <2>6
<1> QED BY <1>1, <1>2, <1>3, StutterMaps DEF IInv, PhaseOf

(* The lookup of a revocation finds the grant, or ends the call. *)
LEMMA LocateMaps ==
  ASSUME IInv, NEW c \in Callers, Locate(c)
  PROVE  Service!RevokeNothing(c) \/ UNCHANGED Service!vars
<1>1. CASE request[c].id \in Stored
  <2>1. /\ UNCHANGED <<clock, tables, request, response>>
        /\ pc[c] \in Awaits \ {"begin"}
        /\ pc' = [pc EXCEPT ![c] = pc'[c]] /\ pc'[c] \in Awaits \ {"begin"}
        /\ \A d \in Callers : tx'[d].started = tx[d].started
    BY <1>1 DEF Locate, Goto, Awaits, IInv, TypeOK, Transactions
  <2> QED BY <2>1, StutterMaps DEF IInv, PhaseOf
<1>2. CASE request[c].id \notin Stored
  <2>1. /\ Finish(c, Refusal("not_found"))
        /\ UNCHANGED <<clock, Policy, grants, request>>
    BY <1>2 DEF Locate, Policy, Rev, tables
  <2>2. Phase[c] = "open" /\ request[c].op = "revoke"
    BY DEF Locate, Phase, PhaseOf, Awaits, IInv, RequestInv, RevokeOnly
  <2>3. Refusal("not_found") \in Responses
    BY ConstantTypes DEF Statuses
  <2>4. \A d \in Callers \ {c} : tx'[d].started = tx[d].started
    BY <2>1 DEF Finish, IInv, TypeOK
  <2>5. Service!Answer(c, Refusal("not_found"))
    BY <2>1, <2>3, <2>4, AnswerMaps DEF Finish, IInv
  <2>6. Refusal("not_found") = Service!Refused("not_found")
    BY DEF Refusal, NoReply, Service!Refused, Service!Blank
  <2> QED BY <1>2, <2>1, <2>2, <2>5, <2>6 DEF Service!RevokeNothing, Service!Issued, Stored
<1> QED BY <1>1, <1>2

(* The revision advances in the transaction alone, or the call fails. *)
LEMMA AdvanceMaps ==
  ASSUME IInv, NEW c \in Callers, Advance(c)
  PROVE  Service!Abandon(c) \/ UNCHANGED Service!vars
<1>1. CASE ScopeRow(c, tx[c].scope) < MaxRevision
  <2>1. /\ UNCHANGED <<clock, tables, request, response>>
        /\ pc[c] \in Awaits \ {"begin"}
        /\ pc' = [pc EXCEPT ![c] = pc'[c]] /\ pc'[c] \in Awaits \ {"begin"}
        /\ \A d \in Callers : tx'[d].started = tx[d].started
    BY <1>1 DEF Advance, Goto, Awaits, IInv, TypeOK, Transactions
  <2> QED BY <2>1, StutterMaps DEF IInv, PhaseOf
<1>2. CASE ~(ScopeRow(c, tx[c].scope) < MaxRevision)
  BY <1>2, AbandonMaps DEF Advance, Awaits, IInv
<1> QED BY <1>1, <1>2

--------------------------------------------------------------------------------
(* The two steps that answer from the tables.                               *)

(* A commit is the instant its mutation takes effect at. *)
LEMMA TakeEffectMaps ==
  ASSUME IInv, NEW c \in Callers, Commit(c),
         tx[c].grantRow = NoRow =>
           tx[c].id \in Stored /\ grants[tx[c].id].scope = tx[c].scope
  PROVE  Service!TakeEffect(c, tx[c].id, IF tx[c].grantRow = NoRow
                                         THEN grants[tx[c].id] ELSE tx[c].grantRow)
<1> DEFINE s   == tx[c].scope
           g   == tx[c].id
           row == tx[c].grantRow
           fact == IF row = NoRow THEN grants[g] ELSE row
           next == IF row = NoRow THEN Rev(s) ELSE Rev(s) + 1
           reply == [Service!Blank EXCEPT !.status = "ok", !.scope = s, !.id = g,
                                          !.changed = row # NoRow, !.revision = next]
<1>1. /\ s \in Scopes /\ g \in GrantIds /\ fact.scope = s /\ (row # NoRow <=> fact # grants[g])
      /\ tx[c].revision = Rev(s) /\ (row # NoRow => tx[c].scopeRow = Rev(s) + 1)
  BY ConstantTypes DEF Commit, IInv, ScopeInv, GrantInv, Engaged, Locked, Stored
<1>2. /\ MutationReply(c) \in Responses
      /\ \/ Finish(c, MutationReply(c)) \/ Finish(c, Refusal("failure"))
      /\ UNCHANGED <<clock, request>>
      /\ row = NoRow => UNCHANGED tables
      /\ row # NoRow => grants' = [grants EXCEPT ![g] = row]
  <2>1. MutationReply(c) \in Responses
    BY CommitShape
  <2>2. /\ \/ Finish(c, MutationReply(c)) \/ Finish(c, Refusal("failure"))
        /\ UNCHANGED <<clock, request>>
    BY DEF Commit
  <2>3. row = NoRow => UNCHANGED tables
    BY <1>1, ConstantTypes, CommitShape
  <2>4. row # NoRow => grants' = [grants EXCEPT ![g] = row]
    BY CommitShape
  <2> QED BY <2>1, <2>2, <2>3, <2>4
<1>3. grants' = [grants EXCEPT ![g] = fact]
  BY <1>1, <1>2 DEF tables, IInv, TypeOK
<1>4. Policy' = [Policy EXCEPT ![s] = next]
  <2>1. \A u \in Scopes : Rev(u)' = IF u = s THEN next ELSE Rev(u)
    <3>1. CASE row = NoRow
      BY <1>2, <3>1 DEF Rev, tables
    <3>2. CASE row # NoRow
      BY <1>1, <3>2, CommitEffect
    <3> QED BY <3>1, <3>2
  <2>2. Policy' = [u \in Scopes |-> Rev(u)']
    BY DEF Policy, Rev
  <2>3. Policy = [u \in Scopes |-> Rev(u)]
    BY DEF Policy
  <2> QED BY <1>1, <2>1, <2>2, <2>3
<1>5. MutationReply(c) = reply
  BY <1>1 DEF MutationReply, NoReply, Service!Blank, Changed
<1>6. \A d \in Callers \ {c} : tx'[d].started = tx[d].started
  BY <1>2 DEF Finish, IInv, TypeOK
<1>7. Service!Answer(c, reply) \/ Service!Answer(c, Service!Refused("failure"))
  <2>1. Refusal("failure") = Service!Refused("failure") /\ Refusal("failure") \in Responses
    BY ConstantTypes DEF Refusal, NoReply, Service!Refused, Service!Blank, Statuses
  <2>2. CASE Finish(c, MutationReply(c))
    BY <1>2, <1>5, <1>6, <2>2, AnswerMaps DEF Finish, IInv
  <2>3. CASE Finish(c, Refusal("failure"))
    BY <1>2, <1>6, <2>1, <2>3, AnswerMaps DEF Finish, IInv
  <2> QED BY <1>2, <2>2, <2>3
<1>8. Policy[s] = Rev(s)
  BY <1>1 DEF Policy
<1> QED BY <1>1, <1>3, <1>4, <1>7, <1>8 DEF Service!TakeEffect

(* The table the service sees is the committed one. *)
LEMMA IssuedMaps ==
  /\ Service!Issued = Stored
  /\ \A s \in Scopes, k \in Keys : Service!Holding(s, k) = RowsOf(s, k)
BY DEF Service!Issued, Stored, Service!Holding, RowsOf

(* A commit of put_grant writes what was asked for, to the key's own row or *)
(* to a fresh one; a commit of revoke_grant ends the grant it names.        *)
LEMMA CommitMaps ==
  ASSUME IInv, NEW c \in Callers, Commit(c)
  PROVE  Service!Put(c) \/ Service!Revoke(c)
<1> DEFINE q    == request[c]
           g    == tx[c].id
           row  == tx[c].grantRow
           fact == IF row = NoRow THEN grants[g] ELSE row
<1>1. /\ q \in Requests /\ q.op \in {"put", "revoke"}
      /\ Phase[c] = "open" /\ Opened[c] = tx[c].started
  BY DEF Commit, IInv, RequestInv, Awaits, Engaged, Locked, Phase, Opened, PhaseOf
<1>2. CASE q.op = "put"
  <2>1. q.scope \in Scopes /\ q.key \in Keys
    BY <1>1, <1>2 DEF Requests, PutRequests, RevokeRequests, ResolveRequests
  <2>2. fact = Asked(q) /\ g \in GrantIds /\ tx[c].scope = q.scope
    BY <1>2 DEF Commit, IInv, TargetInv, GrantInv, ScopeInv, Engaged, Locked
  <2>3. row = NoRow => g \in RowsOf(q.scope, q.key)
    <3>1. row = NoRow => grants[g] = Asked(q)
      BY <2>2
    <3>2. Asked(q) # NoRow
      <4>1. q.limit \in StoredLimits /\ q.expires_at \in Instants
        BY <1>1, <1>2, TablesAssumption
           DEF IInv, RequestInv, Awaits, Commit, Requests, PutRequests, RevokeRequests,
               ResolveRequests, StoredLimits, Instants
      <4>2. Asked(q) \in Grant
        BY <2>1, <4>1, ConstantTypes DEF Asked, Grant
      <4> QED BY <4>2, ConstantTypes
    <3>3. Asked(q).scope = q.scope /\ Asked(q).key = q.key
      BY DEF Asked
    <3> QED BY <2>2, <3>1, <3>2, <3>3 DEF RowsOf, Stored
  <2>4. row # NoRow => IF RowsOf(q.scope, q.key) = {} THEN g \in GrantIds \ Stored
                       ELSE g \in RowsOf(q.scope, q.key)
    <3>1. row # NoRow => IF g \in Stored THEN g \in RowsOf(q.scope, q.key)
                         ELSE RowsOf(q.scope, q.key) = {}
      BY <2>2 DEF IInv, GrantInv, RowsOf, Asked
    <3>2. row # NoRow /\ g \in Stored => RowsOf(q.scope, q.key) # {}
      BY <3>1
    <3> QED BY <2>2, <3>1, <3>2
  <2>5. g \in IF Service!Holding(q.scope, q.key) = {} THEN GrantIds \ Service!Issued
             ELSE Service!Holding(q.scope, q.key)
    <3>1. Service!Holding(q.scope, q.key) = RowsOf(q.scope, q.key) /\ Service!Issued = Stored
      BY <2>1, IssuedMaps
    <3> HIDE DEF q, g, row
    <3> QED BY <2>3, <2>4, <3>1
  <2>6. Service!TakeEffect(c, g, fact)
    BY <2>2, <2>3, TakeEffectMaps DEF RowsOf
  <2> QED BY <1>1, <1>2, <2>2, <2>5, <2>6 DEF Service!Put, Asked
<1>3. CASE q.op = "revoke"
  <2>1. g = q.id /\ g \in Stored /\ grants[g].scope = tx[c].scope
    BY <1>3 DEF Commit, IInv, ScopeInv, Engaged, Locked
  <2>2. fact = IF grants[g].revoked_at # NULL THEN grants[g]
               ELSE [grants[g] EXCEPT !.revoked_at = Opened[c]]
    BY <1>1, <1>3 DEF Commit, IInv, TargetInv
  <2>3. Service!TakeEffect(c, g, fact)
    BY <2>1, TakeEffectMaps
  <2> QED BY <1>1, <1>3, <2>1, <2>2, <2>3, IssuedMaps DEF Service!Revoke
<1> QED BY <1>1, <1>2, <1>3

(* A resolve reads the facts and the revision of one instant.  No grant is  *)
(* stored in a scope without a row, which reads as revision 0.              *)
LEMMA ResolveMaps ==
  ASSUME IInv, NEW c \in Callers, Resolve(c)
  PROVE  Service!Query(c)
<1> DEFINE q    == request[c]
           held == {g \in Service!Holding(q.scope, q.key) : Service!Active(grants[g], Opened[c])}
           base == [Service!Blank EXCEPT !.status = "ok", !.scope = q.scope,
                                         !.revision = Policy[q.scope]]
<1>1. /\ q \in Requests /\ q.op = "resolve"
      /\ Phase[c] = "open" /\ Opened[c] = tx[c].started
      /\ UNCHANGED <<clock, Policy, grants, request>>
  BY DEF Resolve, IInv, RequestInv, Awaits, Phase, Opened, PhaseOf, Policy, Rev, tables
<1>2. q.scope \in Scopes /\ q.key \in Keys /\ Policy[q.scope] = Rev(q.scope) /\ Rev(q.scope) \in Nat
  <2>1. q.scope \in Scopes /\ q.key \in Keys
    BY <1>1 DEF Requests, PutRequests, RevokeRequests, ResolveRequests
  <2> QED BY <2>1 DEF Policy, Rev, IInv, TypeOK
<1>3. held = {g \in RowsOf(q.scope, q.key) : Active(grants[g], tx[c].started)}
  BY <1>1, <1>2, IssuedMaps DEF Service!Active, Active
<1>4. revision[q.scope] = NoRow => held = {} /\ Policy[q.scope] = 0
  BY <1>2, <1>3 DEF IInv, NoEmptyScope, RowsOf, Rev
<1>5. revision[q.scope] # NoRow => revision[q.scope] = Policy[q.scope]
  BY <1>2 DEF Rev
<1>6. ASSUME NEW reply \in Responses, Finish(c, reply) PROVE Service!Answer(c, reply)
  <2>1. \A d \in Callers \ {c} : tx'[d].started = tx[d].started
    BY <1>6 DEF Finish, IInv, TypeOK
  <2> QED BY <1>1, <1>6, <2>1, AnswerMaps DEF Finish, IInv
<1>7. base \in Responses
  BY <1>2, ConstantTypes DEF Responses, Statuses, Service!Blank
<1>8. CASE held = {}
  <2>1. Finish(c, base)
    <3> DEFINE reply == [NoReply EXCEPT !.status = "ok", !.scope = q.scope]
    <3>1. CASE revision[q.scope] = NoRow /\ Finish(c, reply)
      <4>1. Policy[q.scope] = 0
        BY <1>4, <3>1
      <4>2. Service!Blank = NoReply
        BY DEF NoReply, Service!Blank
      <4>3. reply = [reply EXCEPT !.revision = 0]
        <5>1. reply \in Responses /\ reply.revision = 0
          BY <1>2, ConstantTypes DEF NoReply, Responses, Statuses
        <5> QED BY <5>1 DEF Responses
      <4>4. base = [reply EXCEPT !.revision = 0]
        BY <4>1, <4>2
      <4>5. base = reply
        BY <4>3, <4>4
      <4> QED BY <3>1, <4>5
    <3>2. CASE /\ revision[q.scope] # NoRow
               /\ Finish(c, [reply EXCEPT !.revision = revision[q.scope]])
      <4>1. base = [reply EXCEPT !.revision = revision[q.scope]]
        BY <1>5, <3>2 DEF NoReply, Service!Blank
      <4> QED BY <3>2, <4>1
    <3> HIDE DEF held, base, reply
    <3> QED BY <1>3, <1>8, <3>1, <3>2 DEF Resolve, reply
  <2> QED BY <1>1, <1>6, <1>7, <1>8, <2>1 DEF Service!Query
<1>9. CASE held # {}
  <2>1. PICK g \in held :
          Finish(c, [base EXCEPT !.id = g, !.granted = TRUE, !.limit = grants[g].limit])
    BY <1>2, <1>3, <1>4, <1>5, <1>9 DEF Resolve, NoReply, Service!Blank
  <2>2. g \in GrantIds /\ grants[g].limit \in StoredLimits
    BY <1>3 DEF RowsOf, Stored, IInv, TypeOK, Grant
  <2>3. [base EXCEPT !.id = g, !.granted = TRUE, !.limit = grants[g].limit] \in Responses
    BY <1>7, <2>2 DEF Responses
  <2>4. Service!Answer(c, [base EXCEPT !.id = g, !.granted = TRUE, !.limit = grants[g].limit])
    BY <1>6, <2>1, <2>3
  <2> QED BY <1>1, <2>4 DEF Service!Query
<1> QED BY <1>8, <1>9

--------------------------------------------------------------------------------
(* Every step is a step of the service, or nothing it sees. *)
LEMMA NextMaps ==
  ASSUME IInv, [Next]_vars
  PROVE  [Service!Next]_(Service!vars)
<1>1. CASE UNCHANGED vars
  BY <1>1 DEF vars, tables, Service!vars, Policy, Rev, Phase, PhaseOf, Opened
<1>2. CASE Tick
  <2>1. UNCHANGED <<Policy, Phase, Opened>>
    BY <1>2 DEF Tick, tables, Policy, Rev, Phase, PhaseOf, Opened
  <2> QED BY <1>2, <2>1 DEF Tick, tables, Service!Tick, Service!Next
<1>3. ASSUME NEW c \in Callers, PutGrant(c) \/ RevokeGrant(c) \/ ResolveEntitlement(c)
      PROVE  Service!Next
  BY <1>3, EnterMaps DEF IInv, Service!Next
<1>4. ASSUME NEW c \in Callers, Begin(c) \/ Fail(c) \/ Return(c)
      PROVE  Service!Next
  BY <1>4, BeginMaps, AbandonMaps, ReturnMaps DEF IInv, Fail, Service!Next
<1>5. ASSUME NEW c \in Callers, Commit(c) \/ Resolve(c)
      PROVE  Service!Next
  BY <1>5, CommitMaps, ResolveMaps DEF Service!Next
<1>6. ASSUME NEW c \in Callers, Locate(c) \/ Advance(c)
      PROVE  Service!Next \/ UNCHANGED Service!vars
  BY <1>6, LocateMaps, AdvanceMaps DEF Service!Next
<1> QED BY <1>1, <1>2, <1>3, <1>4, <1>5, <1>6, StatementMaps DEF Next, Proceed

(* What the callers of the transactions see is what EntitlementService      *)
(* promises: each call takes effect at one instant between its start and    *)
(* its reply, or not at all, whatever the handlers interleave into.         *)
THEOREM Implements == Spec => ImplementsService
<1>1. IInv /\ [Next]_vars => [Service!Next]_(Service!vars)
  BY NextMaps
<1> QED BY <1>1, InitMaps, Inductive, PTL DEF Spec, ImplementsService, Service!Spec
================================================================================
