---------------------------- MODULE GrantTimesProofs ----------------------------
(***************************************************************************)
(* The times of a revoked grant agree, and facts stand until they expire,  *)
(* for any callers and bounds.                                             *)
(***************************************************************************)
EXTENDS GrantTimes, GrantTransactionsProofs

TimedInv == TimesInv /\ RevocationFollowsCreation

(* The times are beside the transactions: a step that writes them is a step *)
(* of GrantTransactions.                                                    *)
LEMMA TimedStepIsStep == [TimedNext]_timed => [Next]_vars
  BY DEF TimedNext, TimedProceed, TimedCommit, TimedResolve, TimedReturn, Next, Proceed, timed

LEMMA InitTimes == TimedInit => TimedInv
<1> SUFFICES ASSUME TimedInit PROVE TimedInv
  OBVIOUS
<1>1. \A c \in Callers : CallTimesInv(c)
  BY DEF TimedInit, Init, CallTimesInv, Revokes, Awaits, NoTx
<1>2. Stored = {}
  BY DEF TimedInit, Init, Stored
<1> QED
  BY <1>1, <1>2 DEF TimedInv, TimesInv, TimedInit, RevocationFollowsCreation

(* A step that leaves the tables and the times keeps the invariant if it    *)
(* keeps that of each call.                                                 *)
LEMMA QuietTimes ==
  ASSUME TimedInv, UNCHANGED <<clock, grants, created, updated>>,
         \A c \in Callers : CallTimesInv(c)'
  PROVE  TimedInv'
<1>1. Stored' = Stored
  BY DEF Stored
<1> QED
  BY <1>1 DEF TimedInv, TimesInv, RevocationFollowsCreation

(* A call a step leaves alone keeps its own part. *)
LEMMA QuietCall ==
  ASSUME NEW d \in Callers, CallTimesInv(d), UNCHANGED <<clock, grants, created>>,
         pc'[d] = pc[d], request'[d] = request[d], tx'[d] = tx[d]
  PROVE  CallTimesInv(d)'
<1>1. Stored' = Stored
  BY DEF Stored
<1> QED
  BY <1>1 DEF CallTimesInv, Revokes

(* So does a call that goes on from await to await, or ends. *)
LEMMA OnwardCall ==
  ASSUME IInv, NEW c \in Callers, CallTimesInv(c), clock \in Nat,
         UNCHANGED <<clock, grants, created, request>>,
         \/ /\ pc[c] \in Awaits \ {"begin"}
            /\ tx'[c].started = tx[c].started
         \/ pc'[c] \notin Awaits /\ tx'[c] = NoTx
  PROVE  CallTimesInv(c)'
<1>1. Stored' = Stored
  BY DEF Stored
<1>2. CASE pc[c] \in Awaits \ {"begin"} /\ tx'[c].started = tx[c].started
  BY <1>1, <1>2 DEF CallTimesInv, Revokes
<1>3. CASE pc'[c] \notin Awaits /\ tx'[c] = NoTx
  BY <1>3 DEF CallTimesInv, Revokes, NoTx
<1> QED
  BY <1>2, <1>3

(* Entering: a grant is revoked by the id it was given when it was stored.  *)
LEMMA AdmitTimes ==
  ASSUME IInv, TimedInv, NEW c \in Callers, NEW q, NEW authorized, NEW valid,
         Admit(c, q, authorized, valid),
         q.op = "revoke" => q.id \in Stored \cup {UnknownId},
         UNCHANGED <<created, updated>>
  PROVE  TimedInv'
<1>1. UNCHANGED <<clock, grants, created, updated, tx>> /\ Stored' = Stored
  BY DEF Admit, tables, Stored
<1>2. /\ \/ pc'[c] = "done"
         \/ pc'[c] = "begin" /\ request'[c] = q
      /\ \A d \in Callers \ {c} : pc'[d] = pc[d] /\ request'[d] = request[d]
  BY DEF Admit, Goto, IInv, TypeOK
<1>3. CallTimesInv(c)'
  BY <1>1, <1>2 DEF CallTimesInv, Revokes, Awaits, TimedInv, TimesInv
<1>4. ASSUME NEW d \in Callers \ {c} PROVE CallTimesInv(d)'
  BY <1>1, <1>2, QuietCall DEF TimedInv, TimesInv
<1> QED
  BY <1>1, <1>3, <1>4, QuietTimes

LEMMA EnterTimes ==
  ASSUME IInv, TimedInv, NEW c \in Callers,
         PutGrant(c) \/ RevokeGrant(c) \/ ResolveEntitlement(c),
         UNCHANGED <<created, updated>>
  PROVE  TimedInv'
<1>1. CASE PutGrant(c)
  <2>1. PICK q \in PutRequests, caller \in Instances, wellFormed \in BOOLEAN, skew \in ClockSkews :
          Admit(c, q, caller \in AdminCallers, wellFormed /\ ValidPut(q, clock + skew))
    BY <1>1 DEF PutGrant
  <2>2. q.op # "revoke"
    BY DEF PutRequests
  <2> QED
    BY <2>1, <2>2, AdmitTimes
<1>2. CASE RevokeGrant(c)
  <2>1. PICK g \in Stored \cup {UnknownId}, caller \in Instances, wellFormed \in BOOLEAN :
          Admit(c, [op |-> "revoke", id |-> g], caller \in AdminCallers, wellFormed)
    BY <1>2 DEF RevokeGrant
  <2> QED
    BY <2>1, AdmitTimes
<1>3. CASE ResolveEntitlement(c)
  <2>1. PICK q \in ResolveRequests, caller \in Instances, wellFormed \in BOOLEAN :
          Admit(c, q, caller \in ResolveCallers, wellFormed)
    BY <1>3 DEF ResolveEntitlement
  <2>2. q.op # "revoke"
    BY DEF ResolveRequests
  <2> QED
    BY <2>1, <2>2, AdmitTimes
<1> QED
  BY <1>1, <1>2, <1>3

(* Begin fixes the time of the transaction: no grant known is younger.      *)
LEMMA BeginTimes ==
  ASSUME IInv, TimedInv, NEW c \in Callers, Begin(c), UNCHANGED <<created, updated>>
  PROVE  TimedInv'
<1>1. UNCHANGED <<clock, grants, created, updated, request>> /\ Stored' = Stored
  BY DEF Begin, tables, Stored
<1>2. tx'[c].started = clock /\ clock \in Nat /\ pc[c] = "begin"
  BY DEF Begin, IInv, TypeOK, Transactions
<1>3. CallTimesInv(c)'
  BY <1>1, <1>2 DEF CallTimesInv, Revokes, TimedInv, TimesInv, Awaits
<1>4. ASSUME NEW d \in Callers \ {c} PROVE CallTimesInv(d)'
  <2>1. pc'[d] = pc[d] /\ tx'[d] = tx[d]
    BY DEF Begin, Goto, IInv, TypeOK
  <2> QED
    BY <1>1, <2>1, QuietCall DEF TimedInv, TimesInv
<1> QED
  BY <1>1, <1>3, <1>4, QuietTimes

(* The statements between Begin and COMMIT, and the ways a call ends.       *)
LEMMA StatementTimes ==
  ASSUME IInv, TimedInv, NEW c \in Callers,
         \/ EnsureScope(c) \/ LockScope(c) \/ LockGrant(c) \/ UpdateGrant(c)
         \/ InsertGrant(c) \/ Locate(c) \/ MarkRevoked(c) \/ Advance(c)
         \/ Resolve(c) \/ Fail(c),
         UNCHANGED <<created, updated>>
  PROVE  TimedInv'
<1>1. UNCHANGED <<clock, grants, created, updated, request>> /\ clock \in Nat
  BY DEF EnsureScope, LockScope, LockGrant, UpdateGrant, InsertGrant, Locate, MarkRevoked,
         Advance, Resolve, Fail, tables, IInv, TypeOK
<1>2. /\ \/ /\ pc[c] \in Awaits \ {"begin"}
            /\ tx'[c].started = tx[c].started
         \/ pc'[c] \notin Awaits /\ tx'[c] = NoTx
      /\ \A d \in Callers \ {c} : pc'[d] = pc[d] /\ tx'[d] = tx[d]
  <2>1. tx \in [Callers -> Transactions] /\ pc \in [Callers -> Stages]
    BY DEF IInv, TypeOK
  <2>2. ASSUME NEW reply, Finish(c, reply)
        PROVE  /\ pc'[c] \notin Awaits /\ tx'[c] = NoTx
               /\ \A d \in Callers \ {c} : pc'[d] = pc[d] /\ tx'[d] = tx[d]
    BY <2>1, <2>2 DEF Finish, Awaits
  <2>3. CASE EnsureScope(c)
    BY <2>1, <2>3 DEF EnsureScope, Goto, Awaits, Transactions
  <2>4. CASE LockScope(c)
    BY <2>1, <2>4 DEF LockScope, Goto, Awaits, Transactions
  <2>5. CASE LockGrant(c)
    BY <2>1, <2>5 DEF LockGrant, Goto, Awaits, Transactions
  <2>6. CASE UpdateGrant(c)
    BY <2>1, <2>6 DEF UpdateGrant, Goto, Awaits, Transactions
  <2>7. CASE InsertGrant(c)
    BY <2>1, <2>7 DEF InsertGrant, Goto, Awaits, Transactions
  <2>8. CASE Locate(c)
    BY <2>1, <2>2, <2>8 DEF Locate, Goto, Awaits, Transactions
  <2>9. CASE MarkRevoked(c)
    BY <2>1, <2>9 DEF MarkRevoked, Goto, Awaits, Transactions
  <2>10. CASE Advance(c)
    BY <2>1, <2>2, <2>10 DEF Advance, Goto, Awaits, Transactions
  <2>11. CASE Resolve(c)
    BY <2>2, <2>11 DEF Resolve
  <2>12. CASE Fail(c)
    BY <2>2, <2>12 DEF Fail
  <2> QED
    BY <2>3, <2>4, <2>5, <2>6, <2>7, <2>8, <2>9, <2>10, <2>11, <2>12
<1>3. CallTimesInv(c)'
  BY <1>1, <1>2, OnwardCall DEF TimedInv, TimesInv
<1>4. ASSUME NEW d \in Callers \ {c} PROVE CallTimesInv(d)'
  BY <1>1, <1>2, QuietCall DEF TimedInv, TimesInv
<1> QED
  BY <1>1, <1>3, <1>4, QuietTimes

LEMMA ReturnTimes ==
  ASSUME IInv, TimedInv, NEW c \in Callers, Return(c), UNCHANGED <<created, updated>>
  PROVE  TimedInv'
<1>1. UNCHANGED <<clock, grants, created, updated, tx>>
  BY DEF Return, tables
<1>2. /\ pc'[c] = "idle"
      /\ \A d \in Callers \ {c} : pc'[d] = pc[d] /\ request'[d] = request[d]
  BY DEF Return, Goto, IInv, TypeOK
<1>3. CallTimesInv(c)'
  BY <1>1, <1>2 DEF CallTimesInv, Revokes, Awaits, TimedInv, TimesInv
<1>4. ASSUME NEW d \in Callers \ {c} PROVE CallTimesInv(d)'
  BY <1>1, <1>2, QuietCall DEF TimedInv, TimesInv
<1> QED
  BY <1>1, <1>3, <1>4, QuietTimes

(* Time only moves on. *)
LEMMA TickTimes ==
  ASSUME IInv, TimedInv, Tick, UNCHANGED <<created, updated>>
  PROVE  TimedInv'
<1>1. clock \in Nat /\ clock' \in Nat /\ clock <= clock'
  BY TablesAssumption DEF Tick, IInv, TypeOK
<1>2. UNCHANGED <<grants, pc, request, tx>> /\ Stored' = Stored
  BY DEF Tick, tables, Stored
<1>3. 0 .. clock \subseteq 0 .. clock'
  BY <1>1
<1>4. \A c \in Callers : CallTimesInv(c)'
  BY <1>2, <1>3 DEF TimedInv, TimesInv, CallTimesInv, Revokes
<1> QED
  BY <1>2, <1>3, <1>4 DEF TimedInv, TimesInv, RevocationFollowsCreation

(* COMMIT publishes a row with the times of its transaction: a revocation's *)
(* own, after a creation its request was asked for later than.              *)
LEMMA CommitTimes ==
  ASSUME IInv, TimedInv, NEW c \in Callers, TimedCommit(c)
  PROVE  TimedInv'
<1> DEFINE g   == tx[c].id
           row == tx[c].grantRow
<1>1. /\ Commit(c) /\ pc[c] = "commit" /\ UNCHANGED <<clock, request>>
      /\ pc'[c] = "done" /\ tx'[c] = NoTx
      /\ \A d \in Callers \ {c} : pc'[d] = pc[d] /\ tx'[d] = tx[d]
  BY DEF TimedCommit, Commit, Finish, IInv, TypeOK
<1>2. clock \in Nat /\ tx[c].started \in 0 .. clock
  BY DEF IInv, TypeOK, TimedInv, TimesInv, CallTimesInv
<1>3. CASE row = NoRow
  <2>1. UNCHANGED <<grants, created, updated>>
    BY <1>1, <1>3 DEF TimedCommit, Commit, Changed, times
  <2>2. CallTimesInv(c)'
    BY <1>1, <1>2, <2>1, OnwardCall DEF TimedInv, TimesInv, Awaits
  <2>3. ASSUME NEW d \in Callers \ {c} PROVE CallTimesInv(d)'
    BY <1>1, <2>1, QuietCall DEF TimedInv, TimesInv
  <2> QED
    BY <1>1, <2>1, <2>2, <2>3, QuietTimes
<1>4. CASE row # NoRow
  <2>1. /\ g \in GrantIds /\ row \in Grant
        /\ grants'[g] = row /\ \A h \in GrantIds \ {g} : grants'[h] = grants[h]
    BY <1>1, <1>4, CommitEffect
  <2>2. Stored' = Stored \cup {g}
    BY <2>1, ConstantTypes DEF Stored
  <2>3. /\ created' = [created EXCEPT ![g] = CreatedAt(c, g)]
        /\ updated' = [updated EXCEPT ![g] = tx[c].started]
    BY <1>4 DEF TimedCommit, Changed
  <2>4. /\ created'[g] = CreatedAt(c, g) /\ updated'[g] = tx[c].started
        /\ \A h \in GrantIds \ {g} : created'[h] = created[h] /\ updated'[h] = updated[h]
    BY <2>1, <2>3 DEF TimedInv, TimesInv
  <2>5. \A h \in Stored : created'[h] = created[h]
    BY <2>4 DEF CreatedAt, Stored
  <2>6. \A h \in Stored' : created'[h] \in 0 .. clock'
    BY <1>1, <1>2, <2>2, <2>4, <2>5 DEF TimedInv, TimesInv, CreatedAt
  <2>7. CallTimesInv(c)'
    BY <1>1, <1>2 DEF CallTimesInv, Revokes, Awaits, NoTx
  <2>8. ASSUME NEW d \in Callers \ {c} PROVE CallTimesInv(d)'
    BY <1>1, <2>2, <2>5 DEF TimedInv, TimesInv, CallTimesInv, Revokes
  <2>9. TimesInv'
    <3>1. /\ created' \in [GrantIds -> Nat \cup {NoRow}]
          /\ updated' \in [GrantIds -> Nat \cup {NoRow}]
      <4>1. created[g] \in Nat \cup {NoRow} /\ tx[c].started \in Nat
        BY <1>2, <2>1 DEF TimedInv, TimesInv
      <4> QED
        BY <2>3, <4>1 DEF TimedInv, TimesInv, CreatedAt
    <3> QED
      BY <2>6, <2>7, <2>8, <3>1 DEF TimesInv
  <2>10. ASSUME row.revoked_at # NULL
         PROVE  row.revoked_at = tx[c].started /\ created'[g] <= tx[c].started
    <3>1. request[c].op = "revoke" /\ request[c].id = g /\ g \in Stored
      <4>1. pc[c] \in Engaged /\ RequestInv(c) /\ ScopeInv(c) /\ TargetInv(c)
        BY <1>1 DEF IInv, Engaged, Locked
      <4>2. request[c].op # "put"
        BY <1>4, <2>10, <4>1 DEF TargetInv, Asked
      <4> QED
        BY <4>1, <4>2 DEF RequestInv, ScopeInv
    <3>2. row.revoked_at = tx[c].started
      <4>1. row = [grants[g] EXCEPT !.revoked_at = tx[c].started]
        BY <1>4, <3>1 DEF IInv, TargetInv
      <4>2. grants[g] \in Grant
        BY <3>1 DEF IInv, TypeOK, Stored
      <4> QED
        BY <4>1, <4>2 DEF Grant
    <3>3. Revokes(c)
      BY <1>1, <3>1, TransactionsAssumption DEF Revokes, Awaits, Stored
    <3>4. created[g] <= tx[c].started
      BY <1>1, <3>1, <3>3 DEF TimedInv, TimesInv, CallTimesInv
    <3> QED
      BY <2>5, <3>1, <3>2, <3>4
  <2>11. RevocationFollowsCreation'
    BY <2>1, <2>2, <2>4, <2>10 DEF TimedInv, RevocationFollowsCreation, Stored
  <2> QED
    BY <2>9, <2>11 DEF TimedInv
<1> QED
  BY <1>3, <1>4

LEMMA NextTimes == IInv /\ TimedInv /\ [TimedNext]_timed => TimedInv'
<1> SUFFICES ASSUME IInv, TimedInv, [TimedNext]_timed PROVE TimedInv'
  OBVIOUS
<1>1. CASE Tick /\ UNCHANGED <<created, updated>>
  BY <1>1, TickTimes
<1>2. ASSUME NEW c \in Callers, TimedProceed(c) PROVE TimedInv'
  BY <1>2, CommitTimes, BeginTimes, StatementTimes DEF TimedProceed, TimedResolve, times
<1>3. ASSUME NEW c \in Callers, UNCHANGED <<created, updated>>,
             PutGrant(c) \/ RevokeGrant(c) \/ ResolveEntitlement(c) \/ Fail(c) \/ Return(c)
      PROVE  TimedInv'
  BY <1>3, EnterTimes, StatementTimes, ReturnTimes
<1>4. CASE UNCHANGED timed
  <2>1. UNCHANGED <<clock, grants, created, updated, pc, request, tx>>
    BY <1>4 DEF timed, times, vars, tables
  <2> QED
    BY <2>1, QuietTimes, QuietCall DEF TimedInv, TimesInv
<1> QED
  BY <1>1, <1>2, <1>3, <1>4 DEF TimedNext, TimedReturn, times

(* The times beside the transactions hold TimedInv, in every reachable      *)
(* state: whatever calls wait for a scope, the one that revokes a grant was *)
(* given its time after the grant its own.                                  *)
THEOREM TimesHold == TimedSpec => []TimedInv
<1>1. TimedInit => IInv /\ TimedInv
  BY InitIInv, InitTimes DEF TimedInit
<1>2. IInv /\ TimedInv /\ [TimedNext]_timed => IInv' /\ TimedInv'
  BY NextIInv, NextTimes, TimedStepIsStep
<1> QED
  BY <1>1, <1>2, PTL DEF TimedSpec

(* A revoked grant was last updated when it was revoked and not before it   *)
(* was created: what list_grants reports of it never runs backwards.        *)
THEOREM RevocationsFollow == TimedSpec => []RevocationFollowsCreation
<1>1. TimedInv => RevocationFollowsCreation
  BY DEF TimedInv
<1> QED
  BY <1>1, TimesHold, PTL

--------------------------------------------------------------------------------
(* Facts and their expiry.                                                  *)

UntilsInv ==
  /\ DOMAIN until = Callers
  /\ \A d \in Callers : UntilInv(d)

LEMMA InitUntils == TimedInit => UntilsInv
  BY DEF TimedInit, Init, UntilsInv, UntilInv

(* A step that leaves the reply of d alone leaves the expiry of the grant   *)
(* it found, unless a commit in its scope outdates it.                      *)
LEMMA OthersUntil ==
  ASSUME IInv, IInv', AllReplies, NEW d \in Callers, UntilInv(d),
         KeepsReply(d), until'[d] = until[d],
         \/ UNCHANGED tables
         \/ \E c \in Callers \ {d} : Commit(c)
  PROVE  UntilInv(d)'
<1> DEFINE q == request[d]
           r == response[d]
<1> SUFFICES ASSUME pc[d] = "done", r.status = "ok", q.op = "resolve", r.granted,
                    r.revision = Rev(q.scope)'
             PROVE  until[d] = grants'[r.id].expires_at
  BY DEF UntilInv, KeepsReply, Rev
<1>1. FactHolds(d) /\ q.scope \in Scopes
  BY DEF AllReplies, ReplyInv, AboutScope
<1>2. CASE UNCHANGED tables
  <2>1. Rev(q.scope)' = Rev(q.scope) /\ grants' = grants
    BY <1>2 DEF tables, Rev, KeepsReply
  <2> QED
    BY <2>1 DEF UntilInv
<1>3. ASSUME NEW c \in Callers \ {d}, Commit(c), ~UNCHANGED tables
      PROVE  until[d] = grants'[r.id].expires_at
  <2>1. tx[c].grantRow # NoRow
    BY <1>3, CommitShape, ConstantTypes
  <2>2. /\ tx[c].scope \in Scopes
        /\ \A h \in GrantIds \ {tx[c].id} : grants'[h] = grants[h]
        /\ tx[c].id \in Stored => grants[tx[c].id].scope = tx[c].scope
        /\ \A t \in Scopes : Rev(t)' = IF t = tx[c].scope THEN Rev(t) + 1 ELSE Rev(t)
    BY <1>3, <2>1, CommitEffect
  <2>3. Rev(q.scope) \in Nat /\ r.revision \in Nat
    BY <1>1, ConstantTypes DEF IInv, TypeOK, Rev, Responses
  <2>4. q.scope # tx[c].scope /\ r.revision = Rev(q.scope)
    <3>1. r.revision <= Rev(q.scope)
      BY <1>1 DEF FactHolds
    <3>2. Rev(q.scope)' = IF q.scope = tx[c].scope THEN Rev(q.scope) + 1 ELSE Rev(q.scope)
      BY <1>1, <2>2 DEF KeepsReply, Rev
    <3> QED
      BY <2>3, <3>1, <3>2
  <2>5. r.id \in Stored /\ grants[r.id].scope = q.scope
    BY <1>1, <2>4 DEF FactHolds, RowsOf
  <2>6. grants'[r.id] = grants[r.id]
    BY <2>2, <2>4, <2>5 DEF Stored
  <2> QED
    BY <2>4, <2>6 DEF UntilInv
<1> QED
  BY <1>2, <1>3

(* A resolve keeps the expiry of the grant it answers with.                 *)
LEMMA ResolvedUntil ==
  ASSUME IInv, IInv', AllReplies, UntilsInv, NEW c \in Callers, TimedResolve(c)
  PROVE  UntilsInv'
<1>1. UNCHANGED tables /\ \A d \in Callers \ {c} : KeepsReply(d)
  <2>1. ASSUME NEW reply, Finish(c, reply), UNCHANGED request
        PROVE  \A d \in Callers \ {c} : KeepsReply(d)
    BY <2>1 DEF Finish, KeepsReply, IInv, TypeOK
  <2> QED
    BY <2>1 DEF TimedResolve, Resolve
<1>2. /\ DOMAIN until' = Callers /\ \A d \in Callers \ {c} : until'[d] = until[d]
      /\ response'[c].granted => until'[c] = grants[response'[c].id].expires_at
  BY DEF TimedResolve, UntilsInv
<1>3. UntilInv(c)'
  BY <1>1, <1>2 DEF UntilInv, tables
<1>4. ASSUME NEW d \in Callers \ {c} PROVE UntilInv(d)'
  BY <1>1, <1>2, OthersUntil DEF UntilsInv
<1> QED
  BY <1>2, <1>3, <1>4 DEF UntilsInv

(* A mutation's reply is no fact. *)
LEMMA CommittedUntil ==
  ASSUME IInv, IInv', AllReplies, UntilsInv, NEW c \in Callers, Commit(c), UNCHANGED until
  PROVE  UntilsInv'
<1>1. request'[c].op # "resolve"
  BY DEF Commit, IInv, RequestInv, Engaged, Locked
<1>2. \A d \in Callers \ {c} : KeepsReply(d)
  <2>1. ASSUME NEW reply, Finish(c, reply), UNCHANGED request
        PROVE  \A d \in Callers \ {c} : KeepsReply(d)
    BY <2>1 DEF Finish, KeepsReply, IInv, TypeOK
  <2> QED
    BY <2>1 DEF Commit
<1>3. ASSUME NEW d \in Callers \ {c} PROVE UntilInv(d)'
  BY <1>2, <1>3, OthersUntil DEF UntilsInv
<1>4. UntilInv(c)'
  BY <1>1 DEF UntilInv
<1> QED
  BY <1>3, <1>4 DEF UntilsInv

(* The steps that end in no fact. *)
LEMMA SilentUntil ==
  ASSUME IInv, IInv', AllReplies, UntilsInv, NEW c \in Callers,
         \/ PutGrant(c) \/ RevokeGrant(c) \/ ResolveEntitlement(c) \/ Fail(c) \/ Return(c)
         \/ Proceed(c) /\ ~Commit(c) /\ ~Resolve(c),
         UNCHANGED until \/ until' = [until EXCEPT ![c] = NULL]
  PROVE  UntilsInv'
<1>1. /\ UNCHANGED tables
      /\ \A d \in Callers \ {c} : KeepsReply(d)
      /\ pc'[c] # "done" \/ response'[c].status # "ok"
  BY SilentSteps
<1>2. DOMAIN until' = Callers /\ \A d \in Callers \ {c} : until'[d] = until[d]
  BY DEF UntilsInv
<1>3. ASSUME NEW d \in Callers \ {c} PROVE UntilInv(d)'
  BY <1>1, <1>2, OthersUntil DEF UntilsInv
<1>4. UntilInv(c)'
  BY <1>1 DEF UntilInv
<1> QED
  BY <1>2, <1>3, <1>4 DEF UntilsInv

LEMMA NextUntils == IInv /\ IInv' /\ AllReplies /\ UntilsInv /\ [TimedNext]_timed => UntilsInv'
<1> SUFFICES ASSUME IInv, IInv', AllReplies, UntilsInv, [TimedNext]_timed PROVE UntilsInv'
  OBVIOUS
<1>1. ASSUME NEW c \in Callers, TimedProceed(c) PROVE UntilsInv'
  <2>1. CASE TimedCommit(c)
    BY <2>1, CommittedUntil DEF TimedCommit
  <2>2. CASE TimedResolve(c)
    BY <2>2, ResolvedUntil
  <2>3. CASE ~TimedCommit(c) /\ ~TimedResolve(c)
    <3>1. Proceed(c) /\ UNCHANGED until /\ pc[c] \notin {"commit", "read"}
      BY <1>1, <2>3 DEF TimedProceed, Proceed, Begin, EnsureScope, LockScope, LockGrant,
                        UpdateGrant, InsertGrant, Locate, MarkRevoked, Advance
    <3> QED
      BY <3>1, SilentUntil DEF Commit, Resolve
  <2> QED
    BY <2>1, <2>2, <2>3
<1>2. ASSUME NEW c \in Callers, TimedReturn(c) PROVE UntilsInv'
  BY <1>2, SilentUntil DEF TimedReturn
<1>3. ASSUME NEW c \in Callers, UNCHANGED until,
             PutGrant(c) \/ RevokeGrant(c) \/ ResolveEntitlement(c) \/ Fail(c)
      PROVE  UntilsInv'
  BY <1>3, SilentUntil
<1>4. CASE UNCHANGED <<tables, pc, request, response, until>>
  BY <1>4, OthersUntil DEF UntilsInv, KeepsReply
<1> QED
  BY <1>1, <1>2, <1>3, <1>4 DEF TimedNext, Tick, timed, vars

(* What a resolve returned is so for as long as its scope is at the         *)
(* revision it named and, if it was granted, until its grant's expiry; from *)
(* then on it is a denial, as one that was denied remains.                  *)
THEOREM FactsStand == TimedSpec => []FactsStandUntilExpiry
<1>1. TimedInit => IInv /\ AllReplies /\ UntilsInv
  BY InitIInv, InitReplies, InitUntils DEF TimedInit
<1>2. IInv /\ AllReplies /\ UntilsInv /\ [TimedNext]_timed => IInv' /\ AllReplies' /\ UntilsInv'
  BY NextIInv, NextReplies, NextUntils, TimedStepIsStep
<1>3. IInv /\ AllReplies /\ UntilsInv => FactsStandUntilExpiry
  <2> SUFFICES ASSUME IInv, AllReplies, UntilsInv, NEW c \in Callers,
                      pc[c] = "done", response[c].status = "ok", request[c].op = "resolve"
               PROVE  LET q   == request[c]
                          r   == response[c]
                          now == {g \in RowsOf(q.scope, q.key) : Active(grants[g], clock)} IN
                      /\ r.revision <= Rev(q.scope)
                      /\ r.revision = Rev(q.scope) =>
                           IF r.granted /\ (until[c] = NULL \/ until[c] > clock)
                           THEN now = {r.id} /\ grants[r.id].limit = r.limit
                           ELSE now = {}
    BY DEF FactsStandUntilExpiry
  <2> DEFINE q   == request[c]
             r   == response[c]
             now == {g \in RowsOf(q.scope, q.key) : Active(grants[g], clock)}
  <2>1. FactHolds(c)
    BY DEF AllReplies, ReplyInv
  <2>2. ASSUME r.revision = Rev(q.scope), r.granted
        PROVE  IF until[c] = NULL \/ until[c] > clock
               THEN now = {r.id} /\ grants[r.id].limit = r.limit ELSE now = {}
    <3>1. /\ r.id \in RowsOf(q.scope, q.key)
          /\ grants[r.id].revoked_at = NULL /\ grants[r.id].limit = r.limit
      BY <2>1, <2>2 DEF FactHolds
    <3>2. RowsOf(q.scope, q.key) = {r.id}
      BY <3>1 DEF RowsOf, IInv, OneGrantPerKey
    <3>3. until[c] = grants[r.id].expires_at
      BY <2>2 DEF UntilsInv, UntilInv
    <3>4. Active(grants[r.id], clock) <=> until[c] = NULL \/ until[c] > clock
      BY <3>1, <3>3 DEF Active
    <3> QED
      BY <3>1, <3>2, <3>4
  <2>3. ASSUME r.revision = Rev(q.scope), ~r.granted PROVE now = {}
    BY <2>1, <2>3 DEF FactHolds
  <2>4. r.revision <= Rev(q.scope) /\ r.granted \in BOOLEAN
    BY <2>1 DEF FactHolds, IInv, TypeOK, Responses
  <2> QED
    BY <2>2, <2>3, <2>4
<1> QED
  BY <1>1, <1>2, <1>3, PTL DEF TimedSpec
================================================================================
