-------------------------- MODULE TargetQueriesProofs --------------------------
(***************************************************************************)
(* The facts targets are told, for any targets, admins, requests, grants,  *)
(* versions of the provider and any interleaving of their calls.           *)
(***************************************************************************)
EXTENDS TargetQueries, CapabilityEndpointProofs

Callers == Targets \cup Admins

Tables == [GrantIds -> Grant \cup {NoRow}]

Phases == {"idle", "asked", "open", "done"}

--------------------------------------------------------------------------------
(* The inductive invariant.                                                 *)

(* The service's state is typed: what a put asks for can be stored. *)
ServiceInv ==
  /\ clock \in Nat
  /\ policy \in [Scopes -> Nat]
  /\ facts \in Tables
  /\ phase \in [Callers -> Phases]
  /\ opened \in [Callers -> Nat]
  /\ request = [c \in Callers |-> request[c]] /\ response = [c \in Callers |-> response[c]]
  /\ \A c \in Callers : phase[c] # "idle" => request[c] \in Requests

InScope(view, g, s) == view[g] # NoRow /\ view[g].scope = s

(* Two states of the table that are one to a reader of scope s. *)
SameIn(s, view, other) ==
  \A g \in GrantIds : InScope(view, g, s) \/ InScope(other, g, s) => view[g] = other[g]

(* `past` holds the tables of each of a scope's revisions. *)
PastInv ==
  /\ past \in [Scopes -> Seq(Tables)]
  /\ \A s \in Scopes : /\ Len(past[s]) = policy[s] + 1
                       /\ SameIn(s, past[s][policy[s] + 1], facts)

TypeInv ==
  /\ stage \in [Targets -> {"idle", "out", "answered", "done"}]
  /\ at \in [Targets -> Nat]
  /\ told = [t \in Targets |-> told[t]] /\ meant = [t \in Targets |-> meant[t]]

(* The grants that stood for query q in a table, judged at `now`. *)
Standing(view, q, now) ==
  {g \in GrantIds : /\ view[g] # NoRow
                    /\ view[g].scope = q.scope /\ view[g].key = q.key
                    /\ Active(view[g], now)}

(* A fact is so at the revision it names, which its scope has had. *)
FactIn(history, latest, fact, q, now) ==
  LET then == history[q.scope][fact.revision + 1]
      held == Standing(then, q, now) IN
  /\ fact.revision \in 0..latest[q.scope]
  /\ IF fact.granted
     THEN fact.id \in held /\ then[fact.id].limit = fact.limit
     ELSE held = {} /\ fact.id = NULL /\ fact.limit = NULL

(* A target's request is a query, and a failure is what it begins with. *)
QueryInv(t) ==
  /\ stage[t] = "idle" => phase[t] = "idle" /\ meant[t] = Failure
  /\ stage[t] = "out" => phase[t] # "idle"
  /\ phase[t] # "idle" => request[t].op = "resolve"

ResponseInv(t) ==
  phase[t] = "done" =>
    \/ response[t].status = "failure"
    \/ /\ response[t].status = "ok"
       /\ FactIn(past, policy, Reply(response[t]), request[t], at[t])

(* An answer on its way is so, whole or not. *)
AnswerInv(t) ==
  stage[t] = "answered" =>
    \/ meant[t] = Failure
    \/ /\ meant[t].kind = "refusal"
       /\ \E code \in Codes(ResolveOperations), named \in BOOLEAN : meant[t] = Refused(code, named)
    \/ /\ meant[t].kind = "answer" /\ meant[t] = Answered(meant[t].reply, meant[t].left)
       /\ meant[t].left \subseteq ResolveEntitlementResponse
       /\ phase[t] = "done"
       /\ FactIn(past, policy, meant[t].reply, request[t], at[t])

Distinguishes(t) ==
  CASE meant[t].kind = "answer"  -> told[t].ok <=> meant[t].left = {}
    [] meant[t].kind = "refusal" -> /\ ~told[t].ok /\ told[t].it.arm = "domain"
                                    /\ told[t].it.error.code = meant[t].reply
    [] meant[t].kind = "failure" -> ~told[t].ok /\ told[t].it.arm = "runtime"

ToldInv(t) ==
  stage[t] = "done" =>
    /\ Distinguishes(t)
    /\ told[t].ok => /\ phase[t] = "done"
                     /\ FactIn(past, policy, told[t].it, request[t], at[t])

TargetInv(t) == QueryInv(t) /\ ResponseInv(t) /\ AnswerInv(t) /\ ToldInv(t)

IInv ==
  /\ ServiceInv /\ PastInv /\ TypeInv
  /\ \A t \in Targets : TargetInv(t)

--------------------------------------------------------------------------------
(* The service's steps.                                                     *)

(* A scope's grants change together with its revision, or not at all. *)
ScopeSteps ==
  \A s \in Scopes : \/ policy'[s] = policy[s] /\ SameIn(s, facts, facts')
                    \/ policy'[s] = policy[s] + 1

(* A step of c's leaves the other calls alone. *)
OthersStay(c) ==
  \A d \in Callers \ {c} :
    phase'[d] = phase[d] /\ request'[d] = request[d] /\ response'[d] = response[d]

LEMMA AnswerService ==
  ASSUME ServiceInv, NEW c \in Callers, phase[c] # "idle", NEW reply, Service!Answer(c, reply),
         policy' \in [Scopes -> Nat], facts' \in Tables
  PROVE  /\ ServiceInv' /\ OthersStay(c)
         /\ phase'[c] = "done" /\ request'[c] = request[c] /\ response'[c] = reply
<1>1. /\ clock' \in Nat /\ phase' \in [Callers -> Phases] /\ opened' \in [Callers -> Nat]
      /\ request' = request /\ response' = [d \in Callers |-> response'[d]]
      /\ OthersStay(c) /\ phase'[c] = "done" /\ response'[c] = reply
  BY DEF ServiceInv, Service!Answer, Phases, OthersStay
<1>2. \A d \in Callers : phase'[d] # "idle" => request'[d] \in Requests
  BY <1>1 DEF ServiceInv, OthersStay
<1> QED
  BY <1>1, <1>2 DEF ServiceInv

(* Of a call only the instant a mutation takes effect at changes a table. *)
LEMMA CallService ==
  ASSUME ServiceInv, NEW c \in Callers,
         \/ Service!Ask(c) \/ Service!Open(c) \/ Service!RevokeNothing(c) \/ Service!Query(c)
         \/ Service!Abandon(c) \/ Service!Return(c)
  PROVE  ServiceInv' /\ OthersStay(c) /\ UNCHANGED <<policy, facts>>
<1>1. UNCHANGED <<policy, facts>>
  BY DEF Service!Ask, Service!Open, Service!RevokeNothing, Service!Query, Service!Abandon,
     Service!Return
<1>2. CASE Service!Ask(c) \/ Service!Open(c) \/ Service!Return(c)
  <2>1. /\ clock' \in Nat /\ phase' \in [Callers -> Phases] /\ opened' \in [Callers -> Nat]
        /\ request' = [d \in Callers |-> request'[d]]
        /\ response' = [d \in Callers |-> response'[d]] /\ OthersStay(c)
    BY <1>2 DEF ServiceInv, Service!Ask, Service!Open, Service!Return, Phases, OthersStay
  <2>2. phase'[c] # "idle" => request'[c] \in Requests
    BY <1>2 DEF ServiceInv, Service!Ask, Service!Open, Service!Return
  <2>3. \A d \in Callers : phase'[d] # "idle" => request'[d] \in Requests
    BY <2>1, <2>2 DEF ServiceInv, OthersStay
  <2> QED
    BY <1>1, <2>1, <2>3 DEF ServiceInv
<1>3. CASE Service!RevokeNothing(c) \/ Service!Query(c) \/ Service!Abandon(c)
  <2>1. phase[c] # "idle" /\ \E reply : Service!Answer(c, reply)
    BY <1>3 DEF Service!RevokeNothing, Service!Query, Service!Abandon
  <2>2. policy' \in [Scopes -> Nat] /\ facts' \in Tables
    BY <1>1 DEF ServiceInv
  <2> QED
    BY <1>1, <2>1, <2>2, AnswerService
<1> QED
  BY <1>2, <1>3

(* The instant of a mutation: one grant of one scope. *)
LEMMA EffectService ==
  ASSUME ServiceInv, NEW c \in Callers, phase[c] # "idle",
         NEW g \in GrantIds, NEW fact \in Grant,
         facts[g] = NoRow \/ facts[g].scope = fact.scope,
         Service!TakeEffect(c, g, fact)
  PROVE  ServiceInv' /\ OthersStay(c) /\ ScopeSteps
<1> DEFINE s == fact.scope
<1>1. s \in Scopes
  BY DEF Grant
<1>2. /\ facts' = [facts EXCEPT ![g] = fact]
      /\ policy' = [policy EXCEPT ![s] = IF fact # facts[g] THEN policy[s] + 1 ELSE policy[s]]
      /\ \E reply : Service!Answer(c, reply)
  BY DEF Service!TakeEffect
<1>3. /\ policy' \in [Scopes -> Nat] /\ facts' \in Tables
      /\ facts'[g] = fact /\ \A h \in GrantIds \ {g} : facts'[h] = facts[h]
  BY <1>1, <1>2 DEF ServiceInv, Tables
<1>4. ServiceInv' /\ OthersStay(c)
  BY <1>2, <1>3, AnswerService
<1>5. ASSUME NEW t \in Scopes
      PROVE  \/ policy'[t] = policy[t] /\ SameIn(t, facts, facts')
             \/ policy'[t] = policy[t] + 1
  <2>1. CASE t # s
    BY <1>2, <1>3, <2>1 DEF ServiceInv, SameIn, InScope
  <2>2. CASE t = s /\ fact = facts[g]
    BY <1>2, <1>3, <2>2 DEF ServiceInv, SameIn
  <2>3. CASE t = s /\ fact # facts[g]
    BY <1>1, <1>2, <2>3 DEF ServiceInv
  <2> QED
    BY <2>1, <2>2, <2>3
<1> QED
  BY <1>4, <1>5 DEF ScopeSteps

LEMMA MutationService ==
  ASSUME ServiceInv, NEW c \in Callers, Service!Put(c) \/ Service!Revoke(c)
  PROVE  ServiceInv' /\ OthersStay(c) /\ ScopeSteps
<1>1. CASE Service!Put(c)
  <2> DEFINE q    == request[c]
             held == Service!Holding(q.scope, q.key)
             fact == [scope |-> q.scope, key |-> q.key, limit |-> q.limit,
                      expires_at |-> q.expires_at, revoked_at |-> NULL]
  <2>1. phase[c] # "idle" /\ q \in Requests /\ q.op = "put"
    BY <1>1 DEF Service!Put, ServiceInv
  <2>2. fact \in Grant
    BY <2>1, QueriesAssumption DEF Grant, Instants
  <2>3. PICK g \in (IF held = {} THEN GrantIds \ Service!Issued ELSE held) :
          Service!TakeEffect(c, g, fact)
    BY <1>1 DEF Service!Put
  <2>4. g \in GrantIds /\ (facts[g] = NoRow \/ facts[g].scope = fact.scope)
    BY <2>3 DEF Service!Holding, Service!Issued
  <2> HIDE DEF fact
  <2> QED
    BY <2>1, <2>2, <2>3, <2>4, EffectService
<1>2. CASE Service!Revoke(c)
  <2> DEFINE g    == request[c].id
             fact == IF facts[g].revoked_at # NULL THEN facts[g]
                     ELSE [facts[g] EXCEPT !.revoked_at = opened[c]]
  <2>1. phase[c] # "idle" /\ g \in GrantIds /\ facts[g] \in Grant
    BY <1>2 DEF Service!Revoke, Service!Issued, ServiceInv, Tables
  <2>2. opened[c] \in Instants
    BY DEF ServiceInv, Instants
  <2>3. fact \in Grant /\ fact.scope = facts[g].scope
    BY <2>1, <2>2 DEF Grant
  <2>4. Service!TakeEffect(c, g, fact)
    BY <1>2 DEF Service!Revoke
  <2> HIDE DEF fact, g
  <2> QED
    BY <2>1, <2>3, <2>4, EffectService
<1> QED
  BY <1>1, <1>2

--------------------------------------------------------------------------------
(* What a step does to the history, and to facts that are so.               *)

(* The revisions a scope has had stay what they were. *)
HistoryGrows ==
  \A s \in Scopes : /\ policy'[s] \in Nat /\ policy'[s] >= policy[s]
                    /\ \A i \in 1..(policy[s] + 1) : past'[s][i] = past[s][i]

LEMMA TrackPast ==
  ASSUME ServiceInv, ServiceInv', ScopeSteps, PastInv, Track
  PROVE  PastInv' /\ HistoryGrows
<1>1. past' = [s \in Scopes |-> IF policy'[s] = policy[s] THEN past[s]
                                ELSE Append(past[s], facts')]
  BY DEF Track
<1>2. ASSUME NEW s \in Scopes
      PROVE  /\ past'[s] \in Seq(Tables)
             /\ Len(past'[s]) = policy'[s] + 1
             /\ SameIn(s, past'[s][policy'[s] + 1], facts')
             /\ policy'[s] \in Nat /\ policy'[s] >= policy[s]
             /\ \A i \in 1..(policy[s] + 1) : past'[s][i] = past[s][i]
  <2>1. /\ past[s] \in Seq(Tables) /\ Len(past[s]) = policy[s] + 1
        /\ SameIn(s, past[s][policy[s] + 1], facts)
        /\ policy[s] \in Nat /\ facts' \in Tables
    BY DEF PastInv, ServiceInv
  <2>2. CASE policy'[s] = policy[s] /\ SameIn(s, facts, facts')
    <3>1. past'[s] = past[s]
      BY <1>1, <2>2
    <3>2. SameIn(s, past[s][policy[s] + 1], facts')
      BY <2>1, <2>2 DEF SameIn, InScope
    <3> QED
      BY <2>1, <2>2, <3>1, <3>2
  <2>3. CASE policy'[s] = policy[s] + 1
    <3>1. past'[s] = Append(past[s], facts')
      BY <1>1, <2>1, <2>3
    <3>2. /\ Append(past[s], facts') \in Seq(Tables)
          /\ Len(Append(past[s], facts')) = policy[s] + 2
          /\ Append(past[s], facts')[policy[s] + 2] = facts'
          /\ \A i \in 1..(policy[s] + 1) : Append(past[s], facts')[i] = past[s][i]
      BY <2>1
    <3>3. SameIn(s, facts', facts')
      BY DEF SameIn
    <3>4. policy'[s] + 1 = policy[s] + 2
      BY <2>1, <2>3
    <3> QED
      BY <2>1, <2>3, <3>1, <3>2, <3>3, <3>4
  <2> QED
    BY <2>2, <2>3 DEF ScopeSteps
<1>3. past' \in [Scopes -> Seq(Tables)]
  BY <1>1, <1>2
<1> QED
  BY <1>2, <1>3 DEF PastInv, HistoryGrows

(* What was so at a revision stays so. *)
LEMMA FactsStay ==
  ASSUME ServiceInv, HistoryGrows, NEW fact, NEW q, NEW now, q.scope \in Scopes,
         FactIn(past, policy, fact, q, now)
  PROVE  FactIn(past', policy', fact, q, now)
<1> DEFINE s == q.scope
           r == fact.revision
<1>1. r \in 0..policy[s] /\ policy[s] \in Nat
  BY DEF FactIn, ServiceInv
<1>2. r \in 0..policy'[s] /\ r + 1 \in 1..(policy[s] + 1)
  BY <1>1 DEF HistoryGrows
<1>3. past'[s][r + 1] = past[s][r + 1]
  BY <1>2 DEF HistoryGrows
<1> QED
  BY <1>2, <1>3 DEF FactIn

(* A step leaves t's call as it is. *)
Stays(t) ==
  /\ stage'[t] = stage[t] /\ told'[t] = told[t] /\ meant'[t] = meant[t] /\ at'[t] = at[t]
  /\ phase'[t] = phase[t] /\ request'[t] = request[t] /\ response'[t] = response[t]

LEMMA Bystander ==
  ASSUME ServiceInv, HistoryGrows, NEW t \in Targets, TargetInv(t), Stays(t)
  PROVE  TargetInv(t)'
<1>1. phase[t] # "idle" => request[t].scope \in Scopes
  BY QueriesAssumption DEF ServiceInv, Callers, TargetInv, QueryInv
<1>2. \A fact : phase[t] # "idle" /\ FactIn(past, policy, fact, request[t], at[t]) =>
                  FactIn(past', policy', fact, request[t], at[t])
  BY <1>1, FactsStay
<1>3. QueryInv(t)'
  BY DEF Stays, TargetInv, QueryInv
<1>4. ResponseInv(t)'
  BY <1>2 DEF Stays, TargetInv, ResponseInv
<1>5. AnswerInv(t)'
  BY <1>2 DEF Stays, TargetInv, AnswerInv
<1>6. ToldInv(t)'
  BY <1>2 DEF Stays, TargetInv, ToldInv, Distinguishes
<1> QED
  BY <1>3, <1>4, <1>5, <1>6 DEF TargetInv

--------------------------------------------------------------------------------
(* The steps of a target's call.                                            *)

(* They change neither the tables nor another call. *)
LEMMA TargetStep ==
  ASSUME IInv, NEW t \in Targets, ServiceInv', OthersStay(t), TypeInv', TargetInv(t)',
         UNCHANGED <<policy, facts, past>>,
         \A u \in Targets \ {t} : /\ stage'[u] = stage[u] /\ told'[u] = told[u]
                                  /\ meant'[u] = meant[u] /\ at'[u] = at[u]
  PROVE  IInv'
<1>1. PastInv'
  BY DEF IInv, PastInv
<1>2. HistoryGrows
  BY DEF IInv, ServiceInv, HistoryGrows
<1>3. ASSUME NEW u \in Targets \ {t} PROVE TargetInv(u)'
  <2>1. Stays(u)
    BY DEF Stays, OthersStay, Callers
  <2> QED
    BY <1>2, <2>1, Bystander DEF IInv
<1> QED
  BY <1>1, <1>3 DEF IInv

LEMMA QuietService ==
  ASSUME ServiceInv, UNCHANGED service
  PROVE  ServiceInv' /\ \A t \in Callers : OthersStay(t)
BY DEF ServiceInv, service, OthersStay

LEMMA ResolveStep ==
  ASSUME IInv, NEW t \in Targets, ResolveEntitlement(t)
  PROVE  IInv'
<1>1. /\ ServiceInv' /\ OthersStay(t) /\ UNCHANGED <<policy, facts>>
  BY CallService DEF IInv, ResolveEntitlement, Callers
<1>2. TypeInv' /\ stage'[t] = "out" /\ \A u \in Targets \ {t} : stage'[u] = stage[u]
  BY DEF IInv, TypeInv, ResolveEntitlement
<1>3. phase'[t] = "asked" /\ request'[t].op = "resolve"
  BY DEF IInv, ServiceInv, ResolveEntitlement, Service!Ask, Callers
<1>4. TargetInv(t)'
  BY <1>2, <1>3 DEF TargetInv, QueryInv, ResponseInv, AnswerInv, ToldInv
<1>5. UNCHANGED <<told, meant, at, past>>
  BY DEF ResolveEntitlement
<1> QED
  BY <1>1, <1>2, <1>4, <1>5, TargetStep

LEMMA RefuseStep ==
  ASSUME IInv, NEW t \in Targets, Refuse(t)
  PROVE  IInv'
<1>1. PICK code \in Codes(ResolveOperations), named \in BOOLEAN :
        meant' = [meant EXCEPT ![t] = Refused(code, named)]
  BY DEF Refuse
<1>2. /\ stage[t] = "idle" /\ stage'[t] = "answered" /\ meant'[t] = Refused(code, named)
      /\ TypeInv' /\ UNCHANGED <<service, told, at, past>>
      /\ \A u \in Targets \ {t} : stage'[u] = stage[u] /\ meant'[u] = meant[u]
  BY <1>1 DEF IInv, TypeInv, Refuse, Callers
<1>3. TargetInv(t)'
  <2>1. TargetInv(t)
    BY DEF IInv
  <2>2. QueryInv(t)' /\ ResponseInv(t)' /\ ToldInv(t)'
    BY <1>2, <2>1 DEF TargetInv, QueryInv, ResponseInv, ToldInv, service
  <2>3. meant'[t].kind = "refusal"
    BY <1>2 DEF Refused, Meant
  <2>4. AnswerInv(t)'
    BY <1>2, <2>3 DEF AnswerInv
  <2> QED
    BY <2>2, <2>4 DEF TargetInv
<1> QED
  BY <1>2, <1>3, QuietService, TargetStep DEF IInv, service, Callers

(* A failure, and an answer of which nothing can be read, are no facts. *)
LEMMA FailureIsNoFact ==
  ASSUME NEW t \in Targets, meant'[t] = Failure, told'[t] = Err(RuntimeArm)
  PROVE  ToldInv(t)'
<1>1. meant'[t].kind = "failure"
  BY DEF Failure, Meant
<1>2. told'[t].ok = FALSE /\ told'[t].it.arm = "runtime"
  BY DEF Err, RuntimeArm
<1> QED
  BY <1>1, <1>2 DEF ToldInv, Distinguishes

LEMMA UnavailableStep ==
  ASSUME IInv, NEW t \in Targets, Unavailable(t)
  PROVE  IInv'
<1>1. /\ stage[t] = "idle" /\ stage'[t] = "done" /\ told'[t] = Err(RuntimeArm)
      /\ TypeInv' /\ UNCHANGED <<service, meant, at, past>>
      /\ \A u \in Targets \ {t} : stage'[u] = stage[u] /\ told'[u] = told[u]
  BY NoProviderFails DEF IInv, TypeInv, Unavailable
<1>2. TargetInv(t)'
  <2>1. TargetInv(t)
    BY DEF IInv
  <2>2. QueryInv(t)' /\ ResponseInv(t)' /\ AnswerInv(t)'
    BY <1>1, <2>1 DEF TargetInv, QueryInv, ResponseInv, AnswerInv, service
  <2>3. meant'[t] = Failure
    BY <1>1, <2>1 DEF TargetInv, QueryInv
  <2> QED
    BY <1>1, <2>2, <2>3, FailureIsNoFact DEF TargetInv
<1> QED
  BY <1>1, <1>2, QuietService, TargetStep DEF IInv, service, Callers

LEMMA GiveUpStep ==
  ASSUME IInv, NEW t \in Targets, GiveUp(t)
  PROVE  IInv'
<1>1. /\ stage[t] \in {"out", "answered"} /\ stage'[t] = "done"
      /\ told'[t] = Err(RuntimeArm) /\ meant'[t] = Failure
      /\ TypeInv' /\ UNCHANGED <<service, at, past>>
      /\ \A u \in Targets \ {t} : /\ stage'[u] = stage[u] /\ told'[u] = told[u]
                                  /\ meant'[u] = meant[u]
  BY LoweredFailure DEF IInv, TypeInv, GiveUp, Nothing
<1>2. TargetInv(t)'
  <2>1. QueryInv(t)' /\ ResponseInv(t)' /\ AnswerInv(t)'
    BY <1>1 DEF IInv, TargetInv, QueryInv, ResponseInv, AnswerInv, service
  <2> QED
    BY <1>1, <2>1, FailureIsNoFact DEF TargetInv
<1> QED
  BY <1>1, <1>2, QuietService, TargetStep DEF IInv, service, Callers

LEMMA LeaveStep ==
  ASSUME IInv, NEW t \in Targets, Leave(t)
  PROVE  IInv'
<1>1. /\ stage'[t] = "idle" /\ meant'[t] = Failure /\ TypeInv' /\ UNCHANGED past
      /\ \A u \in Targets \ {t} : /\ stage'[u] = stage[u] /\ told'[u] = told[u]
                                  /\ meant'[u] = meant[u] /\ at'[u] = at[u]
  BY DEF IInv, TypeInv, Leave
<1>2. /\ ServiceInv' /\ OthersStay(t) /\ UNCHANGED <<policy, facts>> /\ phase'[t] = "idle"
  <2>1. CASE phase[t] = "idle"
    BY <2>1, QuietService DEF IInv, Leave, service, Callers
  <2>2. CASE phase[t] # "idle"
    BY <2>2, CallService DEF IInv, ServiceInv, Leave, Service!Return, Callers
  <2> QED
    BY <2>1, <2>2
<1>3. TargetInv(t)'
  BY <1>1, <1>2 DEF TargetInv, QueryInv, ResponseInv, AnswerInv, ToldInv
<1> QED
  BY <1>1, <1>2, <1>3, TargetStep

(* What the provider finds is so at the instant and revision it finds it.   *)
LEMMA QueryIsSo ==
  ASSUME IInv, NEW t \in Targets, Service!Query(t)
  PROVE  /\ response'[t].status = "ok"
         /\ FactIn(past, policy, Reply(response'[t]), request[t], opened[t])
<1> DEFINE q    == request[t]
           now  == opened[t]
           held == {g \in Service!Holding(q.scope, q.key) : Service!Active(facts[g], now)}
           base == [Service!Blank EXCEPT !.status = "ok", !.scope = q.scope,
                                         !.revision = policy[q.scope]]
           then == past[q.scope][policy[q.scope] + 1]
<1>1. /\ phase[t] = "open" /\ t \in Callers /\ ServiceInv
      /\ \/ held = {} /\ Service!Answer(t, base)
         \/ \E g \in held : Service!Answer(t, [base EXCEPT !.id = g, !.granted = TRUE,
                                                           !.limit = facts[g].limit])
  <2>1. phase[t] = "open" /\ t \in Callers /\ ServiceInv
    BY DEF Service!Query, IInv, Callers
  <2>2. \/ held = {} /\ Service!Answer(t, base)
        \/ \E g \in held : Service!Answer(t, [base EXCEPT !.id = g, !.granted = TRUE,
                                                          !.limit = facts[g].limit])
    BY DEF Service!Query
  <2> QED
    BY <2>1, <2>2
<1>2. q.scope \in Scopes /\ policy[q.scope] \in 0..policy[q.scope]
  <2>1. q \in Requests /\ q.op = "resolve"
    BY <1>1 DEF ServiceInv, Service!Query
  <2>2. q.scope \in Scopes
    BY <2>1, QueriesAssumption
  <2>3. policy[q.scope] \in Nat
    BY <1>1, <2>2 DEF ServiceInv
  <2> QED
    BY <2>2, <2>3
<1>3. SameIn(q.scope, then, facts)
  BY <1>2 DEF IInv, PastInv
<1>4. Standing(then, q, now) = held /\ \A g \in held : then[g] = facts[g]
  <2>1. held = {g \in GrantIds : /\ facts[g] # NoRow
                                 /\ facts[g].scope = q.scope /\ facts[g].key = q.key
                                 /\ Active(facts[g], now)}
    BY DEF Service!Holding, Service!Issued, Service!Active, Active
  <2>2. \A g \in GrantIds : InScope(then, g, q.scope) \/ InScope(facts, g, q.scope) =>
                              then[g] = facts[g]
    BY <1>3 DEF SameIn
  <2> HIDE DEF held, then
  <2> QED
    BY <2>1, <2>2 DEF Standing, InScope
<1>5. base.status = "ok" /\ base.revision = policy[q.scope] /\ base.granted = FALSE /\ base.limit = NULL
  BY DEF Service!Blank
<1>6. CASE held = {} /\ Service!Answer(t, base)
  <2>1. response'[t] = base
    BY <1>1, <1>6 DEF ServiceInv, Service!Answer
  <2>2. /\ Reply(base).revision = policy[q.scope] /\ Reply(base).granted = FALSE
        /\ Reply(base).id = NULL /\ Reply(base).limit = NULL
    <3> HIDE DEF base
    <3> QED
      BY <1>5 DEF Reply
  <2> HIDE DEF base, held, now
  <2>3. FactIn(past, policy, Reply(base), q, now)
    BY <1>2, <1>4, <1>6, <2>2 DEF FactIn
  <2> QED
    BY <1>5, <2>1, <2>3 DEF now
<1>7. ASSUME NEW g \in held,
             Service!Answer(t, [base EXCEPT !.id = g, !.granted = TRUE, !.limit = facts[g].limit])
      PROVE  /\ response'[t].status = "ok"
             /\ FactIn(past, policy, Reply(response'[t]), q, now)
  <2> DEFINE r == [base EXCEPT !.id = g, !.granted = TRUE, !.limit = facts[g].limit]
  <2>1. response'[t] = r
    BY <1>1, <1>7 DEF ServiceInv, Service!Answer
  <2>2. /\ r.status = "ok" /\ r.revision = policy[q.scope]
        /\ r.id = g /\ r.granted = TRUE /\ r.limit = facts[g].limit
    BY DEF Service!Blank
  <2>3. /\ Reply(r).revision = policy[q.scope] /\ Reply(r).granted = TRUE
        /\ Reply(r).id = g /\ Reply(r).limit = facts[g].limit
    <3> HIDE DEF r
    <3> QED
      BY <2>2 DEF Reply
  <2> HIDE DEF r, held, now
  <2>4. FactIn(past, policy, Reply(r), q, now)
    BY <1>2, <1>4, <1>7, <2>3 DEF FactIn
  <2> QED
    BY <2>1, <2>2, <2>4
<1> QED
  BY <1>1, <1>6, <1>7

LEMMA ProvideStep ==
  ASSUME IInv, NEW t \in Targets, Provide(t)
  PROVE  IInv'
<1>1. /\ t \in Callers /\ ServiceInv /\ TargetInv(t) /\ phase[t] \in {"asked", "open"}
      /\ UNCHANGED <<stage, told, meant, past>> /\ opened[t] \in Nat
  BY DEF IInv, ServiceInv, Provide, Service!Open, Service!Query, Service!Abandon, Callers
<1>2. ServiceInv' /\ OthersStay(t) /\ UNCHANGED <<policy, facts>>
  BY <1>1, CallService DEF Provide
<1>3. /\ TypeInv' /\ at'[t] = (IF phase[t] = "open" THEN opened[t] ELSE at[t])
      /\ \A u \in Targets \ {t} : at'[u] = at[u]
  BY <1>1 DEF IInv, TypeInv, Provide
<1>4. /\ request'[t] = request[t] /\ phase'[t] # "idle"
      /\ phase'[t] = "done" => Service!Query(t) \/ Service!Abandon(t)
  BY <1>1 DEF ServiceInv, Provide, Service!Open, Service!Query, Service!Abandon, Service!Answer
<1>5. ResponseInv(t)'
  <2>1. CASE Service!Query(t)
    <3>1. at'[t] = opened[t]
      BY <1>3, <2>1 DEF Service!Query
    <3> QED
      BY <1>2, <1>4, <2>1, <3>1, <1>1, QueryIsSo DEF ResponseInv
  <2>2. CASE Service!Abandon(t)
    <3>1. response'[t].status = "failure"
      BY <1>1, <2>2 DEF ServiceInv, Service!Abandon, Service!Answer, Service!Refused, Service!Blank
    <3> QED
      BY <3>1 DEF ResponseInv
  <2> QED
    BY <1>4, <2>1, <2>2 DEF ResponseInv
<1>6. QueryInv(t)'
  BY <1>1, <1>4 DEF TargetInv, QueryInv
<1>7. AnswerInv(t)' /\ ToldInv(t)'
  BY <1>1 DEF TargetInv, AnswerInv, ToldInv, Distinguishes
<1> QED
  BY <1>1, <1>2, <1>3, <1>5, <1>6, <1>7, TargetStep DEF TargetInv

LEMMA AnswerStep ==
  ASSUME IInv, NEW t \in Targets, Answer(t)
  PROVE  IInv'
<1>1. /\ stage[t] = "out" /\ stage'[t] = "answered" /\ phase[t] = "done"
      /\ UNCHANGED <<service, told, at, past>>
      /\ \A u \in Targets \ {t} : stage'[u] = stage[u]
  BY DEF IInv, TypeInv, Answer
<1>2. /\ meant' = [u \in Targets |-> meant'[u]]
      /\ \A u \in Targets \ {t} : meant'[u] = meant[u]
      /\ \/ meant'[t] = Failure
         \/ /\ response[t].status # "failure"
            /\ \E left \in SUBSET ResolveEntitlementResponse :
                 meant'[t] = Answered(Reply(response[t]), left)
  <2>1. CASE response[t].status = "failure"
    BY <2>1 DEF IInv, TypeInv, Answer
  <2>2. CASE response[t].status # "failure"
    <3>1. PICK left \in {{}} \cup {{m} : m \in ResolveEntitlementResponse} :
            meant' = [meant EXCEPT ![t] = Answered(Reply(response[t]), left)]
      BY <2>2 DEF Answer
    <3>2. left \in SUBSET ResolveEntitlementResponse
      BY <3>1
    <3> QED
      BY <2>2, <3>1, <3>2 DEF IInv, TypeInv
  <2> QED
    BY <2>1, <2>2
<1>3. TypeInv'
  BY <1>1, <1>2 DEF IInv, TypeInv, Answer
<1>4. TargetInv(t)
  BY DEF IInv
<1>5. AnswerInv(t)'
  <2>1. CASE meant'[t] = Failure
    BY <2>1 DEF AnswerInv
  <2>2. CASE /\ response[t].status # "failure"
             /\ \E left \in SUBSET ResolveEntitlementResponse :
                  meant'[t] = Answered(Reply(response[t]), left)
    <3>1. PICK left \in SUBSET ResolveEntitlementResponse :
            meant'[t] = Answered(Reply(response[t]), left)
      BY <2>2
    <3>2. FactIn(past, policy, Reply(response[t]), request[t], at[t])
      BY <1>1, <1>4, <2>2 DEF TargetInv, ResponseInv
    <3>3. /\ meant'[t].kind = "answer" /\ meant'[t].reply = Reply(response[t])
          /\ meant'[t].left = left
      BY <3>1 DEF Answered, Meant
    <3>4. /\ phase'[t] = "done" /\ request'[t] = request[t] /\ at'[t] = at[t]
          /\ past' = past /\ policy' = policy
      BY <1>1 DEF service
    <3> QED
      BY <3>1, <3>2, <3>3, <3>4 DEF AnswerInv
  <2> QED
    BY <1>2, <2>1, <2>2
<1>6. QueryInv(t)' /\ ResponseInv(t)' /\ ToldInv(t)'
  BY <1>1, <1>4 DEF TargetInv, QueryInv, ResponseInv, ToldInv, service
<1> QED
  BY <1>1, <1>2, <1>3, <1>5, <1>6, QuietService, TargetStep DEF IInv, TargetInv, service, Callers

(* What a client makes of each answer.                                      *)
LEMMA ReturnedFailure ==
  ASSUME NEW outcome \in Delivered(Failure)
  PROVE  Invoked(outcome) = Err(RuntimeArm)
<1>1. Failure.kind = "failure"
  BY DEF Failure, Meant
<1>2. Delivered(Failure) = FailureOutcomes(Operation)
  BY <1>1 DEF Delivered
<1> QED
  BY <1>2, FailureArrives

LEMMA ReturnedRefusal ==
  ASSUME NEW code \in Codes(ResolveOperations), NEW named \in BOOLEAN,
         NEW outcome \in Delivered(Refused(code, named))
  PROVE  \E error : error.code = code /\ Invoked(outcome) = Err(DomainArm(error))
<1>1. /\ Refused(code, named).kind = "refusal" /\ Refused(code, named).reply = code
      /\ Refused(code, named).named = named
  BY DEF Refused, Meant
<1>2. outcome \in RefusalOutcomes(Operation, ResolveOperations, code, named)
  BY <1>1 DEF Delivered
<1>3. code # Absent
  BY CodesArePresent DEF ResolveOperations, KnownErrors
<1>4. PICK error \in ErrorsFor(Operation, code, named) : Invoked(outcome) = Err(DomainArm(error))
  BY <1>2, <1>3, RefusalArrives DEF ResolveOperations, Operation
<1>5. error.code = code
  BY <1>4 DEF ErrorsFor, Known, Unknown
<1> QED
  BY <1>4, <1>5

(* A whole answer is returned, each member as it was. *)
LEMMA ReturnedAnswer ==
  ASSUME NEW reply, NEW outcome \in Delivered(Answered(reply, {}))
  PROVE  \E it : /\ Invoked(outcome) = Ok(it)
                 /\ it.id = reply.id /\ it.granted = reply.granted
                 /\ it.limit = reply.limit /\ it.revision = reply.revision
<1> DEFINE members == ResponseMembers[Operation]
<1>1. /\ Answered(reply, {}).kind = "answer" /\ Answered(reply, {}).left = {}
      /\ Answered(reply, {}).reply = reply
  BY DEF Answered, Meant
<1>2. outcome \in ResponseOutcomes(Operation, ResolveOperations, reply)
  BY <1>1 DEF Delivered
<1>3. PICK it \in {reply, Encode(members, reply)} : Invoked(outcome) = Ok(it)
  BY <1>2, ResponseArrives DEF ResolveOperations, Operation
<1>4. members = ResolveEntitlementResponse
  BY DEF ResponseMembers, Operation
<1>5. /\ it.id = reply.id /\ it.granted = reply.granted
      /\ it.limit = reply.limit /\ it.revision = reply.revision
  BY <1>3, <1>4 DEF Encode, ResolveEntitlementResponse
<1> QED
  BY <1>3, <1>5

(* One that lacks a member is a failure. *)
LEMMA ReturnedPartial ==
  ASSUME NEW reply, NEW left \in SUBSET ResolveEntitlementResponse, left # {},
         NEW outcome \in Delivered(Answered(reply, left))
  PROVE  Invoked(outcome) = Err(RuntimeArm)
<1> DEFINE object == Encode(ResolveEntitlementResponse \ left, reply)
<1>1. /\ Answered(reply, left).kind = "answer" /\ Answered(reply, left).left = left
      /\ Answered(reply, left).reply = reply
  BY DEF Answered, Meant
<1>2. outcome \in PortableResponse(Operation, object)
  BY <1>1 DEF Delivered
<1>3. ResponseMembers[Operation] = ResolveEntitlementResponse
  BY DEF ResponseMembers, Operation
<1>4. DOMAIN object = ResolveEntitlementResponse \ left
  BY DEF Encode
<1>5. ~(ResponseMembers[Operation] \subseteq DOMAIN object)
  BY <1>3, <1>4
<1> QED
  BY <1>2, <1>5, PartialResponseFails

LEMMA ReturnStep ==
  ASSUME IInv, NEW t \in Targets, Return(t)
  PROVE  IInv'
<1>1. PICK outcome \in Delivered(meant[t]) : told' = [told EXCEPT ![t] = Invoked(outcome)]
  BY DEF Return
<1>2. /\ stage[t] = "answered" /\ stage'[t] = "done" /\ told'[t] = Invoked(outcome)
      /\ TypeInv' /\ UNCHANGED <<service, meant, at, past>>
      /\ \A u \in Targets \ {t} : stage'[u] = stage[u] /\ told'[u] = told[u]
  BY <1>1 DEF IInv, TypeInv, Return
<1>3. TargetInv(t)
  BY DEF IInv
<1>4. /\ meant'[t] = meant[t] /\ at'[t] = at[t] /\ phase'[t] = phase[t]
      /\ request'[t] = request[t] /\ past' = past /\ policy' = policy
  BY <1>2 DEF service
<1>5. ToldInv(t)'
  <2>1. CASE meant[t] = Failure
    BY <1>2, <1>4, <2>1, ReturnedFailure, FailureIsNoFact
  <2>2. CASE \E code \in Codes(ResolveOperations), named \in BOOLEAN :
               meant[t] = Refused(code, named)
    <3>1. PICK code \in Codes(ResolveOperations), named \in BOOLEAN : meant[t] = Refused(code, named)
      BY <2>2
    <3>2. PICK error : error.code = code /\ told'[t] = Err(DomainArm(error))
      BY <1>2, <3>1, ReturnedRefusal
    <3>3. meant'[t].kind = "refusal" /\ meant'[t].reply = code
      BY <1>4, <3>1 DEF Refused, Meant
    <3>4. /\ told'[t].ok = FALSE /\ told'[t].it.arm = "domain"
          /\ told'[t].it.error.code = code
      BY <3>2 DEF Err, DomainArm
    <3> QED
      BY <3>3, <3>4 DEF ToldInv, Distinguishes
  <2>3. CASE /\ meant[t] = Answered(meant[t].reply, meant[t].left)
             /\ meant[t].left \subseteq ResolveEntitlementResponse
             /\ phase[t] = "done"
             /\ FactIn(past, policy, meant[t].reply, request[t], at[t])
    <3> DEFINE reply == meant[t].reply
               left  == meant[t].left
    <3>1. meant'[t].kind = "answer" /\ meant'[t].left = left
      <4>1. meant[t].kind = "answer"
        BY <2>3 DEF Answered, Meant
      <4> QED
        BY <1>4, <4>1
    <3>2. CASE left = {}
      <4>1. PICK it : /\ told'[t] = Ok(it)
                      /\ it.id = reply.id /\ it.granted = reply.granted
                      /\ it.limit = reply.limit /\ it.revision = reply.revision
        BY <1>2, <2>3, <3>2, ReturnedAnswer
      <4>2. told'[t].ok = TRUE /\ told'[t].it = it
        BY <4>1 DEF Ok
      <4>3. FactIn(past, policy, it, request[t], at[t])
        BY <2>3, <4>1 DEF FactIn
      <4>4. Distinguishes(t)'
        BY <3>1, <3>2, <4>2 DEF Distinguishes
      <4> QED
        BY <1>4, <2>3, <4>2, <4>3, <4>4 DEF ToldInv
    <3>3. CASE left # {}
      <4>1. told'[t] = Err(RuntimeArm)
        BY <1>2, <2>3, <3>3, ReturnedPartial
      <4>2. told'[t].ok = FALSE
        BY <4>1 DEF Err
      <4> QED
        BY <3>1, <3>3, <4>2 DEF ToldInv, Distinguishes
    <3> QED
      BY <3>2, <3>3
  <2> QED
    BY <1>2, <1>3, <2>1, <2>2, <2>3 DEF TargetInv, AnswerInv
<1>6. QueryInv(t)' /\ ResponseInv(t)' /\ AnswerInv(t)'
  BY <1>2, <1>3 DEF TargetInv, QueryInv, ResponseInv, AnswerInv, service
<1> QED
  BY <1>2, <1>5, <1>6, QuietService, TargetStep DEF IInv, TargetInv, service, Callers

--------------------------------------------------------------------------------
(* The admins' steps, time, and the theorem.                                *)

(* Admins change tables under the targets' calls: the history grows. *)
LEMMA MutateStep ==
  ASSUME IInv, NEW c \in Admins, Mutate(c)
  PROVE  IInv'
<1>1. /\ ServiceInv /\ PastInv /\ TypeInv /\ c \in Callers /\ UNCHANGED calls /\ Track
      /\ \/ \/ Service!Ask(c) \/ Service!Open(c) \/ Service!RevokeNothing(c)
            \/ Service!Abandon(c) \/ Service!Return(c)
         \/ Service!Put(c) \/ Service!Revoke(c)
  BY DEF IInv, Mutate, Callers
<1>2. ServiceInv' /\ OthersStay(c) /\ ScopeSteps
  <2>1. CASE Service!Put(c) \/ Service!Revoke(c)
    BY <1>1, <2>1, MutationService
  <2>2. CASE \/ Service!Ask(c) \/ Service!Open(c) \/ Service!RevokeNothing(c)
             \/ Service!Abandon(c) \/ Service!Return(c)
    <3>1. ServiceInv' /\ OthersStay(c) /\ UNCHANGED <<policy, facts>>
      BY <1>1, <2>2, CallService
    <3> QED
      BY <3>1 DEF ScopeSteps, SameIn
  <2> QED
    BY <1>1, <2>1, <2>2
<1>3. PastInv' /\ HistoryGrows
  BY <1>1, <1>2, TrackPast
<1>4. TypeInv'
  BY <1>1 DEF TypeInv, calls
<1>5. ASSUME NEW t \in Targets PROVE TargetInv(t)'
  <2>1. t \in Callers \ {c}
    BY QueriesAssumption DEF Callers
  <2>2. Stays(t)
    BY <1>1, <1>2, <2>1 DEF Stays, OthersStay, calls
  <2> QED
    BY <1>1, <1>3, <2>2, Bystander DEF IInv
<1> QED
  BY <1>2, <1>3, <1>4, <1>5 DEF IInv

LEMMA TickStep ==
  ASSUME IInv, Tick
  PROVE  IInv'
<1>1. clock' \in Nat /\ UNCHANGED <<policy, facts, phase, request, opened, response>>
  BY TablesAssumption DEF IInv, ServiceInv, Tick, Service!Tick
<1>2. UNCHANGED <<stage, told, meant, at, past>>
  BY DEF Tick, calls
<1>3. ServiceInv' /\ PastInv' /\ TypeInv'
  BY <1>1, <1>2 DEF IInv, ServiceInv, PastInv, TypeInv
<1>4. ASSUME NEW t \in Targets PROVE TargetInv(t)'
  <2>1. TargetInv(t)
    BY DEF IInv
  <2> QED
    BY <1>1, <1>2, <2>1 DEF TargetInv, QueryInv, ResponseInv, AnswerInv, ToldInv, Distinguishes
<1> QED
  BY <1>3, <1>4 DEF IInv

LEMMA StutterTargets ==
  ASSUME IInv, UNCHANGED vars
  PROVE  IInv'
<1>1. UNCHANGED <<clock, policy, facts, phase, request, opened, response>>
  BY DEF vars, service
<1>2. UNCHANGED <<stage, told, meant, at, past>>
  BY DEF vars, calls
<1>3. ServiceInv' /\ PastInv' /\ TypeInv'
  BY <1>1, <1>2 DEF IInv, ServiceInv, PastInv, TypeInv
<1>4. ASSUME NEW t \in Targets PROVE TargetInv(t)'
  <2>1. TargetInv(t)
    BY DEF IInv
  <2> QED
    BY <1>1, <1>2, <2>1 DEF TargetInv, QueryInv, ResponseInv, AnswerInv, ToldInv, Distinguishes
<1> QED
  BY <1>3, <1>4 DEF IInv

LEMMA InitTargets == Init => IInv
<1> SUFFICES ASSUME Init PROVE IInv
  OBVIOUS
<1>1. ServiceInv /\ facts = [g \in GrantIds |-> NoRow]
  BY DEF Init, Service!Init, ServiceInv, Tables, Phases, Callers
<1>2. PastInv
  <2>1. past = [s \in Scopes |-> <<facts>>] /\ policy = [s \in Scopes |-> 0]
    BY DEF Init, Service!Init
  <2>2. <<facts>> \in Seq(Tables) /\ Len(<<facts>>) = 1 /\ <<facts>>[1] = facts
    BY <1>1 DEF ServiceInv
  <2>3. past \in [Scopes -> Seq(Tables)]
    BY <2>1, <2>2
  <2>4. ASSUME NEW s \in Scopes
        PROVE  Len(past[s]) = policy[s] + 1 /\ SameIn(s, past[s][policy[s] + 1], facts)
    BY <2>1, <2>2 DEF SameIn
  <2> QED
    BY <2>3, <2>4 DEF PastInv
<1>3. TypeInv
  BY DEF Init, TypeInv
<1>4. ASSUME NEW t \in Targets PROVE TargetInv(t)
  <2>1. stage[t] = "idle" /\ meant[t] = Failure /\ phase[t] = "idle"
    BY DEF Init, Service!Init
  <2> QED
    BY <2>1 DEF TargetInv, QueryInv, ResponseInv, AnswerInv, ToldInv
<1> QED
  BY <1>1, <1>2, <1>3, <1>4 DEF IInv

LEMMA NextTargets == IInv /\ [Next]_vars => IInv'
<1> SUFFICES ASSUME IInv, [Next]_vars PROVE IInv'
  OBVIOUS
<1>1. CASE Tick
  BY <1>1, TickStep
<1>2. ASSUME NEW c \in Admins, Mutate(c) PROVE IInv'
  BY <1>2, MutateStep
<1>3. ASSUME NEW t \in Targets,
             \/ ResolveEntitlement(t) \/ Refuse(t) \/ Unavailable(t) \/ Provide(t)
             \/ Answer(t) \/ Return(t) \/ GiveUp(t) \/ Leave(t)
      PROVE  IInv'
  BY <1>3, ResolveStep, RefuseStep, UnavailableStep, ProvideStep, AnswerStep, ReturnStep,
     GiveUpStep, LeaveStep
<1>4. CASE UNCHANGED vars
  BY <1>4, StutterTargets
<1> QED
  BY <1>1, <1>2, <1>3, <1>4 DEF Next

(* In every reachable state the history holds the tables of every revision, *)
(* and what a target's call has come to so far is so in it.                 *)
THEOREM Inductive == Spec => []IInv
BY InitTargets, NextTargets, PTL DEF Spec

(* Whatever the lane and the version, a fact a target is told is so at the  *)
(* revision it names and at an instant of the call.                         *)
THEOREM FactsReachTargets == Spec => []FactsAreTrue
<1>1. IInv => FactsAreTrue
  <2> SUFFICES ASSUME IInv, NEW t \in Targets, stage[t] = "done", told[t].ok
               PROVE  LET fact == told[t].it
                          q    == request[t]
                          then == past[q.scope][fact.revision + 1]
                          held == {g \in GrantIds :
                                     /\ then[g] # NoRow
                                     /\ then[g].scope = q.scope /\ then[g].key = q.key
                                     /\ Active(then[g], at[t])}
                      IN IF fact.granted
                         THEN fact.id \in held /\ then[fact.id].limit = fact.limit
                         ELSE held = {} /\ fact.id = NULL /\ fact.limit = NULL
    BY DEF FactsAreTrue
  <2>1. FactIn(past, policy, told[t].it, request[t], at[t])
    BY DEF IInv, TargetInv, ToldInv
  <2> QED
    BY <2>1 DEF FactIn, Standing
<1> QED
  BY <1>1, Inductive, PTL

(* No refusal, failure or partial answer is told as a fact or as another.   *)
THEOREM FactsAreAnswers == Spec => []OnlyAnswersAreFacts
<1>1. IInv => OnlyAnswersAreFacts
  <2>1. ASSUME IInv, NEW t \in Targets, stage[t] = "done"
        PROVE  Distinguishes(t)
    BY <2>1 DEF IInv, TargetInv, ToldInv
  <2> QED
    BY <2>1 DEF OnlyAnswersAreFacts, Distinguishes
<1> QED
  BY <1>1, Inductive, PTL
================================================================================
