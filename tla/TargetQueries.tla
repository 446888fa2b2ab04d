------------------------------ MODULE TargetQueries ------------------------------
(***************************************************************************)
(* Target plugins that ask resolve_entitlement through EntitlementsClient, *)
(* over either lane, and go by the fact they are told, while admins put    *)
(* and revoke grants.  The provider is EntitlementService, which the       *)
(* PostgreSQL plugin implements.                                           *)
(***************************************************************************)
EXTENDS CapabilityEndpoint, Sequences

CONSTANTS
  Targets,     \* calls of target plugins that may be under way at once
  Admins,      \* calls of admins beside them
  Requests,    \* of EntitlementService: queries, puts and revocations
  MaxClock,
  MaxRevision  \* bound: no call takes a scope past this revision

ASSUME QueriesAssumption ==
  /\ Targets \cap Admins = {}
  /\ \A q \in Requests :
       /\ q.op \in {"put", "resolve"} => q.scope \in Scopes /\ q.key \in Keys
       /\ q.op = "put" => q.limit \in StoredLimits /\ q.expires_at \in Instants
  /\ MaxClock \in Nat
  /\ MaxRevision \in Nat

VARIABLES
  clock, policy, facts, phase, request, opened, response,  \* EntitlementService
  stage,  \* where the call of each target stands
  told,   \* what its client returned
  meant,  \* history: what the provider answered, before any lane carried it
  at,     \* history: the instant the provider judged expiry at
  past    \* history: scope -> its grants at each revision it has had, from 0 on

service == <<clock, policy, facts, phase, request, opened, response>>
calls   == <<stage, told, meant, at>>
vars    == <<service, calls, past>>

Service == INSTANCE EntitlementService WITH Callers <- Targets \cup Admins

--------------------------------------------------------------------------------
Operation == "resolve_entitlement"

Nothing == Invoked(RuntimeFailure)

(* What a provider means: a response, some of which another version may     *)
(* leave out; a refusal; or a failure.                                      *)
Meant(kind, reply, named, left) ==
  [kind |-> kind, reply |-> reply, named |-> named, left |-> left]

Answered(reply, left) == Meant("answer", reply, TRUE, left)
Refused(code, named)  == Meant("refusal", code, named, {})
Failure               == Meant("failure", Absent, TRUE, {})

(* grant_id and limit are null in a denial. *)
Reply(r) == [id |-> IF r.granted THEN r.id ELSE NULL, granted |-> r.granted,
             limit |-> r.limit, revision |-> r.revision]

Delivered(answer) ==
  CASE answer.kind = "refusal" ->
         RefusalOutcomes(Operation, ResolveOperations, answer.reply, answer.named)
    [] answer.kind = "failure" -> FailureOutcomes(Operation)
    [] answer.kind = "answer" /\ answer.left = {} ->
         ResponseOutcomes(Operation, ResolveOperations, answer.reply)
    [] answer.kind = "answer" /\ answer.left # {} ->
         PortableResponse(Operation, Encode(ResolveEntitlementResponse \ answer.left, answer.reply))

--------------------------------------------------------------------------------
Init ==
  /\ Service!Init
  /\ stage = [t \in Targets |-> "idle"]
  /\ told = [t \in Targets |-> Nothing]
  /\ meant = [t \in Targets |-> Failure]
  /\ at = [t \in Targets |-> 0]
  /\ past = [s \in Scopes |-> <<facts>>]

Track ==
  past' = [s \in Scopes |-> IF policy'[s] = policy[s] THEN past[s]
                            ELSE Append(past[s], facts')]

(* The target calls its client, and the provider has the request. *)
ResolveEntitlement(t) ==
  /\ stage[t] = "idle"
  /\ Service!Ask(t)
  /\ request'[t].op = "resolve"
  /\ stage' = [stage EXCEPT ![t] = "out"]
  /\ UNCHANGED <<told, meant, at, past>>

(* The provider refuses it: an unlisted caller or an invalid name, an error *)
(* of its own version, or one it passes on without a name for it.           *)
Refuse(t) ==
  /\ stage[t] = "idle"
  /\ \E code \in Codes(ResolveOperations), named \in BOOLEAN :
       meant' = [meant EXCEPT ![t] = Refused(code, named)]
  /\ stage' = [stage EXCEPT ![t] = "answered"]
  /\ UNCHANGED <<service, told, at, past>>

(* The kernel has no provider for it, or none that is free. *)
Unavailable(t) ==
  /\ stage[t] = "idle"
  /\ told' = [told EXCEPT ![t] = Invoked(Native({}, Operation, RuntimeFailure))]
  /\ stage' = [stage EXCEPT ![t] = "done"]
  /\ UNCHANGED <<service, meant, at, past>>

Provide(t) ==
  /\ Service!Open(t) \/ Service!Query(t) \/ Service!Abandon(t)
  /\ at' = [at EXCEPT ![t] = IF phase[t] = "open" THEN opened[t] ELSE @]
  /\ UNCHANGED <<stage, told, meant, past>>

(* Its answer is on the way back, whole or with a member left out. *)
Answer(t) ==
  /\ stage[t] = "out" /\ phase[t] = "done"
  /\ IF response[t].status = "failure"
     THEN meant' = [meant EXCEPT ![t] = Failure]
     ELSE \E left \in {{}} \cup {{m} : m \in ResolveEntitlementResponse} :
            meant' = [meant EXCEPT ![t] = Answered(Reply(response[t]), left)]
  /\ stage' = [stage EXCEPT ![t] = "answered"]
  /\ UNCHANGED <<service, told, at, past>>

(* The client returns what the lane made of it. *)
Return(t) ==
  /\ stage[t] = "answered"
  /\ \E outcome \in Delivered(meant[t]) : told' = [told EXCEPT ![t] = Invoked(outcome)]
  /\ stage' = [stage EXCEPT ![t] = "done"]
  /\ UNCHANGED <<service, meant, at, past>>

(* The deadline of the call passes before its answer is there. *)
GiveUp(t) ==
  /\ stage[t] \in {"out", "answered"}
  /\ told' = [told EXCEPT ![t] = Nothing]
  /\ meant' = [meant EXCEPT ![t] = Failure]
  /\ stage' = [stage EXCEPT ![t] = "done"]
  /\ UNCHANGED <<service, at, past>>

(* The target is through with what it was told. *)
Leave(t) ==
  /\ stage[t] = "done"
  /\ IF phase[t] = "idle" THEN UNCHANGED service ELSE Service!Return(t)
  /\ stage' = [stage EXCEPT ![t] = "idle"]
  /\ told' = [told EXCEPT ![t] = Nothing]
  /\ meant' = [meant EXCEPT ![t] = Failure]
  /\ at' = [at EXCEPT ![t] = 0]
  /\ UNCHANGED past

(* An admin's call, or time, goes on. *)
Mutate(c) ==
  /\ \/ Service!Ask(c) /\ request'[c].op # "resolve"
     \/ Service!Open(c) \/ Service!Put(c) \/ Service!Revoke(c) \/ Service!RevokeNothing(c)
     \/ Service!Abandon(c) \/ Service!Return(c)
  /\ \A s \in Scopes : policy'[s] <= MaxRevision
  /\ UNCHANGED calls
  /\ Track

Tick == Service!Tick /\ UNCHANGED <<calls, past>>

Next ==
  \/ Tick
  \/ \E c \in Admins : Mutate(c)
  \/ \E t \in Targets :
       \/ ResolveEntitlement(t) \/ Refuse(t) \/ Unavailable(t) \/ Provide(t)
       \/ Answer(t) \/ Return(t) \/ GiveUp(t) \/ Leave(t)

Spec == Init /\ [][Next]_vars

--------------------------------------------------------------------------------
(* Properties.                                                              *)

(* "stable default-deny fact": whatever lane and version carried it, a fact *)
(* a target is told is so at the revision it names and at an instant of the *)
(* call: the grant stands, unexpired and with that limit, or none does.     *)
FactsAreTrue ==
  \A t \in Targets : stage[t] = "done" /\ told[t].ok =>
    LET fact == told[t].it
        q    == request[t]
        then == past[q.scope][fact.revision + 1]
        held == {g \in GrantIds : /\ then[g] # NoRow
                                  /\ then[g].scope = q.scope /\ then[g].key = q.key
                                  /\ Active(then[g], at[t])}
    IN IF fact.granted
       THEN fact.id \in held /\ then[fact.id].limit = fact.limit
       ELSE held = {} /\ fact.id = NULL /\ fact.limit = NULL

(* A refusal, a failure and an answer that is not whole never come to a     *)
(* target as a fact, denials included, and none comes as another: a target  *)
(* may keep a denial, and has to ask again after a failure.                 *)
OnlyAnswersAreFacts ==
  \A t \in Targets : stage[t] = "done" =>
    CASE meant[t].kind = "answer"  -> told[t].ok <=> meant[t].left = {}
      [] meant[t].kind = "refusal" -> /\ ~told[t].ok /\ told[t].it.arm = "domain"
                                      /\ told[t].it.error.code = meant[t].reply
      [] meant[t].kind = "failure" -> ~told[t].ok /\ told[t].it.arm = "runtime"
================================================================================
