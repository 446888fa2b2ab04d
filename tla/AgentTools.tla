------------------------------- MODULE AgentTools -------------------------------
(***************************************************************************)
(* The admin agent tools plugin: an agent host runs its three tools, each  *)
(* decodes its arguments, calls the admin capability and tells the agent   *)
(* what came of it.  The provider is EntitlementService, which the         *)
(* PostgreSQL plugin implements.  A call may be given up by the host while *)
(* the provider is still at it.                                            *)
(***************************************************************************)
EXTENDS CapabilityEndpoint

CONSTANTS
  Agents,      \* tool calls that may run at once
  Requests,    \* of EntitlementService: the puts and revocations agents ask for
  MaxClock,
  MaxRevision  \* bound: no call takes a scope past this revision

ASSUME ToolsAssumption ==
  /\ \A q \in Requests : q.op = "put" =>
       /\ q.scope \in Scopes /\ q.key \in Keys
       /\ q.limit \in StoredLimits /\ q.expires_at \in Instants
  /\ MaxClock \in Nat
  /\ MaxRevision \in Nat

VARIABLES
  clock, policy, facts, phase, request, opened, response,  \* EntitlementService
  stage,   \* where the tool call of each agent stands
  call,    \* the tool it runs and the arguments the agent gave
  meant,   \* what its provider answered, before any lane carried it
  result,  \* what the agent was told
  effect,  \* history: the changes the provider made for the call
  alone    \* history: the calls beside which no given-up call has run

service == <<clock, policy, facts, phase, request, opened, response>>
vars    == <<service, stage, call, meant, result, effect, alone>>

Service == INSTANCE EntitlementService WITH Callers <- Agents

--------------------------------------------------------------------------------
(* Fault: every tool is declared parallel-safe. *)
AllParallel(op) == "parallel_safe"

(* tool_definitions: the execution class of each tool. *)
Execution(op) == IF op = "list_grants" THEN "parallel_safe" ELSE "exclusive"

(* What agents ask for: a mutation of the instance, or a listing. *)
Asked(op) ==
  CASE op = "put_grant"    -> {q \in Requests : q.op = "put"}
    [] op = "revoke_grant" -> {q \in Requests : q.op = "revoke"}
    [] op = "list_grants"  -> [scope : Scopes, key : {NULL}, status : {"all"},
                               limit : {1}, cursor : {NULL}]

Extended(object) ==
  [m \in DOMAIN object \cup {"further"} |-> IF m = "further" THEN NULL ELSE object[m]]

(* The JSON an agent may give for it: as the tool's schema has it, with a   *)
(* member left out, or with one the schema does not have.                   *)
Arguments(op) ==
  LET whole == {Encode(RequestMembers[op], q) : q \in Asked(op)} IN
  whole \cup {Extended(object) : object \in whole}
    \cup {Encode(RequestMembers[op] \ {m}, object) : object \in whole, m \in RequestMembers[op]}

NoCall == [op |-> "none", said |-> [m \in {} |-> NULL]]

Told(kind, error, changed, revision) ==
  [kind |-> kind, error |-> error, changed |-> changed, revision |-> revision]

Untold == Told("none", "none", FALSE, 0)
Failed(error) == Told("domain", error, FALSE, 0)

(* map_list_error, map_put_error, map_revoke_error: of an unknown error the *)
(* agent is told neither code nor body.                                     *)
MapError(error) ==
  IF ~error.known THEN "execution_failed"
  ELSE CASE error.code = "forbidden" -> "permission_denied"
         [] error.code \in {"invalid_query", "invalid_grant"} -> "invalid_arguments"
         [] error.code = "not_found" -> "not_found"

Success(reply) ==
  Told("ok", "none", "changed" \in DOMAIN reply /\ reply.changed, reply.revision)

(* Fault: a runtime failure is told as a rejection by the provider. *)
TellRejected(returned) ==
  CASE returned.ok -> Success(returned.it)
    [] ~returned.ok /\ returned.it.arm = "domain" -> Failed(MapError(returned.it.error))
    [] ~returned.ok /\ returned.it.arm = "runtime" -> Failed("execution_failed")

(* The arms of execute: what the agent is told of what the client returned. *)
Tell(returned) ==
  CASE returned.ok -> Success(returned.it)
    [] ~returned.ok /\ returned.it.arm = "domain" -> Failed(MapError(returned.it.error))
    [] ~returned.ok /\ returned.it.arm = "runtime" -> Told("runtime", "none", FALSE, 0)

--------------------------------------------------------------------------------
(* What the provider means by its answer, and what may come of that on the  *)
(* way to the adapter.                                                      *)

Meant(kind, code, named, changed, revision) ==
  [kind |-> kind, code |-> code, named |-> named, changed |-> changed, revision |-> revision]

Done(changed, revision) == Meant("done", Absent, TRUE, changed, revision)
Refused(code, named)    == Meant("refused", code, named, FALSE, 0)
Failure                 == Meant("failure", Absent, TRUE, FALSE, 0)

Delivered(op, answer) ==
  CASE answer.kind = "done"    -> ResponseOutcomes(op, AdminOperations, answer)
    [] answer.kind = "refused" -> RefusalOutcomes(op, AdminOperations, answer.code, answer.named)
    [] answer.kind = "failure" -> FailureOutcomes(op)

--------------------------------------------------------------------------------
Init ==
  /\ Service!Init
  /\ stage = [a \in Agents |-> "idle"]
  /\ call = [a \in Agents |-> NoCall]
  /\ meant = [a \in Agents |-> Failure]
  /\ result = [a \in Agents |-> Untold]
  /\ effect = [a \in Agents |-> 0]
  /\ alone = {}

Running == {a \in Agents : stage[a] \notin {"idle", "done"}}

(* Calls the host has given up and the provider has not. *)
GivenUp == {a \in Agents : stage[a] = "done" /\ phase[a] \in {"asked", "open"}}

(* The agent host runs an exclusive tool by itself. *)
MayRun(op) ==
  \A b \in Running : Execution(op) = "parallel_safe" /\ Execution(call[b].op) = "parallel_safe"

Finish(a, told) ==
  /\ stage' = [stage EXCEPT ![a] = "done"]
  /\ result' = [result EXCEPT ![a] = told]

ExecuteUnknown(a) ==
  /\ stage[a] = "idle"
  /\ Finish(a, Failed("not_found"))
  /\ UNCHANGED <<service, call, meant, effect, alone>>

(* Arguments that do not decode are refused before anything is called. *)
Execute(a) ==
  /\ stage[a] = "idle"
  /\ \E op \in AdminOperations : \E said \in Arguments(op) :
       /\ MayRun(op)
       /\ IF Decode(RequestMembers[op], said) = {}
          THEN /\ Finish(a, Failed("invalid_arguments"))
               /\ UNCHANGED <<call, alone>>
          ELSE /\ call' = [call EXCEPT ![a] = [op |-> op, said |-> said]]
               /\ stage' = [stage EXCEPT ![a] = "invoked"]
               /\ alone' = IF GivenUp = {} THEN alone \cup {a} ELSE alone \ {a}
               /\ UNCHANGED result
  /\ UNCHANGED <<service, meant, effect>>

(* The kernel has no provider for the call, or none that is free, or one of *)
(* an earlier version without the operation.                                *)
Unavailable(a) ==
  /\ stage[a] = "invoked"
  /\ Finish(a, Tell(Invoked(Native({}, call[a].op, RuntimeFailure))))
  /\ meant' = [meant EXCEPT ![a] = Failure]
  /\ UNCHANGED <<service, call, effect, alone>>

(* The request the adapter makes of the arguments, over either lane. *)
Carried(a) ==
  LET members == RequestMembers[call[a].op]
      decoded == Decode(members, call[a].said)
  IN decoded \cup UNION {Decode(members, Encode(members, q)) : q \in decoded}

(* The provider has the call: a mutation of the instance's, or a listing. *)
Invoke(a) ==
  /\ stage[a] = "invoked"
  /\ IF call[a].op = "list_grants" THEN UNCHANGED service
     ELSE /\ Service!Ask(a)
          /\ request'[a] \in Asked(call[a].op)
          /\ Encode(RequestMembers[call[a].op], request'[a]) \in Carried(a)
  /\ stage' = [stage EXCEPT ![a] = "out"]
  /\ UNCHANGED <<call, meant, result, effect, alone>>

(* It refuses the call, with an error of its own version, or with one that  *)
(* another provider gave it and that its version does not name.             *)
Refuse(a) ==
  /\ stage[a] = "invoked"
  /\ \E code \in Codes(AdminOperations), named \in BOOLEAN :
       meant' = [meant EXCEPT ![a] = Refused(code, named)]
  /\ stage' = [stage EXCEPT ![a] = "answered"]
  /\ UNCHANGED <<service, call, result, effect, alone>>

(* It works on a mutation, asked for still or given up. *)
Provide(a) ==
  /\ \/ Service!Open(a) \/ Service!Put(a) \/ Service!Revoke(a)
     \/ Service!RevokeNothing(a) \/ Service!Abandon(a)
  /\ \A s \in Scopes : policy'[s] <= MaxRevision
  /\ effect' = [effect EXCEPT ![a] = IF facts' = facts THEN @ ELSE @ + 1]
  /\ UNCHANGED <<stage, call, meant, result, alone>>

(* Its answer to a mutation is on the way back. *)
Answer(a) ==
  /\ stage[a] = "out" /\ phase[a] = "done"
  /\ meant' = [meant EXCEPT ![a] =
       CASE response[a].status = "ok" -> Done(response[a].changed, response[a].revision)
         [] response[a].status = "failure" -> Failure
         [] OTHER -> Refused(response[a].status, TRUE)]
  /\ stage' = [stage EXCEPT ![a] = "answered"]
  /\ UNCHANGED <<service, call, result, effect, alone>>

(* A listing reads its scope at one instant, or fails. *)
AnswerList(a) ==
  /\ stage[a] = "out" /\ call[a].op = "list_grants"
  /\ \E answer \in {Done(FALSE, policy[call[a].said.scope]), Failure} :
       meant' = [meant EXCEPT ![a] = answer]
  /\ stage' = [stage EXCEPT ![a] = "answered"]
  /\ UNCHANGED <<service, call, result, effect, alone>>

(* The client has the outcome and the adapter tells the agent. *)
Reply(a) ==
  /\ stage[a] = "answered"
  /\ \E outcome \in Delivered(call[a].op, meant[a]) : Finish(a, Tell(Invoked(outcome)))
  /\ UNCHANGED <<service, call, meant, effect, alone>>

(* The deadline of the call passes, or the host goes without its answer.    *)
(* The provider may be told, and may be too far on to stop.                 *)
GiveUp(a) ==
  /\ stage[a] \in {"out", "answered"}
  /\ Finish(a, Tell(Invoked(RuntimeFailure)))
  /\ meant' = [meant EXCEPT ![a] = Failure]
  /\ alone' = IF phase[a] \in {"asked", "open"} THEN {} ELSE alone
  /\ UNCHANGED <<service, call, effect>>

(* The agent takes the result and may use a tool again. *)
Leave(a) ==
  /\ stage[a] = "done"
  /\ IF phase[a] = "idle" THEN UNCHANGED service ELSE Service!Return(a)
  /\ stage' = [stage EXCEPT ![a] = "idle"]
  /\ call' = [call EXCEPT ![a] = NoCall]
  /\ meant' = [meant EXCEPT ![a] = Failure]
  /\ result' = [result EXCEPT ![a] = Untold]
  /\ effect' = [effect EXCEPT ![a] = 0]
  /\ alone' = alone \ {a}

Next ==
  \E a \in Agents :
    \/ ExecuteUnknown(a) \/ Execute(a) \/ Unavailable(a) \/ Invoke(a) \/ Refuse(a)
    \/ Provide(a) \/ Answer(a) \/ AnswerList(a) \/ Reply(a) \/ GiveUp(a) \/ Leave(a)

Spec == Init /\ [][Next]_vars

--------------------------------------------------------------------------------
(* Properties.                                                              *)

(* What an agent is told of a mutation is so: one that was rejected changed *)
(* nothing, on any lane and at any version of the provider, and one that    *)
(* succeeded changed what it says, once.  Only after a runtime failure does *)
(* the agent not know.                                                      *)
ResultsTellEffects ==
  \A a \in Agents : stage[a] = "done" =>
    /\ result[a].kind = "domain" => effect[a] = 0
    /\ result[a].kind = "ok" => effect[a] = (IF result[a].changed THEN 1 ELSE 0)

(* "preserves domain errors": a rejection reaches the agent as the kind of  *)
(* rejection it was, whichever lane carried it, and one that this version,  *)
(* or a relay of an earlier one, has no name for as a rejection still, of   *)
(* no kind; a runtime failure never as one.                                 *)
RejectionsSurvive ==
  \A a \in Agents : stage[a] = "done" /\ call[a].op \in AdminOperations =>
    LET kind == result[a].kind
        code == meant[a].code IN
    CASE meant[a].kind = "done" -> kind = "ok" /\ result[a].revision = meant[a].revision
      [] meant[a].kind = "failure" -> kind = "runtime"
      [] meant[a].kind = "refused" ->
           /\ kind = "domain"
           /\ result[a].error =
                IF ~meant[a].named \/ code \notin KnownErrors[call[a].op] THEN "execution_failed"
                ELSE IF code \in {"forbidden"} THEN "permission_denied"
                ELSE IF code = "not_found" THEN "not_found" ELSE "invalid_arguments"

(* "one parallel-safe read Tool and two exclusive mutation Tools": run by   *)
(* its class, no tool tells an agent a revision that another tool of the    *)
(* host has already superseded, unless a call that was given up was still   *)
(* on its way.                                                              *)
ResultsAreCurrent ==
  [][\A a \in Agents :
       stage[a] = "answered" /\ stage'[a] = "done" /\ result'[a].kind = "ok" /\ a \in alone =>
         result'[a].revision = policy'[IF call[a].op = "list_grants" THEN call[a].said.scope
                                       ELSE response[a].scope]]_vars

(* Every member of a tool's input is required, the nullable ones too: a     *)
(* grant that a put of the agent's changes comes to be what the agent said, *)
(* and nothing it did not say: a limit left out is never "unlimited", an    *)
(* expiry left out never "for good".                                        *)
GrantsAreAsSaid ==
  [][\A a \in Agents, g \in GrantIds :
       phase[a] = "open" /\ phase'[a] # "open" /\ call[a].op = "put_grant"
         /\ facts'[g] # facts[g] =>
           /\ PutGrantRequest \subseteq DOMAIN call[a].said
           /\ \A m \in PutGrantRequest : facts'[g][m] = call[a].said[m]]_vars

(* "deny_unknown_fields", and "additionalProperties": false in the tools'   *)
(* input schemas: a tool call whose arguments have members the contract     *)
(* does not have changes nothing.                                           *)
FurtherMembersChangeNothing ==
  \A a \in Agents : "further" \in DOMAIN call[a].said => effect[a] = 0
================================================================================
