---------------------------- MODULE AgentToolsProofs ----------------------------
(***************************************************************************)
(* What an agent is told of its tool calls, for any agents, requests,      *)
(* grants and versions of the provider, and any calls that are given up.   *)
(***************************************************************************)
EXTENDS AgentTools, CapabilityEndpointProofs

--------------------------------------------------------------------------------
(* The inductive invariant.                                                 *)

Tables == [GrantIds -> Grant \cup {NoRow}]

TypeInv ==
  /\ clock \in Nat
  /\ policy \in [Scopes -> Nat]
  /\ facts \in Tables
  /\ phase \in [Agents -> {"idle", "asked", "open", "done"}]
  /\ opened \in [Agents -> Nat]
  /\ stage \in [Agents -> {"idle", "invoked", "out", "answered", "done"}]
  /\ effect \in [Agents -> Nat]
  /\ alone \subseteq Agents
  /\ request = [a \in Agents |-> request[a]] /\ response = [a \in Agents |-> response[a]]
  /\ call = [a \in Agents |-> call[a]] /\ meant = [a \in Agents |-> meant[a]]
  /\ result = [a \in Agents |-> result[a]]

Changes(changed) == IF changed THEN 1 ELSE 0

AtProvider(a) == phase[a] \in {"asked", "open"}

(* A tool that was called has the members it takes. *)
CallInv(a) ==
  /\ stage[a] = "idle" => call[a] = NoCall
  /\ stage[a] \in {"invoked", "out", "answered"} => call[a].op \in AdminOperations
  /\ call[a].op \in AdminOperations => RequestMembers[call[a].op] \subseteq DOMAIN call[a].said
  /\ call[a].op \notin AdminOperations => call[a].op = "none"

(* The provider has what the agent said, and only of a mutation. *)
PhaseInv(a) ==
  /\ stage[a] \in {"idle", "invoked"} => phase[a] = "idle"
  /\ stage[a] = "answered" => ~AtProvider(a)
  /\ phase[a] # "idle" => call[a].op \in {"put_grant", "revoke_grant"}
  /\ AtProvider(a) =>
       /\ request[a] \in Asked(call[a].op)
       /\ \A m \in RequestMembers[call[a].op] : request[a][m] = call[a].said[m]

(* Only a runtime failure leaves it open whether anything was changed. *)
EffectInv(a) ==
  /\ phase[a] # "done" => effect[a] = 0
  /\ phase[a] = "done" =>
       /\ response[a].status \in {"ok", "failure", "not_found"}
       /\ response[a].status = "ok" => /\ response[a].changed \in BOOLEAN
                                       /\ effect[a] = Changes(response[a].changed)
       /\ response[a].status = "not_found" => effect[a] = 0

AnswerInv(a) ==
  stage[a] = "answered" =>
    \/ meant[a] = Failure
    \/ /\ effect[a] = 0
       /\ \E code \in Codes(AdminOperations), named \in BOOLEAN : meant[a] = Refused(code, named)
    \/ /\ meant[a] = Done(meant[a].changed, meant[a].revision)
       /\ meant[a].changed \in BOOLEAN /\ effect[a] = Changes(meant[a].changed)

(* The error an agent is told of a code its operation may be refused with. *)
ToldOf(op, code, named) ==
  IF ~named \/ code \notin KnownErrors[op] THEN "execution_failed"
  ELSE IF code \in {"forbidden"} THEN "permission_denied"
  ELSE IF code = "not_found" THEN "not_found" ELSE "invalid_arguments"

Survives(a) ==
  call[a].op \in AdminOperations =>
    CASE meant[a].kind = "done" -> /\ result[a].kind = "ok"
                                   /\ result[a].revision = meant[a].revision
      [] meant[a].kind = "failure" -> result[a].kind = "runtime"
      [] meant[a].kind = "refused" -> /\ result[a].kind = "domain"
                                      /\ result[a].error = ToldOf(call[a].op, meant[a].code,
                                                                  meant[a].named)

TellsEffect(a) ==
  /\ result[a].kind = "domain" => effect[a] = 0
  /\ result[a].kind = "ok" => effect[a] = Changes(result[a].changed)

(* A call that the provider is still at was given up. *)
ResultInv(a) ==
  stage[a] = "done" => /\ Survives(a) /\ TellsEffect(a)
                       /\ AtProvider(a) => result[a].kind = "runtime"

ScopeOf(a) == IF call[a].op = "list_grants" THEN call[a].said.scope ELSE response[a].scope

(* No answer on its way has been superseded. *)
CurrentInv(a) ==
  a \in alone =>
    /\ stage[a] = "out" /\ phase[a] = "done" /\ response[a].status = "ok" =>
         response[a].revision = policy[response[a].scope]
    /\ stage[a] = "answered" /\ meant[a].kind = "done" =>
         meant[a].revision = policy[ScopeOf(a)]

AgentInv(a) ==
  CallInv(a) /\ PhaseInv(a) /\ EffectInv(a) /\ AnswerInv(a) /\ ResultInv(a) /\ CurrentInv(a)

(* Mutations run by themselves, but for those the host has given up. *)
ExclusionInv ==
  /\ alone # {} => GivenUp = {}
  /\ \A a, b \in Running : a # b =>
       Execution(call[a].op) = "parallel_safe" /\ Execution(call[b].op) = "parallel_safe"

IInv == TypeInv /\ ExclusionInv /\ \A a \in Agents : AgentInv(a)

--------------------------------------------------------------------------------
(* What is carried, and what is told.                                       *)

(* The request a provider gets has the members the agent gave it. *)
LEMMA CarriedIsSaid ==
  ASSUME NEW a \in Agents, RequestMembers[call[a].op] \subseteq DOMAIN call[a].said,
         NEW sent \in Carried(a)
  PROVE  \A m \in RequestMembers[call[a].op] : sent[m] = call[a].said[m]
<1> DEFINE members == RequestMembers[call[a].op]
           said    == call[a].said
           read    == Encode(members, said)
<1>1. DOMAIN read = members /\ \A m \in members : read[m] = said[m]
  BY DEF Encode
<1>2. Encode(members, read) = read
  BY <1>1 DEF Encode
<1>3. Decode(members, said) = {read} /\ Decode(members, read) = {read}
  BY <1>1, <1>2 DEF Decode
<1>4. Carried(a) = {read}
  <2> HIDE DEF read
  <2>1. Carried(a) = {read} \cup UNION {Decode(members, Encode(members, q)) : q \in {read}}
    BY <1>3 DEF Carried
  <2>2. UNION {Decode(members, Encode(members, q)) : q \in {read}} = {read}
    BY <1>2, <1>3
  <2> QED
    BY <2>1, <2>2
<1> HIDE DEF read, members, said
<1>5. sent = read
  BY <1>4
<1> QED
  BY <1>1, <1>5 DEF members, said

(* A failure is told as one. *)
LEMMA FailureIsTold ==
  ASSUME NEW op, NEW outcome \in Delivered(op, Failure)
  PROVE  Tell(Invoked(outcome)) = Told("runtime", "none", FALSE, 0)
<1>1. outcome \in FailureOutcomes(op)
  BY DEF Delivered, Failure, Meant
<1>2. Invoked(outcome) = Err(RuntimeArm)
  BY <1>1, FailureArrives
<1> QED
  BY <1>2 DEF Tell, Err, RuntimeArm

(* A refusal is told as the rejection it was, whatever version wrote it. *)
LEMMA RefusalIsTold ==
  ASSUME NEW op \in AdminOperations, NEW code \in Codes(AdminOperations),
         NEW named \in BOOLEAN, NEW outcome \in Delivered(op, Refused(code, named))
  PROVE  Tell(Invoked(outcome)) = Failed(ToldOf(op, code, named))
<1>1. outcome \in RefusalOutcomes(op, AdminOperations, code, named)
  <2>1. /\ Refused(code, named).kind = "refused" /\ Refused(code, named).code = code
        /\ Refused(code, named).named = named
    BY DEF Refused, Meant
  <2> QED
    BY <2>1 DEF Delivered
<1>2. code # Absent
  <2>1. AdminOperations \in SUBSET DOMAIN KnownErrors /\ AdminOperations # {}
    BY DEF AdminOperations, KnownErrors
  <2> QED
    BY <2>1, CodesArePresent
<1>3. PICK error \in ErrorsFor(op, code, named) : Invoked(outcome) = Err(DomainArm(error))
  BY <1>1, <1>2, RefusalArrives
<1>4. Tell(Invoked(outcome)) = Failed(MapError(error))
  <2> DEFINE returned == Err(DomainArm(error))
  <2>1. /\ returned.ok = FALSE /\ returned.it.arm = "domain" /\ returned.it.error = error
    BY DEF Err, DomainArm
  <2> HIDE DEF returned
  <2>2. Tell(returned) = Failed(MapError(error))
    BY <2>1 DEF Tell
  <2> QED
    BY <1>3, <2>2 DEF returned
<1>5. CASE ~named \/ code \notin KnownErrors[op]
  BY <1>3, <1>4, <1>5 DEF ErrorsFor, Unknown, MapError, ToldOf
<1>6. CASE named /\ code \in KnownErrors[op]
  <2>1. error.known /\ error.code = code
    BY <1>3, <1>6 DEF ErrorsFor, Known
  <2>2. code \in {"forbidden", "invalid_query", "invalid_grant", "not_found"}
    BY <1>6 DEF AdminOperations, KnownErrors, ListGrantsError, PutGrantError, RevokeGrantError
  <2> QED
    BY <1>4, <1>6, <2>1, <2>2 DEF MapError, ToldOf
<1> QED
  BY <1>5, <1>6

(* So is a success, with the revision it has. *)
LEMMA SuccessIsTold ==
  ASSUME NEW op \in AdminOperations, NEW changed \in BOOLEAN, NEW revision,
         op = "list_grants" => changed = FALSE,
         NEW outcome \in Delivered(op, Done(changed, revision))
  PROVE  Tell(Invoked(outcome)) = Told("ok", "none", changed, revision)
<1> DEFINE answer  == Done(changed, revision)
           members == ResponseMembers[op]
<1>1. outcome \in ResponseOutcomes(op, AdminOperations, answer)
  BY DEF Delivered, Done, Meant
<1>2. PICK it \in {answer, Encode(members, answer)} : Invoked(outcome) = Ok(it)
  BY <1>1, ResponseArrives
<1>3. Tell(Invoked(outcome)) = Success(it)
  BY <1>2 DEF Tell, Ok
<1>4. CASE it = answer
  BY <1>3, <1>4 DEF Success, Done, Meant
<1>5. CASE it = Encode(members, answer)
  <2>1. DOMAIN it = members /\ \A m \in members : it[m] = answer[m]
    BY <1>5 DEF Encode
  <2>2. CASE op = "list_grants"
    <3>1. members = {"revision"}
      BY <2>2 DEF ResponseMembers, ListGrantsResponse
    <3> QED
      BY <1>3, <2>1, <2>2, <3>1 DEF Success, Done, Meant
  <2>3. CASE op \in {"put_grant", "revoke_grant"}
    <3>1. members = {"changed", "revision"}
      BY <2>3 DEF ResponseMembers, MutationResponse
    <3>2. "changed" \in DOMAIN it /\ it.changed = changed /\ it.revision = revision
      BY <2>1, <3>1 DEF Done, Meant
    <3> QED
      BY <1>3, <3>2 DEF Success
  <2> QED
    BY <2>2, <2>3 DEF AdminOperations
<1> QED
  BY <1>2, <1>4, <1>5

--------------------------------------------------------------------------------
(* The steps of a tool call.                                                *)

(* A step leaves b's call as it is. *)
Stays(b) ==
  /\ stage'[b] = stage[b] /\ call'[b] = call[b] /\ meant'[b] = meant[b]
  /\ result'[b] = result[b] /\ effect'[b] = effect[b]
  /\ phase'[b] = phase[b] /\ request'[b] = request[b] /\ response'[b] = response[b]
  /\ b \in alone' => b \in alone

(* It tells b of a change to the policy only where b runs beside it. *)
LEMMA Bystander ==
  ASSUME NEW b \in Agents, AgentInv(b), Stays(b),
         policy' = policy \/ b \notin alone \/ stage[b] \notin {"out", "answered"}
  PROVE  AgentInv(b)'
<1>1. CallInv(b)' /\ PhaseInv(b)' /\ EffectInv(b)'
  BY DEF Stays, AgentInv, CallInv, PhaseInv, EffectInv, AtProvider
<1>2. AnswerInv(b)'
  BY DEF Stays, AgentInv, AnswerInv
<1>3. ResultInv(b)'
  BY DEF Stays, AgentInv, ResultInv, Survives, TellsEffect, AtProvider
<1>4. CurrentInv(b)'
  BY DEF Stays, AgentInv, CurrentInv, ScopeOf
<1> QED
  BY <1>1, <1>2, <1>3, <1>4 DEF AgentInv

(* A step that starts no tool and has none given up. *)
LEMMA ExclusionStays ==
  ASSUME ExclusionInv,
         \A b \in Agents : stage'[b] \notin {"idle", "done"} =>
           stage[b] \notin {"idle", "done"} /\ call'[b] = call[b],
         alone' # {} => /\ alone # {}
                        /\ \A b \in Agents : stage'[b] = "done" /\ AtProvider(b)' =>
                             stage[b] = "done" /\ AtProvider(b)
  PROVE  ExclusionInv'
<1>1. \A b \in Running' : b \in Running /\ call'[b] = call[b]
  BY DEF Running
<1>2. alone' # {} => GivenUp' = {}
  BY DEF ExclusionInv, GivenUp, AtProvider
<1>3. ASSUME NEW b \in Running', NEW c \in Running', b # c
      PROVE  /\ Execution(call'[b].op) = "parallel_safe"
             /\ Execution(call'[c].op) = "parallel_safe"
  BY <1>1, <1>3 DEF ExclusionInv
<1> QED
  BY <1>2, <1>3 DEF ExclusionInv

(* What an agent is told without a call is so. *)
LEMMA NotCalled ==
  ASSUME NEW a \in Agents, AgentInv(a), stage[a] = "idle", NEW error,
         call'[a] = call[a], phase'[a] = phase[a], effect'[a] = effect[a],
         result'[a] = Failed(error)
  PROVE  ResultInv(a)'
<1>1. call'[a].op \notin AdminOperations
  BY DEF AgentInv, CallInv, NoCall, AdminOperations
<1>2. ~AtProvider(a)' /\ effect'[a] = 0
  BY DEF AgentInv, PhaseInv, EffectInv, AtProvider
<1>3. result'[a].kind = "domain"
  BY DEF Failed, Told
<1> QED
  BY <1>1, <1>2, <1>3 DEF ResultInv, Survives, TellsEffect

LEMMA UnknownStep ==
  ASSUME IInv, NEW a \in Agents, ExecuteUnknown(a)
  PROVE  IInv'
<1>1. TypeInv'
  BY DEF IInv, TypeInv, ExecuteUnknown, Finish, service
<1>2. /\ stage[a] = "idle" /\ stage'[a] = "done" /\ result'[a] = Failed("not_found")
      /\ UNCHANGED <<service, call, meant, effect, alone>>
      /\ \A b \in Agents \ {a} : stage'[b] = stage[b] /\ result'[b] = result[b]
  BY DEF IInv, TypeInv, ExecuteUnknown, Finish
<1>3. AgentInv(a)'
  <2>1. AgentInv(a)
    BY DEF IInv
  <2>2. CallInv(a)' /\ PhaseInv(a)' /\ EffectInv(a)' /\ AnswerInv(a)' /\ CurrentInv(a)'
    BY <1>2, <2>1 DEF AgentInv, CallInv, PhaseInv, EffectInv, AnswerInv, CurrentInv,
       AtProvider, service
  <2>3. ResultInv(a)'
    BY <1>2, <2>1, NotCalled DEF service
  <2> QED
    BY <2>2, <2>3 DEF AgentInv
<1>4. ASSUME NEW b \in Agents \ {a} PROVE AgentInv(b)'
  BY <1>2, <1>4, Bystander DEF IInv, Stays, service
<1>5. ExclusionInv'
  BY <1>2, ExclusionStays DEF IInv, AtProvider, service, AgentInv, PhaseInv
<1> QED
  BY <1>1, <1>3, <1>4, <1>5 DEF IInv

LEMMA ExecuteStep ==
  ASSUME IInv, NEW a \in Agents, Execute(a)
  PROVE  IInv'
<1> DEFINE Called(op, said) ==
             /\ MayRun(op)
             /\ IF Decode(RequestMembers[op], said) = {}
                THEN /\ Finish(a, Failed("invalid_arguments"))
                     /\ UNCHANGED <<call, alone>>
                ELSE /\ call' = [call EXCEPT ![a] = [op |-> op, said |-> said]]
                     /\ stage' = [stage EXCEPT ![a] = "invoked"]
                     /\ alone' = IF GivenUp = {} THEN alone \cup {a} ELSE alone \ {a}
                     /\ UNCHANGED result
<1>0. PICK op \in AdminOperations : \E said \in Arguments(op) : Called(op, said)
  BY DEF Execute
<1>1. PICK said \in Arguments(op) : Called(op, said)
  BY <1>0
<1>2. AgentInv(a) /\ stage[a] = "idle" /\ UNCHANGED <<service, meant, effect>>
  BY DEF IInv, Execute
<1>3. TypeInv'
  BY <1>1, <1>2 DEF IInv, TypeInv, Finish, service
<1>4. \A b \in Agents \ {a} :
        /\ stage'[b] = stage[b] /\ result'[b] = result[b] /\ call'[b] = call[b]
        /\ b \in alone' => b \in alone
  BY <1>1 DEF IInv, TypeInv, Finish
<1>5. ASSUME NEW b \in Agents \ {a} PROVE AgentInv(b)'
  BY <1>2, <1>4, <1>5, Bystander DEF IInv, Stays, service
<1>6. CASE Decode(RequestMembers[op], said) = {}
  <2>1. /\ stage'[a] = "done" /\ result'[a] = Failed("invalid_arguments")
        /\ UNCHANGED <<call, alone>>
    BY <1>1, <1>6 DEF Finish, IInv, TypeInv
  <2>2. CallInv(a)' /\ PhaseInv(a)' /\ EffectInv(a)' /\ AnswerInv(a)' /\ CurrentInv(a)'
    BY <1>2, <2>1 DEF AgentInv, CallInv, PhaseInv, EffectInv, AnswerInv, CurrentInv,
       AtProvider, service
  <2>3. ResultInv(a)'
    BY <1>2, <2>1, NotCalled DEF service
  <2>4. ExclusionInv'
    BY <1>2, <1>4, <2>1, ExclusionStays DEF IInv, AtProvider, service, AgentInv, PhaseInv
  <2> QED
    BY <1>3, <1>5, <2>2, <2>3, <2>4 DEF IInv, AgentInv
<1>7. CASE Decode(RequestMembers[op], said) # {}
  <2>1. /\ stage'[a] = "invoked" /\ call'[a].op = op /\ call'[a].said = said
        /\ RequestMembers[op] \subseteq DOMAIN said
    <3>1. RequestMembers[op] \subseteq DOMAIN said
      BY <1>7 DEF Decode
    <3> QED
      BY <1>1, <1>7, <3>1 DEF IInv, TypeInv
  <2>2. CallInv(a)' /\ PhaseInv(a)' /\ EffectInv(a)' /\ AnswerInv(a)' /\ CurrentInv(a)' /\ ResultInv(a)'
    BY <1>2, <2>1 DEF AgentInv, CallInv, PhaseInv, EffectInv, AnswerInv, CurrentInv, ResultInv,
       AtProvider, service
  <2>3. ExclusionInv'
    <3>1. alone' # {} => GivenUp' = {}
      <4>1. GivenUp' \subseteq GivenUp
        BY <1>2, <1>4, <2>1 DEF GivenUp, service
      <4> QED
        BY <1>1, <1>7, <4>1 DEF IInv, ExclusionInv
    <3>2. \A b \in Running' : b = a \/ (b \in Running /\ call'[b] = call[b])
      BY <1>4 DEF Running
    <3>3. ASSUME NEW b \in Running', NEW c \in Running', b # c
          PROVE  /\ Execution(call'[b].op) = "parallel_safe"
                 /\ Execution(call'[c].op) = "parallel_safe"
      <4>1. CASE b # a /\ c # a
        BY <3>2, <3>3, <4>1 DEF IInv, ExclusionInv
      <4>2. CASE b = a \/ c = a
        BY <1>1, <2>1, <3>2, <3>3, <4>2 DEF MayRun
      <4> QED
        BY <4>1, <4>2
    <3> QED
      BY <3>1, <3>3 DEF ExclusionInv
  <2> QED
    BY <1>3, <1>5, <2>2, <2>3 DEF IInv, AgentInv
<1> QED
  BY <1>6, <1>7

(* A failure says nothing of what was changed. *)
LEMMA ToldOfFailure ==
  ASSUME NEW a \in Agents, meant'[a] = Failure, result'[a] = Tell(Err(RuntimeArm))
  PROVE  ResultInv(a)'
<1>1. result'[a] = Told("runtime", "none", FALSE, 0)
  BY DEF Tell, Err, RuntimeArm
<1>2. result'[a].kind = "runtime" /\ meant'[a].kind = "failure"
  BY <1>1 DEF Told, Failure, Meant
<1> QED
  BY <1>2 DEF ResultInv, Survives, TellsEffect

LEMMA UnavailableStep ==
  ASSUME IInv, NEW a \in Agents, Unavailable(a)
  PROVE  IInv'
<1>1. TypeInv'
  BY DEF IInv, TypeInv, Unavailable, Finish, service
<1>2. /\ AgentInv(a) /\ stage[a] = "invoked" /\ stage'[a] = "done"
      /\ meant'[a] = Failure /\ UNCHANGED <<service, call, effect, alone>>
      /\ result'[a] = Tell(Err(RuntimeArm))
      /\ \A b \in Agents \ {a} : /\ stage'[b] = stage[b] /\ result'[b] = result[b]
                                 /\ meant'[b] = meant[b]
  BY NoProviderFails DEF IInv, TypeInv, Unavailable, Finish
<1>3. AgentInv(a)'
  <2>1. CallInv(a)' /\ PhaseInv(a)' /\ EffectInv(a)' /\ AnswerInv(a)' /\ CurrentInv(a)'
    BY <1>2 DEF AgentInv, CallInv, PhaseInv, EffectInv, AnswerInv, CurrentInv,
       AtProvider, service
  <2> QED
    BY <1>2, <2>1, ToldOfFailure DEF AgentInv
<1>4. ASSUME NEW b \in Agents \ {a} PROVE AgentInv(b)'
  BY <1>2, <1>4, Bystander DEF IInv, Stays, service
<1>5. ExclusionInv'
  BY <1>2, ExclusionStays DEF IInv, AtProvider, service, AgentInv, PhaseInv
<1> QED
  BY <1>1, <1>3, <1>4, <1>5 DEF IInv

LEMMA InvokeStep ==
  ASSUME IInv, NEW a \in Agents, Invoke(a)
  PROVE  IInv'
<1>1. TypeInv'
  <2>1. CASE UNCHANGED service
    BY <2>1 DEF IInv, TypeInv, Invoke, service
  <2>2. CASE Service!Ask(a)
    BY <2>2 DEF IInv, TypeInv, Invoke, Service!Ask
  <2> QED
    BY <2>1, <2>2 DEF Invoke
<1>2. /\ AgentInv(a) /\ stage[a] = "invoked" /\ stage'[a] = "out"
      /\ UNCHANGED <<call, meant, result, effect, alone>>
      /\ \A b \in Agents \ {a} : stage'[b] = stage[b]
  BY DEF IInv, TypeInv, Invoke
<1>3. /\ UNCHANGED <<policy, response>>
      /\ \A b \in Agents \ {a} : phase'[b] = phase[b] /\ request'[b] = request[b]
  <2>1. CASE UNCHANGED service
    BY <2>1 DEF service
  <2>2. CASE Service!Ask(a)
    BY <2>2 DEF IInv, TypeInv, Service!Ask
  <2> QED
    BY <2>1, <2>2 DEF Invoke
<1>4. call[a].op \in AdminOperations /\ RequestMembers[call[a].op] \subseteq DOMAIN call[a].said
  BY <1>2 DEF AgentInv, CallInv
<1>5. PhaseInv(a)' /\ phase'[a] # "done"
  <2>1. CASE call[a].op = "list_grants"
    BY <1>2, <2>1 DEF AgentInv, PhaseInv, AtProvider, Invoke, service
  <2>2. CASE call[a].op # "list_grants"
    <3>1. /\ phase'[a] = "asked" /\ request'[a] \in Asked(call[a].op)
          /\ Encode(RequestMembers[call[a].op], request'[a]) \in Carried(a)
      BY <2>2 DEF IInv, TypeInv, Invoke, Service!Ask
    <3>2. ASSUME NEW m \in RequestMembers[call[a].op]
          PROVE  request'[a][m] = call[a].said[m]
      <4>1. Encode(RequestMembers[call[a].op], request'[a])[m] = call[a].said[m]
        BY <1>4, <3>1, CarriedIsSaid
      <4> QED
        BY <4>1 DEF Encode
    <3> QED
      BY <1>2, <1>4, <2>2, <3>1, <3>2 DEF PhaseInv, AtProvider, AdminOperations
  <2> QED
    BY <2>1, <2>2
<1>6. AgentInv(a)'
  <2>1. CallInv(a)' /\ EffectInv(a)' /\ AnswerInv(a)' /\ ResultInv(a)' /\ CurrentInv(a)'
    BY <1>2, <1>5 DEF AgentInv, CallInv, PhaseInv, EffectInv, AnswerInv, ResultInv, CurrentInv
  <2> QED
    BY <1>5, <2>1 DEF AgentInv
<1>7. ASSUME NEW b \in Agents \ {a} PROVE AgentInv(b)'
  BY <1>2, <1>3, <1>7, Bystander DEF IInv, Stays
<1>8. ExclusionInv'
  BY <1>2, <1>3, ExclusionStays DEF IInv, AtProvider
<1> QED
  BY <1>1, <1>6, <1>7, <1>8 DEF IInv

(* An answer is on its way. *)
LEMMA AnsweredStep ==
  ASSUME IInv, NEW a \in Agents, stage[a] \in {"invoked", "out"}, ~AtProvider(a),
         stage' = [stage EXCEPT ![a] = "answered"],
         \E answer : meant' = [meant EXCEPT ![a] = answer],
         UNCHANGED <<service, call, result, effect, alone>>,
         AnswerInv(a)', CurrentInv(a)'
  PROVE  IInv'
<1>1. TypeInv'
  BY DEF IInv, TypeInv, service
<1>2. /\ AgentInv(a) /\ stage'[a] = "answered"
      /\ \A b \in Agents \ {a} : stage'[b] = stage[b] /\ meant'[b] = meant[b]
  BY DEF IInv, TypeInv
<1>3. AgentInv(a)'
  BY <1>2 DEF AgentInv, CallInv, PhaseInv, EffectInv, ResultInv, AtProvider, service
<1>4. ASSUME NEW b \in Agents \ {a} PROVE AgentInv(b)'
  BY <1>2, <1>4, Bystander DEF IInv, Stays, service
<1>5. ExclusionInv'
  BY <1>2, ExclusionStays DEF IInv, AtProvider, service
<1> QED
  BY <1>1, <1>3, <1>4, <1>5 DEF IInv

LEMMA RefuseStep ==
  ASSUME IInv, NEW a \in Agents, Refuse(a)
  PROVE  IInv'
<1>1. PICK code \in Codes(AdminOperations), named \in BOOLEAN :
        meant' = [meant EXCEPT ![a] = Refused(code, named)]
  BY DEF Refuse
<1>2. /\ AgentInv(a) /\ stage[a] = "invoked" /\ stage'[a] = "answered"
      /\ meant'[a] = Refused(code, named) /\ UNCHANGED <<service, call, result, effect, alone>>
      /\ stage' = [stage EXCEPT ![a] = "answered"]
  BY <1>1 DEF IInv, TypeInv, Refuse
<1>3. AnswerInv(a)'
  BY <1>2 DEF AgentInv, PhaseInv, EffectInv, AnswerInv
<1>4. CurrentInv(a)'
  BY <1>2 DEF CurrentInv, Refused, Meant
<1>5. ~AtProvider(a)
  BY <1>2 DEF AgentInv, PhaseInv, AtProvider
<1> QED
  BY <1>1, <1>2, <1>3, <1>4, <1>5, AnsweredStep

LEMMA AnswerStep ==
  ASSUME IInv, NEW a \in Agents, Answer(a)
  PROVE  IInv'
<1> DEFINE r == response[a]
           answer == CASE r.status = "ok" -> Done(r.changed, r.revision)
                       [] r.status = "failure" -> Failure
                       [] OTHER -> Refused(r.status, TRUE)
<1>1. /\ AgentInv(a) /\ stage[a] = "out" /\ phase[a] = "done"
      /\ stage' = [stage EXCEPT ![a] = "answered"] /\ stage'[a] = "answered"
      /\ meant' = [meant EXCEPT ![a] = answer] /\ meant'[a] = answer
      /\ UNCHANGED <<service, call, result, effect, alone>>
  BY DEF IInv, TypeInv, Answer
<1>2. AnswerInv(a)' /\ CurrentInv(a)'
  <2>1. CASE r.status = "ok"
    <3>1. meant'[a] = Done(r.changed, r.revision)
      BY <1>1, <2>1
    <3>2. r.changed \in BOOLEAN /\ effect'[a] = Changes(r.changed)
      BY <1>1, <2>1 DEF AgentInv, EffectInv
    <3>3. /\ meant'[a].changed = r.changed /\ meant'[a].revision = r.revision
      BY <3>1 DEF Done, Meant
    <3>4. AnswerInv(a)'
      BY <3>1, <3>2, <3>3 DEF AnswerInv
    <3>5. ScopeOf(a)' = r.scope
      BY <1>1 DEF ScopeOf, service, AgentInv, PhaseInv
    <3>6. a \in alone => r.revision = policy[r.scope]
      BY <1>1, <2>1 DEF AgentInv, CurrentInv
    <3>7. CurrentInv(a)'
      BY <1>1, <3>3, <3>5, <3>6 DEF CurrentInv, service
    <3> QED
      BY <3>4, <3>7
  <2>2. CASE r.status = "failure"
    <3>1. meant'[a] = Failure
      BY <1>1, <2>2
    <3>2. meant'[a].kind # "done" /\ stage'[a] # "out"
      <4>1. Failure.kind = "failure"
        BY DEF Failure, Meant
      <4> QED
        BY <1>1, <3>1, <4>1
    <3> QED
      BY <3>1, <3>2 DEF AnswerInv, CurrentInv
  <2>3. CASE r.status = "not_found"
    <3>1. "not_found" \in Codes(AdminOperations)
      BY DEF Codes, AdminOperations, KnownErrors, RevokeGrantError
    <3>2. meant'[a] = Refused("not_found", TRUE) /\ effect'[a] = 0
      BY <1>1, <2>3 DEF AgentInv, EffectInv
    <3>3. AnswerInv(a)'
      <4>1. \E code \in Codes(AdminOperations), named \in BOOLEAN : meant'[a] = Refused(code, named)
        <5> WITNESS "not_found" \in Codes(AdminOperations), TRUE \in BOOLEAN
        <5> QED
          BY <3>2
      <4> QED
        BY <3>2, <4>1 DEF AnswerInv
    <3>4. meant'[a].kind # "done" /\ stage'[a] # "out"
      <4>1. Refused("not_found", TRUE).kind = "refused"
        BY DEF Refused, Meant
      <4> QED
        BY <1>1, <3>2, <4>1
    <3> QED
      BY <3>3, <3>4 DEF CurrentInv
  <2> QED
    BY <1>1, <2>1, <2>2, <2>3 DEF AgentInv, EffectInv
<1>3. ~AtProvider(a)
  BY <1>1 DEF AtProvider
<1> HIDE DEF answer
<1> QED
  BY <1>1, <1>2, <1>3, AnsweredStep

LEMMA AnswerListStep ==
  ASSUME IInv, NEW a \in Agents, AnswerList(a)
  PROVE  IInv'
<1>1. PICK answer \in {Done(FALSE, policy[call[a].said.scope]), Failure} :
        meant' = [meant EXCEPT ![a] = answer]
  BY DEF AnswerList
<1>2. /\ AgentInv(a) /\ stage[a] = "out" /\ call[a].op = "list_grants"
      /\ stage' = [stage EXCEPT ![a] = "answered"] /\ stage'[a] = "answered"
      /\ meant'[a] = answer
      /\ UNCHANGED <<service, call, result, effect, alone>>
  BY <1>1 DEF IInv, TypeInv, AnswerList
<1>3. phase[a] = "idle" /\ effect[a] = 0
  BY <1>2 DEF AgentInv, PhaseInv, EffectInv
<1>4. AnswerInv(a)' /\ CurrentInv(a)'
  <2>1. CASE answer = Done(FALSE, policy[call[a].said.scope])
    BY <1>2, <1>3, <2>1 DEF AnswerInv, CurrentInv, ScopeOf, Done, Changes, service, Meant
  <2>2. CASE answer = Failure
    BY <1>2, <2>2 DEF AnswerInv, CurrentInv, Failure, Meant
  <2> QED
    BY <2>1, <2>2
<1>5. ~AtProvider(a)
  BY <1>3 DEF AtProvider
<1> QED
  BY <1>1, <1>2, <1>4, <1>5, AnsweredStep

(* What an agent is told of an answer is what was answered. *)
LEMMA AnswerIsTold ==
  ASSUME NEW a \in Agents, AgentInv(a), stage[a] = "answered",
         NEW outcome \in Delivered(call[a].op, meant[a])
  PROVE  \/ /\ meant[a] = Failure
            /\ Tell(Invoked(outcome)) = Told("runtime", "none", FALSE, 0)
         \/ \E code, named :
              /\ meant[a] = Refused(code, named) /\ effect[a] = 0
              /\ Tell(Invoked(outcome)) = Failed(ToldOf(call[a].op, code, named))
         \/ \E changed, revision :
              /\ meant[a] = Done(changed, revision) /\ effect[a] = Changes(changed)
              /\ Tell(Invoked(outcome)) = Told("ok", "none", changed, revision)
<1>1. PICK op \in AdminOperations : op = call[a].op
  BY DEF AgentInv, CallInv
<1>2. CASE meant[a] = Failure
  <2>1. outcome \in Delivered(op, Failure)
    BY <1>1, <1>2
  <2> QED
    BY <1>2, <2>1, FailureIsTold
<1>3. CASE /\ effect[a] = 0
           /\ \E code \in Codes(AdminOperations), named \in BOOLEAN :
                meant[a] = Refused(code, named)
  <2>1. PICK code \in Codes(AdminOperations), named \in BOOLEAN : meant[a] = Refused(code, named)
    BY <1>3
  <2>2. outcome \in Delivered(op, Refused(code, named))
    BY <1>1, <2>1
  <2>3. Tell(Invoked(outcome)) = Failed(ToldOf(op, code, named))
    BY <2>2, RefusalIsTold
  <2> QED
    BY <1>1, <1>3, <2>1, <2>3
<1>4. CASE /\ meant[a] = Done(meant[a].changed, meant[a].revision)
           /\ meant[a].changed \in BOOLEAN /\ effect[a] = Changes(meant[a].changed)
  <2>1. op = "list_grants" => meant[a].changed = FALSE
    <3>1. op = "list_grants" => effect[a] = 0
      BY <1>1 DEF AgentInv, PhaseInv, EffectInv
    <3> QED
      BY <1>4, <3>1 DEF Changes
  <2>2. PICK changed \in BOOLEAN : changed = meant[a].changed
    BY <1>4
  <2>3. PICK revision : revision = meant[a].revision
    OBVIOUS
  <2>4. meant[a] = Done(changed, revision) /\ effect[a] = Changes(changed)
    BY <1>4, <2>2, <2>3
  <2>5. outcome \in Delivered(op, Done(changed, revision))
    BY <1>1, <2>4
  <2>6. op = "list_grants" => changed = FALSE
    BY <2>1, <2>2
  <2>7. Tell(Invoked(outcome)) = Told("ok", "none", changed, revision)
    BY <2>5, <2>6, SuccessIsTold
  <2> QED
    BY <2>4, <2>7
<1> QED
  BY <1>2, <1>3, <1>4 DEF AgentInv, AnswerInv

(* The agent of a call is told, and its provider is as it was. *)
LEMMA FinishedStep ==
  ASSUME IInv, NEW a \in Agents, stage[a] \in {"out", "answered"},
         \E told : Finish(a, told), \E answer : meant' = [meant EXCEPT ![a] = answer],
         UNCHANGED <<service, call, effect>>,
         alone' = IF AtProvider(a) THEN {} ELSE alone,
         ResultInv(a)'
  PROVE  IInv'
<1>1. TypeInv'
  BY DEF IInv, TypeInv, Finish, service
<1>2. /\ AgentInv(a) /\ stage'[a] = "done"
      /\ \A b \in Agents \ {a} : /\ stage'[b] = stage[b] /\ meant'[b] = meant[b]
                                 /\ result'[b] = result[b]
  BY DEF IInv, TypeInv, Finish
<1>3. CallInv(a)' /\ PhaseInv(a)' /\ EffectInv(a)' /\ AnswerInv(a)' /\ CurrentInv(a)'
  BY <1>2 DEF AgentInv, CallInv, PhaseInv, EffectInv, AnswerInv, CurrentInv, AtProvider, service
<1>4. ASSUME NEW b \in Agents \ {a} PROVE AgentInv(b)'
  BY <1>2, <1>4, Bystander DEF IInv, Stays, service
<1>5. ExclusionInv'
  BY <1>2, ExclusionStays DEF IInv, AtProvider, service
<1> QED
  BY <1>1, <1>2, <1>3, <1>4, <1>5 DEF IInv, AgentInv

LEMMA ReplyStep ==
  ASSUME IInv, NEW a \in Agents, Reply(a)
  PROVE  IInv'
<1>1. PICK outcome \in Delivered(call[a].op, meant[a]) : Finish(a, Tell(Invoked(outcome)))
  BY DEF Reply
<1>2. /\ AgentInv(a) /\ stage[a] = "answered" /\ result'[a] = Tell(Invoked(outcome))
      /\ UNCHANGED <<service, call, meant, effect, alone>>
  BY <1>1 DEF IInv, TypeInv, Reply, Finish
<1>3. ~AtProvider(a)
  BY <1>2 DEF AgentInv, PhaseInv
<1>4. ~AtProvider(a)'
  BY <1>2, <1>3 DEF AtProvider, service
<1>5. Survives(a)' /\ TellsEffect(a)'
  <2>1. CASE /\ meant[a] = Failure
             /\ Tell(Invoked(outcome)) = Told("runtime", "none", FALSE, 0)
    <3>1. result'[a].kind = "runtime" /\ meant'[a].kind = "failure"
      BY <1>2, <2>1 DEF Failure, Told, Meant
    <3> QED
      BY <3>1 DEF Survives, TellsEffect
  <2>2. ASSUME NEW code, NEW named, meant[a] = Refused(code, named), effect[a] = 0,
               Tell(Invoked(outcome)) = Failed(ToldOf(call[a].op, code, named))
        PROVE  Survives(a)' /\ TellsEffect(a)'
    <3>1. /\ meant'[a].kind = "refused" /\ meant'[a].code = code /\ effect'[a] = 0
          /\ result'[a].kind = "domain" /\ result'[a].error = ToldOf(call[a].op, code, named)
          /\ call'[a] = call[a] /\ meant'[a].named = named
      BY <1>2, <2>2 DEF Refused, Meant, Failed, Told
    <3> QED
      BY <3>1 DEF Survives, TellsEffect
  <2>3. ASSUME NEW changed, NEW revision,
               meant[a] = Done(changed, revision), effect[a] = Changes(changed),
               Tell(Invoked(outcome)) = Told("ok", "none", changed, revision)
        PROVE  Survives(a)' /\ TellsEffect(a)'
    <3>1. /\ meant'[a].kind = "done" /\ meant'[a].revision = revision
          /\ result'[a].kind = "ok" /\ result'[a].revision = revision
      BY <1>2, <2>3 DEF Done, Told, Meant
    <3>2. effect'[a] = Changes(result'[a].changed)
      BY <1>2, <2>3 DEF Told
    <3> QED
      BY <3>1, <3>2 DEF Survives, TellsEffect
  <2> QED
    BY <1>2, <2>1, <2>2, <2>3, AnswerIsTold
<1>6. ResultInv(a)'
  BY <1>4, <1>5 DEF ResultInv
<1>7. \E answer : meant' = [meant EXCEPT ![a] = answer]
  <2>1. meant' = [meant EXCEPT ![a] = meant[a]]
    BY <1>2 DEF IInv, TypeInv
  <2> QED
    BY <2>1
<1>8. \E told : Finish(a, told)
  BY <1>1
<1> QED
  BY <1>2, <1>3, <1>6, <1>7, <1>8, FinishedStep

LEMMA GiveUpStep ==
  ASSUME IInv, NEW a \in Agents, GiveUp(a)
  PROVE  IInv'
<1>1. /\ stage[a] \in {"out", "answered"} /\ Finish(a, Tell(Err(RuntimeArm)))
      /\ meant' = [meant EXCEPT ![a] = Failure] /\ UNCHANGED <<service, call, effect>>
      /\ alone' = IF AtProvider(a) THEN {} ELSE alone
  BY LoweredFailure DEF GiveUp, AtProvider
<1>2. meant'[a] = Failure /\ result'[a] = Tell(Err(RuntimeArm))
  BY <1>1 DEF IInv, TypeInv, Finish
<1>3. ResultInv(a)'
  BY <1>2, ToldOfFailure
<1> QED
  BY <1>1, <1>3, FinishedStep

LEMMA LeaveStep ==
  ASSUME IInv, NEW a \in Agents, Leave(a)
  PROVE  IInv'
<1>1. /\ AgentInv(a) /\ stage[a] = "done" /\ stage'[a] = "idle" /\ call'[a] = NoCall
      /\ effect'[a] = 0 /\ alone' = alone \ {a}
      /\ \A b \in Agents \ {a} : /\ stage'[b] = stage[b] /\ call'[b] = call[b]
                                 /\ meant'[b] = meant[b] /\ result'[b] = result[b]
                                 /\ effect'[b] = effect[b]
  BY DEF IInv, TypeInv, Leave
<1>2. /\ UNCHANGED <<clock, policy, facts, opened>> /\ phase'[a] = "idle"
      /\ \A b \in Agents \ {a} : /\ phase'[b] = phase[b] /\ request'[b] = request[b]
                                 /\ response'[b] = response[b]
  <2>1. CASE phase[a] = "idle"
    BY <2>1 DEF Leave, service
  <2>2. CASE phase[a] # "idle"
    BY <2>2 DEF IInv, TypeInv, Leave, Service!Return
  <2> QED
    BY <2>1, <2>2
<1>3. TypeInv'
  <2>1. CASE phase[a] = "idle"
    BY <2>1 DEF IInv, TypeInv, Leave, service
  <2>2. CASE phase[a] # "idle"
    BY <2>2 DEF IInv, TypeInv, Leave, Service!Return
  <2> QED
    BY <2>1, <2>2
<1>4. AgentInv(a)'
  <2>1. NoCall.op = "none" /\ NoCall.op \notin AdminOperations
    BY DEF NoCall, AdminOperations
  <2> QED
    BY <1>1, <1>2, <2>1 DEF AgentInv, CallInv, PhaseInv, EffectInv, AnswerInv, ResultInv,
       CurrentInv, AtProvider
<1>5. ASSUME NEW b \in Agents \ {a} PROVE AgentInv(b)'
  BY <1>1, <1>2, <1>5, Bystander DEF IInv, Stays
<1>6. ExclusionInv'
  BY <1>1, <1>2, ExclusionStays DEF IInv, AtProvider
<1> QED
  BY <1>3, <1>4, <1>5, <1>6 DEF IInv

--------------------------------------------------------------------------------
(* The provider's steps.                                                    *)

(* The instant a mutation takes effect at, and the reply that tells of it. *)
LEMMA EffectShape ==
  ASSUME TypeInv, NEW a \in Agents, NEW g \in GrantIds, NEW fact \in Grant,
         Service!TakeEffect(a, g, fact)
  PROVE  /\ UNCHANGED <<clock, request>>
         /\ phase' = [phase EXCEPT ![a] = "done"] /\ opened' = [opened EXCEPT ![a] = 0]
         /\ response' = [response EXCEPT ![a] = response'[a]]
         /\ policy' \in [Scopes -> Nat] /\ facts' \in Tables
         /\ \A h \in GrantIds : facts'[h] = IF h = g THEN fact ELSE facts[h]
         /\ response'[a].status \in {"ok", "failure"}
         /\ response'[a].status = "ok" =>
              /\ response'[a].changed \in BOOLEAN
              /\ response'[a].changed <=> facts' # facts
              /\ response'[a].revision = policy'[response'[a].scope]
<1> DEFINE s       == fact.scope
           changed == fact # facts[g]
           next    == IF changed THEN policy[s] + 1 ELSE policy[s]
           reply   == [Service!Blank EXCEPT !.status = "ok", !.scope = s, !.id = g,
                                            !.changed = changed, !.revision = next]
<1>1. s \in Scopes
  BY DEF Grant
<1>2. /\ facts' = [facts EXCEPT ![g] = fact]
      /\ policy' = [policy EXCEPT ![s] = next]
      /\ Service!Answer(a, reply) \/ Service!Answer(a, Service!Refused("failure"))
  BY DEF Service!TakeEffect
<1>3. policy' \in [Scopes -> Nat] /\ facts' \in Tables /\ policy'[s] = next
  BY <1>1, <1>2 DEF TypeInv, Tables
<1>4. \A h \in GrantIds : facts'[h] = IF h = g THEN fact ELSE facts[h]
  BY <1>2 DEF TypeInv, Tables
<1>5. changed <=> facts' # facts
  BY <1>2, <1>4 DEF TypeInv, Tables
<1>6. /\ reply.status = "ok" /\ reply.scope = s
      /\ reply.changed = changed /\ reply.revision = next
  <2> HIDE DEF s, next, changed
  <2> QED
    BY DEF Service!Blank
<1>7. Service!Refused("failure").status = "failure"
  BY DEF Service!Refused, Service!Blank
<1>8. /\ UNCHANGED <<clock, request>>
      /\ phase' = [phase EXCEPT ![a] = "done"] /\ opened' = [opened EXCEPT ![a] = 0]
      /\ response' = [response EXCEPT ![a] = response'[a]]
      /\ response'[a] = reply \/ response'[a] = Service!Refused("failure")
  <2> HIDE DEF reply
  <2> QED
    BY <1>2 DEF Service!Answer, TypeInv
<1> HIDE DEF reply, next, s, changed
<1>9. /\ response'[a].status \in {"ok", "failure"}
      /\ response'[a].status = "ok" => response'[a] = reply
  BY <1>6, <1>7, <1>8
<1>10. changed \in BOOLEAN
  BY DEF changed
<1>11. response'[a].status = "ok" => /\ response'[a].changed = changed
                                     /\ response'[a].revision = policy'[response'[a].scope]
  BY <1>3, <1>6, <1>9
<1> QED
  BY <1>3, <1>4, <1>5, <1>8, <1>9, <1>10, <1>11

(* The provider is at a mutation that was asked for. *)
LEMMA RequestedMutation ==
  ASSUME TypeInv, NEW a \in Agents, AgentInv(a), AtProvider(a)
  PROVE  /\ stage[a] \in {"out", "done"}
         /\ request[a] \in Requests /\ Execution(call[a].op) = "exclusive"
         /\ call[a].op = "put_grant" => request[a].op = "put"
<1>1. phase[a] # "idle" /\ stage[a] \in {"out", "done"}
  BY DEF AgentInv, PhaseInv, AtProvider, TypeInv
<1>2. call[a].op \in {"put_grant", "revoke_grant"} /\ request[a] \in Asked(call[a].op)
  BY <1>1 DEF AgentInv, PhaseInv
<1>3. /\ Asked("put_grant") = {q \in Requests : q.op = "put"}
      /\ Asked("revoke_grant") = {q \in Requests : q.op = "revoke"}
  BY DEF Asked
<1> QED
  BY <1>1, <1>2, <1>3 DEF Execution

LEMMA PutEffect ==
  ASSUME TypeInv, NEW a \in Agents, AgentInv(a), Service!Put(a)
  PROVE  \E g \in GrantIds, fact \in Grant :
           /\ Service!TakeEffect(a, g, fact)
           /\ \A m \in PutGrantRequest : fact[m] = request[a][m]
<1> DEFINE q    == request[a]
           held == Service!Holding(q.scope, q.key)
           fact == [scope |-> q.scope, key |-> q.key, limit |-> q.limit,
                    expires_at |-> q.expires_at, revoked_at |-> NULL]
<1>1. q \in Requests /\ q.op = "put"
  BY RequestedMutation DEF Service!Put, AtProvider
<1>2. fact \in Grant
  BY <1>1, ToolsAssumption DEF Grant, Instants
<1>3. PICK g \in (IF held = {} THEN GrantIds \ Service!Issued ELSE held) :
        Service!TakeEffect(a, g, fact)
  BY DEF Service!Put
<1>4. g \in GrantIds
  BY <1>3 DEF Service!Holding, Service!Issued
<1>5. \A m \in PutGrantRequest : fact[m] = q[m]
  BY DEF PutGrantRequest
<1> HIDE DEF fact
<1> QED
  BY <1>2, <1>3, <1>4, <1>5

LEMMA RevokeEffect ==
  ASSUME TypeInv, NEW a \in Agents, Service!Revoke(a)
  PROVE  \E g \in GrantIds, fact \in Grant : Service!TakeEffect(a, g, fact)
<1> DEFINE g    == request[a].id
           fact == IF facts[g].revoked_at # NULL THEN facts[g]
                   ELSE [facts[g] EXCEPT !.revoked_at = opened[a]]
<1>1. g \in GrantIds /\ facts[g] \in Grant
  BY DEF Service!Revoke, Service!Issued, TypeInv, Tables
<1>2. opened[a] \in Instants
  BY DEF TypeInv, Instants
<1>3. fact \in Grant
  BY <1>1, <1>2 DEF Grant
<1>4. Service!TakeEffect(a, g, fact)
  BY DEF Service!Revoke
<1> HIDE DEF fact, g
<1> QED
  BY <1>1, <1>3, <1>4

(* The rest of what it does changes nothing that was granted. *)
ChangesNothing(a) ==
  /\ UNCHANGED <<clock, policy, facts, request>>
  /\ phase' = [phase EXCEPT ![a] = phase'[a]] /\ phase'[a] \in {"open", "done"}
  /\ opened' \in [Agents -> Nat]
  /\ response' = [response EXCEPT ![a] = response'[a]]
  /\ phase'[a] = "done" => response'[a].status \in {"failure", "not_found"}

LEMMA QuietShape ==
  ASSUME TypeInv, NEW a \in Agents,
         Service!Open(a) \/ Service!RevokeNothing(a) \/ Service!Abandon(a)
  PROVE  ChangesNothing(a)
<1>1. CASE Service!Open(a)
  BY <1>1 DEF Service!Open, TypeInv, ChangesNothing
<1>2. ASSUME NEW status \in {"failure", "not_found"},
             Service!Answer(a, Service!Refused(status)), UNCHANGED <<policy, facts>>
      PROVE  ChangesNothing(a)
  <2>1. Service!Refused(status).status = status
    BY DEF Service!Refused, Service!Blank
  <2> QED
    BY <1>2, <2>1 DEF Service!Answer, TypeInv, ChangesNothing
<1> QED
  BY <1>1, <1>2 DEF Service!RevokeNothing, Service!Abandon

LEMMA ProvideStep ==
  ASSUME IInv, NEW a \in Agents, Provide(a)
  PROVE  IInv'
<1>1. /\ TypeInv /\ AgentInv(a) /\ AtProvider(a)
      /\ UNCHANGED <<stage, call, meant, result, alone>>
  BY DEF IInv, Provide, AtProvider, Service!Open, Service!Put, Service!Revoke,
     Service!RevokeNothing, Service!Abandon
<1>2. /\ stage[a] \in {"out", "done"} /\ Execution(call[a].op) = "exclusive"
      /\ call[a].op \in AdminOperations /\ effect[a] = 0
  BY <1>1, RequestedMutation DEF AgentInv, CallInv, PhaseInv, EffectInv, AtProvider, AdminOperations
<1>3. /\ effect'[a] = (IF facts' = facts THEN 0 ELSE 1)
      /\ effect' \in [Agents -> Nat]
      /\ \A b \in Agents \ {a} : effect'[b] = effect[b]
  BY <1>2 DEF IInv, TypeInv, Provide
<1>4. \/ ChangesNothing(a)
      \/ \E g \in GrantIds, fact \in Grant : Service!TakeEffect(a, g, fact)
  BY <1>1, QuietShape, PutEffect, RevokeEffect DEF Provide
<1>5. /\ TypeInv' /\ UNCHANGED request /\ phase'[a] \in {"open", "done"}
      /\ \A b \in Agents \ {a} : phase'[b] = phase[b] /\ response'[b] = response[b]
      /\ phase'[a] = "open" => facts' = facts
      /\ phase'[a] = "done" =>
           /\ response'[a].status \in {"ok", "failure", "not_found"}
           /\ response'[a].status = "ok" =>
                /\ response'[a].changed \in BOOLEAN
                /\ response'[a].changed <=> facts' # facts
                /\ response'[a].revision = policy'[response'[a].scope]
           /\ response'[a].status = "not_found" => facts' = facts
  <2>1. CASE ChangesNothing(a)
    BY <1>1, <1>3, <2>1 DEF ChangesNothing, TypeInv
  <2>2. ASSUME NEW g \in GrantIds, NEW fact \in Grant, Service!TakeEffect(a, g, fact)
        PROVE  <1>5!:
    BY <1>1, <1>3, <2>2, EffectShape DEF TypeInv
  <2> QED
    BY <1>4, <2>1, <2>2
<1>6. AgentInv(a)'
  <2>1. CallInv(a)' /\ AnswerInv(a)' /\ PhaseInv(a)'
    BY <1>1, <1>2, <1>5 DEF AgentInv, CallInv, AnswerInv, PhaseInv, AtProvider
  <2>2. EffectInv(a)'
    BY <1>3, <1>5 DEF EffectInv, Changes
  <2>3. ResultInv(a)'
    BY <1>1 DEF AgentInv, ResultInv, Survives, TellsEffect
  <2>4. CurrentInv(a)'
    BY <1>1, <1>2, <1>5 DEF CurrentInv
  <2> QED
    BY <2>1, <2>2, <2>3, <2>4 DEF AgentInv
<1>7. ASSUME NEW b \in Agents \ {a} PROVE AgentInv(b)'
  <2>1. b \notin alone \/ stage[b] \notin {"out", "answered"}
    <3>1. CASE stage[a] = "out"
      BY <1>2, <1>7, <3>1 DEF IInv, ExclusionInv, Running
    <3>2. CASE stage[a] = "done"
      BY <1>1, <3>2 DEF IInv, ExclusionInv, GivenUp, AtProvider
    <3> QED
      BY <1>2, <3>1, <3>2
  <2> QED
    BY <1>1, <1>3, <1>5, <1>7, <2>1, Bystander DEF IInv, Stays
<1>8. ExclusionInv'
  BY <1>1, <1>5, ExclusionStays DEF IInv, AtProvider
<1> QED
  BY <1>5, <1>6, <1>7, <1>8 DEF IInv

--------------------------------------------------------------------------------
(* The invariant is inductive.                                              *)

LEMMA InitTools == Init => IInv
<1> SUFFICES ASSUME Init PROVE IInv
  OBVIOUS
<1>1. TypeInv
  BY DEF Init, Service!Init, TypeInv, Tables
<1>2. ExclusionInv
  BY DEF Init, ExclusionInv, Running
<1>3. ASSUME NEW a \in Agents PROVE AgentInv(a)
  <2>1. NoCall.op = "none" /\ NoCall.op \notin AdminOperations
    BY DEF NoCall, AdminOperations
  <2> QED
    BY <2>1 DEF Init, Service!Init, AgentInv, CallInv, PhaseInv, EffectInv, AnswerInv,
       ResultInv, CurrentInv, AtProvider
<1> QED
  BY <1>1, <1>2, <1>3 DEF IInv

LEMMA StutterTools == IInv /\ UNCHANGED vars => IInv'
<1> SUFFICES ASSUME IInv, UNCHANGED vars PROVE IInv'
  OBVIOUS
<1>1. TypeInv'
  BY DEF IInv, TypeInv, vars, service
<1>2. \A b \in Agents : AgentInv(b)'
  BY Bystander DEF IInv, Stays, vars, service
<1>3. ExclusionInv'
  BY ExclusionStays DEF IInv, AtProvider, vars, service
<1> QED
  BY <1>1, <1>2, <1>3 DEF IInv

LEMMA NextTools == IInv /\ [Next]_vars => IInv'
BY UnknownStep, ExecuteStep, UnavailableStep, InvokeStep, RefuseStep, ProvideStep, AnswerStep,
   AnswerListStep, ReplyStep, GiveUpStep, LeaveStep, StutterTools DEF Next

(* Calls, requests and effects belong together, mutations run by themselves *)
(* and no answer on its way is superseded: what the theorems below rest on. *)
THEOREM Inductive == Spec => []IInv
BY InitTools, NextTools, PTL DEF Spec

(* A rejection reaches the agent as one and a runtime failure never does,   *)
(* over either lane and every result type.  It is told as the rejection it  *)
(* was if every version on the way names it, and otherwise as a bare        *)
(* execution failure: the adapter passes no code of an unknown error on.    *)
THEOREM RejectionsReachAgents == Spec => []RejectionsSurvive
<1>1. IInv => RejectionsSurvive
  BY DEF IInv, AgentInv, ResultInv, Survives, ToldOf, RejectionsSurvive
<1> QED
  BY <1>1, Inductive, PTL

(* What was rejected changed nothing, and what succeeded what it says.      *)
THEOREM EffectsAreTold == Spec => []ResultsTellEffects
<1>1. IInv => ResultsTellEffects
  BY DEF IInv, AgentInv, ResultInv, TellsEffect, Changes, ResultsTellEffects
<1> QED
  BY <1>1, Inductive, PTL

--------------------------------------------------------------------------------
(* What a step may not do.                                                  *)

(* A call moves by its own steps. *)
LEMMA OwnSteps ==
  ASSUME IInv, NEW a \in Agents, [Next]_vars,
         stage'[a] # stage[a] \/ phase'[a] # phase[a]
  PROVE  \/ ExecuteUnknown(a) \/ Execute(a) \/ Unavailable(a) \/ Invoke(a) \/ Refuse(a)
         \/ Provide(a) \/ Answer(a) \/ AnswerList(a) \/ Reply(a) \/ GiveUp(a) \/ Leave(a)
<1>1. ASSUME NEW c \in Agents \ {a},
             \/ ExecuteUnknown(c) \/ Execute(c) \/ Unavailable(c) \/ Invoke(c) \/ Refuse(c)
             \/ Answer(c) \/ AnswerList(c) \/ Reply(c) \/ GiveUp(c) \/ Leave(c)
      PROVE  stage'[a] = stage[a]
  BY <1>1 DEF IInv, TypeInv, Finish, ExecuteUnknown, Execute, Unavailable, Invoke, Refuse,
     Answer, AnswerList, Reply, GiveUp, Leave
<1>2. ASSUME NEW c \in Agents \ {a},
             \/ ExecuteUnknown(c) \/ Execute(c) \/ Unavailable(c) \/ Invoke(c) \/ Refuse(c)
             \/ Answer(c) \/ AnswerList(c) \/ Reply(c) \/ GiveUp(c) \/ Leave(c)
      PROVE  phase'[a] = phase[a]
  BY <1>2 DEF IInv, TypeInv, ExecuteUnknown, Execute, Unavailable, Invoke, Refuse,
     Answer, AnswerList, Reply, GiveUp, Leave, service, Service!Ask, Service!Return
<1>3. ASSUME NEW c \in Agents \ {a}, Provide(c)
      PROVE  stage'[a] = stage[a] /\ phase'[a] = phase[a]
  BY <1>3 DEF IInv, TypeInv, Provide, Service!Open, Service!Put, Service!Revoke,
     Service!RevokeNothing, Service!Abandon, Service!TakeEffect, Service!Answer
<1>4. ~UNCHANGED vars
  BY DEF vars, service
<1> QED
  BY <1>1, <1>2, <1>3, <1>4 DEF Next

ToldCurrent ==
  \A a \in Agents :
    stage[a] = "answered" /\ stage'[a] = "done" /\ result'[a].kind = "ok" /\ a \in alone =>
      result'[a].revision = policy'[IF call[a].op = "list_grants" THEN call[a].said.scope
                                    ELSE response[a].scope]

(* No tool that runs by its class, with no given-up call beside it, tells   *)
(* an agent a revision that another tool has superseded.                    *)
THEOREM ResultsStayCurrent == Spec => ResultsAreCurrent
<1>1. IInv /\ [Next]_vars => ToldCurrent
  <2> SUFFICES ASSUME IInv, [Next]_vars, NEW a \in Agents,
                      stage[a] = "answered", stage'[a] = "done",
                      result'[a].kind = "ok", a \in alone
               PROVE  result'[a].revision = policy'[ScopeOf(a)]
    BY DEF ToldCurrent, ScopeOf
  <2>1. AgentInv(a)
    BY DEF IInv
  <2>2. Reply(a) \/ GiveUp(a)
    <3>1. ~(Invoke(a) \/ Refuse(a) \/ Answer(a) \/ AnswerList(a) \/ Provide(a))
      BY DEF IInv, TypeInv, Invoke, Refuse, Answer, AnswerList, Provide
    <3> QED
      BY <3>1, OwnSteps DEF ExecuteUnknown, Execute, Unavailable, Leave
  <2>3. CASE Reply(a)
    <3>1. PICK outcome \in Delivered(call[a].op, meant[a]) : Finish(a, Tell(Invoked(outcome)))
      BY <2>3 DEF Reply
    <3>2. result'[a] = Tell(Invoked(outcome)) /\ policy' = policy
      BY <2>3, <3>1 DEF IInv, TypeInv, Finish, Reply, service
    <3>3. ~(\/ Tell(Invoked(outcome)) = Told("runtime", "none", FALSE, 0)
            \/ \E error : Tell(Invoked(outcome)) = Failed(error))
      BY <3>2 DEF Told, Failed
    <3>4. PICK changed, revision :
            /\ meant[a] = Done(changed, revision)
            /\ Tell(Invoked(outcome)) = Told("ok", "none", changed, revision)
      BY <2>1, <3>3, AnswerIsTold
    <3>5. result'[a].revision = revision /\ meant[a].kind = "done" /\ meant[a].revision = revision
      BY <3>2, <3>4 DEF Told, Done, Meant
    <3> QED
      BY <2>1, <3>2, <3>5 DEF AgentInv, CurrentInv
  <2>4. CASE GiveUp(a)
    <3>1. result'[a] = Tell(Err(RuntimeArm))
      BY <2>4, LoweredFailure DEF IInv, TypeInv, GiveUp, Finish
    <3>2. result'[a].kind = "runtime"
      BY <3>1 DEF Tell, Err, RuntimeArm, Told
    <3> QED
      BY <3>2
  <2> QED
    BY <2>2, <2>3, <2>4
<1>2. Spec => [][ToldCurrent]_vars
  BY <1>1, Inductive, PTL DEF Spec
<1> QED
  BY <1>2 DEF ResultsAreCurrent, ToldCurrent

GrantedAsSaid ==
  \A a \in Agents, g \in GrantIds :
    phase[a] = "open" /\ phase'[a] # "open" /\ call[a].op = "put_grant"
      /\ facts'[g] # facts[g] =>
        /\ PutGrantRequest \subseteq DOMAIN call[a].said
        /\ \A m \in PutGrantRequest : facts'[g][m] = call[a].said[m]

(* What a put of an agent's changes comes to be what the agent said, for    *)
(* every member: nothing is left out and read as null.                      *)
THEOREM GrantsComeAsSaid == Spec => GrantsAreAsSaid
<1>1. IInv /\ [Next]_vars => GrantedAsSaid
  <2> SUFFICES ASSUME IInv, [Next]_vars, NEW a \in Agents, NEW g \in GrantIds,
                      phase[a] = "open", phase'[a] # "open", call[a].op = "put_grant",
                      facts'[g] # facts[g]
               PROVE  /\ PutGrantRequest \subseteq DOMAIN call[a].said
                      /\ \A m \in PutGrantRequest : facts'[g][m] = call[a].said[m]
    BY DEF GrantedAsSaid
  <2>1. TypeInv /\ AgentInv(a) /\ AtProvider(a)
    BY DEF IInv, AtProvider
  <2>2. Provide(a)
    <3>1. stage[a] \in {"out", "done"}
      BY <2>1, RequestedMutation
    <3>2. facts' = facts \/ Provide(a)
      BY <3>1, OwnSteps DEF ExecuteUnknown, Execute, Unavailable, Invoke, Refuse, Answer,
         AnswerList, Reply, GiveUp, Leave, service, Service!Return
    <3> QED
      BY <3>2
  <2>3. request[a].op = "put" /\ RequestMembers["put_grant"] = PutGrantRequest
    BY <2>1, RequestedMutation DEF RequestMembers
  <2>4. Service!Put(a)
    <3>1. ~Service!Revoke(a)
      BY <2>3 DEF Service!Revoke
    <3>2. facts' = facts \/ Service!Put(a)
      BY <2>1, <2>2, <3>1, QuietShape DEF Provide, ChangesNothing
    <3> QED
      BY <3>2
  <2>5. PICK h \in GrantIds, fact \in Grant :
          /\ Service!TakeEffect(a, h, fact)
          /\ \A m \in PutGrantRequest : fact[m] = request[a][m]
    BY <2>1, <2>4, PutEffect
  <2>6. facts'[g] = fact
    BY <2>1, <2>5, EffectShape
  <2>7. /\ PutGrantRequest \subseteq DOMAIN call[a].said
        /\ \A m \in PutGrantRequest : request[a][m] = call[a].said[m]
    BY <2>1, <2>3 DEF AgentInv, CallInv, PhaseInv, AdminOperations
  <2> QED
    BY <2>5, <2>6, <2>7
<1>2. Spec => [][GrantedAsSaid]_vars
  BY <1>1, Inductive, PTL DEF Spec
<1> QED
  BY <1>2 DEF GrantsAreAsSaid, GrantedAsSaid
================================================================================
