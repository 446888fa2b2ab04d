-------------------------- MODULE EntitlementService --------------------------
(***************************************************************************)
(* What the service promises its callers, without transactions or locks:   *)
(* a call that is admitted takes effect at one instant between its start   *)
(* and its reply, or not at all; a call that ends in a runtime failure may *)
(* have done either.  Every mutation that changes a grant moves its scope  *)
(* to the next policy revision, and every reply names the revision of the  *)
(* instant the call took effect at.  A scope nobody granted anything in    *)
(* has revision 0.                                                         *)
(***************************************************************************)
EXTENDS GrantTables

CONSTANTS Callers, Requests, MaxClock

VARIABLES
  clock,     \* the service's time, in ticks
  policy,    \* scope -> policy revision
  facts,     \* grant id -> grant, NoRow before it is issued
  phase,     \* where each caller's call is
  request,   \* the request each caller has made
  opened,    \* the instant a call judges expiry at
  response   \* its reply

vars == <<clock, policy, facts, phase, request, opened, response>>

Blank == [status |-> "none", scope |-> NoRow, id |-> NoRow, changed |-> FALSE,
          granted |-> FALSE, limit |-> NULL, revision |-> 0]

Refused(status) == [Blank EXCEPT !.status = status]

Init ==
  /\ clock = 0
  /\ policy = [s \in Scopes |-> 0]
  /\ facts = [g \in GrantIds |-> NoRow]
  /\ phase = [c \in Callers |-> "idle"]
  /\ request = [c \in Callers |-> NULL]
  /\ opened = [c \in Callers |-> 0]
  /\ response = [c \in Callers |-> Blank]

Answer(c, reply) ==
  /\ phase' = [phase EXCEPT ![c] = "done"]
  /\ opened' = [opened EXCEPT ![c] = 0]
  /\ response' = [response EXCEPT ![c] = reply]
  /\ UNCHANGED <<clock, request>>

Ask(c) ==
  /\ phase[c] = "idle"
  /\ \E q \in Requests : request' = [request EXCEPT ![c] = q]
  /\ phase' = [phase EXCEPT ![c] = "asked"]
  /\ UNCHANGED <<clock, policy, facts, opened, response>>

Refuse(c) ==
  /\ phase[c] = "idle"
  /\ \E status \in {"forbidden", "invalid"} : Answer(c, Refused(status))
  /\ UNCHANGED <<policy, facts>>

Open(c) ==
  /\ phase[c] = "asked"
  /\ phase' = [phase EXCEPT ![c] = "open"]
  /\ opened' = [opened EXCEPT ![c] = clock]
  /\ UNCHANGED <<clock, policy, facts, request, response>>

Issued == {g \in GrantIds : facts[g] # NoRow}

Holding(s, k) == {g \in Issued : facts[g].scope = s /\ facts[g].key = k}

(* The one instant a mutation takes effect at: grant g becomes `fact`. *)
TakeEffect(c, g, fact) ==
  LET s       == fact.scope
      changed == fact # facts[g]
      next    == IF changed THEN policy[s] + 1 ELSE policy[s]
  IN
  /\ facts' = [facts EXCEPT ![g] = fact]
  /\ policy' = [policy EXCEPT ![s] = next]
  /\ \/ Answer(c, [Blank EXCEPT !.status = "ok", !.scope = s, !.id = g,
                     !.changed = changed, !.revision = next])
     \/ Answer(c, Refused("failure"))

(* The grant of the key, or a fresh one, comes to be what was asked for. *)
Put(c) ==
  LET q    == request[c]
      held == Holding(q.scope, q.key)
  IN
  /\ phase[c] = "open" /\ q.op = "put"
  /\ \E g \in IF held = {} THEN GrantIds \ Issued ELSE held :
       TakeEffect(c, g, [scope |-> q.scope, key |-> q.key, limit |-> q.limit,
                         expires_at |-> q.expires_at, revoked_at |-> NULL])

Revoke(c) ==
  LET g == request[c].id IN
  /\ phase[c] = "open" /\ request[c].op = "revoke"
  /\ g \in Issued
  /\ TakeEffect(c, g, IF facts[g].revoked_at # NULL THEN facts[g]
                      ELSE [facts[g] EXCEPT !.revoked_at = opened[c]])

RevokeNothing(c) ==
  LET g == request[c].id IN
  /\ phase[c] = "open" /\ request[c].op = "revoke"
  /\ g \notin Issued
  /\ Answer(c, Refused("not_found"))
  /\ UNCHANGED <<policy, facts>>

(* An absent, revoked or expired grant is a denial at a known revision. *)
Query(c) ==
  LET q    == request[c]
      held == {g \in Holding(q.scope, q.key) : Active(facts[g], opened[c])}
      base == [Blank EXCEPT !.status = "ok", !.scope = q.scope,
                            !.revision = policy[q.scope]]
  IN
  /\ phase[c] = "open" /\ q.op = "resolve"
  /\ \/ held = {} /\ Answer(c, base)
     \/ \E g \in held : Answer(c, [base EXCEPT !.id = g, !.granted = TRUE,
                                               !.limit = facts[g].limit])
  /\ UNCHANGED <<policy, facts>>

(* A call may end in a runtime failure without having done anything. *)
Abandon(c) ==
  /\ phase[c] \in {"asked", "open"}
  /\ Answer(c, Refused("failure"))
  /\ UNCHANGED <<policy, facts>>

Return(c) ==
  /\ phase[c] = "done"
  /\ phase' = [phase EXCEPT ![c] = "idle"]
  /\ request' = [request EXCEPT ![c] = NULL]
  /\ response' = [response EXCEPT ![c] = Blank]
  /\ UNCHANGED <<clock, policy, facts, opened>>

Tick ==
  /\ clock + TicksPerMicro <= MaxClock
  /\ clock' = clock + TicksPerMicro
  /\ UNCHANGED <<policy, facts, phase, request, opened, response>>

Next ==
  \/ Tick
  \/ \E c \in Callers :
       \/ Ask(c) \/ Refuse(c) \/ Open(c) \/ Put(c) \/ Revoke(c) \/ RevokeNothing(c)
       \/ Query(c) \/ Abandon(c) \/ Return(c)

Spec == Init /\ [][Next]_vars
================================================================================
