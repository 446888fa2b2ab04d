---------------------------- MODULE PluginLifecycle ----------------------------
(***************************************************************************)
(* activate and deactivate of the PostgreSQL plugin, and the calls that    *)
(* captured its pool before either.  The plugin runs on one thread: a step *)
(* is what happens between two awaits.  The host is taken at its word only *)
(* in that it activates an inactive plugin and deactivates an active one;  *)
(* calls may come at any time.  What a call does on its connection is in   *)
(* GrantTransactions and GrantListing.                                     *)
(***************************************************************************)
EXTENDS Naturals, FiniteSets

CONSTANTS
  Callers,      \* request slots
  Activations,  \* bound: the activations there may be, each with its pool
  PoolSize,     \* connections of a pool
  None          \* no pool

ASSUME LifecycleAssumption ==
  /\ None \notin Activations
  /\ PoolSize \in Nat \ {0}

VARIABLES
  schema,  \* the owned schema in the database
  host,    \* the lifecycle call under way, or what the last one came to
  state,   \* self.state: the pool that calls are handed
  pool,    \* what became of each activation's pool
  closing, \* the pool deactivate took and awaits the close of
  stage,   \* where each call stands
  held     \* the pool each call was handed

vars == <<schema, host, state, pool, closing, stage, held>>

Hosts  == {"inactive", "secret", "prepare", "active", "closing"}
Pools  == {"unused", "open", "closed"}
Stages == {"idle", "called", "acquiring", "connected", "returning", "done"}

Init ==
  /\ schema \in {"absent", "ready"}
  /\ host = "inactive"
  /\ state = None
  /\ pool = [a \in Activations |-> "unused"]
  /\ closing = None
  /\ stage = [c \in Callers |-> "idle"]
  /\ held = [c \in Callers |-> None]

(* A connection is out while a call works on it, and until what is left of  *)
(* the transaction of a dropped call has been rolled back.                  *)
Busy == {"connected", "returning"}

Connected(a) == {c \in Callers : stage[c] \in Busy /\ held[c] = a}

--------------------------------------------------------------------------------
(* The operator and the lifecycle.                                          *)

(* EntitlementsOperator::setup, run by hand at any time; its one migration  *)
(* leaves upgrade nothing to do.                                            *)
Setup ==
  /\ schema = "absent"
  /\ schema' = "ready"
  /\ UNCHANGED <<host, state, pool, closing, stage, held>>

Activate ==
  /\ host = "inactive"
  /\ host' = "secret"
  /\ UNCHANGED <<schema, state, pool, closing, stage, held>>

(* The secret comes, or is refused, or is late, or activation is cancelled. *)
ResolveSecret ==
  /\ host = "secret"
  /\ host' \in {"prepare", "inactive"}
  /\ UNCHANGED <<schema, state, pool, closing, stage, held>>

(* OwnedPostgres::prepare opens a pool on a schema that is set up; only then *)
(* is there something to put into self.state.                               *)
Prepare ==
  /\ host = "prepare"
  /\ \E a \in Activations :
       /\ pool[a] = "unused"
       /\ schema = "ready"
       /\ pool' = [pool EXCEPT ![a] = "open"]
       /\ state' = a
       /\ host' = "active"
  /\ UNCHANGED <<schema, closing, stage, held>>

PrepareFails ==
  /\ host = "prepare"
  /\ host' = "inactive"
  /\ UNCHANGED <<schema, state, pool, closing, stage, held>>

(* Fault: the handle is dropped without closing the pool. *)
ForgetPool ==
  /\ host = "active"
  /\ state' = None
  /\ host' = "closing"
  /\ UNCHANGED <<schema, pool, closing, stage, held>>

(* Fault: the state is taken only once the pool has been drained. *)
DrainFirst ==
  /\ host = "active"
  /\ host' = "closing"
  /\ closing' = state
  /\ UNCHANGED <<schema, state, pool, stage, held>>

(* The state is taken, and close() refuses further acquires, in one step. *)
Deactivate ==
  /\ host = "active"
  /\ state' = None
  /\ closing' = state
  /\ pool' = [pool EXCEPT ![state] = "closed"]
  /\ host' = "closing"
  /\ UNCHANGED <<schema, stage, held>>

(* Fault: the future of close() is not awaited. *)
CloseUnawaited ==
  /\ host = "closing"
  /\ host' = "inactive"
  /\ closing' = None
  /\ UNCHANGED <<schema, state, pool, stage, held>>

(* close() returns when every connection of the pool taken has come back. *)
Closed ==
  /\ host = "closing"
  /\ Connected(closing) = {}
  /\ host' = "inactive"
  /\ closing' = None
  /\ UNCHANGED <<schema, state, pool, stage, held>>

--------------------------------------------------------------------------------
(* A call of any operation.                                                 *)

(* prepared() clones the handle, or keeps the failure, when the call is made. *)
Call(c) ==
  /\ stage[c] = "idle"
  /\ stage' = [stage EXCEPT ![c] = "called"]
  /\ held' = [held EXCEPT ![c] = state]
  /\ UNCHANGED <<schema, host, state, pool, closing>>

(* The future's first poll: refused, "not prepared", or off to the pool.    *)
Enter(c) ==
  /\ stage[c] = "called"
  /\ \/ stage' = [stage EXCEPT ![c] = "done"]
     \/ held[c] # None /\ stage' = [stage EXCEPT ![c] = "acquiring"]
  /\ UNCHANGED <<schema, host, state, pool, closing, held>>

Acquire(c) ==
  /\ stage[c] = "acquiring"
  /\ pool[held[c]] = "open"
  /\ Cardinality(Connected(held[c])) < PoolSize
  /\ stage' = [stage EXCEPT ![c] = "connected"]
  /\ UNCHANGED <<schema, host, state, pool, closing, held>>

(* The pool is closed: whoever waits for a connection gets an error. *)
PoolClosed(c) ==
  /\ stage[c] = "acquiring"
  /\ pool[held[c]] = "closed"
  /\ stage' = [stage EXCEPT ![c] = "done"]
  /\ UNCHANGED <<schema, host, state, pool, closing, held>>

(* The transaction ends, one way or another, and the connection goes back. *)
Release(c) ==
  /\ stage[c] \in Busy
  /\ stage' = [stage EXCEPT ![c] = "done"]
  /\ UNCHANGED <<schema, host, state, pool, closing, held>>

(* The caller goes away and the future is dropped; its connection goes back *)
(* only once the rollback has been through.                                 *)
Drop(c) ==
  /\ stage[c] \in {"called", "acquiring", "connected"}
  /\ stage' = [stage EXCEPT ![c] = IF @ = "connected" THEN "returning" ELSE "done"]
  /\ UNCHANGED <<schema, host, state, pool, closing, held>>

Return(c) ==
  /\ stage[c] = "done"
  /\ stage' = [stage EXCEPT ![c] = "idle"]
  /\ held' = [held EXCEPT ![c] = None]
  /\ UNCHANGED <<schema, host, state, pool, closing>>

Proceed(c) == Enter(c) \/ Acquire(c) \/ PoolClosed(c) \/ Release(c)

Next ==
  \/ Setup \/ Activate \/ ResolveSecret \/ Prepare \/ PrepareFails
  \/ Deactivate \/ Closed
  \/ \E c \in Callers : Call(c) \/ Proceed(c) \/ Drop(c) \/ Return(c)

Spec == Init /\ [][Next]_vars

(* A ready future is polled, the deactivation's among them; the pool serves *)
(* those that wait for a connection in their order; GrantTransactions shows *)
(* that a call with a connection comes to its end.                          *)
FairSpec == Spec /\ WF_vars(Closed) /\ \A c \in Callers : SF_vars(Proceed(c))

--------------------------------------------------------------------------------
(* Properties.                                                              *)

TypeOK ==
  /\ schema \in {"absent", "ready"}
  /\ host \in Hosts
  /\ state \in Activations \cup {None}
  /\ pool \in [Activations -> Pools]
  /\ closing \in Activations \cup {None}
  /\ stage \in [Callers -> Stages]
  /\ held \in [Callers -> Activations \cup {None}]

(* Once deactivate has returned, no call of that activation still works on  *)
(* the database, whenever it was made and whether or not its caller is      *)
(* still there: the next activation starts alone.                           *)
QuietWhenInactive ==
  host \notin {"active", "closing"} => \A c \in Callers : stage[c] \notin Busy

(* A call starts to work only on the pool of the activation in force, and   *)
(* on a schema that was set up: one that captured a pool before it was      *)
(* closed never gets a connection of it.                                    *)
StartsOnItsActivation ==
  [][\A c \in Callers :
       stage[c] = "acquiring" /\ stage'[c] = "connected" =>
         host = "active" /\ held[c] = state /\ schema = "ready"]_vars

(* deactivate returns although calls keep coming in. *)
DeactivationEnds == host = "closing" ~> host = "inactive"

--------------------------------------------------------------------------------
(* The inductive invariant: the open pool is the one calls are handed, which *)
(* is there while the plugin is active, on a schema that is set up; calls    *)
(* hold pools that were opened and wait for no other, and those at work are  *)
(* on that pool or on the one that is being closed.                         *)
IInv ==
  /\ TypeOK
  /\ host = "active" <=> state # None
  /\ closing # None => host = "closing"
  /\ \A a \in Activations : pool[a] = "open" => a = state
  /\ state # None => pool[state] = "open" /\ schema = "ready"
  /\ \A c \in Callers :
       /\ held[c] # None => pool[held[c]] # "unused"
       /\ stage[c] = "acquiring" => held[c] # None
       /\ stage[c] \in Busy => held[c] \in {state, closing} \ {None}
================================================================================
