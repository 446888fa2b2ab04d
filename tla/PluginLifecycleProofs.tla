------------------------- MODULE PluginLifecycleProofs -------------------------
(* What PluginLifecycle promises, for any number of calls and activations. *)
EXTENDS PluginLifecycle, TLAPS

(* The steps of the operator and the lifecycle keep the invariant. *)
LEMMA LifecycleSteps ==
  ASSUME IInv, Setup \/ Activate \/ ResolveSecret \/ Prepare \/ PrepareFails
                 \/ Deactivate \/ Closed
  PROVE  IInv'
<1> USE LifecycleAssumption
<1>1. CASE Setup
  BY <1>1 DEF Setup, IInv, TypeOK, Busy
<1>2. CASE Activate
  BY <1>2 DEF Activate, IInv, TypeOK, Busy, Hosts
<1>3. CASE ResolveSecret
  BY <1>3 DEF ResolveSecret, IInv, TypeOK, Busy, Hosts
<1>4. CASE Prepare
  BY <1>4 DEF Prepare, IInv, TypeOK, Busy, Hosts, Pools
<1>5. CASE PrepareFails
  BY <1>5 DEF PrepareFails, IInv, TypeOK, Busy, Hosts
<1>6. CASE Deactivate
  BY <1>6 DEF Deactivate, IInv, TypeOK, Busy, Hosts, Pools
<1>7. CASE Closed
  <2>1. \A c \in Callers : stage[c] \notin Busy
    BY <1>7 DEF Closed, Connected, IInv, TypeOK, Busy
  <2> QED BY <1>7, <2>1 DEF Closed, IInv, TypeOK, Busy, Hosts
<1> QED BY <1>1, <1>2, <1>3, <1>4, <1>5, <1>6, <1>7

(* So do the steps of a call: what it waits for is open or was. *)
LEMMA CallSteps ==
  ASSUME IInv, NEW c \in Callers, Call(c) \/ Proceed(c) \/ Drop(c) \/ Return(c)
  PROVE  IInv'
<1> USE LifecycleAssumption
<1>1. UNCHANGED <<schema, host, state, pool, closing>>
  BY DEF Call, Proceed, Enter, Acquire, PoolClosed, Release, Drop, Return
<1>2. CASE Call(c)
  BY <1>1, <1>2 DEF Call, IInv, TypeOK, Busy, Stages
<1>3. CASE Enter(c)
  BY <1>1, <1>3 DEF Enter, IInv, TypeOK, Busy, Stages
<1>4. CASE Acquire(c)
  <2>1. held[c] = state /\ host = "active"
    BY <1>4 DEF Acquire, IInv, TypeOK
  <2> QED BY <1>1, <1>4, <2>1 DEF Acquire, IInv, TypeOK, Busy, Stages
<1>5. CASE PoolClosed(c)
  BY <1>1, <1>5 DEF PoolClosed, IInv, TypeOK, Busy, Stages
<1>6. CASE Release(c)
  BY <1>1, <1>6 DEF Release, IInv, TypeOK, Busy, Stages
<1>7. CASE Drop(c)
  BY <1>1, <1>7 DEF Drop, IInv, TypeOK, Busy, Stages
<1>8. CASE Return(c)
  BY <1>1, <1>8 DEF Return, IInv, TypeOK, Busy, Stages
<1> QED BY <1>2, <1>3, <1>4, <1>5, <1>6, <1>7, <1>8 DEF Proceed

(* The invariant holds in every reachable state. *)
THEOREM Inductive == Spec => []IInv
<1>1. Init => IInv
  BY LifecycleAssumption
     DEF Init, IInv, TypeOK, Busy, Hosts, Pools, Stages
<1>2. IInv /\ [Next]_vars => IInv'
  <2> SUFFICES ASSUME IInv, [Next]_vars PROVE IInv'
    OBVIOUS
  <2>1. CASE Next
    BY <2>1, LifecycleSteps, CallSteps DEF Next
  <2>2. CASE UNCHANGED vars
    BY <2>2 DEF vars, IInv, TypeOK, Busy
  <2> QED BY <2>1, <2>2
<1> QED BY <1>1, <1>2, PTL DEF Spec

(* Once deactivate has returned no call of that activation has a connection. *)
THEOREM QuietAfterDeactivate == Spec => []QuietWhenInactive
<1>1. IInv => QuietWhenInactive
  BY LifecycleAssumption DEF IInv, TypeOK, QuietWhenInactive
<1> QED BY <1>1, Inductive, PTL

(* A call is given a connection only of the pool of the activation in force. *)
THEOREM NoLateStart == Spec => StartsOnItsActivation
<1> DEFINE Starts ==
      \A c \in Callers :
        stage[c] = "acquiring" /\ stage'[c] = "connected" =>
          host = "active" /\ held[c] = state /\ schema = "ready"
<1>1. IInv /\ [Next]_vars => [Starts]_vars
  <2> SUFFICES ASSUME IInv, Next, NEW c \in Callers,
                      stage[c] = "acquiring", stage'[c] = "connected"
               PROVE  host = "active" /\ held[c] = state /\ schema = "ready"
    OBVIOUS
  <2>1. Acquire(c)
    <3>1. PICK d \in Callers : Call(d) \/ Proceed(d) \/ Drop(d) \/ Return(d)
      BY DEF Next, Setup, Activate, ResolveSecret, Prepare, PrepareFails,
             Deactivate, Closed
    <3>2. stage' = [stage EXCEPT ![d] = stage'[d]]
      BY <3>1 DEF Call, Proceed, Enter, Acquire, PoolClosed, Release, Drop, Return,
                  IInv, TypeOK
    <3>3. d = c
      BY <3>2 DEF IInv, TypeOK
    <3> QED
      BY <3>1, <3>3 DEF Call, Proceed, Enter, Acquire, PoolClosed, Release, Drop,
                        Return, IInv, TypeOK
  <2> QED BY <2>1, LifecycleAssumption DEF Acquire, IInv, TypeOK
<1> QED BY <1>1, Inductive, PTL DEF Spec, StartsOnItsActivation
================================================================================
