\* Calls over three activations and a pool of fewer connections, under fairness.
SPECIFICATION FairSpec
CONSTANTS
  Callers = {c1, c2, c3}
  Activations = {a1, a2, a3}
  PoolSize = 2
  None = None
INVARIANTS QuietWhenInactive
PROPERTIES StartsOnItsActivation DeactivationEnds
