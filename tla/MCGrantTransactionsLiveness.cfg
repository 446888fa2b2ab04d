\* Three calls on one grant: each comes back under the fairness of FairSpec.
SPECIFICATION FairSpec
CONSTANTS
  Scopes = {s1}
  Keys = {k1}
  GrantIds = {g1}
  Limits = {}
  Expiries = {}
  TicksPerMicro = 2
  NULL = NULL
  NoRow = NoRow
  Callers = {c1, c2, c3}
  Instances = {admin, target}
  AdminCallers = {admin}
  ResolveCallers = {target}
  UnknownId = unknown
  PoolSize = 2
  ClockSkews <- NoSkew
  MaxClock = 0
  MaxRevision = 2
  Free = Free
PROPERTIES EveryCallReturns
