\* Two calls on one grant while time passes: expiry, microseconds, clock skew and times.
SPECIFICATION TimedSpec
CONSTANTS
  Scopes = {s1}
  Keys = {k1}
  GrantIds = {g1, g2}
  Limits = {0, 5}
  Expiries = {3, 4}
  TicksPerMicro = 2
  NULL = NULL
  NoRow = NoRow
  Callers = {c1, c2}
  Instances = {admin, target}
  AdminCallers = {admin}
  ResolveCallers = {target}
  UnknownId = unknown
  PoolSize = 2
  ClockSkews <- MCSkews
  MaxClock = 4
  MaxRevision = 3
  Free = Free
SYMMETRY Symmetry
INVARIANTS TypeOK RevocationFollowsCreation FactsStandUntilExpiry MutationsHoldAtTheirRevision
PROPERTIES ImplementsService
