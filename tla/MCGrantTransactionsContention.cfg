\* Three admins and resolvers on one grant: who waits for whom.
SPECIFICATION Spec
CONSTANTS
  Scopes = {s1}
  Keys = {k1}
  GrantIds = {g1, g2}
  Limits = {5}
  Expiries = {}
  TicksPerMicro = 2
  NULL = NULL
  NoRow = NoRow
  Callers = {c1, c2, c3}
  Instances = {admin, target}
  AdminCallers = {admin}
  ResolveCallers = {target}
  UnknownId = unknown
  PoolSize = 3
  ClockSkews <- NoSkew
  MaxClock = 2
  MaxRevision = 3
  Free = Free
SYMMETRY Symmetry
INVARIANTS NoEmptyScope ScopeLockSuffices NobodyWaitsInTurn OneGrantPerKey MutationsHoldAtTheirRevision
PROPERTIES MaterialMutationsAdvance ImplementsService
