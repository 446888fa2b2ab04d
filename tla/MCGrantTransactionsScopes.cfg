\* Two calls over two scopes of two features each: locks of one scope and the other.
SPECIFICATION Spec
CONSTANTS
  Scopes = {s1, s2}
  Keys = {k1, k2}
  GrantIds = {g1, g2, g3}
  Limits = {}
  Expiries = {}
  TicksPerMicro = 2
  NULL = NULL
  NoRow = NoRow
  Callers = {c1, c2}
  Instances = {admin, target}
  AdminCallers = {admin}
  ResolveCallers = {target}
  UnknownId = unknown
  PoolSize = 2
  ClockSkews <- NoSkew
  MaxClock = 0
  MaxRevision = 3
  Free = Free
SYMMETRY Symmetry
INVARIANTS NoEmptyScope ScopeLockSuffices
PROPERTIES MaterialMutationsAdvance ImplementsService
