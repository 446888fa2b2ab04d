\* A walk of pages of one and two grants while one caller puts and revokes.
SPECIFICATION Spec
CONSTANTS
  Scopes = {s1}
  Keys = {k1, k2, k3}
  GrantIds = {1, 2, 3}
  Limits = {}
  Expiries = {}
  TicksPerMicro = 2
  NULL = NULL
  NoRow = NoRow
  Callers = {c1}
  Requests <- Mutations
  MaxClock = 0
  Listers = {l1}
  Instances = {admin, target}
  AdminCallers = {admin}
  KeyFilters <- AllKeys
  PageLimits = {0, 1, 2, 3}
  PageCap = 2
  MaxRevision = 4
SYMMETRY Symmetry
INVARIANTS PageIsOneRevision StandingGrantsAreListed NothingListedTwice
PROPERTIES PagesMoveOn
