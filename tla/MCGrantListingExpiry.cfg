\* A walk while grants are put, revoked and expire.
SPECIFICATION Spec
CONSTANTS
  Scopes = {s1}
  Keys = {k1, k2}
  GrantIds = {1, 2}
  Limits = {}
  Expiries = {2}
  TicksPerMicro = 2
  NULL = NULL
  NoRow = NoRow
  Callers = {c1}
  Requests <- AnyCall
  MaxClock = 4
  Listers = {l1}
  Instances = {admin, target}
  AdminCallers = {admin}
  KeyFilters <- AllKeys
  PageLimits = {1, 2}
  PageCap = 2
  MaxRevision = 2
SYMMETRY Symmetry
INVARIANTS StandingGrantsAreListed StatusesAgree
