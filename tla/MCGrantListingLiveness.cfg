\* A walk one grant at a time, under fairness, while grants are put and revoked.
SPECIFICATION FairSpec
CONSTANTS
  Scopes = {s1}
  Keys = {k1, k2}
  GrantIds = {1, 2}
  Limits = {}
  Expiries = {}
  TicksPerMicro = 2
  NULL = NULL
  NoRow = NoRow
  Callers = {c1}
  Requests <- Mutations
  MaxClock = 0
  Listers = {l1}
  Instances = {admin, target}
  AdminCallers = {admin}
  KeyFilters <- AllKeys
  PageLimits = {1}
  PageCap = 1
  MaxRevision = 3
PROPERTIES EveryWalkEnds
