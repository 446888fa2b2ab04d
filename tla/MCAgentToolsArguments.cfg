\* The same calls, against what the contract says of their arguments.
SPECIFICATION Spec
CONSTANTS
  Scopes = {s1}
  Keys = {k1}
  GrantIds = {1}
  Limits = {5}
  Expiries = {2}
  TicksPerMicro = 1
  NULL = NULL
  NoRow = NoRow
  NewCodes = {"conflict"}
  Bodies = {body}
  Absent = Absent
  Agents = {a1, a2}
  Requests <- Mutations
  MaxClock = 0
  MaxRevision = 3
SYMMETRY Symmetry
INVARIANTS FurtherMembersChangeNothing
