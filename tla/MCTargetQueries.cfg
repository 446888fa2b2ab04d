\* A target and an admin on one grant, while it expires, over every lane and version.
SPECIFICATION Spec
CONSTANTS
  Scopes = {s1}
  Keys = {k1}
  GrantIds = {g1}
  Limits = {5}
  Expiries = {2}
  TicksPerMicro = 1
  NULL = NULL
  NoRow = NoRow
  NewCodes = {"conflict"}
  Bodies = {body}
  Absent = Absent
  Targets = {t1}
  Admins = {a1}
  Requests <- AnyCall
  MaxClock = 3
  MaxRevision = 3
INVARIANTS FactsAreTrue OnlyAnswersAreFacts
