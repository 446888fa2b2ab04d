\* Every reference up to a byte too long; requests over short texts of each kind.
SPECIFICATION Spec
CONSTANTS
  MaxBytes = 4
  IdBytes = 4
  PageCap = 2
  Schemas = {owned}
  References <- AllReferences
  Texts <- MCTexts
  PageLimits = {0, 2, 3}
  CallerTexts <- MCCallers
  MaxGrants = 1
  NULL = NULL
INVARIANTS ReferencesArePaths GrantsAreInReach
