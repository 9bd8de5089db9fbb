SPECIFICATION Spec
CONSTANTS
  Many = 26
  IdLen = 2
  MaxRepeats = 2
INVARIANTS
  MatchPassesGates
  NoTimeIsLostToABucket
  MatchersAgree
  LayoutsAgree
  ZonedMeansStated
  LookupIsRegistry
CHECK_DEADLOCK FALSE
