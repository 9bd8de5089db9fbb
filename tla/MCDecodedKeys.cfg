SPECIFICATION Spec
CONSTANTS
  Keys <- MCKeys
  InnerKeys <- MCInnerKeys
  Kinds = {"string", "vague", "number", "null", "object", "broken"}
  InnerKinds = {"string", "number"}
  MaxMembers = 2
  MaxInner = 2
INVARIANTS
  LastReadableWins
  WholeObjectsOnly
CHECK_DEADLOCK FALSE
