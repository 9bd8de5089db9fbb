SPECIFICATION Spec
CONSTANTS
  Buffers = {b1}
  Callers = {c1, c2}
  Rewrites <- MCRewrites
  Coloured = {"coloured"}
  Keeping = {"Body", "TraceID", "Message", "ResourceGroupID"}
  MaxCalls = 2
  MaxKept = 1
INVARIANTS
  SameAsFresh
  KeptStringsHold
SYMMETRY Symmetric
CHECK_DEADLOCK FALSE
