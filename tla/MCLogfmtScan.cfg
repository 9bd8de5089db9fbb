CONSTANTS
  TraceIDs <- MCTraceIDs
  SpanIDs <- MCSpanIDs
  Times <- MCTimes
  LevelTexts <- MCLevelTexts
  Messages <- MCMessages
  Lines <- MCLines
SPECIFICATION Spec
INVARIANTS TypeOK PrefixFaithful EarlyExitLosesNothing ParentIDsStayTogether
PROPERTY ImplementsWholeLine
CHECK_DEADLOCK FALSE
