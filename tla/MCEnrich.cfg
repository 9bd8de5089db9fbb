CONSTANTS
  TraceIDs <- MCTraceIDs
  SpanIDs <- MCSpanIDs
  Times <- MCTimes
  WallClocks <- MCWallClocks
  LevelTexts <- MCLevelTexts
  Messages <- MCMessages
  Names <- MCNames
  lower <- MClower
  resourceGroupID <- MCresourceGroupID
  MaxDepth = 3
  LinesAt <- MCLines
SPECIFICATION Spec
INVARIANTS
  TypeOK SeverityAgreement SettledLevelIsKept FailedCodeIsVisible
  ZoneTravelsWithTime SilentEnvelopeIsTransparent IDPrecedence UnmatchedSaysNothing
  WrappedLineIsNotLost
PROPERTIES LevelNeverUnset Terminates
CHECK_DEADLOCK FALSE
