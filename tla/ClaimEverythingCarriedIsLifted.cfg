CONSTANTS
  TraceIDs <- MCTraceIDs
  SpanIDs <- MCSpanIDs
  Times <- MCTimes
  WallClocks <- MCWallClocks
  LevelTexts <- MCLevelTexts
  Messages <- MCMessages
  Names <- MCNames
  lower <- MClower
  resourceGroupID <- MCresourceGroupID
  MaxDepth = 2
  LinesAt <- MCClaimLines
SPECIFICATION Spec
INVARIANT EverythingCarriedIsLifted
CHECK_DEADLOCK FALSE
