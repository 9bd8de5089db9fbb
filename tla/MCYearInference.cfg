CONSTANTS
  Years <- MCYears
  Stamped <- MCStamped
  MaxDelay = 366
SPECIFICATION Spec
INVARIANTS TypeOK CountsDays RecentStampIsExact WithinTenMonths LeapDayIsNotMoved FastChangesNothing
CHECK_DEADLOCK FALSE
