SPECIFICATION Spec
CONSTANTS
  WordCalls <- MCWordCalls
  Coloured <- MCColoured
  Identifiers <- MCIdentifiers
  Records <- MCRecords
  MaxInt = 32767
  FastDigits = 4
INVARIANTS
  WordsAreTheirBytes
  ScansAreTheirPatterns
  PinoIsOwnLevel
CHECK_DEADLOCK FALSE
