SPECIFICATION FairSpec
CONSTANTS
  Firsts = {1, 3, 4, 5}
  Quick = {5}
  MaxLost = 1
  MaxRefused = 2
INVARIANTS
  OutcomeIsTrue
  TimesAreExact
PROPERTIES
  ImplementsLifecycle
  JobAndStreamEnd
CHECK_DEADLOCK FALSE
