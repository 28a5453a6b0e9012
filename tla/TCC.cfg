SPECIFICATION TCCOrLogSpec
CONSTANTS
  Component = {c1, c2}
  Delays = FALSE
CHECK_DEADLOCK FALSE
INVARIANTS
  NoSplit
  CommittedStays
  NoPanic
PROPERTY
  NothingStaysFrozen
  ImplementsPlainLog
