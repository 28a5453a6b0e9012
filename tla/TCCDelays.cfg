SPECIFICATION Spec
CONSTANTS
  Component = {c1, c2}
  Delays = TRUE
CHECK_DEADLOCK FALSE
INVARIANT
  AllTriedNoneCanceled
