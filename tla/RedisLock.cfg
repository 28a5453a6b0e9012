SPECIFICATION Spec
CONSTANTS
  Caller = {p1, p2}
  None = None
  token <- OwnToken
  N = 3
  Handles <- AllHandles
  Expire = 2
INVARIANTS
  Protected
  Exclusion
PROPERTIES
  OwnerOnly
  CrashFrees
