SPECIFICATION Spec
CONSTANTS
  Caller = {p1, p2}
  None = None
  token <- SameToken
  N = 3
  Handles <- PlainHandle
  Expire = 2
PROPERTY
  OwnerOnly
