SPECIFICATION Spec
CONSTANTS
  Writer = {w1, w2}
  Reader = {r1, r2}
  None = None
  NullData = NullData
  DisableExpire = 3
  EnableDelay = 2
  ReadTime = 1
  MaxPuts = 3
INVARIANT
  NoStale
PROPERTY
  Reenabled
