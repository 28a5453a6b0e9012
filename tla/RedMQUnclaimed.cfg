SPECIFICATION Spec
CONSTANTS
  Consumer = {c1, c2}
  None = None
  MaxMsg = 1
  MaxFaults = 1
  QueueLens = {1}
  claimIdle = 0
  maxRetryLimit = 1
PROPERTY
  PickedUpByLive
