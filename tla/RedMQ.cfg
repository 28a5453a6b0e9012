SPECIFICATION Spec
CONSTANTS
  Consumer = {c1, c2}
  None = None
  MaxMsg = 2
  MaxFaults = 2
  QueueLens = {1, 2}
  claimIdle = 1
  maxRetryLimit = 2
INVARIANT
  NothingForgotten
PROPERTIES
  EveryMessageDone
  LettersLeave
