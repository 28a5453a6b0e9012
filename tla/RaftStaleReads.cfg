SPECIFICATION DeposedSpec
CONSTANTS
  s1 = s1
  s3 = s3
  Server = {s1, s2, s3}
  Value = {}
  Ctx = {c1, c2}
  None = None
  NoData = NoData
  NoCtx = NoCtx
  PreVote = FALSE
  MaxTerm = 4
  MaxCampaigns = 3
  MaxLog = 3
  MaxBeats = 0
SYMMETRY Contexts
VIEW View
CHECK_DEADLOCK FALSE
INVARIANT
  LinearizableReads
