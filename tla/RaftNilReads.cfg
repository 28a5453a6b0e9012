SPECIFICATION ReadsSpec
CONSTANTS
  Server = {s1, s2, s3}
  Value = {}
  Ctx = {NoCtx}
  None = None
  NoData = NoData
  NoCtx = NoCtx
  PreVote = FALSE
  MaxTerm = 3
  MaxCampaigns = 2
  MaxLog = 2
  MaxBeats = 2
SYMMETRY Symmetry
VIEW View
CHECK_DEADLOCK FALSE
INVARIANT
  LinearizableReads
