SPECIFICATION RestartSpec
CONSTANTS
  Server = {s1, s2, s3}
  Value = {}
  Ctx = {}
  None = None
  NoData = NoData
  NoCtx = NoCtx
  PreVote = FALSE
  MaxTerm = 3
  MaxCampaigns = 2
  MaxLog = 2
  MaxBeats = 0
CHECK_DEADLOCK FALSE
INVARIANT
  OneVotePerTerm
