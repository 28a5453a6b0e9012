SPECIFICATION ElectionsSpec
CONSTANTS
  Server = {s1, s2, s3}
  Value = {v1}
  Ctx = {}
  None = None
  NoData = NoData
  NoCtx = NoCtx
  PreVote = FALSE
  MaxTerm = 4
  MaxCampaigns = 3
  MaxLog = 2
  MaxBeats = 0
SYMMETRY Symmetry
VIEW ElectionsView
CHECK_DEADLOCK FALSE
INVARIANTS
  TypeOK
  ElectionSafety
  LogMatching
  StateMachineSafety
  NoCommittedConflict
  MatchIsHeld
  MatchInTerm
  LeadWasElected
  ElectionInv
PROPERTIES
  CommittedIsFinal
  PreVoteBacked
