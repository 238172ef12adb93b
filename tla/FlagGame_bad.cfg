SPECIFICATION FairSpec
CONSTANTS
  G = G B = B TH = TH SH = SH GLimit = 2
  Thief = TH Shield = SH
  ShotLimit <- MCShotLimit
  None = None
  Rogue = Rogue Observer = Observer NoTeam = NoTeam
  Players = {p1, p2}
  Teams = {red}
  Pool = {pool1}
  Required = {pinned1}
  Types = {TH, G, B}
  PinnedType <-MCPinBad
  Sticky = {B}
  MaxGrabs = 2
  Native = {}
  TeamKillerDies = TRUE
  JoinHolds = FALSE
  JoinKicks = FALSE
  OperatorFlags = FALSE
  OperatorGives = FALSE
  MaxGhosts = 1
INVARIANTS SuperflagsAreSpent
PROPERTIES StickyIsSpent FlagsSettle
