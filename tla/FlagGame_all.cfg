SPECIFICATION Spec
CONSTANTS
  G = G B = B TH = TH SH = SH GLimit = 2
  Thief = TH Shield = SH
  ShotLimit <- MCShotLimit
  None = None
  Rogue = Rogue Observer = Observer NoTeam = NoTeam
  Players = {p1, p2}
  Teams = {red}
  Pool = {pool1}
  Required = {pinned1}
  Types = {TH, SH, B}
  PinnedType <-MCPinBad
  Sticky = {B}
  MaxGrabs = 2
  Native = {p1, p2}
  TeamKillerDies = FALSE
  JoinHolds = TRUE
  JoinKicks = TRUE
  OperatorFlags = TRUE
  OperatorGives = TRUE
  MaxGhosts = 1
SYMMETRY Symmetry
INVARIANTS FlagCustody
