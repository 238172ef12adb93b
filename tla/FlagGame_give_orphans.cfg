SPECIFICATION Spec
CONSTANTS
  G = G B = B TH = TH SH = SH GLimit = 2
  Thief = TH Shield = SH
  ShotLimit <- MCShotLimit
  None = None
  Rogue = Rogue Observer = Observer NoTeam = NoTeam
  Players = {p1, p2}
  Teams = {red}
  Pool = {pool1}
  Required = {}
  Types = {TH, G}
  PinnedType <-MCPinBad
  Sticky = {}
  MaxGrabs = 2
  Native = {}
  TeamKillerDies = TRUE
  JoinHolds = FALSE
  JoinKicks = FALSE
  OperatorFlags = FALSE
  OperatorGives = TRUE
  MaxGhosts = 1
SYMMETRY Symmetry
INVARIANTS NoOrphan
