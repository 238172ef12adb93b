SPECIFICATION Spec
CONSTANTS
  G = G B = B TH = TH SH = SH GLimit = 1
  Thief = TH Shield = SH
  ShotLimit <- MCShotLimit
  None = None
  Rogue = Rogue Observer = Observer NoTeam = NoTeam
  Players = {p1, p2, p3}
  Teams = {red, blue}
  Pool = {pool1}
  Required = {}
  Types = {TH, G}
  PinnedType <-MCPinBad
  Sticky = {}
  MaxGrabs = 1
  Native = {}
  TeamKillerDies = TRUE
  JoinHolds = FALSE
  JoinKicks = FALSE
  OperatorFlags = FALSE
  OperatorGives = FALSE
  MaxGhosts = 1
SYMMETRY Symmetry
INVARIANTS TypeOK CarriersAreInPlay TeamFlagsFollowTeams
PROPERTIES FlagsPassHands
