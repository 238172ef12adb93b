SPECIFICATION Spec
CONSTANTS
  p1 = p1 p2 = p2 p3 = p3
  Players = {p1, p2, p3}
  None = None
  Selection = "killer"
  HuntersNeeded = 1
  TeamKillerDies = TRUE
  MaxGhosts = 1
SYMMETRY Symmetry
INVARIANTS TypeOK OneRabbitPlays NoVacancy SeenAsIs
PROPERTIES OfficeEndsWithLife
