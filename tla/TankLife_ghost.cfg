SPECIFICATION Spec
CONSTANTS
  Conns = {c1, c2}
  Callsigns = {ann}
  Verdicts = {"allow"}
  Pausing = FALSE
  Natives = {c2}
  LateCloses = {}
  MaxTimers = 2
  MaxLosses = 1
  c1 = c1
  c2 = c2
  ann = ann
PROPERTIES GoneStayGone
