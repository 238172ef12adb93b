SPECIFICATION FairSpec
CONSTANTS
  Conns = {c1, c2}
  Callsigns = {ann}
  Verdicts = {"allow", "hold", "kick"}
  Pausing = FALSE
  Natives = {c2}
  LateCloses = {c2}
  MaxTimers = 1
  MaxLosses = 0
  c1 = c1
  c2 = c2
  ann = ann
INVARIANTS NobodyForgotten
PROPERTIES DeadComeBack
