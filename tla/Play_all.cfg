SPECIFICATION PlaySpec
CONSTANTS
  ann = ann
  bob = bob
  cy = cy
  Names <- MCNames
  Reconnecting <- MCReconnecting
  VoteTime = 2
  VetoTime = 1
  VoteRepeatTime = 1
  VotesRequired = 1
  PerMille = 501
  LateLeaves = FALSE
  ShotSlots = 1
  ReloadTicks = 1
  BeamTicks = 1
  PurgeTicks = 0
  MaxShots = 2
  MaxPending = 1
  LockIds = {1, 2}
  MaxSeated = 3
  NoLock = NoLock
INVARIANTS PlayTypeOK VotesAreFair ShotsAreTrue LocksAreTrue
PROPERTIES MajorityDecides PollEnds ShotsLeave
