SPECIFICATION Spec
CONSTANTS
  Inits = 2
  Conns = 2
  MaxMoves = 2
  Budget = 4
  NoChannel = NoChannel
  TimeLimits = {0, 1, 3}
  MaxAge = 4
  MaxHeld = 2
  MaxCount = 2
  MaxChanges = 3
  MaxReAdds = 1
  Keys = {k1, k2}
  NoKey = NoKey
  Attempts = 2
  MaxChecks = 2
  MaxStarts = 3
  MaxRealPlayers = 2
  MaxObservers = 1
  Slots = 4
  MaxEvents = 4
INVARIANTS ServicesTypeOK ChannelIsOne ClockIsRight LinkIsOrderly RegistryIsKept
INVARIANTS WorkerKeepsUp 
PROPERTIES MovesForward ChannelsSettle
PROPERTIES KeepsTime ClockEnds
PROPERTIES LastChangeTold
PROPERTIES GoneStaysGone RetriesEnd
PROPERTIES ReconcileRests
CHECK_DEADLOCK FALSE
