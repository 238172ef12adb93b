SPECIFICATION FairSpec
CONSTANTS
  ann = ann
  bob = bob
  cy = cy
  Names <- MCNames
  Reconnecting <- MCReconnecting
  VoteTime = 2
  VetoTime = 1
  VoteRepeatTime = 1
  VotesRequired = 1
  PerMille = 501
  LateLeaves = TRUE
PROPERTIES PollEnds
