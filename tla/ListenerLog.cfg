SPECIFICATION LoggedSpec
CONSTANTS
  Peers = {1, 2}
  Families <- SecondFits
  Family = "IP6"
  MaxBacklog = 1
  MayStop = TRUE
  MayEnd = TRUE
  MayBreak = TRUE
  MaxCalls = 2
INVARIANTS ConnectionsKept LogKept
PROPERTIES EveryPeerServed
CHECK_DEADLOCK FALSE
