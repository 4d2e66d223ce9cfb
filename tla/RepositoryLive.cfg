SPECIFICATION FairSpec
CONSTANTS
  c1 = c1
  c2 = c2
  Clients = {c1, c2}
  Server = Server
  Kinds <- AnyKind
  MaxPosts <- OneEach
  Downloads = {1, 2}
  MayEnd = {}
  MayLeave = {}
  MayStop = TRUE
  MayFail = FALSE
PROPERTIES EveryRequestAnswered ServerEnds
CHECK_DEADLOCK FALSE
