SPECIFICATION Spec
CONSTANTS
  c1 = c1
  c2 = c2
  Clients = {c1, c2}
  Server = Server
  Kinds <- Divided
  MaxPosts <- TwoOfOne
  Downloads = {2}
  MayEnd = {c2}
  MayLeave = {c2}
  MayStop = TRUE
  MayFail = TRUE
INVARIANTS AnswersHold UploadsKept EndDrains
CHECK_DEADLOCK FALSE
