SPECIFICATION FairSpec
CONSTANT Plans <- MCPlans
INVARIANT TransferSafe
PROPERTIES HandlerEnds TransfersWhole EveryFileAcked
CHECK_DEADLOCK FALSE
