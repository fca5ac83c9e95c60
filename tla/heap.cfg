CONSTANTS
  Pushers = {"producer", "detector"}
  Poppers = {"consumer", "other"}
  Types = {2, 5, 101}
  MaxPushes = 5
SPECIFICATION MCFairSpec
INVARIANT LoopsAgree
INVARIANT NothingLost
PROPERTY NewTypeIsNext
PROPERTY ImplementsAtomicQueue
CHECK_DEADLOCK FALSE
