CONSTANTS
  Clients = {1}
  Leader = 2
  Side = "HEAD"
  Speakers = {1}
  Leavers = {1, 2}
  Faults = {"lose", "delay", "duplicate", "suspect"}
  MaxFaults = 2
  MaxLeaderChats = 0
  UninitPriority = {0, 100}
  MaxLag = 3
SPECIFICATION Spec
INVARIANT NoChatTwice
INVARIANT NoStrayDequeue
INVARIANT NoGap
INVARIANT DequeuedIsShown
PROPERTY ImplementsMulticast
CONSTRAINT BoundedLag
CHECK_DEADLOCK FALSE
