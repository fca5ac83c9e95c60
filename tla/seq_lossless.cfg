CONSTANTS
  Clients = {1, 3}
  Leader = 2
  Side = "HEAD"
  Speakers = {1}
  Leavers = {3}
  Faults = {}
  MaxFaults = 0
  MaxLeaderChats = 0
  UninitPriority = {0, 100}
  MaxLag = 9
SPECIFICATION Spec
INVARIANT TypeOK
INVARIANT TotalOrder
INVARIANT KnowsMembers
INVARIANT NoGap
INVARIANT NoStrayDequeue
INVARIANT DequeuedIsShown
CHECK_DEADLOCK FALSE
