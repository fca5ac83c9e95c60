CONSTANTS
  Clients = {1, 2, 4, 5, 6}
  Leader = 3
  Groups = {{1, 2}, {4, 6}, {2, 4, 5}}
  Port <- PortOf
  Speakers = {6}
  Authors = {2}
  MaxLines = 1
  Mortal = {1, 3, 5}
  MaxThreads = 2
  Racers = {1}
  Prompt = FALSE
  UninitSeq = {0, 9}
SPECIFICATION ElectSpec
INVARIANT TypeOK
INVARIANT OneSuccessor
INVARIANT NumbersOnward
 
PROPERTY ImplementsSharedOrder
PROPERTY LeaderElected
CHECK_DEADLOCK FALSE
