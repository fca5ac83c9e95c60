CONSTANTS
  Clients = {1, 2, 3}
  Leader = 4
  Groups = {{1, 2, 3}}
  Port <- PortOf
  Speakers = {}
  Authors = {2, 4}
  MaxLines = 1
  Mortal = {4}
  MaxThreads = 1
  Racers = {}
  Prompt = TRUE
  UninitSeq = {0}
SPECIFICATION Spec
INVARIANT TotalOrder
CHECK_DEADLOCK FALSE
