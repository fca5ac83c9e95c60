CONSTANTS
  Clients = {1, 2, 3}
  Leader = 4
  Groups = {{1, 2, 3}}
  Port <- PortOf
  Speakers = {}
  Authors = {}
  MaxLines = 0
  Mortal = {2, 4}
  MaxThreads = 1
  Racers = {}
  Prompt = TRUE
  UninitSeq = {0}
SPECIFICATION SleepSpec
PROPERTY LeaderReplaced
CHECK_DEADLOCK FALSE
