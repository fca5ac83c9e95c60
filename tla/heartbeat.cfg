CONSTANTS
  Period = 4
  Slack = 1
  Limit = 12
  Patience = 12
  Timeout = 5
  Retries = 3
  Poll = 3
  MaxLost = 2
SPECIFICATION FairSpec
INVARIANT TypeOK
INVARIANT ExpelledForCause
INVARIANT ElectionForCause
INVARIANT DeadIsExpelled
INVARIANT DeadIsMissed
PROPERTY JoinEnds
CHECK_DEADLOCK FALSE
