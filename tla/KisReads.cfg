CONSTANTS
  Readers = {r1, r2}
  Period = 2
  Burst = 2
  MaxAttempts = 2
  BaseDelay = 1
  MaxDelay = 2
  Jitter = 0
  Life = 3
  Buffer = 1
  MaxReads = 3
  Window = 6
SPECIFICATION FairSpec
INVARIANTS RateBound NoTokenTwice FreshToken
PROPERTY EveryReadEnds
