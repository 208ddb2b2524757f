SPECIFICATION Spec
CONSTANTS
  WORD_BITS = 2
  RAM_WORDS = 2
  FIXED = 2
  Taps <- MCTaps
  Addrs = {8, 20, 16384}
  Data = {3}
  Strobes = {TRUE, FALSE}
  Concurrent = TRUE
  None = None
INVARIANT
  NothingLost
PROPERTY
  ActsOnce
