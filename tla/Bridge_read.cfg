SPECIFICATION Spec
CONSTANTS
  WORD_BITS = 2
  RAM_WORDS = 2
  FIXED = 2
  Taps <- MCTaps
  Addrs = {0, 8}
  Data = {1}
  Strobes = {TRUE}
  Concurrent = TRUE
  None = None
INVARIANT
  ReadCorrect
