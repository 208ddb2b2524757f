SPECIFICATION FairSpec
CONSTANTS
  WORD_BITS = 2
  RAM_WORDS = 2
  FIXED = 2
  Taps <- MCTaps
  Addrs = {4, 20, 24, 16384}
  Data = {3}
  Strobes = {TRUE, FALSE}
  Concurrent = FALSE
  None = None
INVARIANT
  TypeOK
PROPERTIES
  AtomicAccess
  AccessAnswered
