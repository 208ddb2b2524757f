SPECIFICATION FairSpec
CONSTANTS
  Threads = {t1}
  LENGTHS = {2, 3}
  UINT_MAX = 15
  MAX_DESC = 2
  NULL = NULL
INVARIANTS
  TypeOK
  PinnedWhileWritten
  Released
PROPERTY
  StopReturns
