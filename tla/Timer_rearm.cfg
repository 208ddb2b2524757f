SPECIFICATION Spec
CONSTANTS
  Threads = {t1}
  HALF_BITS = 2
  VALUES = {0, 5}
  Rearm = TRUE
  SharedLine = TRUE
  IrqFails = FALSE
  MAX_HANDLERS = 2
INVARIANT
  ReadExpired
