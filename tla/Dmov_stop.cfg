SPECIFICATION Spec
CONSTANTS
  BUF_NUM = 2
  PKTS = 1
  t1 = t1
  Threads = {t1}
  Kinds = {"okay"}
  FreeOrder = TRUE
  SharedLine = TRUE
  FIFO_DEPTH = 4
  MAX_HANDLERS = 1
PROPERTIES
  StopStopsResending
