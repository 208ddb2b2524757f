SPECIFICATION FairSpec
CONSTANTS
  None = None
  HALF_BITS = 1
  N = 3
  Garbage = Garbage
  NoWord = NoWord
  COUNT = 6
  PULSE = 1
INVARIANTS
  TypeOK
  ReportIsFresh
PROPERTIES
  DriverView
  TestsMemory
  AckedStaysLow
  InterruptRaisesIrq
  AllEnds
