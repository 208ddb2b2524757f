SPECIFICATION FairSpec
CONSTANTS
  PKT <- MCPkt
  PKT_DEL = 2
  LENGTHS = {4, 5, 7}
  STEPS = {0, 3}
  INITS = {7, 255}
  NoWord = NoWord
  Aborted = Aborted
  None = None
INVARIANT
  TypeOK
PROPERTIES
  WholePackets
  OfferStands
  ConstantGap
  SendsOn
