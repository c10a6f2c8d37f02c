SPECIFICATION SelectSpec
CONSTANTS
  n1 = n1
  n2 = n2
  p1 = p1
  p2 = p2
  None = None
  Streams <- MCStreams
  Names <- MCNames
  Protos <- MCProtos
  NulProtos <- MCNul
  RecHdr = 2
  MsgHdr = 1
  BodyMax = 3
  HelloMax = 6
  InCap = 9
  OutCap = 2
  AlertLen = 2
  TailMax = 1
INVARIANTS SilentUntilSelected RefusalSent SelectorSeesHello NegotiatedAsSelected
PROPERTIES HelloDecided ImplementsGate
CHECK_DEADLOCK FALSE
