SPECIFICATION MqttSpec
CONSTANTS
  zero = zero
  one1 = one1
  one2 = one2
  two1 = two1
  two2 = two2
  n0 = n0
  n1 = n1
  m1 = m1
  m2 = m2
  Lease <- MCLease
  Size <- MCSize
  Qos <- MCQos
  InboundId <- MCInboundId
  Call <- AllCalls
  Arrival <- AllArrivals
  MaxMessages = 2
  MaxBufferedBytes = 2
  MaxMessageBytes = 1
  MaxInflight = 1
  MaxRepeats = 1
INVARIANTS
  ReceiptsAreEvidence
  CloseIsComplete
  ForwardedOnce
CONSTRAINTS
  OneScene
  DriverServes
SYMMETRY Symmetry
