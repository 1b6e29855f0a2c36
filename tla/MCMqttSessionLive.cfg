SPECIFICATION MqttFairSpec
CONSTANTS
  zero = zero
  one1 = one1
  one2 = one2
  two1 = two1
  two2 = two2
  n0 = n0
  n1 = n1
  m1 = m1
  m2 = m2
  Lease <- MCLease
  Size <- MCSize
  Qos <- MCQos
  InboundId <- MCInboundId
  Call <- LiveCalls
  Arrival <- LiveArrivals
  MaxMessages = 1
  MaxBufferedBytes = 1
  MaxMessageBytes = 1
  MaxInflight = 2
  MaxRepeats = 0
PROPERTY CloseDrains
