SPECIFICATION WebSocketSpec
CONSTANTS
  Call = {c1, c2}
  Arrival = {m1, m2}
  Lease <- MCLease
  Size <- MCSize
  MaxMessages = 1
  MaxBufferedBytes = 2
  MaxMessageBytes = 1
  MaxControls = 1
INVARIANTS
  ReceiptIsFlushed
  HandshakeComplete
  SlotFollowsLease
SYMMETRY Symmetry
CONSTRAINT DriverServes
