SPECIFICATION LanesFairSpec
CONSTANTS
  Cell = {"httpIn", "wsIn", "wsOut", "wsReply", "wsAsks", "wsSplit", "kafkaIn", "kafkaOut", "mqttIn", "mqttOut"}
  MaxInputs = 2
  MaxFrames = 2
  MaxBuffered = 1
  MaxSiblings = 1
INVARIANTS
  OutcomesAreEarned
  ConnectionsShared
PROPERTIES
  EndedLanesFinish
CHECK_DEADLOCK FALSE
