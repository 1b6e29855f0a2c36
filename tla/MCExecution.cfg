SPECIFICATION FairSpec
CONSTANTS
  v1 = v1
  v2 = v2
  exchange = exchange
  paho = paho
  Value = {v1, v2}
  Helpers = {exchange}
  Callbacks = {paho}
  Runner = runner
  InputCapacity = 1
  OutputCapacity = 1
  MaxOutputs = 2
INVARIANTS
  InputsPrecedeEOF
  EndsInOrder
PROPERTIES
  EndsOnceForAll
CONSTRAINT OneScene
