SPECIFICATION Spec
CONSTANTS
  Value = {v1, v2}
  Helpers = {}
  Callbacks = {paho}
  Runner = runner
  InputCapacity = 1
  OutputCapacity = 2
  MaxOutputs = 3
INVARIANT
  ParkedEmitReturns
