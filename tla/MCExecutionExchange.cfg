SPECIFICATION Spec
CONSTANTS
  Value = {v1, v2}
  Helpers = {exchange}
  Callbacks = {}
  Runner = runner
  InputCapacity = 1
  OutputCapacity = 2
  MaxOutputs = 3
INVARIANT
  ParkedEmitReturns
