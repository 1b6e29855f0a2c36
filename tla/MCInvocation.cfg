SPECIFICATION Spec
CONSTANTS
  MaxPulls = 2
  InputCapacity = 1
  OutputCapacity = 2
  MaxWrites = 3
  MaxEmits = 3
INVARIANTS
  NobodyStranded
  TerminalAgrees
  SingleIsTruthful
PROPERTIES
  OutputsImplementChannel
  InputsImplementChannel
CHECK_DEADLOCK FALSE
