SPECIFICATION Spec
CONSTANTS
  Instance = {i1}
  Deletable = {"receipts"}
  MaxFaults = 1
PROPERTY ComesBack
CHECK_DEADLOCK FALSE
