SPECIFICATION Spec
CONSTANTS
  Instance = {i1, i2}
  Deletable = {"reservoirs", "receipts"}
  MaxFaults = 3
INVARIANTS
  TypeOK
  SeedIsPrefix
  EvidenceComes
  SeedGoesOn
PROPERTY KeepsServing
CHECK_DEADLOCK FALSE
