SPECIFICATION Spec
CONSTANTS
  Reservoir = {r1, r2}
  Gate = {g1}
  Facility = {north, south}
  Worker = {w1, w2}
  None = None
  MaxVersion = 2
SYMMETRY Alike
INVARIANTS
  TypeOK
  FacilityOfReservoir
PROPERTY ReservoirMoves
CHECK_DEADLOCK FALSE
