SPECIFICATION Spec
CONSTANTS
  op = op  rev = rev  adm = adm  view = view
  User = {op, rev, adm, view}
  RoleOf <- MCRoleOf
  Me = adm
  None = None
  Reader = {p1}
  Writer = {c1, c2}
  Target = {"open", "closed"}
  MaxVersion = 4
  MaxGateVersion = 2
  MaxFaults = 1
  Start <- MCStart
INVARIANTS
  TypeOK
  OffersWhatIsAccepted
PROPERTIES
  AppliedAsSeen
  RefusedForCause
  CatchesUp
CHECK_DEADLOCK FALSE
