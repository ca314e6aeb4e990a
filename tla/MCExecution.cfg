SPECIFICATION Spec
CONSTANTS
  g1 = g1  d1 = d1  d2 = d2  r1 = r1  r2 = r2
  op = op  rev = rev  adm = adm  w1 = w1  w2 = w2
  None = None
  Target = {"open", "closed"}
  Gate = {g1}
  Directive = {d1, d2}
  Receipt = {r1, r2}
  User = {op, rev}
  RoleOf <- MCRoleOf
  GateWorker = {}
  DirectiveWorker = {w1}
  ReceiptWorker = {w1, w2}
  MaxGateVersion = 3
  MaxDirectiveVersion = 2
  MaxReceiptVersion = 2
  MaxLag = 0
  SeedGate <- MovingGate
  SeedDirective <- RivalDirectives
  SeedApproval <- RivalApprovals
  SeedReceipt <- NoReceipts
SYMMETRY ReceiptAlike
INVARIANTS
  OutcomeAgreement
PROPERTIES
  StatusFollowsGraph
  ImplementsProtocol
CHECK_DEADLOCK FALSE
