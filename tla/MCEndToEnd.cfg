SPECIFICATION Spec
CONSTANTS
  g1 = g1  d1 = d1  d2 = d2  r1 = r1  r2 = r2
  op = op  rev = rev  adm = adm  w1 = w1  w2 = w2
  None = None
  Target = {"open", "locked"}
  Gate = {g1}
  Directive = {d1}
  Receipt = {r1}
  User = {op, rev}
  RoleOf <- MCRoleOf
  GateWorker = {w1}
  DirectiveWorker = {w1}
  ReceiptWorker = {w1}
  MaxGateVersion = 4
  MaxDirectiveVersion = 5
  MaxReceiptVersion = 3
  MaxLag = 1
  SeedGate <- NoGates
  SeedDirective <- NoDirectives
  SeedApproval <- NoApprovals
  SeedReceipt <- NoReceipts
INVARIANTS
  IInv
  ReceiptBacked
  OutcomeAgreement
  AuditMatchesRow
PROPERTIES
  StatusFollowsGraph
  ImplementsProtocol
CHECK_DEADLOCK FALSE
