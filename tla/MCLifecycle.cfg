SPECIFICATION Spec
CONSTANTS
  g1 = g1  d1 = d1  d2 = d2  r1 = r1  r2 = r2
  op = op  rev = rev  adm = adm  w1 = w1  w2 = w2
  None = None
  Target = {"open", "closed"}
  Gate = {g1}
  Directive = {d1}
  Receipt = {}
  User = {op, rev, adm}
  RoleOf <- MCRoleOf
  GateWorker = {w1}
  DirectiveWorker = {w1, w2}
  ReceiptWorker = {}
  MaxGateVersion = 3
  MaxDirectiveVersion = 5
  MaxReceiptVersion = 0
  MaxLag = 0
  SeedGate <- ClosedGate
  SeedDirective <- NoDirectives
  SeedApproval <- NoApprovals
  SeedReceipt <- NoReceipts
SYMMETRY DirectiveWorkers
INVARIANTS
  TypeOK
  SnapshotCurrent
  TwoPersonEvidence
  ApprovalPlaceFree
  AuditMatchesRow
PROPERTIES
  ApprovedContentFrozen
  StatusFollowsGraph
  WritesOutdate
CHECK_DEADLOCK FALSE
