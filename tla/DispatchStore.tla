---------------------------- MODULE DispatchStore ----------------------------
(* The tables shared by the services of the dispatch backend.                *)
EXTENDS Naturals, StatusGraph, Records

CONSTANTS
  Gate, Directive, Receipt,  \* codes of the records
  User,                      \* active accounts; their names differ in more than case
  RoleOf,                    \* the role the users table holds for each of them
  None,                      \* the empty string where a code or user may stand
  Target,                    \* gate states a directive's form may ask for
  MaxGateVersion, MaxDirectiveVersion, MaxReceiptVersion, \* bounds on versions
  MaxLag,                    \* how many versions a client's page may be behind
  SeedGate, SeedDirective, SeedApproval, SeedReceipt      \* tables at start-up

Roles == {"operator", "reviewer", "admin", "viewer"}

GateRow == [row: RowTags, status: GateStates, version: 0..MaxGateVersion]

DirectiveRow ==
  [row: RowTags, status: DirectiveStates, version: 0..MaxDirectiveVersion,
   gate: Gate \cup {None}, target: GateStates,
   submittedBy: User \cup {None}, approvedBy: User \cup {None}]

ReceiptRow ==
  [row: RowTags, status: ReceiptStates, version: 0..MaxReceiptVersion,
   directive: Directive \cup {None}]

\* The rows of the approval table for one directive, at most one per stage.
ApprovalRow == [submitted: User \cup {None}, approved: User \cup {None}]

NoGate == [row |-> "none", status |-> "open", version |-> 0]

NoDirective ==
  [row |-> "none", status |-> "draft", version |-> 0, gate |-> None,
   target |-> "closed", submittedBy |-> None, approvedBy |-> None]

NoReceipt ==
  [row |-> "none", status |-> "pending", version |-> 0, directive |-> None]

NoApproval == [submitted |-> None, approved |-> None]

-----------------------------------------------------------------------------
\* An audit record keeps the status before and after.  The log only grows; the
\* model keeps the newest record of each entity, which is the one a reader of
\* the log compares with the entity.
AuditStates ==
  GateStates \cup DirectiveStates \cup ReceiptStates \cup {"", "deleted"}

AuditEntry == [before: AuditStates, after: AuditStates]

NoEntry == [before |-> "", after |-> ""]

Entry(before, after) == [before |-> before, after |-> after]

VARIABLES gate, directive, approval, receipt, audit

storeVars == <<gate, directive, approval, receipt, audit>>

Entity == Gate \cup Directive \cup Receipt

StoreTypeOK ==
  /\ gate \in [Gate -> GateRow]
  /\ directive \in [Directive -> DirectiveRow]
  /\ approval \in [Directive -> ApprovalRow]
  /\ receipt \in [Receipt -> ReceiptRow]
  /\ audit \in [Entity -> AuditEntry]

-----------------------------------------------------------------------------
\* expectedVersion of a client that last read the record at most MaxLag
\* versions ago.  The services accept any version and never compare it with the
\* copy they read; that it is one the client has seen, so never ahead of that
\* copy, is an assumption about clients.  The web client keeps it: it sends the
\* version of the item it shows.
ClientVersions(row) == {v \in 1..row.version : row.version - v <= MaxLag}

StoreInit ==
  /\ gate = SeedGate
  /\ directive = SeedDirective
  /\ approval = SeedApproval
  /\ receipt = SeedReceipt
  /\ audit = [e \in Entity |-> NoEntry]

-----------------------------------------------------------------------------
ASSUME CodesDistinct ==
  /\ Gate \cap Directive = {} /\ Gate \cap Receipt = {}
  /\ Directive \cap Receipt = {}
  /\ None \notin Gate \cup Directive \cup Receipt \cup User

ASSUME RolesKnown == RoleOf \in [User -> Roles]

ASSUME TargetsAreStates == Target \subseteq GateStates \ {"moving"}

ASSUME BoundsAreNaturals ==
  /\ MaxGateVersion \in Nat /\ MaxDirectiveVersion \in Nat
  /\ MaxReceiptVersion \in Nat /\ MaxLag \in Nat

\* What the seed of database.go leaves behind once it has finished: every row
\* at version 1, a draft or an executing directive with its approvals, pending
\* receipts of executing directives.
ASSUME SeedIsConsistent ==
  /\ SeedGate \in [Gate -> GateRow]
  /\ SeedDirective \in [Directive -> DirectiveRow]
  /\ SeedApproval \in [Directive -> ApprovalRow]
  /\ SeedReceipt \in [Receipt -> ReceiptRow]
  /\ \A g \in Gate : SeedGate[g] # NoGate =>
       SeedGate[g].row = "live" /\ SeedGate[g].version = 1
  /\ \A d \in Directive :
       \/ SeedDirective[d] = NoDirective /\ SeedApproval[d] = NoApproval
       \/ LET s == SeedDirective[d] IN
          /\ s.row = "live" /\ s.version = 1 /\ s.gate \in Gate
          /\ s.status \in {"draft", "pending", "executing"}
          /\ SeedApproval[d] =
               [submitted |-> s.submittedBy, approved |-> s.approvedBy]
          /\ s.status = "draft" => SeedApproval[d] = NoApproval
          /\ s.status = "pending" => s.submittedBy # None /\ s.approvedBy = None
          /\ s.status = "executing" =>
               /\ s.submittedBy # None /\ s.approvedBy # None
               /\ s.submittedBy # s.approvedBy
  /\ \A r \in Receipt : SeedReceipt[r] # NoReceipt =>
       /\ SeedReceipt[r].row = "live" /\ SeedReceipt[r].version = 1
       /\ SeedReceipt[r].status = "pending"
       /\ SeedReceipt[r].directive \in Directive
       /\ SeedDirective[SeedReceipt[r].directive].status = "executing"
  /\ \A r, s \in Receipt :
       /\ SeedReceipt[r] # NoReceipt /\ SeedReceipt[s] # NoReceipt
       /\ SeedReceipt[r].directive = SeedReceipt[s].directive
       => r = s
=============================================================================
