------------------------------ MODULE MCDispatch ------------------------------
(* Instances of Dispatch for TLC.                                             *)
EXTENDS DispatchRefinement, TLC

CONSTANTS g1, d1, d2, r1, r2, op, rev, adm, w1, w2

\* The accounts of the seed, one per role that may write.
MCRoleOf ==
  [u \in User |-> CASE u = op  -> "operator"
                    [] u = rev -> "reviewer"
                    [] u = adm -> "admin"]

NoGates == [g \in Gate |-> NoGate]

\* A single gate of the seed, not yet moved.
ClosedGate == [g \in Gate |-> [row |-> "live", status |-> "closed", version |-> 1]]

\* The gate GU-003 of the seed, moving for OD-003.
MovingGate == [g \in Gate |-> [row |-> "live", status |-> "moving", version |-> 1]]

NoDirectives == [d \in Directive |-> NoDirective]

NoApprovals == [d \in Directive |-> NoApproval]

NoReceipts == [r \in Receipt |-> NoReceipt]

\* The directive OD-003 of the seed: executing, submitted and approved.
ExecutingDirective ==
  [d \in Directive |-> IF d # d1 THEN NoDirective ELSE
    [row |-> "live", status |-> "executing", version |-> 1, gate |-> g1,
     target |-> "open", submittedBy |-> op, approvedBy |-> rev]]

ExecutingApproval ==
  [d \in Directive |-> IF d # d1 THEN NoApproval
                       ELSE [submitted |-> op, approved |-> rev]]

\* The receipt EC-001 of the seed, pending for OD-003.
PendingReceipt ==
  [r \in Receipt |-> IF r # r1 THEN NoReceipt ELSE
    [row |-> "live", status |-> "pending", version |-> 1, directive |-> d1]]

\* Two directives two persons released for the same gate: nothing keeps the
\* second one of them from starting while the first executes.
RivalDirectives ==
  [d \in Directive |->
    [row |-> "live", status |-> "executing", version |-> 1, gate |-> g1,
     target |-> IF d = d1 THEN "open" ELSE "closed",
     submittedBy |-> op, approvedBy |-> rev]]

RivalApprovals == [d \in Directive |-> [submitted |-> op, approved |-> rev]]

DirectiveWorkers == Permutations(DirectiveWorker)

ReceiptWorkers == Permutations(ReceiptWorker)

ReceiptAlike == Permutations(ReceiptWorker) \cup Permutations(Receipt)
=============================================================================
