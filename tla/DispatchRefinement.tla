-------------------------- MODULE DispatchRefinement --------------------------
(* The services implement DispatchProtocol.  The mapping drops the versions   *)
(* of the rows and forgets requests in flight, approval rows and audit        *)
(* records: a request takes effect when its transaction commits, and every    *)
(* other step, a rewrite of business fields among them, is a stutter.         *)
EXTENDS DispatchInv

GateView(row) == [row |-> row.row, status |-> row.status]

DirectiveView(row) ==
  [row |-> row.row, status |-> row.status, gate |-> row.gate, target |-> row.target,
   submittedBy |-> row.submittedBy, approvedBy |-> row.approvedBy]

ReceiptView(row) ==
  [row |-> row.row, status |-> row.status, directive |-> row.directive]

Protocol == INSTANCE DispatchProtocolProofs WITH
  gates <- [g \in Gate |-> GateView(gate[g])],
  directives <- [d \in Directive |-> DirectiveView(directive[d])],
  receipts <- [r \in Receipt |-> ReceiptView(receipt[r])]

\* Whatever requests overlap, and however old the copies they decide on and the
\* versions of their clients are, what the tables show is a history of whole
\* requests served one after the other.
ImplementsProtocol == Protocol!Spec
=============================================================================
