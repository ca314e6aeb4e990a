----------------------------- MODULE DispatchInv -----------------------------
(* The inductive invariant behind the theorems of DispatchProofs: what the    *)
(* rows and the requests in flight look like between any two steps.           *)
EXTENDS Dispatch

\* A code in use has a live or deleted row that names what it depends on.
RowsWellFormed ==
  /\ \A d \in Directive :
       \/ directive[d] = NoDirective /\ approval[d] = NoApproval
       \/ directive[d].row # "none" /\ directive[d].gate \in Gate
  /\ \A r \in Receipt :
       \/ receipt[r] = NoReceipt
       \/ receipt[r].row # "none" /\ receipt[r].directive \in Directive

\* A request in flight names a record, and carries the copies it has read.
GateRequestOK(q) ==
  /\ q.op # "none" => q.id \in Gate
  /\ q.op = "write" =>
       /\ q.expect < MaxGateVersion /\ Found(q.cur)
       /\ \/ q.to = q.cur.status
          \/ CanTransition(GateUnitTransitions, q.cur.status, q.to)

DirectiveRequestOK(q) ==
  /\ q.op # "none" => q.id \in Directive
  /\ q.op \in {"create", "update"} => q.gate \in Gate
  /\ q.op = "create" => MaxDirectiveVersion >= 1
  /\ q.op \in {"update", "transition"} =>
       /\ q.expect < MaxDirectiveVersion
       /\ Found(q.cur) /\ q.cur.gate \in Gate
  /\ q.op = "update" => q.cur.status = "draft"
  /\ q.op = "transition" =>
       /\ CanTransition(OperationDirectiveTransitions, q.cur.status, q.to)
       /\ q.to # "completed"
       /\ q.to \in {"pending", "approved"} =>
            q.by \in User /\ directiveRoleAllowed(q.to, RoleOf[q.by])
       /\ q.to = "approved" => q.cur.submittedBy \notin {None, q.by}
       /\ q.step = "gate" => NeedsGate(q.cur, q.to)
       /\ NeedsGate(q.cur, q.to) /\ q.step = "commit" => Found(q.linked)
       /\ WritesGate(q.cur, q.to, q.linked) /\ q.step = "commit" =>
            /\ CanTransition(GateUnitTransitions, q.linked.status,
                             GateTarget(q.cur, q.to, q.linked))
            /\ q.linked.version < MaxGateVersion
  /\ q.linked # NoGate => q.op = "transition" /\ NeedsGate(q.cur, q.to)

ReceiptRequestOK(q) ==
  /\ q.op # "none" => q.id \in Receipt
  /\ q.op = "create" => q.directive \in Directive /\ MaxReceiptVersion >= 1
  /\ q.op \in {"update", "transition"} =>
       /\ q.expect < MaxReceiptVersion
       /\ Found(q.cur) /\ q.cur.directive \in Directive
  /\ q.op = "update" => q.cur.status = "pending"
  /\ q.op = "transition" =>
       /\ CanTransition(ExecutionConfirmationTransitions, q.cur.status, q.to)
       /\ q.step \in {"directive", "gate"} => q.cur.status = "pending"
       /\ q.cur.status = "pending" /\ q.step \in {"gate", "commit"} =>
            /\ Executing(q.dir) /\ q.dir.gate \in Gate
            /\ q.dir.version < MaxDirectiveVersion
       /\ q.cur.status = "pending" /\ q.step = "commit" =>
            /\ Found(q.linked)
            /\ q.linked.status # GateOutcome(q.to, q.dir) =>
                 /\ CanTransition(GateUnitTransitions, q.linked.status,
                                  GateOutcome(q.to, q.dir))
                 /\ q.linked.version < MaxGateVersion
  /\ q.dir # NoDirective =>
       q.op = "transition" /\ q.cur.status = "pending"
         /\ q.step \in {"gate", "commit"}
  /\ q.linked # NoGate => q.dir # NoDirective /\ q.step = "commit"

\* Every request in flight passed the checks of the steps behind it.
RequestsChecked ==
  /\ \A w \in GateWorker : GateRequestOK(gateReq[w])
  /\ \A w \in DirectiveWorker : DirectiveRequestOK(dirReq[w])
  /\ \A w \in ReceiptWorker : ReceiptRequestOK(recReq[w])

\* The approval rows name the persons the directive names: none for a draft,
\* the submitter for a pending one, two different persons once approved.
EvidenceOK(row, a) ==
  /\ a = [submitted |-> row.submittedBy, approved |-> row.approvedBy]
  /\ row.status = "draft" => a = NoApproval
  /\ row.status = "pending" => a.submitted \in User /\ a.approved = None
  /\ row.status \in {"approved", "executing", "completed"} =>
       {a.submitted, a.approved} \subseteq User /\ a.submitted # a.approved

ApprovalsFollow == \A d \in Directive : EvidenceOK(directive[d], approval[d])

TypeInv == TypeOK /\ RowsWellFormed /\ RequestsChecked

\* Two persons released the directive, and its execution began.
Released(d) ==
  /\ directive[d].status \in {"executing", "completed", "aborted"}
  /\ {directive[d].submittedBy, directive[d].approvedBy} \subseteq User
  /\ directive[d].submittedBy # directive[d].approvedBy

\* A receipt about to be inserted names such a directive, whatever became of it
\* since it was read.
CreatesBacked ==
  \A w \in ReceiptWorker :
    recReq[w].op = "create" => Released(recReq[w].directive)

IInv == TypeInv /\ SnapshotCurrent /\ ApprovalsFollow /\ CreatesBacked
=============================================================================
