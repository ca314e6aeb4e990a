------------------------------- MODULE Dispatch -------------------------------
(* The dispatch core: the services of gates, directives and receipts serving  *)
(* requests concurrently over the shared tables, and what must hold of them.  *)
EXTENDS GateUnit, OperationDirective, ExecutionConfirmation

vars == <<gate, directive, approval, receipt, audit, gateReq, dirReq, recReq>>

Init ==
  /\ StoreInit
  /\ GateUnitInit
  /\ OperationDirectiveInit
  /\ ExecutionConfirmationInit

Next ==
  \/ GateUnitNext /\ UNCHANGED <<dirReq, recReq>>
  \/ OperationDirectiveNext /\ UNCHANGED <<gateReq, recReq>>
  \/ ExecutionConfirmationNext /\ UNCHANGED <<gateReq, dirReq>>

Spec == Init /\ [][Next]_vars

-----------------------------------------------------------------------------
\* Tables and requests in flight have the types their declarations give them.
TypeOK == StoreTypeOK /\ GateReqTypeOK /\ DirReqTypeOK /\ RecReqTypeOK

\* The copy c of a row that a request read is no newer than the row, the
\* client's version is no newer than the copy, and a copy of the current
\* version is the current row, deletion aside.
Current(c, expect, row) ==
  /\ row.row # "none"
  /\ expect <= c.version /\ c.version <= row.version
  /\ c.version = row.version => row \in {c, SoftDeleted(c)}

\* What makes a version check enough: whenever the check of a write succeeds,
\* the row the request decided on is the row it overwrites.  It fails if two
\* writers ever produce the same version of a row with different contents.
SnapshotCurrent ==
  /\ \A w \in GateWorker : gateReq[w].op = "write" =>
       Current(gateReq[w].cur, gateReq[w].expect, gate[gateReq[w].id])
  /\ \A w \in DirectiveWorker : LET q == dirReq[w] IN
       /\ q.op \in {"update", "transition"} =>
            Current(q.cur, q.expect, directive[q.id])
       /\ q.linked # NoGate => Current(q.linked, 0, gate[q.cur.gate])
  /\ \A w \in ReceiptWorker : LET q == recReq[w] IN
       /\ q.op \in {"update", "transition"} =>
            Current(q.cur, q.expect, receipt[q.id])
       /\ q.dir # NoDirective =>
            Current(q.dir, 0, directive[q.cur.directive])
       /\ q.linked # NoGate => Current(q.linked, 0, gate[q.dir.gate])

\* Two-person rule: a directive that was ever approved has been submitted by
\* one account and approved by another, and the approval rows say the same as
\* the directive; a draft has no approval row.
TwoPersonEvidence ==
  \A d \in Directive :
    LET row == directive[d]  a == approval[d] IN
    /\ row.status \in {"approved", "executing", "completed"} =>
         /\ a = [submitted |-> row.submittedBy, approved |-> row.approvedBy]
         /\ {row.submittedBy, row.approvedBy} \subseteq User
         /\ row.submittedBy # row.approvedBy
    /\ row.status = "draft" => a = NoApproval

\* The unique index on the approval rows never decides: a submission or approval
\* that still passes its version check finds the place of its row free.  A
\* directive cannot get stuck on a row that an earlier attempt left behind.
ApprovalPlaceFree ==
  \A w \in DirectiveWorker : LET q == dirReq[w] IN
    q.op = "transition" /\ Updatable(directive[q.id], q.expect) =>
      /\ q.to = "pending" => approval[q.id].submitted = None
      /\ q.to = "approved" => approval[q.id].approved = None

\* Receipts and directives agree on the outcome: a directive is completed
\* exactly when a receipt of it was confirmed, a failed receipt goes with an
\* aborted directive, and a directive has one receipt at most, deleted ones
\* included.
OutcomeAgreement ==
  /\ \A d \in Directive :
       directive[d].status = "completed" <=>
         \E r \in Receipt :
           receipt[r].directive = d /\ receipt[r].status = "confirmed"
  /\ \A r \in Receipt : receipt[r].status \in {"failed", "cancelled"} =>
       directive[receipt[r].directive].status = "aborted"
  /\ \A r, s \in Receipt :
       receipt[r].directive = receipt[s].directive /\ receipt[r] # NoReceipt
         => r = s \/ receipt[s] = NoReceipt

\* A receipt only ever exists for a directive two persons released and whose
\* execution began, even when the directive moved on before the insert.
ReceiptBacked ==
  \A r \in Receipt : receipt[r] # NoReceipt =>
    LET d == receipt[r].directive IN
    /\ directive[d].status \in {"executing", "completed", "aborted"}
    /\ approval[d].submitted \in User /\ approval[d].approved \in User
    /\ approval[d].submitted # approval[d].approved

\* No state advances without evidence: a row that was ever written has an
\* audit record, and the newest one names the state the row is in.
Audited(row, entry) ==
  /\ row.row = "live" /\ row.version > 1 => entry # NoEntry
  /\ row.row = "live" /\ entry # NoEntry => entry.after = row.status
  /\ row.row = "deleted" => entry.after = "deleted"

AuditMatchesRow ==
  /\ \A g \in Gate : Audited(gate[g], audit[g])
  /\ \A d \in Directive : Audited(directive[d], audit[d])
  /\ \A r \in Receipt : Audited(receipt[r], audit[r])

-----------------------------------------------------------------------------
\* A row changes state only along its graph, whichever service writes it and
\* whatever it read before, with a new version and an audit record that names
\* both states.
Advance(graph, old, new, entry) ==
  old.status # new.status =>
    /\ CanTransition(graph, old.status, new.status)
    /\ new.version = old.version + 1
    /\ entry = Entry(old.status, new.status)

StatusFollowsGraph ==
  [][/\ \A g \in Gate :
          Advance(GateUnitTransitions, gate[g], gate'[g], audit'[g])
     /\ \A d \in Directive :
          Advance(OperationDirectiveTransitions,
                  directive[d], directive'[d], audit'[d])
     /\ \A r \in Receipt :
          Advance(ExecutionConfirmationTransitions,
                  receipt[r], receipt'[r], audit'[r])]_vars

\* Once submitted, the gate and the target a directive was submitted with stay
\* as they are, whatever updates were in flight; once approved, so do the names
\* of both persons.
ApprovedContentFrozen ==
  [][\A d \in Directive :
       LET old == directive[d]  new == directive'[d] IN
       /\ old.status # "draft" =>
            /\ new.gate = old.gate /\ new.target = old.target
            /\ new.submittedBy = old.submittedBy
       /\ old.status \notin {"draft", "pending"} =>
            new.approvedBy = old.approvedBy]_vars

\* A write outdates every other request on its row that is still in flight, a
\* retry of the same request included: their version check will fail, so that no
\* request is applied twice or on top of another one.
WritesOutdate ==
  [][/\ \A w \in GateWorker : LET q == gateReq[w] IN
          q.op = "write" /\ gate'[q.id] # gate[q.id]
            => ~Updatable(gate'[q.id], q.expect)
     /\ \A w \in DirectiveWorker : LET q == dirReq[w] IN
          q.op \in {"update", "transition"} /\ directive'[q.id] # directive[q.id]
            => ~Updatable(directive'[q.id], q.expect)
     /\ \A w \in ReceiptWorker : LET q == recReq[w] IN
          q.op \in {"update", "transition"} /\ receipt'[q.id] # receipt[q.id]
            => ~Updatable(receipt'[q.id], q.expect)]_vars

-----------------------------------------------------------------------------
\* The README's rules that the code does not enforce in every interleaving.

\* README.md: an administrator deletes draft records.
OnlyDraftsDeleted ==
  \A d \in Directive :
    directive[d].row = "deleted" => directive[d].status = "draft"

Starts(d) == directive[d].status = "approved" /\ directive'[d].status = "executing"

\* README.md: a locked object does not enter the downstream process.
LockedGateNeverStarts ==
  [][\A d \in Directive : Starts(d) => gate[directive[d].gate].status # "locked"]_vars

\* README.md: any active stage can be aborted by whoever has the right.  An
\* abort that starts now and meets no other request is accepted.
AbortAccepted(d) ==
  LET row == directive[d] IN
  NeedsGate(row, "aborted") =>
    /\ Found(gate[row.gate])
    /\ WritesGate(row, "aborted", gate[row.gate]) =>
         CanTransition(GateUnitTransitions, gate[row.gate].status, "locked")

ActiveCanAbort ==
  \A d \in Directive :
    /\ Found(directive[d])
    /\ directive[d].status \in {"pending", "approved", "executing"}
    => AbortAccepted(d)
=============================================================================
