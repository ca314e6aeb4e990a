------------------------ MODULE ExecutionConfirmation ------------------------
(* service/execution_confirmation.go: the receipt that reports the outcome of *)
(* an executing directive and settles directive and gate with it.             *)
EXTENDS DispatchStore

CONSTANT ReceiptWorker       \* goroutines serving requests on receipts

VARIABLE recReq              \* the request each of them is serving

ReceiptRequest ==
  [op: {"none", "create", "update", "transition", "delete"},
   step: {"directive", "count", "gate", "commit"},  \* what it does next
   id: Receipt \cup {None},
   to: ReceiptStates, expect: 0..MaxReceiptVersion,
   directive: Directive \cup {None},      \* the directive it names
   cur: ReceiptRow, dir: DirectiveRow, linked: GateRow]   \* the rows as read

NoReceiptRequest ==
  [op |-> "none", step |-> "commit", id |-> None, to |-> "pending",
   expect |-> 0, directive |-> None, cur |-> NoReceipt, dir |-> NoDirective,
   linked |-> NoGate]

RecReqTypeOK == recReq \in [ReceiptWorker -> ReceiptRequest]

ExecutionConfirmationInit == recReq = [w \in ReceiptWorker |-> NoReceiptRequest]

ReceiptIdle(w) == recReq[w] = NoReceiptRequest

FinishReceipt(w) == recReq' = [recReq EXCEPT ![w] = NoReceiptRequest]

\* Mutant of Executing: any directive will do.
AnyDirective(row) == Found(row)

\* requireExecutingDirective
Executing(row) == Found(row) /\ row.status = "executing"

\* Mutant of DirectiveOutcome: a failed receipt completes the directive as well.
AlwaysCompleted(to) == "completed"

\* Where a receipt that leaves "pending" puts its directive and the gate.
DirectiveOutcome(to) == IF to = "confirmed" THEN "completed" ELSE "aborted"

GateOutcome(to, dir) == IF to = "confirmed" THEN dir.target ELSE "locked"

-----------------------------------------------------------------------------
\* Create: the directive must be executing, and have no live receipt yet.
GetDirectiveForReceiptCreate(w, r, d) ==
  /\ ReceiptIdle(w) /\ Insertable(receipt[r])
  /\ MaxReceiptVersion >= 1
  /\ Executing(directive[d])
  /\ recReq' = [recReq EXCEPT ![w] = [NoReceiptRequest EXCEPT
       !.op = "create", !.step = "count", !.id = r, !.directive = d]]
  /\ UNCHANGED storeVars

\* CountByDirectiveCode does not see soft deleted receipts.
CountReceipts(w) ==
  LET q == recReq[w] IN
  /\ q.op = "create" /\ q.step = "count"
  /\ \A r \in Receipt : Found(receipt[r]) => receipt[r].directive # q.directive
  /\ recReq' = [recReq EXCEPT ![w].step = "commit"]
  /\ UNCHANGED storeVars

\* Mutant of CommitReceiptCreate: no unique index on the directive.
CommitReceiptCreateByCode(w) ==
  LET q == recReq[w] IN
  /\ q.op = "create" /\ q.step = "commit"
  /\ Insertable(receipt[q.id])
  /\ receipt' = [receipt EXCEPT ![q.id] =
       [row |-> "live", status |-> "pending", version |-> 1,
        directive |-> q.directive]]
  /\ audit' = [audit EXCEPT ![q.id] = Entry("", "pending")]
  /\ FinishReceipt(w)
  /\ UNCHANGED <<gate, directive, approval>>

\* The insert obeys both unique indexes, on the code and on the directive, and
\* both see soft deleted rows.
CommitReceiptCreate(w) ==
  LET q == recReq[w] IN
  /\ q.op = "create" /\ q.step = "commit"
  /\ Insertable(receipt[q.id])
  /\ \A r \in Receipt : receipt[r].directive # q.directive
  /\ receipt' = [receipt EXCEPT ![q.id] =
       [row |-> "live", status |-> "pending", version |-> 1,
        directive |-> q.directive]]
  /\ audit' = [audit EXCEPT ![q.id] = Entry("", "pending")]
  /\ FinishReceipt(w)
  /\ UNCHANGED <<gate, directive, approval>>

\* Update is for pending receipts of executing directives.
GetForReceiptUpdate(w, r, e) ==
  /\ ReceiptIdle(w) /\ Found(receipt[r])
  /\ receipt[r].version < MaxReceiptVersion
  /\ e \in ClientVersions(receipt[r])
  /\ receipt[r].status = "pending"
  /\ recReq' = [recReq EXCEPT ![w] =
       [op |-> "update", step |-> "directive", id |-> r, to |-> "pending",
        expect |-> e, directive |-> None, cur |-> receipt[r],
        dir |-> NoDirective, linked |-> NoGate]]
  /\ UNCHANGED storeVars

GetDirectiveForReceiptUpdate(w) ==
  /\ recReq[w].op = "update" /\ recReq[w].step = "directive"
  /\ Executing(directive[recReq[w].cur.directive])
  /\ recReq' = [recReq EXCEPT ![w].step = "commit"]
  /\ UNCHANGED storeVars

CommitReceiptUpdate(w) ==
  LET q == recReq[w] IN
  /\ q.op = "update" /\ q.step = "commit"
  /\ Updatable(receipt[q.id], q.expect)
  /\ receipt' = [receipt EXCEPT ![q.id] =
       [q.cur EXCEPT !.version = q.expect + 1]]
  /\ audit' = [audit EXCEPT ![q.id] = Entry(q.cur.status, q.cur.status)]
  /\ FinishReceipt(w)
  /\ UNCHANGED <<gate, directive, approval>>

-----------------------------------------------------------------------------
\* Transition: only a receipt that leaves "pending" settles directive and gate.
GetForReceiptTransition(w, r, to, e) ==
  LET cur == receipt[r] IN
  /\ ReceiptIdle(w) /\ Found(cur)
  /\ cur.version < MaxReceiptVersion
  /\ e \in ClientVersions(cur)
  /\ CanTransition(ExecutionConfirmationTransitions, cur.status, to)
  /\ recReq' = [recReq EXCEPT ![w] =
       [op |-> "transition",
        step |-> IF cur.status = "pending" THEN "directive" ELSE "commit",
        id |-> r, to |-> to, expect |-> e, directive |-> None, cur |-> cur,
        dir |-> NoDirective, linked |-> NoGate]]
  /\ UNCHANGED storeVars

GetDirectiveForReceiptTransition(w) ==
  LET dir == directive[recReq[w].cur.directive] IN
  /\ recReq[w].op = "transition" /\ recReq[w].step = "directive"
  /\ Executing(dir)
  /\ dir.version < MaxDirectiveVersion
  /\ recReq' = [recReq EXCEPT ![w].step = "gate", ![w].dir = dir]
  /\ UNCHANGED storeVars

GetGateForReceiptTransition(w) ==
  LET q == recReq[w]
      linked == gate[q.dir.gate]
      goal == GateOutcome(q.to, q.dir) IN
  /\ q.op = "transition" /\ q.step = "gate"
  /\ Found(linked)
  /\ linked.status # goal =>
       /\ CanTransition(GateUnitTransitions, linked.status, goal)
       /\ linked.version < MaxGateVersion
  /\ recReq' = [recReq EXCEPT ![w].step = "commit", ![w].linked = linked]
  /\ UNCHANGED storeVars

\* Mutant of CommitReceiptCancel: the audit record has its states swapped.
CommitReceiptCancelSwapped(w) ==
  LET q == recReq[w] IN
  /\ q.op = "transition" /\ q.step = "commit" /\ q.cur.status # "pending"
  /\ Updatable(receipt[q.id], q.expect)
  /\ receipt' = [receipt EXCEPT ![q.id] =
       [q.cur EXCEPT !.status = q.to, !.version = q.expect + 1]]
  /\ audit' = [audit EXCEPT ![q.id] = Entry(q.to, q.cur.status)]
  /\ FinishReceipt(w)
  /\ UNCHANGED <<gate, directive, approval>>

\* The transaction of failed -> cancelled: the receipt alone.
CommitReceiptCancel(w) ==
  LET q == recReq[w] IN
  /\ q.op = "transition" /\ q.step = "commit" /\ q.cur.status # "pending"
  /\ Updatable(receipt[q.id], q.expect)
  /\ receipt' = [receipt EXCEPT ![q.id] =
       [q.cur EXCEPT !.status = q.to, !.version = q.expect + 1]]
  /\ audit' = [audit EXCEPT ![q.id] = Entry(q.cur.status, q.to)]
  /\ FinishReceipt(w)
  /\ UNCHANGED <<gate, directive, approval>>

\* The transaction of an outcome: receipt, directive, and the gate unless it
\* was read in the state it should end in.
CommitReceiptOutcome(w) ==
  LET q == recReq[w]
      d == q.cur.directive
      g == q.dir.gate
      goal == GateOutcome(q.to, q.dir)
      trail == [audit EXCEPT
        ![q.id] = Entry(q.cur.status, q.to),
        ![d] = Entry(q.dir.status, DirectiveOutcome(q.to))] IN
  /\ q.op = "transition" /\ q.step = "commit" /\ q.cur.status = "pending"
  /\ Updatable(receipt[q.id], q.expect)
  /\ Updatable(directive[d], q.dir.version)
  /\ receipt' = [receipt EXCEPT ![q.id] =
       [q.cur EXCEPT !.status = q.to, !.version = q.expect + 1]]
  /\ directive' = [directive EXCEPT ![d] = [q.dir EXCEPT
       !.status = DirectiveOutcome(q.to), !.version = q.dir.version + 1]]
  /\ \/ /\ q.linked.status = goal
        /\ audit' = trail
        /\ UNCHANGED gate
     \/ /\ q.linked.status # goal
        /\ Updatable(gate[g], q.linked.version)
        /\ gate' = [gate EXCEPT ![g] = [q.linked EXCEPT
             !.status = goal, !.version = q.linked.version + 1]]
        /\ audit' = [trail EXCEPT ![g] = Entry(q.linked.status, goal)]
  /\ FinishReceipt(w)
  /\ UNCHANGED approval

-----------------------------------------------------------------------------
GetForReceiptDelete(w, r) ==
  /\ ReceiptIdle(w) /\ Found(receipt[r])
  /\ receipt[r].status = "pending"
  /\ recReq' = [recReq EXCEPT ![w] = [NoReceiptRequest EXCEPT
       !.op = "delete", !.id = r, !.cur = receipt[r]]]
  /\ UNCHANGED storeVars

\* The row is removed whatever it has become since it was read.
CommitReceiptDelete(w) ==
  LET q == recReq[w] IN
  /\ q.op = "delete"
  /\ Found(receipt[q.id])
  /\ receipt' = [receipt EXCEPT ![q.id] = SoftDeleted(receipt[q.id])]
  /\ audit' = [audit EXCEPT ![q.id] = Entry(q.cur.status, "deleted")]
  /\ FinishReceipt(w)
  /\ UNCHANGED <<gate, directive, approval>>

\* Refused, conflicted, failed or crashed before its transaction committed.
AbandonReceipt(w) ==
  /\ ~ReceiptIdle(w)
  /\ FinishReceipt(w)
  /\ UNCHANGED storeVars

ExecutionConfirmationStep(w) ==
  \/ \E r \in Receipt, d \in Directive : GetDirectiveForReceiptCreate(w, r, d)
  \/ CountReceipts(w)
  \/ CommitReceiptCreate(w)
  \/ \E r \in Receipt, e \in 1..MaxReceiptVersion : GetForReceiptUpdate(w, r, e)
  \/ GetDirectiveForReceiptUpdate(w)
  \/ CommitReceiptUpdate(w)
  \/ \E r \in Receipt, to \in ReceiptStates, e \in 1..MaxReceiptVersion :
       GetForReceiptTransition(w, r, to, e)
  \/ GetDirectiveForReceiptTransition(w)
  \/ GetGateForReceiptTransition(w)
  \/ CommitReceiptCancel(w)
  \/ CommitReceiptOutcome(w)
  \/ \E r \in Receipt : GetForReceiptDelete(w, r)
  \/ CommitReceiptDelete(w)
  \/ AbandonReceipt(w)

ExecutionConfirmationNext == \E w \in ReceiptWorker : ExecutionConfirmationStep(w)
=============================================================================
