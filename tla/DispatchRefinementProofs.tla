----------------------- MODULE DispatchRefinementProofs -----------------------
(* The services implement DispatchProtocol: initial states map to initial     *)
(* states, a commit maps to the abstract step of the same name, every other    *)
(* step to a stutter.  What the protocol keeps then holds of the services.    *)
EXTENDS DispatchProofs, DispatchRefinement

gates == [g \in Gate |-> GateView(gate[g])]
directives == [d \in Directive |-> DirectiveView(directive[d])]
receipts == [r \in Receipt |-> ReceiptView(receipt[r])]

\* A table seen through the mapping changes where the table does.
LEMMA GateViews ==
  ASSUME TypeInv, NEW g \in Gate, NEW new, gate' = [gate EXCEPT ![g] = new]
  PROVE  gates' = [gates EXCEPT ![g] = GateView(new)]
BY DEF gates, TypeInv, TypeOK, StoreTypeOK

\* The same for the directives.
LEMMA DirectiveViews ==
  ASSUME TypeInv, NEW d \in Directive, NEW new,
         directive' = [directive EXCEPT ![d] = new]
  PROVE  directives' = [directives EXCEPT ![d] = DirectiveView(new)]
BY DEF directives, TypeInv, TypeOK, StoreTypeOK

\* The same for the receipts.
LEMMA ReceiptViews ==
  ASSUME TypeInv, NEW r \in Receipt, NEW new, receipt' = [receipt EXCEPT ![r] = new]
  PROVE  receipts' = [receipts EXCEPT ![r] = ReceiptView(new)]
BY DEF receipts, TypeInv, TypeOK, StoreTypeOK

\* Inserting a gate adds it.
LEMMA CreateGateMaps ==
  ASSUME TypeInv, NEW g \in Gate, CreateGate(g)
  PROVE  Protocol!AddGate(g)
<1>1. /\ gates' = [gates EXCEPT ![g] = [row |-> "live", status |-> "open"]]
      /\ UNCHANGED <<directives, receipts>>
      /\ gates[g].row = "none"
  <2> DEFINE new == [row |-> "live", status |-> "open", version |-> 1]
  <2>1. gate' = [gate EXCEPT ![g] = new] /\ UNCHANGED <<directive, receipt>>
    BY DEF CreateGate
  <2>2. GateView(new) = [row |-> "live", status |-> "open"]
    BY DEF GateView
  <2>3. gates' = [gates EXCEPT ![g] = GateView(new)]
    BY <2>1, GateViews
  <2>4. gates[g].row = "none"
    BY DEF CreateGate, Insertable, gates, GateView
  <2> QED
    BY <2>1, <2>2, <2>3, <2>4 DEF directives, receipts
<1> QED
  BY <1>1 DEF Protocol!AddGate, Protocol!Fresh, gates, directives, receipts

\* A gate write maps to a move, or to a stutter when the status stays.
LEMMA GateWriteMaps ==
  ASSUME TypeInv, SnapshotCurrent, NEW w \in GateWorker, CommitGateWrite(w)
  PROVE  UNCHANGED <<gates, directives, receipts>>
           \/ \E g \in Gate, to \in GateStates : Protocol!MoveGate(g, to)
<1> DEFINE q == gateReq[w]
           new == [q.cur EXCEPT !.status = q.to, !.version = q.expect + 1]
<1> USE DEF TypeInv, TypeOK, StoreTypeOK
<1>1. /\ q \in GateRequest /\ GateRequestOK(q) /\ q.op = "write"
      /\ Updatable(gate[q.id], q.expect)
      /\ gate' = [gate EXCEPT ![q.id] = new]
      /\ UNCHANGED <<directive, receipt>>
  BY DEF CommitGateWrite, GateReqTypeOK, RequestsChecked
<1>2. /\ q.id \in Gate /\ q.cur \in GateRow /\ Found(q.cur)
      /\ q.expect \in Nat /\ q.to \in GateStates
      /\ q.to = q.cur.status
           \/ CanTransition(GateUnitTransitions, q.cur.status, q.to)
  BY <1>1, BoundsAreNaturals DEF GateRequestOK, GateRequest
<1>3. gate[q.id] = q.cur
  BY <1>1, <1>2, OverwritesGate DEF SnapshotCurrent
<1>4. /\ gates' = [gates EXCEPT ![q.id] = [row |-> "live", status |-> q.to]]
      /\ gates[q.id] = [row |-> "live", status |-> q.cur.status]
      /\ UNCHANGED <<directives, receipts>>
  <2>1. GateView(new) = [row |-> "live", status |-> q.to]
    BY <1>2 DEF GateView, GateRow, Found
  <2> QED
    BY <1>1, <1>2, <1>3, <2>1, GateViews
    DEF gates, GateView, Found, directives, receipts
<1>5. CASE q.to = q.cur.status
  BY <1>4, <1>5 DEF gates
<1>6. CASE CanTransition(GateUnitTransitions, q.cur.status, q.to)
  <2>1. gates' = [gates EXCEPT ![q.id].status = q.to]
    <3>1. [gates[q.id] EXCEPT !.status = q.to] = [row |-> "live", status |-> q.to]
      BY <1>4
    <3> QED
      BY <1>4, <3>1
  <2>2. /\ Protocol!Live(gates[q.id])
        /\ Protocol!CanTransition(Protocol!GateUnitTransitions, gates[q.id].status, q.to)
    BY <1>4, <1>6
    DEF Protocol!Live, Protocol!CanTransition, Protocol!GateUnitTransitions,
        CanTransition, GateUnitTransitions
  <2> QED
    BY <1>2, <1>4, <2>1, <2>2
    DEF Protocol!MoveGate, Protocol!Moves, gates, directives, receipts
<1> QED
  BY <1>2, <1>5, <1>6

\* Soft deleting a gate removes it.
LEMMA GateDeleteMaps ==
  ASSUME TypeInv, NEW w \in GateWorker, CommitGateDelete(w)
  PROVE  \E g \in Gate : Protocol!RemoveGate(g)
<1> DEFINE g == gateReq[w].id
           new == SoftDeleted(gate[g])
<1> USE DEF TypeInv, TypeOK, StoreTypeOK
<1>1. /\ g \in Gate /\ Found(gate[g]) /\ gate' = [gate EXCEPT ![g] = new]
      /\ UNCHANGED <<directive, receipt>>
  BY DEF CommitGateDelete, RequestsChecked, GateRequestOK
<1>2. GateView(new) = [gates[g] EXCEPT !.row = "deleted"] /\ gates[g].row = "live"
  BY <1>1 DEF gates, GateView, SoftDeleted, GateRow, Found
<1>3. gates' = [gates EXCEPT ![g].row = "deleted"]
  BY <1>1, <1>2, GateViews
<1> QED
  BY <1>1, <1>2, <1>3
  DEF Protocol!RemoveGate, Protocol!Live, gates, directives, receipts

-----------------------------------------------------------------------------
\* Inserting a directive drafts it.
LEMMA DirectiveCreateMaps ==
  ASSUME TypeInv, NEW w \in DirectiveWorker, CommitDirectiveCreate(w)
  PROVE  \E d \in Directive, g \in Gate, t \in GateStates : Protocol!Draft(d, g, t)
<1> DEFINE q == dirReq[w]
           new == [NoDirective EXCEPT !.row = "live", !.version = 1,
                                      !.gate = q.gate, !.target = q.target]
           view == [row |-> "live", status |-> "draft", gate |-> q.gate,
                    target |-> q.target, submittedBy |-> None, approvedBy |-> None]
<1> USE DEF TypeInv, TypeOK, StoreTypeOK
<1>1. /\ q \in DirectiveRequest /\ DirectiveRequestOK(q) /\ q.op = "create"
      /\ Insertable(directive[q.id]) /\ UNCHANGED <<gate, receipt>>
      /\ directive' = [directive EXCEPT ![q.id] = new]
  BY DEF CommitDirectiveCreate, DirReqTypeOK, RequestsChecked
<1>2. q.id \in Directive /\ q.gate \in Gate /\ q.target \in GateStates
  BY <1>1 DEF DirectiveRequestOK, DirectiveRequest
<1>3. DirectiveView(new) = view
  BY DEF DirectiveView, NoDirective
<1>4. directives' = [directives EXCEPT ![q.id] = view]
  BY <1>1, <1>2, <1>3, DirectiveViews
<1>5. directives[q.id].row = "none"
  BY <1>1, <1>2 DEF directives, DirectiveView, Insertable
<1>6. Protocol!Draft(q.id, q.gate, q.target)
  BY <1>1, <1>4, <1>5
  DEF Protocol!Draft, Protocol!Unsigned, Protocol!Fresh, gates, directives, receipts
<1> QED
  BY <1>2, <1>6

\* Rewriting a draft edits it: no signature is lost, a draft has none.
LEMMA DirectiveUpdateMaps ==
  ASSUME TypeInv, SnapshotCurrent, ApprovalsFollow, NEW w \in DirectiveWorker,
         CommitDirectiveUpdate(w)
  PROVE  \E d \in Directive, g \in Gate, t \in GateStates : Protocol!Edit(d, g, t)
<1> DEFINE q == dirReq[w]
           new == [q.cur EXCEPT !.gate = q.gate, !.target = q.target,
                                !.version = q.expect + 1]
           view == [row |-> "live", status |-> "draft", gate |-> q.gate,
                    target |-> q.target, submittedBy |-> None, approvedBy |-> None]
<1> USE DEF TypeInv, TypeOK, StoreTypeOK
<1>1. /\ q \in DirectiveRequest /\ DirectiveRequestOK(q) /\ q.op = "update"
      /\ Updatable(directive[q.id], q.expect) /\ UNCHANGED <<gate, receipt>>
      /\ directive' = [directive EXCEPT ![q.id] = new]
  BY DEF CommitDirectiveUpdate, DirReqTypeOK, RequestsChecked
<1>2. /\ q.id \in Directive /\ q.cur \in DirectiveRow /\ Found(q.cur)
      /\ q.expect \in Nat /\ q.cur.status = "draft"
      /\ q.gate \in Gate /\ q.target \in GateStates
  BY <1>1, BoundsAreNaturals DEF DirectiveRequestOK, DirectiveRequest
<1>3. directive[q.id] = q.cur
  BY <1>1, <1>2, OverwritesDirective DEF SnapshotCurrent
<1>4. q.cur.submittedBy = None /\ q.cur.approvedBy = None
  BY <1>2, <1>3 DEF ApprovalsFollow, EvidenceOK, NoApproval
<1>5. DirectiveView(new) = view
  BY <1>2, <1>4 DEF DirectiveView, DirectiveRow, Found
<1>6. directives' = [directives EXCEPT ![q.id] = view]
  BY <1>1, <1>2, <1>5, DirectiveViews
<1>7. directives[q.id].row = "live" /\ directives[q.id].status = "draft"
  BY <1>2, <1>3 DEF directives, DirectiveView, Found
<1>8. Protocol!Edit(q.id, q.gate, q.target)
  BY <1>1, <1>6, <1>7
  DEF Protocol!Edit, Protocol!Unsigned, Protocol!Live, gates, directives, receipts
<1> QED
  BY <1>2, <1>8

\* Soft deleting a directive removes it, whatever its state has become.
LEMMA DirectiveDeleteMaps ==
  ASSUME TypeInv, NEW w \in DirectiveWorker, CommitDirectiveDelete(w)
  PROVE  \E d \in Directive : Protocol!RemoveDirective(d)
<1> DEFINE d == dirReq[w].id
           new == SoftDeleted(directive[d])
<1> USE DEF TypeInv, TypeOK, StoreTypeOK
<1>1. /\ d \in Directive /\ Found(directive[d])
      /\ directive' = [directive EXCEPT ![d] = new] /\ UNCHANGED <<gate, receipt>>
  BY DEF CommitDirectiveDelete, RequestsChecked, DirectiveRequestOK
<1>2. /\ DirectiveView(new) = [directives[d] EXCEPT !.row = "deleted"]
      /\ directives[d].row = "live"
  BY <1>1 DEF directives, DirectiveView, SoftDeleted, DirectiveRow, Found
<1>3. directives' = [directives EXCEPT ![d].row = "deleted"]
  BY <1>1, <1>2, DirectiveViews
<1> QED
  BY <1>1, <1>2, <1>3
  DEF Protocol!RemoveDirective, Protocol!Live, gates, directives, receipts

\* A gate that a directive takes along moves as the protocol lets it.
LEMMA GateTaken ==
  ASSUME TypeInv, NEW g \in Gate, NEW goal \in GateStates, NEW c \in GateRow,
         gate[g] = c, Found(c), CanTransition(GateUnitTransitions, c.status, goal),
         gate' = [gate EXCEPT ![g] =
           [c EXCEPT !.status = goal, !.version = c.version + 1]]
  PROVE  Protocol!TakesGate(g, goal)
<1> DEFINE new == [c EXCEPT !.status = goal, !.version = c.version + 1]
           view == [row |-> "live", status |-> goal]
<1>1. GateView(new) = view /\ gate' = [gate EXCEPT ![g] = new]
  BY DEF GateView, GateRow, Found
<1> HIDE DEF new
<1>2. gates' = [gates EXCEPT ![g] = view]
  <2>1. gates' = [gates EXCEPT ![g] = GateView(new)]
    BY <1>1, GateViews
  <2> QED
    BY <1>1, <2>1
<1>3. gates[g] = [row |-> "live", status |-> c.status]
  BY DEF gates, GateView, Found
<1>4. [gates[g] EXCEPT !.status = goal] = view
  BY <1>3
<1>5. gates' = [gates EXCEPT ![g].status = goal]
  BY <1>2, <1>4
<1>6. Protocol!Moves(Protocol!GateUnitTransitions, gates[g], goal)
  BY <1>3
  DEF Protocol!Moves, Protocol!Live, Protocol!CanTransition,
      Protocol!GateUnitTransitions, CanTransition, GateUnitTransitions
<1> QED
  BY <1>5, <1>6 DEF Protocol!TakesGate, gates

\* A transition that takes the gate along writes the gate its copy names.
LEMMA DirectiveTakesGate ==
  ASSUME TypeInv, SnapshotCurrent, NEW w \in DirectiveWorker,
         CommitDirectiveTransition(w), gate' # gate
  PROVE  LET q == dirReq[w]  goal == GateTarget(q.cur, q.to, q.linked) IN
         /\ NeedsGate(q.cur, q.to) /\ Protocol!TakesGate(q.cur.gate, goal)
         /\ goal \in {"moving", "locked"} /\ (goal = "locked" <=> q.to = "aborted")
<1> DEFINE q == dirReq[w]
           goal == GateTarget(q.cur, q.to, q.linked)
<1> USE DEF TypeInv, TypeOK, StoreTypeOK
<1>1. /\ q \in DirectiveRequest /\ DirectiveRequestOK(q)
      /\ q.op = "transition" /\ q.step = "commit"
      /\ WritesGate(q.cur, q.to, q.linked)
      /\ Updatable(gate[q.cur.gate], q.linked.version)
      /\ gate' = [gate EXCEPT ![q.cur.gate] =
           [q.linked EXCEPT !.status = goal, !.version = q.linked.version + 1]]
  BY DEF CommitDirectiveTransition, DirReqTypeOK, RequestsChecked
<1>2. /\ q.cur.gate \in Gate /\ q.linked \in GateRow
      /\ Found(q.linked) /\ NeedsGate(q.cur, q.to)
      /\ CanTransition(GateUnitTransitions, q.linked.status, goal)
  BY <1>1 DEF DirectiveRequestOK, DirectiveRequest, WritesGate
<1>3. gate[q.cur.gate] = q.linked
  <2>1. q.linked # NoGate
    BY <1>2 DEF Found, NoGate
  <2>2. Current(q.linked, 0, gate[q.cur.gate]) /\ 0 \in Nat /\ q.linked.version \in Nat
    BY <1>2, <2>1, BoundsAreNaturals DEF SnapshotCurrent, GateRow
  <2> QED
    BY <1>1, <1>2, <2>2, OverwritesGate
<1>4. goal \in {"moving", "locked"} /\ (goal = "locked" <=> q.to = "aborted")
  BY <1>1, <1>2 DEF GateTarget, WritesGate
<1>5. goal \in GateStates
  BY <1>4 DEF GateStates
<1>6. Protocol!TakesGate(q.cur.gate, goal)
  BY <1>1, <1>2, <1>3, <1>5, GateTaken
<1> QED
  BY <1>2, <1>4, <1>6

\* Two fields written at once are two writes of one field.
LEMMA SubmittedFields ==
  ASSUME NEW v, NEW s, NEW u
  PROVE  [v EXCEPT !.status = s, !.submittedBy = u]
           = [[v EXCEPT !.status = s] EXCEPT !.submittedBy = u]
OBVIOUS

\* The same for an approval.
LEMMA ApprovedFields ==
  ASSUME NEW v, NEW s, NEW u
  PROVE  [v EXCEPT !.status = s, !.approvedBy = u]
           = [[v EXCEPT !.status = s] EXCEPT !.approvedBy = u]
OBVIOUS

\* Submit, approve, start and abort.
LEMMA DirectiveTransitionMaps ==
  ASSUME TypeInv, SnapshotCurrent, NEW w \in DirectiveWorker,
         CommitDirectiveTransition(w)
  PROVE  \E d \in Directive : Protocol!DirectiveStep(d)
<1> DEFINE q == dirReq[w]
           d == q.id
           c == q.cur
           goal == GateTarget(q.cur, q.to, q.linked)
           sub == IF q.to = "pending" THEN q.by ELSE q.cur.submittedBy
           app == IF q.to = "approved" THEN q.by ELSE q.cur.approvedBy
           new == [q.cur EXCEPT !.status = q.to, !.version = q.expect + 1,
                                !.submittedBy = sub, !.approvedBy = app]
           View(s, u, v) ==
             [row |-> "live", status |-> s, gate |-> c.gate, target |-> c.target,
              submittedBy |-> u, approvedBy |-> v]
<1> USE DEF TypeInv, TypeOK, StoreTypeOK
<1>1. /\ q \in DirectiveRequest /\ DirectiveRequestOK(q)
      /\ q.op = "transition" /\ q.step = "commit"
      /\ Updatable(directive[d], q.expect) /\ UNCHANGED receipt
      /\ directive' = [directive EXCEPT ![d] = new]
  BY DEF CommitDirectiveTransition, DirReqTypeOK, RequestsChecked
<1>2. /\ d \in Directive /\ c \in DirectiveRow /\ Found(c)
      /\ q.expect \in Nat /\ q.to \in DirectiveStates /\ q.to # "completed"
      /\ CanTransition(OperationDirectiveTransitions, c.status, q.to)
      /\ q.to \in {"pending", "approved"} =>
           q.by \in User /\ directiveRoleAllowed(q.to, RoleOf[q.by])
      /\ q.to = "approved" => c.submittedBy \notin {None, q.by}
  BY <1>1, BoundsAreNaturals DEF DirectiveRequestOK, DirectiveRequest
<1>3. directive[d] = c
  BY <1>1, <1>2, OverwritesDirective DEF SnapshotCurrent
<1>4. /\ DirectiveView(new) = View(q.to, sub, app)
      /\ directives[d] = View(c.status, c.submittedBy, c.approvedBy)
  BY <1>2, <1>3 DEF DirectiveView, DirectiveRow, Found, directives
<1>5. directives' = [directives EXCEPT ![d] = View(q.to, sub, app)]
  <2>1. directive' = [directive EXCEPT ![d] = new]
    BY <1>1
  <2> HIDE DEF new
  <2>2. directives' = [directives EXCEPT ![d] = DirectiveView(new)]
    BY <1>2, <2>1, DirectiveViews
  <2> QED
    BY <1>4, <2>2
<1>6. Protocol!Moves(Protocol!OperationDirectiveTransitions, directives[d], q.to)
  BY <1>2, <1>4
  DEF Protocol!Moves, Protocol!Live, Protocol!CanTransition, CanTransition,
      Protocol!OperationDirectiveTransitions, OperationDirectiveTransitions
<1>7. \/ UNCHANGED gates
      \/ /\ NeedsGate(c, q.to) /\ Protocol!TakesGate(c.gate, goal)
         /\ goal \in {"moving", "locked"} /\ (goal = "locked" <=> q.to = "aborted")
  <2>1. CASE UNCHANGED gate
    BY <2>1 DEF gates
  <2>2. CASE gate' # gate
    BY <2>2, DirectiveTakesGate
  <2> QED
    BY <2>1, <2>2
<1>8. UNCHANGED receipts
  BY <1>1 DEF receipts
<1>9. c.gate = directives[d].gate /\ c.status = directives[d].status
  BY <1>4
<1>10. ASSUME NEW s \in DirectiveStates
       PROVE  [View(c.status, c.submittedBy, c.approvedBy) EXCEPT !.status = s]
                = View(s, c.submittedBy, c.approvedBy)
  OBVIOUS
<1>11. ASSUME NEW s \in DirectiveStates, NEW u
       PROVE  /\ [View(s, c.submittedBy, c.approvedBy) EXCEPT !.submittedBy = u]
                   = View(s, u, c.approvedBy)
              /\ [View(s, c.submittedBy, c.approvedBy) EXCEPT !.approvedBy = u]
                   = View(s, c.submittedBy, u)
  OBVIOUS
<1> HIDE DEF View, new, goal
<1>12. CASE q.to = "pending"
  <2>1. UNCHANGED gates
    BY <1>7, <1>12 DEF NeedsGate
  <2>2. directives' = [directives EXCEPT
          ![d] = [@ EXCEPT !.status = "pending", !.submittedBy = q.by]]
    <3>1. [directives[d] EXCEPT !.status = "pending", !.submittedBy = q.by]
            = View("pending", q.by, c.approvedBy)
      <4> DEFINE v == directives[d]
      <4>1. [v EXCEPT !.status = "pending"] = View("pending", c.submittedBy, c.approvedBy)
        BY <1>4, <1>10 DEF DirectiveStates
      <4>2. [v EXCEPT !.status = "pending", !.submittedBy = q.by]
              = [[v EXCEPT !.status = "pending"] EXCEPT !.submittedBy = q.by]
        BY SubmittedFields
      <4>3. [View("pending", c.submittedBy, c.approvedBy) EXCEPT !.submittedBy = q.by]
              = View("pending", q.by, c.approvedBy)
        BY <1>11 DEF DirectiveStates
      <4> HIDE DEF v
      <4> QED
        BY <4>1, <4>2, <4>3 DEF v
    <3> QED
      BY <1>5, <1>12, <3>1
  <2>3. Protocol!Submit(d, q.by)
    BY <1>2, <1>6, <1>8, <1>12, <2>1, <2>2
    DEF Protocol!Submit, Protocol!directiveRoleAllowed, directiveRoleAllowed,
        gates, directives, receipts
  <2> QED
    BY <1>2, <1>12, <2>3 DEF Protocol!DirectiveStep
<1>13. CASE q.to = "approved"
  <2>1. UNCHANGED gates
    BY <1>7, <1>13 DEF NeedsGate
  <2>2. directives' = [directives EXCEPT
          ![d] = [@ EXCEPT !.status = "approved", !.approvedBy = q.by]]
    <3>1. [directives[d] EXCEPT !.status = "approved", !.approvedBy = q.by]
            = View("approved", c.submittedBy, q.by)
      <4> DEFINE v == directives[d]
      <4>1. [v EXCEPT !.status = "approved"] = View("approved", c.submittedBy, c.approvedBy)
        BY <1>4, <1>10 DEF DirectiveStates
      <4>2. [v EXCEPT !.status = "approved", !.approvedBy = q.by]
              = [[v EXCEPT !.status = "approved"] EXCEPT !.approvedBy = q.by]
        BY ApprovedFields
      <4>3. [View("approved", c.submittedBy, c.approvedBy) EXCEPT !.approvedBy = q.by]
              = View("approved", c.submittedBy, q.by)
        BY <1>11 DEF DirectiveStates
      <4> HIDE DEF v
      <4> QED
        BY <4>1, <4>2, <4>3 DEF v
    <3> QED
      BY <1>5, <1>13, <3>1
  <2>3. q.by # directives[d].submittedBy
    BY <1>2, <1>4, <1>13 DEF View
  <2>4. Protocol!Approve(d, q.by)
    BY <1>2, <1>6, <1>8, <1>13, <2>1, <2>2, <2>3
    DEF Protocol!Approve, Protocol!directiveRoleAllowed, directiveRoleAllowed,
        gates, directives, receipts
  <2> QED
    BY <1>2, <1>13, <2>4 DEF Protocol!DirectiveStep
<1>14. CASE q.to \in {"executing", "aborted"}
  <2>1. directives' = [directives EXCEPT ![d].status = q.to]
    BY <1>2, <1>4, <1>5, <1>10, <1>14
  <2>2. CASE q.to = "executing"
    <3>1. Protocol!TakesGate(directives[d].gate, "moving")
      BY <1>7, <1>9, <2>2 DEF Protocol!TakesGate, gates
    <3>2. Protocol!Start(d)
      BY <1>6, <1>8, <2>1, <2>2, <3>1 DEF Protocol!Start, gates, directives, receipts
    <3> QED
      BY <1>2, <3>2 DEF Protocol!DirectiveStep
  <2>3. CASE q.to = "aborted"
    <3>1. Protocol!TakesGate(directives[d].gate, "locked")
      BY <1>7, <1>9, <2>3 DEF Protocol!TakesGate, gates
    <3>2. directives[d].status # "executing" => UNCHANGED gates
      BY <1>7, <1>9, <2>3 DEF NeedsGate
    <3>3. Protocol!Abort(d)
      BY <1>6, <1>8, <2>1, <2>3, <3>1, <3>2
      DEF Protocol!Abort, gates, directives, receipts
    <3> QED
      BY <1>2, <3>3 DEF Protocol!DirectiveStep
  <2> QED
    BY <1>14, <2>2, <2>3
<1> QED
  BY <1>2, <1>12, <1>13, <1>14
  DEF CanTransition, OperationDirectiveTransitions

-----------------------------------------------------------------------------
\* Inserting a receipt reports on a released directive that had no receipt.
LEMMA ReceiptCreateMaps ==
  ASSUME TypeInv, CreatesBacked, NEW w \in ReceiptWorker, CommitReceiptCreate(w)
  PROVE  \E r \in Receipt, d \in Directive : Protocol!Report(r, d)
<1> DEFINE q == recReq[w]
           d == q.directive
           new == [row |-> "live", status |-> "pending", version |-> 1, directive |-> d]
           view == [row |-> "live", status |-> "pending", directive |-> d]
<1> USE DEF TypeInv, TypeOK, StoreTypeOK
<1>1. /\ ReceiptRequestOK(q) /\ q.op = "create" /\ Insertable(receipt[q.id])
      /\ \A r \in Receipt : receipt[r].directive # d
      /\ receipt' = [receipt EXCEPT ![q.id] = new]
      /\ UNCHANGED <<gate, directive>>
  BY DEF CommitReceiptCreate, RequestsChecked
<1>2. q.id \in Receipt /\ d \in Directive /\ Released(d)
  BY <1>1 DEF ReceiptRequestOK, CreatesBacked
<1>3. ReceiptView(new) = view
  BY DEF ReceiptView
<1>4. receipts' = [receipts EXCEPT ![q.id] = view]
  <2>1. receipt' = [receipt EXCEPT ![q.id] = new]
    BY <1>1
  <2> HIDE DEF new
  <2>2. receipts' = [receipts EXCEPT ![q.id] = ReceiptView(new)]
    BY <1>2, <2>1, ReceiptViews
  <2> QED
    BY <1>3, <2>2
<1>5. Protocol!Fresh(receipts[q.id]) /\ \A s \in Receipt : receipts[s].directive # d
  BY <1>1, <1>2 DEF receipts, ReceiptView, Insertable, Protocol!Fresh
<1>6. Protocol!Released(d)
  BY <1>2 DEF Released, Protocol!Released, DirectiveView
<1>7. Protocol!Report(q.id, d)
  BY <1>1, <1>4, <1>5, <1>6
  DEF Protocol!Report, gates, directives, receipts
<1> QED
  BY <1>2, <1>7

\* Rewriting the fields of a pending receipt does not show.
LEMMA ReceiptUpdateMaps ==
  ASSUME TypeInv, SnapshotCurrent, NEW w \in ReceiptWorker, CommitReceiptUpdate(w)
  PROVE  UNCHANGED <<gates, directives, receipts>>
<1> DEFINE q == recReq[w]
           new == [q.cur EXCEPT !.version = q.expect + 1]
<1> USE DEF TypeInv, TypeOK, StoreTypeOK
<1>1. /\ q \in ReceiptRequest /\ ReceiptRequestOK(q) /\ q.op = "update"
      /\ Updatable(receipt[q.id], q.expect)
      /\ receipt' = [receipt EXCEPT ![q.id] = new]
      /\ UNCHANGED <<gate, directive>>
  BY DEF CommitReceiptUpdate, RecReqTypeOK, RequestsChecked
<1>2. /\ q.id \in Receipt /\ q.cur \in ReceiptRow /\ Found(q.cur) /\ q.expect \in Nat
  BY <1>1, BoundsAreNaturals DEF ReceiptRequestOK, ReceiptRequest
<1>3. receipt[q.id] = q.cur
  BY <1>1, <1>2, OverwritesReceipt DEF SnapshotCurrent
<1>4. ReceiptView(new) = receipts[q.id]
  BY <1>2, <1>3 DEF receipts, ReceiptView, ReceiptRow
<1>5. receipts' = receipts
  <2>1. receipts' = [receipts EXCEPT ![q.id] = ReceiptView(new)]
    BY <1>1, <1>2, ReceiptViews
  <2> QED
    BY <1>4, <2>1 DEF receipts
<1> QED
  BY <1>1, <1>5 DEF gates, directives

\* A failed receipt is cancelled alone.
LEMMA ReceiptCancelMaps ==
  ASSUME TypeInv, SnapshotCurrent, NEW w \in ReceiptWorker, CommitReceiptCancel(w)
  PROVE  \E r \in Receipt : Protocol!Cancel(r)
<1> DEFINE q == recReq[w]
           new == [q.cur EXCEPT !.status = q.to, !.version = q.expect + 1]
<1> USE DEF TypeInv, TypeOK, StoreTypeOK
<1>1. /\ q \in ReceiptRequest /\ ReceiptRequestOK(q)
      /\ q.op = "transition" /\ q.cur.status # "pending"
      /\ Updatable(receipt[q.id], q.expect)
      /\ receipt' = [receipt EXCEPT ![q.id] = new]
      /\ UNCHANGED <<gate, directive>>
  BY DEF CommitReceiptCancel, RecReqTypeOK, RequestsChecked
<1>2. /\ q.id \in Receipt /\ q.cur \in ReceiptRow /\ Found(q.cur) /\ q.expect \in Nat
      /\ CanTransition(ExecutionConfirmationTransitions, q.cur.status, q.to)
  BY <1>1, BoundsAreNaturals DEF ReceiptRequestOK, ReceiptRequest
<1>3. q.cur.status = "failed" /\ q.to = "cancelled"
  BY <1>1, <1>2 DEF CanTransition, ExecutionConfirmationTransitions
<1>4. receipt[q.id] = q.cur
  BY <1>1, <1>2, OverwritesReceipt DEF SnapshotCurrent
<1>5. /\ receipts[q.id] = [row |-> "live", status |-> "failed",
                           directive |-> q.cur.directive]
      /\ ReceiptView(new) = [row |-> "live", status |-> "cancelled",
                             directive |-> q.cur.directive]
  BY <1>2, <1>3, <1>4 DEF receipts, ReceiptView, ReceiptRow, Found
<1>6. ReceiptView(new) = [receipts[q.id] EXCEPT !.status = "cancelled"]
  BY <1>5
<1>7. receipts' = [receipts EXCEPT ![q.id].status = "cancelled"]
  <2>1. receipts' = [receipts EXCEPT ![q.id] = ReceiptView(new)]
    BY <1>1, <1>2, ReceiptViews
  <2> QED
    BY <1>6, <2>1
<1>8. Protocol!Cancel(q.id)
  BY <1>1, <1>5, <1>7
  DEF Protocol!Cancel, Protocol!Live, gates, directives, receipts
<1> QED
  BY <1>2, <1>8

\* Soft deleting a receipt removes it.
LEMMA ReceiptDeleteMaps ==
  ASSUME TypeInv, NEW w \in ReceiptWorker, CommitReceiptDelete(w)
  PROVE  \E r \in Receipt : Protocol!RemoveReceipt(r)
<1> DEFINE r == recReq[w].id
           new == SoftDeleted(receipt[r])
<1> USE DEF TypeInv, TypeOK, StoreTypeOK
<1>1. /\ r \in Receipt /\ Found(receipt[r])
      /\ receipt' = [receipt EXCEPT ![r] = new] /\ UNCHANGED <<gate, directive>>
  BY DEF CommitReceiptDelete, RequestsChecked, ReceiptRequestOK
<1>2. /\ ReceiptView(new) = [receipts[r] EXCEPT !.row = "deleted"]
      /\ receipts[r].row = "live"
  BY <1>1 DEF receipts, ReceiptView, SoftDeleted, ReceiptRow, Found
<1>3. receipts' = [receipts EXCEPT ![r].row = "deleted"]
  BY <1>1, <1>2, ReceiptViews
<1> QED
  BY <1>1, <1>2, <1>3
  DEF Protocol!RemoveReceipt, Protocol!Live, gates, directives, receipts

\* An outcome settles the receipt, the directive and the gate they name.
LEMMA ReceiptOutcomeMaps ==
  ASSUME TypeInv, SnapshotCurrent, NEW w \in ReceiptWorker, CommitReceiptOutcome(w)
  PROVE  \E r \in Receipt : Protocol!ReceiptStep(r)
<1> DEFINE q == recReq[w]
           r == q.id
           d == q.cur.directive
           c == q.dir
           l == q.linked
           goal == GateOutcome(q.to, c)
           after == DirectiveOutcome(q.to)
           rec == [q.cur EXCEPT !.status = q.to, !.version = q.expect + 1]
           dir == [c EXCEPT !.status = after, !.version = c.version + 1]
           new == [l EXCEPT !.status = goal, !.version = l.version + 1]
           RecView(s) == [row |-> "live", status |-> s, directive |-> d]
           DirView(s) ==
             [row |-> "live", status |-> s, gate |-> c.gate, target |-> c.target,
              submittedBy |-> c.submittedBy, approvedBy |-> c.approvedBy]
<1> USE DEF TypeInv, TypeOK, StoreTypeOK
<1>1. /\ q \in ReceiptRequest /\ ReceiptRequestOK(q)
      /\ q.op = "transition" /\ q.step = "commit" /\ q.cur.status = "pending"
      /\ Updatable(receipt[r], q.expect) /\ Updatable(directive[d], c.version)
      /\ receipt' = [receipt EXCEPT ![r] = rec]
      /\ directive' = [directive EXCEPT ![d] = dir]
  BY DEF CommitReceiptOutcome, RecReqTypeOK, RequestsChecked
<1>2. /\ r \in Receipt /\ q.cur \in ReceiptRow /\ Found(q.cur) /\ q.expect \in Nat
      /\ d \in Directive /\ c \in DirectiveRow /\ Found(c) /\ c.status = "executing"
      /\ c.gate \in Gate /\ l \in GateRow /\ Found(l)
      /\ l.status # goal => CanTransition(GateUnitTransitions, l.status, goal)
      /\ CanTransition(ExecutionConfirmationTransitions, q.cur.status, q.to)
  BY <1>1, BoundsAreNaturals DEF ReceiptRequestOK, ReceiptRequest, Executing
<1>3. q.to \in {"confirmed", "failed"} /\ goal \in GateStates
  BY <1>1, <1>2
  DEF CanTransition, ExecutionConfirmationTransitions, GateOutcome, GateStates,
      DirectiveRow
<1>4. receipt[r] = q.cur
  BY <1>1, <1>2, OverwritesReceipt DEF SnapshotCurrent
<1>5. directive[d] = c
  <2>1. c # NoDirective
    BY <1>2 DEF Found, NoDirective
  <2>2. Current(c, 0, directive[d]) /\ 0 \in Nat
    BY <2>1 DEF SnapshotCurrent
  <2> QED
    BY <1>1, <1>2, <2>2, OverwritesDirective
<1>6. /\ receipts[r] = RecView("pending") /\ ReceiptView(rec) = RecView(q.to)
      /\ directives[d] = DirView("executing") /\ DirectiveView(dir) = DirView(after)
  BY <1>1, <1>2, <1>4, <1>5
  DEF receipts, directives, ReceiptView, DirectiveView, ReceiptRow, DirectiveRow, Found
<1>7. ASSUME gate' # gate PROVE Protocol!TakesGate(c.gate, goal)
  <2>1. /\ l.status # goal /\ Updatable(gate[c.gate], l.version)
        /\ gate' = [gate EXCEPT ![c.gate] = new]
    BY <1>7 DEF CommitReceiptOutcome
  <2>2. l # NoGate
    BY <1>2 DEF Found, NoGate
  <2>3. Current(l, 0, gate[c.gate]) /\ 0 \in Nat
    BY <2>2 DEF SnapshotCurrent
  <2>4. gate[c.gate] = l
    BY <1>2, <2>1, <2>3, OverwritesGate
  <2> QED
    BY <1>2, <1>3, <2>1, <2>4, GateTaken
<1>8. Protocol!TakesGate(c.gate, goal)
  <2>1. CASE UNCHANGED gate
    BY <2>1 DEF Protocol!TakesGate
  <2> QED
    BY <1>7, <2>1
<1>9. RecView(q.to) = [receipts[r] EXCEPT !.status = q.to]
  BY <1>6
<1>10. DirView(after) = [directives[d] EXCEPT !.status = after]
  BY <1>6
<1>11. /\ receipts[r].row = "live" /\ receipts[r].status = "pending"
       /\ receipts[r].directive = d
       /\ directives[d].row = "live" /\ directives[d].status = "executing"
       /\ directives[d].gate = c.gate /\ directives[d].target = c.target
  BY <1>6
<1> HIDE DEF rec, dir, RecView, DirView
<1>12. /\ receipts' = [receipts EXCEPT ![r].status = q.to]
       /\ directives' = [directives EXCEPT ![d].status = after]
  <2>1. /\ receipts' = [receipts EXCEPT ![r] = ReceiptView(rec)]
        /\ directives' = [directives EXCEPT ![d] = DirectiveView(dir)]
    BY <1>1, <1>2, ReceiptViews, DirectiveViews
  <2> QED
    BY <1>6, <1>9, <1>10, <2>1
<1>13. Protocol!Settle(r, q.to, after)
  <2>1. Protocol!Settle(r, q.to, after) <=>
          /\ receipts[r].row = "live" /\ receipts[r].status = "pending"
          /\ directives[receipts[r].directive].row = "live"
          /\ directives[receipts[r].directive].status = "executing"
          /\ <<q.to, after>> \in {<<"confirmed", "completed">>, <<"failed", "aborted">>}
          /\ Protocol!TakesGate(directives[receipts[r].directive].gate,
               IF q.to = "confirmed" THEN directives[receipts[r].directive].target
               ELSE "locked")
          /\ receipts' = [receipts EXCEPT ![r].status = q.to]
          /\ directives' =
               [directives EXCEPT ![receipts[r].directive].status = after]
    BY DEF Protocol!Settle, Protocol!Live, directives, receipts
  <2>2. <<q.to, after>> \in {<<"confirmed", "completed">>, <<"failed", "aborted">>}
    BY <1>3 DEF DirectiveOutcome
  <2>3. goal = IF q.to = "confirmed" THEN c.target ELSE "locked"
    BY DEF GateOutcome
  <2> QED
    BY <1>8, <1>11, <1>12, <2>1, <2>2, <2>3
<1> QED
  BY <1>2, <1>3, <1>13 DEF Protocol!ReceiptStep, DirectiveOutcome

-----------------------------------------------------------------------------
\* What a finished seed leaves is an initial state of the protocol.
LEMMA InitMaps ==
  ASSUME Init PROVE Protocol!Init
<1> USE DEF Init, StoreInit
<1>1. /\ gates \in [Gate -> Protocol!GateRecord]
      /\ directives \in [Directive -> Protocol!DirectiveRecord]
      /\ receipts \in [Receipt -> Protocol!ReceiptRecord]
  BY SeedIsConsistent
  DEF gates, directives, receipts, GateView, DirectiveView, ReceiptView,
      GateRow, DirectiveRow, ReceiptRow, Protocol!GateRecord,
      Protocol!DirectiveRecord, Protocol!ReceiptRecord, RowTags, GateStates,
      DirectiveStates, ReceiptStates, Protocol!RowTags, Protocol!GateStates,
      Protocol!DirectiveStates, Protocol!ReceiptStates
<1>2. ASSUME NEW d \in Directive
      PROVE  /\ directives[d].status \in {"draft", "pending", "executing"}
             /\ Protocol!Fresh(directives[d]) => directives[d].status = "draft"
  BY SeedIsConsistent
  DEF directives, DirectiveView, Protocol!Fresh, NoDirective
<1>3. ASSUME NEW r \in Receipt, receipt[r] = NoReceipt
      PROVE  /\ Protocol!Fresh(receipts[r]) /\ receipts[r].status = "pending"
             /\ receipts[r].directive = None
  BY <1>3 DEF receipts, ReceiptView, Protocol!Fresh, NoReceipt
<1>4. ASSUME NEW r \in Receipt, receipt[r] # NoReceipt
      PROVE  /\ Protocol!Live(receipts[r]) /\ receipts[r].status = "pending"
             /\ receipts[r].directive \in Directive
             /\ directives[receipts[r].directive].status = "executing"
             /\ Protocol!Released(receipts[r].directive)
             /\ \A s \in Receipt :
                  receipts[s].directive = receipts[r].directive => s = r
  <2> DEFINE d == receipt[r].directive
  <2>1. /\ receipt[r].row = "live" /\ receipt[r].status = "pending"
        /\ d \in Directive /\ directive[d].status = "executing"
    BY <1>4, SeedIsConsistent
  <2>2. /\ {directive[d].submittedBy, directive[d].approvedBy} \subseteq User
        /\ directive[d].submittedBy # directive[d].approvedBy
    BY <2>1, SeedIsConsistent DEF NoDirective, DirectiveRow
  <2>3. ASSUME NEW s \in Receipt, receipt[s].directive = d PROVE s = r
    BY <1>4, <2>1, <2>3, SeedIsConsistent, CodesDistinct DEF NoReceipt
  <2>4. Protocol!Released(d)
    BY <2>1, <2>2 DEF Protocol!Released, DirectiveView
  <2> QED
    BY <2>1, <2>3, <2>4 DEF receipts, directives, ReceiptView, DirectiveView, Protocol!Live
<1> QED
  BY <1>1, <1>2, <1>3, <1>4 DEF Protocol!Init, gates, directives, receipts

\* Every step of the services is a step of the protocol or a stutter.
LEMMA StepMaps ==
  ASSUME IInv, [Next]_vars
  PROVE  Protocol!Next \/ UNCHANGED <<gates, directives, receipts>>
<1> USE DEF IInv
<1>1. CASE UNCHANGED storeVars
  BY <1>1 DEF storeVars, gates, directives, receipts
<1>2. ASSUME NEW g \in Gate, CreateGate(g) PROVE Protocol!Next
  BY <1>2, CreateGateMaps DEF Protocol!Next, Protocol!GateStep
<1>3. ASSUME NEW w \in GateWorker, CommitGateWrite(w) \/ CommitGateDelete(w)
      PROVE  Protocol!Next \/ UNCHANGED <<gates, directives, receipts>>
  <2>1. CASE CommitGateWrite(w)
    <3>1. ASSUME NEW g \in Gate, NEW to \in GateStates, Protocol!MoveGate(g, to)
          PROVE  Protocol!GateStep(g)
      BY <3>1 DEF Protocol!GateStep, Protocol!GateStates, GateStates
    <3>2. \/ UNCHANGED <<gates, directives, receipts>>
          \/ \E g \in Gate, to \in GateStates : Protocol!MoveGate(g, to)
      BY <2>1, GateWriteMaps
    <3> QED
      BY <3>1, <3>2 DEF Protocol!Next
  <2>2. CASE CommitGateDelete(w)
    BY <2>2, GateDeleteMaps DEF Protocol!Next, Protocol!GateStep
  <2> QED
    BY <1>3, <2>1, <2>2
<1>4. ASSUME NEW w \in DirectiveWorker,
             \/ CommitDirectiveCreate(w) \/ CommitDirectiveUpdate(w)
             \/ CommitDirectiveTransition(w) \/ CommitDirectiveDelete(w)
      PROVE  \E d \in Directive : Protocol!DirectiveStep(d)
  <2>1. CASE CommitDirectiveCreate(w)
    <3>1. PICK d \in Directive, g \in Gate, t \in GateStates : Protocol!Draft(d, g, t)
      BY <2>1, DirectiveCreateMaps
    <3> QED
      BY <3>1 DEF Protocol!DirectiveStep, Protocol!GateStates, GateStates
  <2>2. CASE CommitDirectiveUpdate(w)
    <3>1. PICK d \in Directive, g \in Gate, t \in GateStates : Protocol!Edit(d, g, t)
      BY <2>2, DirectiveUpdateMaps
    <3> QED
      BY <3>1 DEF Protocol!DirectiveStep, Protocol!GateStates, GateStates
  <2>3. CASE CommitDirectiveTransition(w)
    BY <2>3, DirectiveTransitionMaps
  <2>4. CASE CommitDirectiveDelete(w)
    BY <2>4, DirectiveDeleteMaps DEF Protocol!DirectiveStep
  <2> QED
    BY <1>4, <2>1, <2>2, <2>3, <2>4
<1>5. ASSUME NEW w \in ReceiptWorker,
             \/ CommitReceiptCreate(w) \/ CommitReceiptUpdate(w)
             \/ CommitReceiptCancel(w) \/ CommitReceiptOutcome(w)
             \/ CommitReceiptDelete(w)
      PROVE  \/ \E r \in Receipt : Protocol!ReceiptStep(r)
             \/ UNCHANGED <<gates, directives, receipts>>
  BY <1>5, ReceiptCreateMaps, ReceiptUpdateMaps, ReceiptCancelMaps,
     ReceiptOutcomeMaps, ReceiptDeleteMaps DEF Protocol!ReceiptStep
<1>6. UNCHANGED storeVars \/ Commits
  BY OnlyCommitsWrite
<1> QED
  BY <1>1, <1>2, <1>3, <1>4, <1>5, <1>6 DEF Commits, Protocol!Next

\* The services implement the protocol: what clients of the tables see is a
\* history of whole requests, each decided on the records as they were when it
\* took effect, however many requests overlapped and whatever they had read.
THEOREM Implements == Spec => ImplementsProtocol
<1>1. Init => Protocol!Init
  BY InitMaps
<1>2. IInv /\ [Next]_vars => [Protocol!Next]_(Protocol!records)
  BY StepMaps DEF Protocol!records, gates, directives, receipts
<1> QED
  BY <1>1, <1>2, Invariant, PTL DEF Spec, ImplementsProtocol, Protocol!Spec

\* What the protocol keeps, the services keep.
LEMMA ProtocolKept == Spec => [](Protocol!Agreement /\ Protocol!Backing)
<1>1. None \notin Directive
  BY CodesDistinct
<1>2. Protocol!Spec => [](Protocol!Agreement /\ Protocol!Backing)
  BY <1>1, Protocol!Settled
<1> QED
  BY <1>2, Implements, PTL DEF ImplementsProtocol

\* Receipts, directives and their outcome never disagree, and a directive has
\* one receipt ever, although the services check and write in separate steps.
THEOREM OutcomesAgree == Spec => []OutcomeAgreement
<1>1. IInv /\ Protocol!Agreement => OutcomeAgreement
  <2> SUFFICES ASSUME IInv, Protocol!Agreement PROVE OutcomeAgreement
    OBVIOUS
  <2> USE DEF IInv, TypeInv, TypeOK, StoreTypeOK
  <2>1. ASSUME NEW r \in Receipt, receipt[r] # NoReceipt
        PROVE  receipt[r].row # "none" /\ receipt[r].directive \in Directive
    BY <2>1 DEF RowsWellFormed
  <2>2. ASSUME NEW r \in Receipt
        PROVE  /\ receipts[r].row = receipt[r].row
               /\ receipts[r].status = receipt[r].status
               /\ receipts[r].directive = receipt[r].directive
    BY DEF receipts, ReceiptView
  <2>3. ASSUME NEW d \in Directive
        PROVE  directive[d].status = "completed" <=>
                 \E r \in Receipt :
                   receipt[r].directive = d /\ receipt[r].status = "confirmed"
    <3>1. directives[d].status = "completed" <=>
            \E r \in Receipt :
              receipts[r].directive = d /\ receipts[r].status = "confirmed"
      BY DEF Protocol!Agreement, directives, receipts
    <3> QED
      BY <2>2, <3>1 DEF directives, DirectiveView
  <2>4. ASSUME NEW r \in Receipt, receipt[r].status \in {"failed", "cancelled"}
        PROVE  directive[receipt[r].directive].status = "aborted"
    <3>1. receipt[r].directive \in Directive
      BY <2>1, <2>4 DEF NoReceipt
    <3> QED
      BY <2>4, <3>1 DEF Protocol!Agreement, DirectiveView, ReceiptView
  <2>5. ASSUME NEW r \in Receipt, NEW s \in Receipt, receipt[r] # NoReceipt,
               receipt[r].directive = receipt[s].directive
        PROVE  r = s
    <3>1. /\ receipts[r].directive = receipts[s].directive
          /\ receipts[r].row # "none"
      BY <2>1, <2>5, <2>2
    <3> QED
      BY <3>1 DEF Protocol!Agreement, Protocol!Fresh, receipts
  <2> QED
    BY <2>3, <2>4, <2>5 DEF OutcomeAgreement
<1> QED
  BY <1>1, Invariant, ProtocolKept, PTL

\* Behind every receipt there are two persons and an execution that began, also
\* when the directive moved on between the check and the insert.
THEOREM ReceiptsBacked == Spec => []ReceiptBacked
<1>1. IInv /\ Protocol!Backing => ReceiptBacked
  <2> SUFFICES ASSUME IInv, Protocol!Backing, NEW r \in Receipt,
                      receipt[r] # NoReceipt
               PROVE  LET d == receipt[r].directive IN
                      /\ directive[d].status \in {"executing", "completed", "aborted"}
                      /\ approval[d].submitted \in User /\ approval[d].approved \in User
                      /\ approval[d].submitted # approval[d].approved
    BY DEF ReceiptBacked
  <2> DEFINE d == receipt[r].directive
  <2>1. receipt[r].row # "none" /\ d \in Directive
    BY DEF IInv, TypeInv, RowsWellFormed
  <2>2. Protocol!Released(d)
    BY <2>1 DEF Protocol!Backing, Protocol!Fresh, ReceiptView
  <2>3. /\ directive[d].status \in {"executing", "completed", "aborted"}
        /\ {directive[d].submittedBy, directive[d].approvedBy} \subseteq User
        /\ directive[d].submittedBy # directive[d].approvedBy
    BY <2>1, <2>2 DEF Protocol!Released, DirectiveView
  <2>4. approval[d] = [submitted |-> directive[d].submittedBy,
                       approved |-> directive[d].approvedBy]
    BY <2>1 DEF IInv, ApprovalsFollow, EvidenceOK
  <2> QED
    BY <2>3, <2>4
<1> QED
  BY <1>1, Invariant, ProtocolKept, PTL
=============================================================================
