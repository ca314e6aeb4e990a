-------------------------- MODULE OperationDirective --------------------------
(* service/operation_directive.go.  A request on a directive reads the        *)
(* directive, then possibly the gate it names, each in an auto-committed      *)
(* query, and only then opens the transaction that writes.                    *)
EXTENDS DispatchStore

CONSTANT DirectiveWorker     \* goroutines serving requests on directives

VARIABLE dirReq              \* the request each of them is serving

DirectiveRequest ==
  [op: {"none", "create", "update", "transition", "delete"},
   step: {"gate", "commit"},              \* what it does next
   id: Directive \cup {None},
   to: DirectiveStates, expect: 0..MaxDirectiveVersion,
   by: User \cup {None},                  \* the actor, where a row records it
   gate: Gate \cup {None}, target: GateStates,  \* the form
   cur: DirectiveRow, linked: GateRow]    \* the rows as read

NoDirectiveRequest ==
  [op |-> "none", step |-> "commit", id |-> None, to |-> "draft",
   expect |-> 0, by |-> None, gate |-> None, target |-> "closed",
   cur |-> NoDirective, linked |-> NoGate]

DirReqTypeOK == dirReq \in [DirectiveWorker -> DirectiveRequest]

OperationDirectiveInit == dirReq = [w \in DirectiveWorker |-> NoDirectiveRequest]

DirectiveIdle(w) == dirReq[w] = NoDirectiveRequest

FinishDirective(w) == dirReq' = [dirReq EXCEPT ![w] = NoDirectiveRequest]

\* The gate a form names must exist and not be locked.
Assignable(row) == Found(row) /\ row.status # "locked"

-----------------------------------------------------------------------------
\* Create validates the gate, then inserts the draft.
GetGateForDirectiveCreate(w, d, g, t) ==
  /\ DirectiveIdle(w) /\ Insertable(directive[d])
  /\ MaxDirectiveVersion >= 1
  /\ Assignable(gate[g])
  /\ dirReq' = [dirReq EXCEPT ![w] = [NoDirectiveRequest EXCEPT
       !.op = "create", !.id = d, !.gate = g, !.target = t]]
  /\ UNCHANGED storeVars

CommitDirectiveCreate(w) ==
  LET q == dirReq[w] IN
  /\ q.op = "create"
  /\ Insertable(directive[q.id])
  /\ directive' = [directive EXCEPT ![q.id] = [NoDirective EXCEPT
       !.row = "live", !.version = 1, !.gate = q.gate, !.target = q.target]]
  /\ audit' = [audit EXCEPT ![q.id] = Entry("", "draft")]
  /\ FinishDirective(w)
  /\ UNCHANGED <<gate, approval, receipt>>

\* Update is for drafts; it may link another gate, which is validated.
GetForDirectiveUpdate(w, d, g, t, e) ==
  /\ DirectiveIdle(w) /\ Found(directive[d])
  /\ directive[d].version < MaxDirectiveVersion
  /\ e \in ClientVersions(directive[d])
  /\ directive[d].status = "draft"
  /\ dirReq' = [dirReq EXCEPT ![w] =
       [op |-> "update", step |-> "gate", id |-> d, to |-> "draft",
        expect |-> e, by |-> None, gate |-> g, target |-> t,
        cur |-> directive[d], linked |-> NoGate]]
  /\ UNCHANGED storeVars

GetGateForDirectiveUpdate(w) ==
  /\ dirReq[w].op = "update" /\ dirReq[w].step = "gate"
  /\ Assignable(gate[dirReq[w].gate])
  /\ dirReq' = [dirReq EXCEPT ![w].step = "commit"]
  /\ UNCHANGED storeVars

\* Mutant of CommitDirectiveUpdate: the version is not advanced.
CommitDirectiveUpdateSameVersion(w) ==
  LET q == dirReq[w] IN
  /\ q.op = "update" /\ q.step = "commit"
  /\ Updatable(directive[q.id], q.expect)
  /\ directive' = [directive EXCEPT ![q.id] = [q.cur EXCEPT
       !.gate = q.gate, !.target = q.target]]
  /\ audit' = [audit EXCEPT ![q.id] = Entry(q.cur.status, q.cur.status)]
  /\ FinishDirective(w)
  /\ UNCHANGED <<gate, approval, receipt>>

CommitDirectiveUpdate(w) ==
  LET q == dirReq[w] IN
  /\ q.op = "update" /\ q.step = "commit"
  /\ Updatable(directive[q.id], q.expect)
  /\ directive' = [directive EXCEPT ![q.id] = [q.cur EXCEPT
       !.gate = q.gate, !.target = q.target, !.version = q.expect + 1]]
  /\ audit' = [audit EXCEPT ![q.id] = Entry(q.cur.status, q.cur.status)]
  /\ FinishDirective(w)
  /\ UNCHANGED <<gate, approval, receipt>>

-----------------------------------------------------------------------------
\* Mutant of GetForDirectiveTransition: anyone with the role may approve.
GetForOnePersonTransition(w, d, to, u, e) ==
  LET cur == directive[d] IN
  /\ DirectiveIdle(w) /\ Found(cur)
  /\ cur.version < MaxDirectiveVersion
  /\ e \in ClientVersions(cur)
  /\ CanTransition(OperationDirectiveTransitions, cur.status, to)
  /\ to # "completed"
  /\ directiveRoleAllowed(to, RoleOf[u])
  /\ dirReq' = [dirReq EXCEPT ![w] =
       [op |-> "transition",
        step |-> IF NeedsGate(cur, to) THEN "gate" ELSE "commit",
        id |-> d, to |-> to, expect |-> e,
        by |-> IF to \in {"pending", "approved"} THEN u ELSE None,
        gate |-> None, target |-> "closed", cur |-> cur, linked |-> NoGate]]
  /\ UNCHANGED storeVars

\* Transition: the checks on the directive it read.  Completion is reserved to
\* the execution receipt; an approval needs a second person.
GetForDirectiveTransition(w, d, to, u, e) ==
  LET cur == directive[d] IN
  /\ DirectiveIdle(w) /\ Found(cur)
  /\ cur.version < MaxDirectiveVersion
  /\ e \in ClientVersions(cur)
  /\ CanTransition(OperationDirectiveTransitions, cur.status, to)
  /\ to # "completed"
  /\ directiveRoleAllowed(to, RoleOf[u])
  /\ to = "approved" => cur.submittedBy \notin {None, u}
  /\ dirReq' = [dirReq EXCEPT ![w] =
       [op |-> "transition",
        step |-> IF NeedsGate(cur, to) THEN "gate" ELSE "commit",
        id |-> d, to |-> to, expect |-> e,
        by |-> IF to \in {"pending", "approved"} THEN u ELSE None,
        gate |-> None, target |-> "closed", cur |-> cur, linked |-> NoGate]]
  /\ UNCHANGED storeVars

\* ... and on the gate, which is read after the directive.
GetGateForDirectiveTransition(w) ==
  LET q == dirReq[w]
      linked == gate[q.cur.gate] IN
  /\ q.op = "transition" /\ q.step = "gate"
  /\ Found(linked)
  /\ q.to = "executing" => linked.status # "locked"
  /\ WritesGate(q.cur, q.to, linked) =>
       /\ CanTransition(GateUnitTransitions, linked.status,
                        GateTarget(q.cur, q.to, linked))
       /\ linked.version < MaxGateVersion
  /\ dirReq' = [dirReq EXCEPT ![w].step = "commit", ![w].linked = linked]
  /\ UNCHANGED storeVars

\* Mutant of RecordApproval: the approval leaves no row of its own.
RecordSubmissionOnly(d, to, by) ==
  IF to = "pending" THEN approval' = [approval EXCEPT ![d].submitted = by]
  ELSE UNCHANGED approval

\* The unique index on (directive, stage) admits one approval row per stage.
RecordApproval(d, to, by) ==
  CASE to = "pending" ->
         /\ approval[d].submitted = None
         /\ approval' = [approval EXCEPT ![d].submitted = by]
    [] to = "approved" ->
         /\ approval[d].approved = None
         /\ approval' = [approval EXCEPT ![d].approved = by]
    [] OTHER -> UNCHANGED approval

\* The transaction: directive, approval row and audit record, and the gate as
\* read with its own version when the transition moves or locks it.  A gate
\* that needs no write is not looked at again.
CommitDirectiveTransition(w) ==
  LET q == dirReq[w]
      g == q.cur.gate
      goal == GateTarget(q.cur, q.to, q.linked)
      trail == [audit EXCEPT ![q.id] = Entry(q.cur.status, q.to)] IN
  /\ q.op = "transition" /\ q.step = "commit"
  /\ Updatable(directive[q.id], q.expect)
  /\ directive' = [directive EXCEPT ![q.id] = [q.cur EXCEPT
       !.status = q.to, !.version = q.expect + 1,
       !.submittedBy = IF q.to = "pending" THEN q.by ELSE q.cur.submittedBy,
       !.approvedBy = IF q.to = "approved" THEN q.by ELSE q.cur.approvedBy]]
  /\ RecordApproval(q.id, q.to, q.by)
  /\ \/ /\ ~WritesGate(q.cur, q.to, q.linked)
        /\ audit' = trail
        /\ UNCHANGED gate
     \/ /\ WritesGate(q.cur, q.to, q.linked)
        /\ Updatable(gate[g], q.linked.version)
        /\ gate' = [gate EXCEPT ![g] = [q.linked EXCEPT
             !.status = goal, !.version = q.linked.version + 1]]
        /\ audit' = [trail EXCEPT ![g] = Entry(q.linked.status, goal)]
  /\ FinishDirective(w)
  /\ UNCHANGED receipt

-----------------------------------------------------------------------------
GetForDirectiveDelete(w, d) ==
  /\ DirectiveIdle(w) /\ Found(directive[d])
  /\ directive[d].status = "draft"
  /\ dirReq' = [dirReq EXCEPT ![w] = [NoDirectiveRequest EXCEPT
       !.op = "delete", !.id = d, !.cur = directive[d]]]
  /\ UNCHANGED storeVars

\* The row is removed whatever it has become since it was read.
CommitDirectiveDelete(w) ==
  LET q == dirReq[w] IN
  /\ q.op = "delete"
  /\ Found(directive[q.id])
  /\ directive' = [directive EXCEPT ![q.id] = SoftDeleted(directive[q.id])]
  /\ audit' = [audit EXCEPT ![q.id] = Entry(q.cur.status, "deleted")]
  /\ FinishDirective(w)
  /\ UNCHANGED <<gate, approval, receipt>>

\* Refused, conflicted, failed or crashed before its transaction committed.
AbandonDirective(w) ==
  /\ ~DirectiveIdle(w)
  /\ FinishDirective(w)
  /\ UNCHANGED storeVars

OperationDirectiveStep(w) ==
  \/ \E d \in Directive, g \in Gate, t \in Target :
       GetGateForDirectiveCreate(w, d, g, t)
  \/ CommitDirectiveCreate(w)
  \/ \E d \in Directive, g \in Gate, t \in Target,
        e \in 1..MaxDirectiveVersion : GetForDirectiveUpdate(w, d, g, t, e)
  \/ GetGateForDirectiveUpdate(w)
  \/ CommitDirectiveUpdate(w)
  \/ \E d \in Directive, to \in DirectiveStates, u \in User,
        e \in 1..MaxDirectiveVersion : GetForDirectiveTransition(w, d, to, u, e)
  \/ GetGateForDirectiveTransition(w)
  \/ CommitDirectiveTransition(w)
  \/ \E d \in Directive : GetForDirectiveDelete(w, d)
  \/ CommitDirectiveDelete(w)
  \/ AbandonDirective(w)

OperationDirectiveNext == \E w \in DirectiveWorker : OperationDirectiveStep(w)
=============================================================================
