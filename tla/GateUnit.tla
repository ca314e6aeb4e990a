------------------------------- MODULE GateUnit -------------------------------
(* service/gate_unit.go: create, update, transition and delete of a gate.     *)
(* A request reads the gate, checks what it read, and then writes it in one   *)
(* transaction; other requests run between the read and the write.  The       *)
(* reservoir the gate belongs to can only make the service refuse a create or *)
(* an update; a refusal of any kind is AbandonGate.                           *)
EXTENDS DispatchStore

CONSTANT GateWorker          \* goroutines serving requests on gates

VARIABLE gateReq             \* the request each of them is serving

GateRequest ==
  [op: {"none", "write", "delete"}, id: Gate \cup {None},
   to: GateStates, expect: 0..MaxGateVersion, cur: GateRow]

NoGateRequest ==
  [op |-> "none", id |-> None, to |-> "open", expect |-> 0, cur |-> NoGate]

GateReqTypeOK == gateReq \in [GateWorker -> GateRequest]

GateUnitInit == gateReq = [w \in GateWorker |-> NoGateRequest]

GateIdle(w) == gateReq[w] = NoGateRequest

FinishGate(w) == gateReq' = [gateReq EXCEPT ![w] = NoGateRequest]

\* Start serving a write of gate g that leaves it in state to.
BeginGateWrite(w, g, to, e) ==
  gateReq' = [gateReq EXCEPT ![w] =
    [op |-> "write", id |-> g, to |-> to, expect |-> e, cur |-> gate[g]]]

-----------------------------------------------------------------------------
\* Create inserts the row and its audit record in one transaction.
CreateGate(g) ==
  /\ Insertable(gate[g])
  /\ MaxGateVersion >= 1
  /\ gate' = [gate EXCEPT ![g] =
       [row |-> "live", status |-> "open", version |-> 1]]
  /\ audit' = [audit EXCEPT ![g] = Entry("", "open")]
  /\ UNCHANGED <<directive, approval, receipt, gateReq>>

\* Update rewrites the business fields and keeps the status it read.
GetForGateUpdate(w, g, e) ==
  /\ GateIdle(w) /\ Found(gate[g])
  /\ gate[g].version < MaxGateVersion
  /\ e \in ClientVersions(gate[g])
  /\ BeginGateWrite(w, g, gate[g].status, e)
  /\ UNCHANGED storeVars

GetForGateTransition(w, g, to, e) ==
  /\ GateIdle(w) /\ Found(gate[g])
  /\ gate[g].version < MaxGateVersion
  /\ e \in ClientVersions(gate[g])
  /\ CanTransition(GateUnitTransitions, gate[g].status, to)
  /\ BeginGateWrite(w, g, to, e)
  /\ UNCHANGED storeVars

\* Mutant of CommitGateWrite: the version is not compared.
CommitGateWriteUnchecked(w) ==
  LET q == gateReq[w] IN
  /\ q.op = "write"
  /\ Found(gate[q.id])
  /\ gate' = [gate EXCEPT ![q.id] =
       [q.cur EXCEPT !.status = q.to, !.version = q.expect + 1]]
  /\ audit' = [audit EXCEPT ![q.id] = Entry(q.cur.status, q.to)]
  /\ FinishGate(w)
  /\ UNCHANGED <<directive, approval, receipt>>

\* The transaction of Update and Transition: the whole row as read, with the
\* new status, provided the client's version is still the current one.
CommitGateWrite(w) ==
  LET q == gateReq[w] IN
  /\ q.op = "write"
  /\ Updatable(gate[q.id], q.expect)
  /\ gate' = [gate EXCEPT ![q.id] =
       [q.cur EXCEPT !.status = q.to, !.version = q.expect + 1]]
  /\ audit' = [audit EXCEPT ![q.id] = Entry(q.cur.status, q.to)]
  /\ FinishGate(w)
  /\ UNCHANGED <<directive, approval, receipt>>

GetForGateDelete(w, g) ==
  /\ GateIdle(w) /\ Found(gate[g])
  /\ gateReq' = [gateReq EXCEPT ![w] =
       [NoGateRequest EXCEPT !.op = "delete", !.id = g, !.cur = gate[g]]]
  /\ UNCHANGED storeVars

\* Mutant of CommitGateDelete: no audit record of the deletion.
CommitGateDeleteSilently(w) ==
  LET q == gateReq[w] IN
  /\ q.op = "delete"
  /\ Found(gate[q.id])
  /\ gate' = [gate EXCEPT ![q.id] = SoftDeleted(gate[q.id])]
  /\ FinishGate(w)
  /\ UNCHANGED <<directive, approval, receipt, audit>>

\* Delete looks at neither the status nor the version of the row it removes.
CommitGateDelete(w) ==
  LET q == gateReq[w] IN
  /\ q.op = "delete"
  /\ Found(gate[q.id])
  /\ gate' = [gate EXCEPT ![q.id] = SoftDeleted(gate[q.id])]
  /\ audit' = [audit EXCEPT ![q.id] = Entry(q.cur.status, "deleted")]
  /\ FinishGate(w)
  /\ UNCHANGED <<directive, approval, receipt>>

\* A failed check, a version conflict, a database error, a client that went
\* away or a crash of the server: nothing was written.
AbandonGate(w) ==
  /\ ~GateIdle(w)
  /\ FinishGate(w)
  /\ UNCHANGED storeVars

GateUnitStep(w) ==
  \/ \E g \in Gate, e \in 1..MaxGateVersion : GetForGateUpdate(w, g, e)
  \/ \E g \in Gate, to \in GateStates, e \in 1..MaxGateVersion :
       GetForGateTransition(w, g, to, e)
  \/ CommitGateWrite(w)
  \/ \E g \in Gate : GetForGateDelete(w, g)
  \/ CommitGateDelete(w)
  \/ AbandonGate(w)

GateUnitNext ==
  \/ \E g \in Gate : CreateGate(g)
  \/ \E w \in GateWorker : GateUnitStep(w)
=============================================================================
