---------------------------- MODULE DispatchProofs ----------------------------
(* Machine-checked proofs about Dispatch, for any number of records, accounts  *)
(* and workers and any bound on versions.                                      *)
EXTENDS DispatchInv, TLAPS

\* A worker that puts a sound request in flight, or drops one, leaves the
\* requests of its component sound.
LEMMA GateRequests ==
  ASSUME TypeInv, GateUnitNext
  PROVE  GateReqTypeOK' /\ \A w \in GateWorker : GateRequestOK(gateReq[w])'
<1> DEFINE Serves(w) == /\ gateReq' = [gateReq EXCEPT ![w] = gateReq'[w]]
                        /\ gateReq'[w] \in GateRequest
                        /\ GateRequestOK(gateReq'[w])
<1> USE CodesDistinct, BoundsAreNaturals
<1> USE DEF TypeInv, TypeOK, StoreTypeOK, GateReqTypeOK, RequestsChecked
<1>1. NoGateRequest \in GateRequest /\ GateRequestOK(NoGateRequest)
  BY DEF NoGateRequest, GateRequest, NoGate, GateRow, RowTags, GateStates, GateRequestOK
<1>2. CASE UNCHANGED gateReq
  BY <1>2
<1>3. CASE \E w \in GateWorker : Serves(w)
  BY <1>3
<1>4. ASSUME NEW g \in Gate, CreateGate(g) PROVE UNCHANGED gateReq
  BY <1>4 DEF CreateGate
<1>5. ASSUME NEW w \in GateWorker, FinishGate(w) PROVE Serves(w)
  BY <1>5, <1>1 DEF FinishGate
<1>6. ASSUME NEW w \in GateWorker, NEW g \in Gate, NEW e \in 1..MaxGateVersion,
             GetForGateUpdate(w, g, e)
      PROVE  Serves(w)
  BY <1>6 DEF GetForGateUpdate, BeginGateWrite, GateRequest, GateRequestOK, 
       GateRow, Found, ClientVersions
<1>7. ASSUME NEW w \in GateWorker, NEW g \in Gate, NEW to \in GateStates,
             NEW e \in 1..MaxGateVersion, GetForGateTransition(w, g, to, e)
      PROVE  Serves(w)
  BY <1>7 DEF GetForGateTransition, BeginGateWrite, GateRequest, GateRequestOK, 
       GateRow, Found, ClientVersions
<1>8. ASSUME NEW w \in GateWorker, NEW g \in Gate, GetForGateDelete(w, g)
      PROVE  Serves(w)
  BY <1>8, <1>1 DEF GetForGateDelete, GateRequest, GateRequestOK
<1> QED
  BY <1>2, <1>3, <1>4, <1>5, <1>6, <1>7, <1>8
  DEF GateUnitNext, GateUnitStep, CommitGateWrite, CommitGateDelete, AbandonGate

\* A directive that Get or GetByCode finds has a typed row that names a gate.
LEMMA LiveDirective ==
  ASSUME TypeInv, NEW d \in Directive, Found(directive[d])
  PROVE  directive[d] \in DirectiveRow /\ directive[d].gate \in Gate
BY DEF TypeInv, TypeOK, StoreTypeOK, RowsWellFormed, Found, NoDirective

\* The rows of codes nobody has used have the types of the tables.
LEMMA EmptyRows ==
  /\ NoGate \in GateRow /\ NoDirective \in DirectiveRow
  /\ NoReceipt \in ReceiptRow /\ NoApproval \in ApprovalRow
  /\ "closed" \in GateStates /\ "open" \in GateStates
  /\ "draft" \in DirectiveStates /\ "pending" \in ReceiptStates
BY CodesDistinct, BoundsAreNaturals
DEF NoGate, GateRow, NoDirective, DirectiveRow, NoReceipt, ReceiptRow,
    NoApproval, ApprovalRow, RowTags, GateStates, DirectiveStates, ReceiptStates

\* A worker that serves no directive request satisfies all that is asked of one.
LEMMA IdleDirectiveRequest ==
  /\ NoDirectiveRequest \in DirectiveRequest
  /\ DirectiveRequestOK(NoDirectiveRequest)
  /\ NoDirectiveRequest.op = "none" /\ NoDirectiveRequest.step = "commit"
  /\ NoDirectiveRequest.cur = NoDirective /\ NoDirectiveRequest.linked = NoGate
BY CodesDistinct, BoundsAreNaturals
DEF NoDirectiveRequest, DirectiveRequest, NoDirective, DirectiveRow, NoGate,
    GateRow, RowTags, GateStates, DirectiveStates, DirectiveRequestOK

\* Every step of operation_directive.go leaves requests that passed the checks of
\* the steps behind them.
LEMMA DirectiveRequests ==
  ASSUME TypeInv, OperationDirectiveNext
  PROVE  DirReqTypeOK' /\ \A w \in DirectiveWorker : DirectiveRequestOK(dirReq[w])'
<1> DEFINE Serves(w) == /\ dirReq' = [dirReq EXCEPT ![w] = dirReq'[w]]
                        /\ dirReq'[w] \in DirectiveRequest
                        /\ DirectiveRequestOK(dirReq'[w])
<1> USE CodesDistinct, BoundsAreNaturals, IdleDirectiveRequest, EmptyRows
<1> USE DEF TypeInv, TypeOK, StoreTypeOK, DirReqTypeOK, RequestsChecked
<1>1. CASE \E w \in DirectiveWorker : Serves(w)
  BY <1>1
<1>2. ASSUME NEW w \in DirectiveWorker, FinishDirective(w) PROVE Serves(w)
  BY <1>2 DEF FinishDirective
<1>3. ASSUME NEW w \in DirectiveWorker, NEW d \in Directive, NEW g \in Gate,
             NEW t \in Target, GetGateForDirectiveCreate(w, d, g, t)
      PROVE  Serves(w)
  BY <1>3, TargetsAreStates
  DEF GetGateForDirectiveCreate, DirectiveRequest, DirectiveRequestOK
<1>4. ASSUME NEW w \in DirectiveWorker, NEW d \in Directive, NEW g \in Gate,
             NEW t \in Target, NEW e \in 1..MaxDirectiveVersion,
             GetForDirectiveUpdate(w, d, g, t, e)
      PROVE  Serves(w)
  <2>1. /\ directive[d] \in DirectiveRow /\ directive[d].gate \in Gate
        /\ Found(directive[d])
    BY <1>4, LiveDirective DEF GetForDirectiveUpdate
  <2>2. e < MaxDirectiveVersion
    BY <1>4, <2>1 DEF GetForDirectiveUpdate, ClientVersions, DirectiveRow
  <2> QED
    BY <1>4, <2>1, <2>2, TargetsAreStates
    DEF GetForDirectiveUpdate, DirectiveRequest, DirectiveRequestOK
<1>5. ASSUME NEW w \in DirectiveWorker, GetGateForDirectiveUpdate(w)
      PROVE  Serves(w)
  BY <1>5 DEF GetGateForDirectiveUpdate, DirectiveRequest, DirectiveRequestOK
<1>6. ASSUME NEW w \in DirectiveWorker, NEW d \in Directive,
             NEW to \in DirectiveStates, NEW u \in User,
             NEW e \in 1..MaxDirectiveVersion,
             GetForDirectiveTransition(w, d, to, u, e)
      PROVE  Serves(w)
  <2>1. /\ directive[d] \in DirectiveRow /\ directive[d].gate \in Gate
        /\ Found(directive[d])
    BY <1>6, LiveDirective DEF GetForDirectiveTransition
  <2>2. e < MaxDirectiveVersion
    BY <1>6, <2>1 DEF GetForDirectiveTransition, ClientVersions, DirectiveRow
  <2>3. /\ dirReq' = [dirReq EXCEPT ![w] = dirReq'[w]]
        /\ dirReq'[w] \in DirectiveRequest
    BY <1>6, <2>1 DEF GetForDirectiveTransition, DirectiveRequest
  <2>4. DirectiveRequestOK(dirReq'[w])
    BY <1>6, <2>1, <2>2
    DEF GetForDirectiveTransition, DirectiveRequestOK, WritesGate
  <2> QED
    BY <2>3, <2>4
<1>7. ASSUME NEW w \in DirectiveWorker, GetGateForDirectiveTransition(w)
      PROVE  Serves(w)
  <2> DEFINE q == dirReq[w]
             linked == gate[q.cur.gate]
  <2>1. /\ q \in DirectiveRequest /\ DirectiveRequestOK(q) /\ q.op = "transition"
        /\ dirReq' = [dirReq EXCEPT ![w] =
             [q EXCEPT !.step = "commit", !.linked = linked]]
    BY <1>7 DEF GetGateForDirectiveTransition
  <2>2. q.cur.gate \in Gate /\ linked \in GateRow
    BY <2>1 DEF DirectiveRequestOK
  <2>3. dirReq'[w] \in DirectiveRequest
    BY <2>1, <2>2 DEF DirectiveRequest
  <2>4. DirectiveRequestOK([q EXCEPT !.step = "commit", !.linked = linked])
    BY <1>7, <2>1, <2>2
    DEF GetGateForDirectiveTransition, DirectiveRequestOK, DirectiveRequest
  <2> QED
    BY <2>1, <2>3, <2>4
<1>8. ASSUME NEW w \in DirectiveWorker, NEW d \in Directive,
             GetForDirectiveDelete(w, d)
      PROVE  Serves(w)
  BY <1>8 DEF GetForDirectiveDelete, DirectiveRequest, DirectiveRequestOK
<1> QED
  BY <1>1, <1>2, <1>3, <1>4, <1>5, <1>6, <1>7, <1>8
  DEF OperationDirectiveNext, OperationDirectiveStep, CommitDirectiveCreate,
      CommitDirectiveUpdate, CommitDirectiveTransition, CommitDirectiveDelete,
      AbandonDirective

\* A receipt that Get finds has a typed row that names a directive.
LEMMA LiveReceipt ==
  ASSUME TypeInv, NEW r \in Receipt, Found(receipt[r])
  PROVE  receipt[r] \in ReceiptRow /\ receipt[r].directive \in Directive
BY DEF TypeInv, TypeOK, StoreTypeOK, RowsWellFormed, Found, NoReceipt

\* A worker that serves no receipt request satisfies all that is asked of one.
LEMMA IdleReceiptRequest ==
  /\ NoReceiptRequest \in ReceiptRequest
  /\ ReceiptRequestOK(NoReceiptRequest)
  /\ NoReceiptRequest.op = "none" /\ NoReceiptRequest.step = "commit"
  /\ NoReceiptRequest.dir = NoDirective /\ NoReceiptRequest.linked = NoGate
BY EmptyRows, BoundsAreNaturals
DEF NoReceiptRequest, ReceiptRequest, ReceiptRequestOK

\* Every step of execution_confirmation.go leaves requests that passed the checks
\* of the steps behind them.
LEMMA ReceiptRequests ==
  ASSUME TypeInv, ExecutionConfirmationNext
  PROVE  RecReqTypeOK' /\ \A w \in ReceiptWorker : ReceiptRequestOK(recReq[w])'
<1> DEFINE Serves(w) == /\ recReq' = [recReq EXCEPT ![w] = recReq'[w]]
                        /\ recReq'[w] \in ReceiptRequest
                        /\ ReceiptRequestOK(recReq'[w])
<1> USE CodesDistinct, BoundsAreNaturals, IdleReceiptRequest, EmptyRows
<1> USE DEF TypeInv, TypeOK, StoreTypeOK, RecReqTypeOK, RequestsChecked
<1>1. CASE \E w \in ReceiptWorker : Serves(w)
  BY <1>1
<1>2. ASSUME NEW w \in ReceiptWorker, FinishReceipt(w) PROVE Serves(w)
  BY <1>2 DEF FinishReceipt
<1>3. ASSUME NEW w \in ReceiptWorker, NEW r \in Receipt, NEW d \in Directive,
             GetDirectiveForReceiptCreate(w, r, d)
      PROVE  Serves(w)
  BY <1>3 DEF GetDirectiveForReceiptCreate, ReceiptRequest, ReceiptRequestOK
<1>4. ASSUME NEW w \in ReceiptWorker, CountReceipts(w) PROVE Serves(w)
  BY <1>4 DEF CountReceipts, ReceiptRequest, ReceiptRequestOK
<1>5. ASSUME NEW w \in ReceiptWorker, NEW r \in Receipt,
             NEW e \in 1..MaxReceiptVersion, GetForReceiptUpdate(w, r, e)
      PROVE  Serves(w)
  <2>1. /\ receipt[r] \in ReceiptRow /\ receipt[r].directive \in Directive
        /\ Found(receipt[r])
    BY <1>5, LiveReceipt DEF GetForReceiptUpdate
  <2>2. e < MaxReceiptVersion
    BY <1>5, <2>1 DEF GetForReceiptUpdate, ClientVersions, ReceiptRow
  <2> QED
    BY <1>5, <2>1, <2>2
    DEF GetForReceiptUpdate, ReceiptRequest, ReceiptRequestOK
<1>6. ASSUME NEW w \in ReceiptWorker, GetDirectiveForReceiptUpdate(w)
      PROVE  Serves(w)
  BY <1>6 DEF GetDirectiveForReceiptUpdate, ReceiptRequest, ReceiptRequestOK
<1>7. ASSUME NEW w \in ReceiptWorker, NEW r \in Receipt, NEW to \in ReceiptStates,
             NEW e \in 1..MaxReceiptVersion, GetForReceiptTransition(w, r, to, e)
      PROVE  Serves(w)
  <2>1. /\ receipt[r] \in ReceiptRow /\ receipt[r].directive \in Directive
        /\ Found(receipt[r])
    BY <1>7, LiveReceipt DEF GetForReceiptTransition
  <2>2. e < MaxReceiptVersion
    BY <1>7, <2>1 DEF GetForReceiptTransition, ClientVersions, ReceiptRow
  <2>3. /\ recReq' = [recReq EXCEPT ![w] = recReq'[w]]
        /\ recReq'[w] \in ReceiptRequest
    BY <1>7, <2>1 DEF GetForReceiptTransition, ReceiptRequest
  <2>4. ReceiptRequestOK(recReq'[w])
    BY <1>7, <2>1, <2>2 DEF GetForReceiptTransition, ReceiptRequestOK
  <2> QED
    BY <2>3, <2>4
<1>8. ASSUME NEW w \in ReceiptWorker, GetDirectiveForReceiptTransition(w)
      PROVE  Serves(w)
  <2> DEFINE q == recReq[w]
             dir == directive[q.cur.directive]
  <2>1. /\ q \in ReceiptRequest /\ ReceiptRequestOK(q)
        /\ q.op = "transition" /\ q.step = "directive" /\ Executing(dir)
        /\ dir.version < MaxDirectiveVersion
        /\ recReq' = [recReq EXCEPT ![w] = [q EXCEPT !.step = "gate", !.dir = dir]]
    BY <1>8 DEF GetDirectiveForReceiptTransition
  <2>2. q.cur.directive \in Directive
    BY <2>1 DEF ReceiptRequestOK
  <2>3. dir \in DirectiveRow /\ dir.gate \in Gate
    BY <2>1, <2>2, LiveDirective DEF Executing
  <2>4. recReq'[w] \in ReceiptRequest
    BY <2>1, <2>3 DEF ReceiptRequest
  <2>5. ReceiptRequestOK([q EXCEPT !.step = "gate", !.dir = dir])
    BY <2>1, <2>3 DEF ReceiptRequestOK, ReceiptRequest
  <2> QED
    BY <2>1, <2>4, <2>5
<1>9. ASSUME NEW w \in ReceiptWorker, GetGateForReceiptTransition(w)
      PROVE  Serves(w)
  <2> DEFINE q == recReq[w]
             linked == gate[q.dir.gate]
  <2>1. /\ q \in ReceiptRequest /\ ReceiptRequestOK(q)
        /\ q.op = "transition" /\ q.step = "gate" /\ Found(linked)
        /\ recReq' = [recReq EXCEPT ![w] =
             [q EXCEPT !.step = "commit", !.linked = linked]]
    BY <1>9 DEF GetGateForReceiptTransition
  <2>2. q.dir.gate \in Gate /\ linked \in GateRow /\ q.dir # NoDirective
    BY <2>1 DEF ReceiptRequestOK, Executing, Found, NoDirective
  <2>3. recReq'[w] \in ReceiptRequest
    BY <2>1, <2>2 DEF ReceiptRequest
  <2>4. ReceiptRequestOK([q EXCEPT !.step = "commit", !.linked = linked])
    BY <1>9, <2>1, <2>2 DEF GetGateForReceiptTransition, ReceiptRequestOK, ReceiptRequest
  <2> QED
    BY <2>1, <2>3, <2>4
<1>10. ASSUME NEW w \in ReceiptWorker, NEW r \in Receipt, GetForReceiptDelete(w, r)
       PROVE  Serves(w)
  BY <1>10 DEF GetForReceiptDelete, ReceiptRequest, ReceiptRequestOK
<1> QED
  BY <1>1, <1>2, <1>3, <1>4, <1>5, <1>6, <1>7, <1>8, <1>9, <1>10
  DEF ExecutionConfirmationNext, ExecutionConfirmationStep, CommitReceiptCreate,
      CommitReceiptUpdate, CommitReceiptCancel, CommitReceiptOutcome,
      CommitReceiptDelete, AbandonReceipt

-----------------------------------------------------------------------------
\* The steps that write a table are the transactions of the requests.
Commits ==
  \/ \E g \in Gate : CreateGate(g)
  \/ \E w \in GateWorker : CommitGateWrite(w) \/ CommitGateDelete(w)
  \/ \E w \in DirectiveWorker :
       \/ CommitDirectiveCreate(w) \/ CommitDirectiveUpdate(w)
       \/ CommitDirectiveTransition(w) \/ CommitDirectiveDelete(w)
  \/ \E w \in ReceiptWorker :
       \/ CommitReceiptCreate(w) \/ CommitReceiptUpdate(w)
       \/ CommitReceiptCancel(w) \/ CommitReceiptOutcome(w)
       \/ CommitReceiptDelete(w)

\* The tables change in the transactions of the services and nowhere else.
LEMMA OnlyCommitsWrite ==
  ASSUME [Next]_vars PROVE UNCHANGED storeVars \/ Commits
<1> USE DEF Commits
<1>1. CASE GateUnitNext
  BY <1>1 DEF GateUnitNext, GateUnitStep, GetForGateUpdate, GetForGateTransition,
              GetForGateDelete, AbandonGate
<1>2. CASE OperationDirectiveNext
  <2>1. PICK w \in DirectiveWorker : OperationDirectiveStep(w)
    BY <1>2 DEF OperationDirectiveNext
  <2>2. ASSUME NEW d \in Directive
        PROVE  /\ \A g \in Gate, t \in Target :
                    GetGateForDirectiveCreate(w, d, g, t) => UNCHANGED storeVars
               /\ \A g \in Gate, t \in Target, e \in 1..MaxDirectiveVersion :
                    GetForDirectiveUpdate(w, d, g, t, e) => UNCHANGED storeVars
               /\ GetForDirectiveDelete(w, d) => UNCHANGED storeVars
    BY DEF GetGateForDirectiveCreate, GetForDirectiveUpdate, GetForDirectiveDelete
  <2>3. ASSUME NEW d \in Directive, NEW to \in DirectiveStates, NEW u \in User,
               NEW e \in 1..MaxDirectiveVersion
        PROVE  GetForDirectiveTransition(w, d, to, u, e) => UNCHANGED storeVars
    BY DEF GetForDirectiveTransition
  <2>4. GetGateForDirectiveUpdate(w) \/ GetGateForDirectiveTransition(w)
          \/ AbandonDirective(w) => UNCHANGED storeVars
    BY DEF GetGateForDirectiveUpdate, GetGateForDirectiveTransition,
           AbandonDirective
  <2> QED
    BY <2>1, <2>2, <2>3, <2>4 DEF OperationDirectiveStep
<1>3. CASE ExecutionConfirmationNext
  BY <1>3 DEF ExecutionConfirmationNext, ExecutionConfirmationStep,
              GetDirectiveForReceiptCreate, CountReceipts, GetForReceiptUpdate,
              GetDirectiveForReceiptUpdate, GetForReceiptTransition,
              GetDirectiveForReceiptTransition, GetGateForReceiptTransition,
              GetForReceiptDelete, AbandonReceipt
<1>4. CASE UNCHANGED vars
  BY <1>4 DEF vars, storeVars
<1> QED
  BY <1>1, <1>2, <1>3, <1>4 DEF Next

\* What a commit may do to a row: insert it, delete it or give it its next
\* version; it never changes the row and keeps the version.
RowStep(old, new) ==
  \/ new = old
  \/ old.row = "none" /\ Found(new)
  \/ Found(old) /\ new = SoftDeleted(old)
  \/ Found(old) /\ Found(new) /\ new.version = old.version + 1

\* Every transaction leaves typed gate rows; a row it writes had been inserted, is
\* new, or has a later version than before.
LEMMA GateTable ==
  ASSUME TypeInv, UNCHANGED storeVars \/ Commits
  PROVE  /\ gate' \in [Gate -> GateRow]
         /\ \A g \in Gate : RowStep(gate[g], gate'[g])
<1> DEFINE Writes(g) == /\ gate' = [gate EXCEPT ![g] = gate'[g]]
                        /\ gate'[g] \in GateRow /\ RowStep(gate[g], gate'[g])
<1> USE BoundsAreNaturals, EmptyRows
<1> USE DEF TypeInv, TypeOK, StoreTypeOK
<1>1. CASE UNCHANGED gate
  BY <1>1 DEF RowStep
<1>2. CASE \E g \in Gate : Writes(g)
  BY <1>2 DEF RowStep
<1>3. ASSUME NEW g \in Gate, CreateGate(g) PROVE Writes(g)
  <2>1. gate' = [gate EXCEPT ![g] = [row |-> "live", status |-> "open", version |-> 1]]
    BY <1>3 DEF CreateGate
  <2>2. MaxGateVersion >= 1 /\ gate[g].row = "none"
    BY <1>3 DEF CreateGate, Insertable
  <2>3. [row |-> "live", status |-> "open", version |-> 1] \in GateRow
    BY <2>2 DEF GateRow, RowTags
  <2> QED
    BY <2>1, <2>2, <2>3 DEF RowStep, Found
<1>4. ASSUME NEW w \in GateWorker, CommitGateWrite(w)
      PROVE  \E g \in Gate : Writes(g)
  <2> DEFINE q == gateReq[w]
  <2>1. q \in GateRequest /\ GateRequestOK(q) /\ q.op = "write"
    BY <1>4 DEF CommitGateWrite, GateReqTypeOK, RequestsChecked
  <2>2. q.id \in Gate /\ q.expect + 1 \in 0..MaxGateVersion /\ Found(q.cur)
    BY <2>1 DEF GateRequestOK, GateRequest
  <2>3. Writes(q.id)
    BY <1>4, <2>1, <2>2
    DEF CommitGateWrite, GateRequest, GateRow, RowStep, Updatable, Found
  <2> QED
    BY <2>2, <2>3
<1>5. ASSUME NEW w \in GateWorker, CommitGateDelete(w)
      PROVE  \E g \in Gate : Writes(g)
  <2> DEFINE q == gateReq[w]
  <2>1. q.id \in Gate
    BY <1>5 DEF CommitGateDelete, RequestsChecked, GateRequestOK
  <2>2. Writes(q.id)
    BY <1>5, <2>1 DEF CommitGateDelete, GateRow, RowTags, RowStep, SoftDeleted
  <2> QED
    BY <2>1, <2>2
<1>6. ASSUME NEW w \in DirectiveWorker, CommitDirectiveTransition(w)
      PROVE  UNCHANGED gate \/ \E g \in Gate : Writes(g)
  <2> DEFINE q == dirReq[w]
             g == q.cur.gate
  <2>1. /\ q \in DirectiveRequest /\ DirectiveRequestOK(q)
        /\ q.op = "transition" /\ q.step = "commit"
    BY <1>6 DEF CommitDirectiveTransition, DirReqTypeOK, RequestsChecked
  <2>2. CASE UNCHANGED gate
    BY <2>2
  <2>3. CASE ~UNCHANGED gate
    <3>1. /\ WritesGate(q.cur, q.to, q.linked)
          /\ Updatable(gate[g], q.linked.version)
          /\ gate' = [gate EXCEPT ![g] = [q.linked EXCEPT
               !.status = GateTarget(q.cur, q.to, q.linked),
               !.version = q.linked.version + 1]]
      BY <1>6, <2>3 DEF CommitDirectiveTransition
    <3>2. /\ g \in Gate /\ q.linked \in GateRow /\ Found(q.linked)
          /\ q.linked.version < MaxGateVersion
      BY <2>1, <3>1 DEF DirectiveRequestOK, DirectiveRequest, WritesGate
    <3>3. /\ GateTarget(q.cur, q.to, q.linked) \in GateStates
          /\ q.linked.version + 1 \in 0..MaxGateVersion
      BY <3>1, <3>2 DEF WritesGate, GateTarget, GateStates, GateRow
    <3>4. Writes(g)
      BY <3>1, <3>2, <3>3 DEF GateRow, RowStep, Updatable, Found
    <3> QED
      BY <3>2, <3>4
  <2> QED
    BY <2>2, <2>3
<1>7. ASSUME NEW w \in ReceiptWorker, CommitReceiptOutcome(w)
      PROVE  UNCHANGED gate \/ \E g \in Gate : Writes(g)
  <2> DEFINE q == recReq[w]
             g == q.dir.gate
  <2>1. /\ q \in ReceiptRequest /\ ReceiptRequestOK(q) /\ q.op = "transition"
        /\ q.step = "commit" /\ q.cur.status = "pending"
    BY <1>7 DEF CommitReceiptOutcome, RecReqTypeOK, RequestsChecked
  <2>2. CASE UNCHANGED gate
    BY <2>2
  <2>3. CASE ~UNCHANGED gate
    <3>1. /\ q.linked.status # GateOutcome(q.to, q.dir)
          /\ Updatable(gate[g], q.linked.version)
          /\ gate' = [gate EXCEPT ![g] = [q.linked EXCEPT
               !.status = GateOutcome(q.to, q.dir),
               !.version = q.linked.version + 1]]
      BY <1>7, <2>3 DEF CommitReceiptOutcome
    <3>2. /\ g \in Gate /\ q.linked \in GateRow /\ Found(q.linked)
          /\ q.linked.version + 1 \in 0..MaxGateVersion
      BY <2>1, <3>1 DEF GateRow, ReceiptRequestOK, ReceiptRequest
    <3>3. GateOutcome(q.to, q.dir) \in GateStates
      BY <2>1 DEF ReceiptRequest, DirectiveRow, GateOutcome, GateStates
    <3>4. Writes(g)
      BY <3>1, <3>2, <3>3 DEF GateRow, RowStep, Updatable, Found
    <3> QED
      BY <3>2, <3>4
  <2> QED
    BY <2>2, <2>3
<1> QED
  BY <1>1, <1>2, <1>3, <1>4, <1>5, <1>6, <1>7
  DEF Commits, storeVars, CommitDirectiveCreate, CommitDirectiveUpdate,
      CommitDirectiveDelete, CommitReceiptCreate, CommitReceiptUpdate,
      CommitReceiptCancel, CommitReceiptDelete

\* Every transaction leaves typed directive and approval rows, with no approval of
\* a directive that was never inserted.
LEMMA DirectiveTable ==
  ASSUME TypeInv, UNCHANGED storeVars \/ Commits
  PROVE  /\ directive' \in [Directive -> DirectiveRow]
         /\ approval' \in [Directive -> ApprovalRow]
         /\ \A d \in Directive :
              /\ RowStep(directive[d], directive'[d])
              /\ \/ directive'[d] = NoDirective /\ approval'[d] = NoApproval
                 \/ directive'[d].row # "none" /\ directive'[d].gate \in Gate
<1> DEFINE Writes(d) ==
             /\ directive' = [directive EXCEPT ![d] = directive'[d]]
             /\ approval' = [approval EXCEPT ![d] = approval'[d]]
             /\ directive'[d] \in DirectiveRow /\ approval'[d] \in ApprovalRow
             /\ RowStep(directive[d], directive'[d])
             /\ directive'[d].row # "none" /\ directive'[d].gate \in Gate
<1> USE BoundsAreNaturals, EmptyRows
<1> USE DEF TypeInv, TypeOK, StoreTypeOK, RowsWellFormed
<1>1. CASE UNCHANGED <<directive, approval>>
  BY <1>1 DEF RowStep
<1>2. CASE \E d \in Directive : Writes(d)
  BY <1>2 DEF RowStep
<1>3. ASSUME NEW w \in DirectiveWorker, CommitDirectiveCreate(w)
      PROVE  \E d \in Directive : Writes(d)
  <2> DEFINE q == dirReq[w]
             new == [NoDirective EXCEPT !.row = "live", !.version = 1,
                                        !.gate = q.gate, !.target = q.target]
  <2>1. /\ q \in DirectiveRequest /\ DirectiveRequestOK(q) /\ q.op = "create"
        /\ Insertable(directive[q.id]) /\ UNCHANGED approval
        /\ directive' = [directive EXCEPT ![q.id] = new]
    BY <1>3 DEF CommitDirectiveCreate, DirReqTypeOK, RequestsChecked
  <2>2. /\ q.id \in Directive /\ q.gate \in Gate /\ q.target \in GateStates
        /\ 1 \in 0..MaxDirectiveVersion
    BY <2>1 DEF DirectiveRequestOK, DirectiveRequest
  <2>3. new \in DirectiveRow /\ new.row = "live" /\ new.gate \in Gate
    BY <2>2 DEF DirectiveRow, RowTags
  <2>4. Writes(q.id)
    BY <2>1, <2>2, <2>3 DEF RowStep, Insertable, Found
  <2> QED
    BY <2>2, <2>4
<1>4. ASSUME NEW w \in DirectiveWorker, CommitDirectiveUpdate(w)
      PROVE  \E d \in Directive : Writes(d)
  <2> DEFINE q == dirReq[w]
             new == [q.cur EXCEPT !.gate = q.gate, !.target = q.target,
                                  !.version = q.expect + 1]
  <2>1. /\ q \in DirectiveRequest /\ DirectiveRequestOK(q) /\ q.op = "update"
        /\ Updatable(directive[q.id], q.expect) /\ UNCHANGED approval
        /\ directive' = [directive EXCEPT ![q.id] = new]
    BY <1>4 DEF CommitDirectiveUpdate, DirReqTypeOK, RequestsChecked
  <2>2. /\ q.id \in Directive /\ q.gate \in Gate /\ q.target \in GateStates
        /\ q.cur \in DirectiveRow /\ Found(q.cur)
        /\ q.expect + 1 \in 0..MaxDirectiveVersion
    BY <2>1 DEF DirectiveRequestOK, DirectiveRequest
  <2>3. /\ new \in DirectiveRow /\ Found(new) /\ new.gate \in Gate
        /\ new.version = q.expect + 1
    BY <2>2 DEF DirectiveRow, Found
  <2>4. Writes(q.id)
    BY <2>1, <2>2, <2>3 DEF RowStep, Updatable, Found
  <2> QED
    BY <2>2, <2>4
<1>5. ASSUME NEW w \in DirectiveWorker, CommitDirectiveTransition(w)
      PROVE  \E d \in Directive : Writes(d)
  <2> DEFINE q == dirReq[w]
             sub == IF q.to = "pending" THEN q.by ELSE q.cur.submittedBy
             app == IF q.to = "approved" THEN q.by ELSE q.cur.approvedBy
             new == [q.cur EXCEPT !.status = q.to, !.version = q.expect + 1,
                                  !.submittedBy = sub, !.approvedBy = app]
  <2>1. /\ q \in DirectiveRequest /\ DirectiveRequestOK(q)
        /\ q.op = "transition"
        /\ Updatable(directive[q.id], q.expect)
        /\ directive' = [directive EXCEPT ![q.id] = new]
        /\ RecordApproval(q.id, q.to, q.by)
    BY <1>5 DEF CommitDirectiveTransition, DirReqTypeOK, RequestsChecked
  <2>2. /\ q.id \in Directive /\ q.to \in DirectiveStates
        /\ q.cur \in DirectiveRow /\ Found(q.cur) /\ q.cur.gate \in Gate
        /\ q.expect + 1 \in 0..MaxDirectiveVersion
        /\ q.to \in {"pending", "approved"} => q.by \in User
    BY <2>1 DEF DirectiveRequestOK, DirectiveRequest
  <2>3. sub \in User \cup {None} /\ app \in User \cup {None}
    BY <2>2 DEF DirectiveRow
  <2>4. /\ new \in DirectiveRow /\ Found(new) /\ new.gate \in Gate
        /\ new.version = q.expect + 1
    BY <2>2, <2>3 DEF DirectiveRow, Found
  <2>5. /\ approval' = [approval EXCEPT ![q.id] = approval'[q.id]]
        /\ approval'[q.id] \in ApprovalRow
    BY <2>1, <2>2 DEF RecordApproval, ApprovalRow
  <2>6. Writes(q.id)
    BY <2>1, <2>2, <2>4, <2>5 DEF RowStep, Updatable, Found
  <2> QED
    BY <2>2, <2>6
<1>6. ASSUME NEW w \in DirectiveWorker, CommitDirectiveDelete(w)
      PROVE  \E d \in Directive : Writes(d)
  <2> DEFINE q == dirReq[w]
             new == SoftDeleted(directive[q.id])
  <2>1. /\ q.id \in Directive /\ Found(directive[q.id]) /\ UNCHANGED approval
        /\ directive' = [directive EXCEPT ![q.id] = new]
    BY <1>6 DEF CommitDirectiveDelete, RequestsChecked, DirectiveRequestOK
  <2>2. directive[q.id] \in DirectiveRow /\ directive[q.id].gate \in Gate
    BY <2>1, LiveDirective
  <2>3. new \in DirectiveRow /\ new.row = "deleted" /\ new.gate \in Gate
    BY <2>2 DEF DirectiveRow, RowTags, SoftDeleted
  <2>4. Writes(q.id)
    BY <2>1, <2>3 DEF RowStep
  <2> QED
    BY <2>1, <2>4
<1>7. ASSUME NEW w \in ReceiptWorker, CommitReceiptOutcome(w)
      PROVE  \E d \in Directive : Writes(d)
  <2> DEFINE q == recReq[w]
             d == q.cur.directive
             new == [q.dir EXCEPT !.status = DirectiveOutcome(q.to),
                                  !.version = q.dir.version + 1]
  <2>1. /\ q \in ReceiptRequest /\ ReceiptRequestOK(q) /\ q.op = "transition"
        /\ q.step = "commit" /\ q.cur.status = "pending"
        /\ Updatable(directive[d], q.dir.version) /\ UNCHANGED approval
        /\ directive' = [directive EXCEPT ![d] = new]
    BY <1>7 DEF CommitReceiptOutcome, RecReqTypeOK, RequestsChecked
  <2>2. /\ d \in Directive /\ q.dir \in DirectiveRow /\ Found(q.dir)
        /\ q.dir.gate \in Gate /\ q.dir.version < MaxDirectiveVersion
    BY <2>1 DEF ReceiptRequestOK, ReceiptRequest, Executing
  <2>3. /\ DirectiveOutcome(q.to) \in DirectiveStates
        /\ q.dir.version + 1 \in 0..MaxDirectiveVersion
    BY <2>2 DEF DirectiveOutcome, DirectiveStates, DirectiveRow
  <2>4. /\ new \in DirectiveRow /\ Found(new) /\ new.gate \in Gate
        /\ new.version = q.dir.version + 1
    BY <2>2, <2>3 DEF DirectiveRow, Found
  <2>5. Writes(d)
    BY <2>1, <2>2, <2>4 DEF RowStep, Updatable, Found
  <2> QED
    BY <2>2, <2>5
<1> QED
  BY <1>1, <1>2, <1>3, <1>4, <1>5, <1>6, <1>7
  DEF Commits, storeVars, CreateGate, CommitGateWrite, CommitGateDelete,
      CommitReceiptCreate, CommitReceiptUpdate, CommitReceiptCancel,
      CommitReceiptDelete

\* Every transaction leaves typed receipt rows that name a directive.
LEMMA ReceiptTable ==
  ASSUME TypeInv, UNCHANGED storeVars \/ Commits
  PROVE  /\ receipt' \in [Receipt -> ReceiptRow]
         /\ \A r \in Receipt :
              /\ RowStep(receipt[r], receipt'[r])
              /\ \/ receipt'[r] = NoReceipt
                 \/ receipt'[r].row # "none" /\ receipt'[r].directive \in Directive
<1> DEFINE Writes(r) ==
             /\ receipt' = [receipt EXCEPT ![r] = receipt'[r]]
             /\ receipt'[r] \in ReceiptRow
             /\ RowStep(receipt[r], receipt'[r])
             /\ receipt'[r].row # "none" /\ receipt'[r].directive \in Directive
<1> USE BoundsAreNaturals, EmptyRows
<1> USE DEF TypeInv, TypeOK, StoreTypeOK, RowsWellFormed
<1>1. CASE UNCHANGED receipt
  BY <1>1 DEF RowStep
<1>2. CASE \E r \in Receipt : Writes(r)
  BY <1>2 DEF RowStep
<1>3. ASSUME NEW w \in ReceiptWorker, CommitReceiptCreate(w)
      PROVE  \E r \in Receipt : Writes(r)
  <2> DEFINE q == recReq[w]
             new == [row |-> "live", status |-> "pending", version |-> 1,
                     directive |-> q.directive]
  <2>1. /\ q \in ReceiptRequest /\ ReceiptRequestOK(q) /\ q.op = "create"
        /\ Insertable(receipt[q.id]) /\ receipt' = [receipt EXCEPT ![q.id] = new]
    BY <1>3 DEF CommitReceiptCreate, RecReqTypeOK, RequestsChecked
  <2>2. /\ q.id \in Receipt /\ q.directive \in Directive
        /\ 1 \in 0..MaxReceiptVersion
    BY <2>1 DEF ReceiptRequestOK
  <2>3. new \in ReceiptRow
    BY <2>2 DEF ReceiptRow, RowTags
  <2>4. Writes(q.id)
    BY <2>1, <2>2, <2>3 DEF RowStep, Insertable, Found
  <2> QED
    BY <2>2, <2>4
<1>4. ASSUME NEW w \in ReceiptWorker, NEW to \in ReceiptStates,
             recReq[w].op \in {"update", "transition"},
             Updatable(receipt[recReq[w].id], recReq[w].expect),
             receipt' = [receipt EXCEPT ![recReq[w].id] = [recReq[w].cur EXCEPT
               !.status = to, !.version = recReq[w].expect + 1]]
      PROVE  \E r \in Receipt : Writes(r)
  <2> DEFINE q == recReq[w]
             new == [q.cur EXCEPT !.status = to, !.version = q.expect + 1]
  <2>1. q \in ReceiptRequest /\ ReceiptRequestOK(q)
    BY DEF RecReqTypeOK, RequestsChecked
  <2>2. /\ q.id \in Receipt /\ q.cur \in ReceiptRow /\ Found(q.cur)
        /\ q.cur.directive \in Directive /\ q.expect + 1 \in 0..MaxReceiptVersion
    BY <1>4, <2>1 DEF ReceiptRequestOK, ReceiptRequest
  <2>3. /\ new \in ReceiptRow /\ Found(new) /\ new.directive \in Directive
        /\ new.version = q.expect + 1
    BY <2>2 DEF ReceiptRow, Found
  <2>4. Writes(q.id)
    BY <1>4, <2>2, <2>3 DEF RowStep, Updatable, Found
  <2> QED
    BY <2>2, <2>4
<1>5. ASSUME NEW w \in ReceiptWorker, CommitReceiptUpdate(w)
      PROVE  \E r \in Receipt : Writes(r)
  <2> DEFINE q == recReq[w]
  <2>1. /\ q \in ReceiptRequest /\ q.op = "update"
        /\ Updatable(receipt[q.id], q.expect)
        /\ receipt' = [receipt EXCEPT ![q.id] = [q.cur EXCEPT !.version = q.expect + 1]]
    BY <1>5 DEF CommitReceiptUpdate, RecReqTypeOK
  <2>2. q.cur \in ReceiptRow /\ q.cur.status \in ReceiptStates
    BY <2>1 DEF ReceiptRequest, ReceiptRow
  <2>3. [q.cur EXCEPT !.version = q.expect + 1] =
          [q.cur EXCEPT !.status = q.cur.status, !.version = q.expect + 1]
    BY <2>2 DEF ReceiptRow
  <2> QED
    BY <1>4, <2>1, <2>2, <2>3
<1>6. ASSUME NEW w \in ReceiptWorker,
             CommitReceiptCancel(w) \/ CommitReceiptOutcome(w)
      PROVE  \E r \in Receipt : Writes(r)
  <2>1. recReq[w].to \in ReceiptStates
    BY DEF RecReqTypeOK, ReceiptRequest
  <2> QED
    BY <1>4, <1>6, <2>1 DEF CommitReceiptCancel, CommitReceiptOutcome
<1>7. ASSUME NEW w \in ReceiptWorker, CommitReceiptDelete(w)
      PROVE  \E r \in Receipt : Writes(r)
  <2> DEFINE q == recReq[w]
             new == SoftDeleted(receipt[q.id])
  <2>1. /\ q.id \in Receipt /\ Found(receipt[q.id])
        /\ receipt' = [receipt EXCEPT ![q.id] = new]
    BY <1>7 DEF CommitReceiptDelete, RequestsChecked, ReceiptRequestOK
  <2>2. receipt[q.id] \in ReceiptRow /\ receipt[q.id].directive \in Directive
    BY <2>1, LiveReceipt
  <2>3. new \in ReceiptRow /\ new.row = "deleted" /\ new.directive \in Directive
    BY <2>2 DEF ReceiptRow, RowTags, SoftDeleted
  <2>4. Writes(q.id)
    BY <2>1, <2>3 DEF RowStep
  <2> QED
    BY <2>1, <2>4
<1> QED
  BY <1>1, <1>2, <1>3, <1>5, <1>6, <1>7
  DEF Commits, storeVars, CreateGate, CommitGateWrite, CommitGateDelete,
      CommitDirectiveCreate, CommitDirectiveUpdate, CommitDirectiveTransition,
      CommitDirectiveDelete

\* An audit record made of two states is one.
LEMMA EntryTyped ==
  ASSUME NEW b \in AuditStates, NEW a \in AuditStates
  PROVE  Entry(b, a) \in AuditEntry
BY DEF Entry, AuditEntry

\* Every transaction appends a well-typed audit record.
LEMMA AuditTable ==
  ASSUME TypeInv, UNCHANGED storeVars \/ Commits
  PROVE  audit' \in [Entity -> AuditEntry]
<1> USE DEF TypeInv, TypeOK, StoreTypeOK
<1>0. /\ GateStates \subseteq AuditStates /\ DirectiveStates \subseteq AuditStates
      /\ ReceiptStates \subseteq AuditStates
      /\ "" \in AuditStates /\ "deleted" \in AuditStates
      /\ Gate \subseteq Entity /\ Directive \subseteq Entity
      /\ Receipt \subseteq Entity
  BY DEF AuditStates, Entity
<1>1. CASE UNCHANGED audit
  BY <1>1
<1>2. ASSUME NEW e \in Entity, NEW b \in AuditStates, NEW a \in AuditStates,
             audit' = [audit EXCEPT ![e] = Entry(b, a)]
      PROVE  audit' \in [Entity -> AuditEntry]
  BY <1>2, EntryTyped
<1>3. ASSUME NEW g \in Gate, CreateGate(g)
      PROVE  audit' \in [Entity -> AuditEntry]
  BY <1>0, <1>2, <1>3, EmptyRows DEF CreateGate
<1>4. ASSUME NEW w \in GateWorker, CommitGateWrite(w) \/ CommitGateDelete(w)
      PROVE  audit' \in [Entity -> AuditEntry]
  <2>1. /\ gateReq[w].id \in Gate /\ gateReq[w].to \in GateStates
        /\ gateReq[w].cur.status \in GateStates
    BY <1>4 DEF CommitGateWrite, CommitGateDelete, RequestsChecked,
                GateRequestOK, GateReqTypeOK, GateRequest, GateRow
  <2> QED
    BY <1>0, <1>2, <1>4, <2>1 DEF CommitGateWrite, CommitGateDelete
<1>5. ASSUME NEW w \in DirectiveWorker,
             \/ CommitDirectiveCreate(w) \/ CommitDirectiveUpdate(w)
             \/ CommitDirectiveTransition(w) \/ CommitDirectiveDelete(w)
      PROVE  audit' \in [Entity -> AuditEntry]
  <2> DEFINE q == dirReq[w]
             goal == GateTarget(q.cur, q.to, q.linked)
  <2>1. /\ q \in DirectiveRequest /\ DirectiveRequestOK(q) /\ q.op # "none"
    BY <1>5 DEF CommitDirectiveCreate, CommitDirectiveUpdate,
                CommitDirectiveTransition, CommitDirectiveDelete,
                DirReqTypeOK, RequestsChecked
  <2>2. /\ q.id \in Directive /\ q.to \in DirectiveStates
        /\ q.cur.status \in DirectiveStates /\ q.linked.status \in GateStates
    BY <2>1 DEF DirectiveRequestOK, DirectiveRequest, DirectiveRow, GateRow
  <2>3. CASE CommitDirectiveTransition(w)
    <3>1. [audit EXCEPT ![q.id] = Entry(q.cur.status, q.to)]
            \in [Entity -> AuditEntry]
      BY <1>0, <2>2, EntryTyped
    <3>2. CASE WritesGate(q.cur, q.to, q.linked)
      <4>1. q.cur.gate \in Entity /\ goal \in AuditStates
        BY <1>0, <2>1, <2>3, <3>2
        DEF CommitDirectiveTransition, DirectiveRequestOK, WritesGate, GateTarget,
            GateStates
      <4>2. Entry(q.linked.status, goal) \in AuditEntry
        BY <1>0, <2>2, <4>1, EntryTyped
      <4>3. audit' = [[audit EXCEPT ![q.id] = Entry(q.cur.status, q.to)]
                       EXCEPT ![q.cur.gate] = Entry(q.linked.status, goal)]
        BY <2>3, <3>2 DEF CommitDirectiveTransition
      <4> QED
        BY <3>1, <4>1, <4>2, <4>3
    <3> QED
      BY <2>3, <3>1, <3>2 DEF CommitDirectiveTransition
  <2> QED
    BY <1>0, <1>2, <1>5, <2>2, <2>3, EmptyRows
    DEF CommitDirectiveCreate, CommitDirectiveUpdate, CommitDirectiveDelete
<1>6. ASSUME NEW w \in ReceiptWorker,
             \/ CommitReceiptCreate(w) \/ CommitReceiptUpdate(w)
             \/ CommitReceiptCancel(w) \/ CommitReceiptOutcome(w)
             \/ CommitReceiptDelete(w)
      PROVE  audit' \in [Entity -> AuditEntry]
  <2> DEFINE q == recReq[w]
             d == q.cur.directive
             goal == GateOutcome(q.to, q.dir)
  <2>1. q \in ReceiptRequest /\ ReceiptRequestOK(q) /\ q.op # "none"
    BY <1>6 DEF CommitReceiptCreate, CommitReceiptUpdate, CommitReceiptCancel,
                CommitReceiptOutcome, CommitReceiptDelete,
                RecReqTypeOK, RequestsChecked
  <2>2. /\ q.id \in Receipt /\ q.to \in ReceiptStates
        /\ q.cur.status \in ReceiptStates /\ q.linked.status \in GateStates
        /\ q.dir.status \in DirectiveStates /\ q.dir.target \in GateStates
    BY <2>1 DEF ReceiptRequestOK, ReceiptRequest, ReceiptRow, DirectiveRow, GateRow
  <2>3. CASE CommitReceiptOutcome(w)
    <3>1. /\ d \in Entity /\ q.dir.gate \in Entity
          /\ DirectiveOutcome(q.to) \in AuditStates /\ goal \in AuditStates
      BY <1>0, <2>1, <2>2, <2>3
      DEF CommitReceiptOutcome, ReceiptRequestOK, DirectiveOutcome, GateOutcome,
          DirectiveStates, GateStates
    <3>2. [audit EXCEPT ![q.id] = Entry(q.cur.status, q.to),
                        ![d] = Entry(q.dir.status, DirectiveOutcome(q.to))]
            \in [Entity -> AuditEntry]
      BY <1>0, <2>2, <3>1, EntryTyped
    <3>3. Entry(q.linked.status, goal) \in AuditEntry
      BY <1>0, <2>2, <3>1, EntryTyped
    <3> QED
      BY <2>3, <3>1, <3>2, <3>3 DEF CommitReceiptOutcome
  <2>4. CASE CommitReceiptCreate(w)
    <3>1. audit' = [audit EXCEPT ![q.id] = Entry("", "pending")]
      BY <2>4 DEF CommitReceiptCreate
    <3> QED
      BY <1>0, <1>2, <2>2, <3>1, EmptyRows
  <2>5. CASE CommitReceiptDelete(w)
    BY <1>0, <1>2, <2>2, <2>5 DEF CommitReceiptDelete
  <2>6. CASE CommitReceiptUpdate(w) \/ CommitReceiptCancel(w)
    BY <1>0, <1>2, <2>2, <2>6 DEF CommitReceiptUpdate, CommitReceiptCancel
  <2> QED
    BY <1>6, <2>3, <2>4, <2>5, <2>6
<1> QED
  BY <1>1, <1>3, <1>4, <1>5, <1>6 DEF Commits, storeVars

-----------------------------------------------------------------------------
\* Whichever service takes the step, the requests in flight at all three stay
\* typed and checked.
LEMMA RequestsStaySound ==
  ASSUME TypeInv, [Next]_vars
  PROVE  /\ GateReqTypeOK' /\ DirReqTypeOK' /\ RecReqTypeOK'
         /\ RequestsChecked'
<1> USE DEF TypeInv, TypeOK, RequestsChecked
<1>1. /\ UNCHANGED gateReq =>
           GateReqTypeOK' /\ \A w \in GateWorker : GateRequestOK(gateReq[w])'
      /\ UNCHANGED dirReq =>
           DirReqTypeOK' /\ \A w \in DirectiveWorker : DirectiveRequestOK(dirReq[w])'
      /\ UNCHANGED recReq =>
           RecReqTypeOK' /\ \A w \in ReceiptWorker : ReceiptRequestOK(recReq[w])'
  BY DEF GateReqTypeOK, DirReqTypeOK, RecReqTypeOK
<1> QED
  BY <1>1, GateRequests, DirectiveRequests, ReceiptRequests DEF Next, vars

\* Between any two steps the rows are well formed and every request in flight
\* has passed the checks behind it.
LEMMA TypeInvariant == Spec => []TypeInv
<1>1. Init => TypeInv
  <2> SUFFICES ASSUME Init PROVE TypeInv
    OBVIOUS
  <2> USE DEF Init, StoreInit, TypeInv
  <2>1. StoreTypeOK
    <3>1. NoEntry \in AuditEntry
      BY DEF NoEntry, AuditEntry, AuditStates
    <3> QED
      BY <3>1, SeedIsConsistent DEF StoreTypeOK
  <2>2. GateReqTypeOK /\ \A w \in GateWorker : GateRequestOK(gateReq[w])
    BY EmptyRows, BoundsAreNaturals
    DEF GateUnitInit, GateReqTypeOK, NoGateRequest, GateRequest, GateRequestOK
  <2>3. DirReqTypeOK /\ \A w \in DirectiveWorker : DirectiveRequestOK(dirReq[w])
    BY IdleDirectiveRequest DEF OperationDirectiveInit, DirReqTypeOK
  <2>4. RecReqTypeOK /\ \A w \in ReceiptWorker : ReceiptRequestOK(recReq[w])
    BY IdleReceiptRequest DEF ExecutionConfirmationInit, RecReqTypeOK
  <2>5. RowsWellFormed
    BY SeedIsConsistent DEF RowsWellFormed
  <2> QED
    BY <2>1, <2>2, <2>3, <2>4, <2>5 DEF TypeOK, RequestsChecked
<1>2. TypeInv /\ [Next]_vars => TypeInv'
  <2> SUFFICES ASSUME TypeInv, [Next]_vars PROVE TypeInv'
    OBVIOUS
  <2>1. UNCHANGED storeVars \/ Commits
    BY OnlyCommitsWrite
  <2>2. StoreTypeOK' /\ RowsWellFormed'
    BY <2>1, GateTable, DirectiveTable, ReceiptTable, AuditTable
    DEF StoreTypeOK, RowsWellFormed
  <2> QED
    BY <2>2, RequestsStaySound DEF TypeInv, TypeOK
<1> QED
  BY <1>1, <1>2, PTL DEF Spec

\* The tables and the requests in flight keep their types, whatever the
\* interleaving of the services: no version leaves its bound and no stale copy
\* of a row is written back with a value its column does not have.
THEOREM TypeCorrect == Spec => []TypeOK
BY TypeInvariant, PTL DEF TypeInv

-----------------------------------------------------------------------------
\* A copy stays current while its row goes through RowStep: the row keeps its
\* version only when it stays the same or is deleted.
LEMMA CurrentGate ==
  ASSUME NEW c \in GateRow, NEW old \in GateRow, NEW new \in GateRow,
         NEW e \in Nat, RowStep(old, new), Current(c, e, old)
  PROVE  Current(c, e, new)
BY BoundsAreNaturals DEF RowStep, Current, SoftDeleted, GateRow, Found

\* The same for a copy of a directive.
LEMMA CurrentDirective ==
  ASSUME NEW c \in DirectiveRow, NEW old \in DirectiveRow,
         NEW new \in DirectiveRow, NEW e \in Nat,
         RowStep(old, new), Current(c, e, old)
  PROVE  Current(c, e, new)
BY BoundsAreNaturals DEF RowStep, Current, SoftDeleted, DirectiveRow, Found

\* The same for a copy of a receipt.
LEMMA CurrentReceipt ==
  ASSUME NEW c \in ReceiptRow, NEW old \in ReceiptRow, NEW new \in ReceiptRow,
         NEW e \in Nat, RowStep(old, new), Current(c, e, old)
  PROVE  Current(c, e, new)
BY BoundsAreNaturals DEF RowStep, Current, SoftDeleted, ReceiptRow, Found

\* A copy taken now is current.
LEMMA FreshCopy ==
  ASSUME NEW row, NEW e \in Nat, row.version \in Nat, Found(row),
         e <= row.version
  PROVE  Current(row, e, row)
BY DEF Current, Found

\* A row that was written, or deleted, no longer has the version that a request
\* with a copy of it expects.
LEMMA StepOutdates ==
  ASSUME NEW old \in GateRow \cup DirectiveRow \cup ReceiptRow, NEW new, NEW c,
         NEW e \in Nat, c.version \in Nat, old.version \in Nat,
         RowStep(old, new), new # old, Current(c, e, old)
  PROVE  ~Updatable(new, e)
<1>1. ~Found(SoftDeleted(old))
  BY DEF Found, SoftDeleted, GateRow, DirectiveRow, ReceiptRow
<1> QED
  BY <1>1 DEF RowStep, Current, Updatable, Found

\* q carries, as c, a copy of row that was taken in this very step.
Taken(c, e, row) == Found(row) /\ c = row /\ e \in Nat /\ e <= row.version

\* What a step does to the copy of a gate that a request holds.
LEMMA GateCopyStep ==
  ASSUME TypeInv, [Next]_vars, NEW w \in GateWorker
  PROVE  LET q == gateReq'[w] IN
         \/ q = gateReq[w]
         \/ q.op # "write"
         \/ /\ q.id \in Gate /\ Taken(q.cur, q.expect, gate[q.id])
            /\ UNCHANGED gate
<1> USE DEF TypeInv, TypeOK, StoreTypeOK, GateReqTypeOK
<1> DEFINE Goal == LET q == gateReq'[w] IN
         \/ q = gateReq[w]
         \/ q.op # "write"
         \/ /\ q.id \in Gate /\ Taken(q.cur, q.expect, gate[q.id])
            /\ UNCHANGED gate
<1>1. CASE UNCHANGED gateReq
  BY <1>1
<1>2. ASSUME NEW v \in GateWorker, FinishGate(v) PROVE Goal
  BY <1>2 DEF FinishGate, NoGateRequest
<1>3. ASSUME NEW v \in GateWorker, NEW g \in Gate, NEW e \in 1..MaxGateVersion,
             GetForGateUpdate(v, g, e)
      PROVE  Goal
  BY <1>3 DEF GetForGateUpdate, BeginGateWrite, ClientVersions, Taken, GateRow,
              storeVars
<1>4. ASSUME NEW v \in GateWorker, NEW g \in Gate, NEW to \in GateStates,
             NEW e \in 1..MaxGateVersion, GetForGateTransition(v, g, to, e)
      PROVE  Goal
  BY <1>4 DEF GetForGateTransition, BeginGateWrite, ClientVersions, Taken,
              GateRow, storeVars
<1>5. ASSUME NEW v \in GateWorker, NEW g \in Gate, GetForGateDelete(v, g)
      PROVE  Goal
  BY <1>5 DEF GetForGateDelete, NoGateRequest
<1> QED
  BY <1>1, <1>2, <1>3, <1>4, <1>5
  DEF Next, vars, GateUnitNext, GateUnitStep, CreateGate, CommitGateWrite,
      CommitGateDelete, AbandonGate

\* The copy a gate request decides on stays current until its commit.
LEMMA GateCopiesStayCurrent ==
  ASSUME TypeInv, TypeInv', SnapshotCurrent, [Next]_vars, NEW w \in GateWorker,
         gateReq'[w].op = "write"
  PROVE  Current(gateReq'[w].cur, gateReq'[w].expect, gate'[gateReq'[w].id])
<1> DEFINE q == gateReq'[w]
<1>1. /\ q \in GateRequest /\ q.cur \in GateRow /\ q.expect \in Nat
      /\ q.id \in Gate
  BY BoundsAreNaturals
  DEF TypeInv, TypeOK, GateReqTypeOK, GateRequest, RequestsChecked, GateRequestOK
<1>2. gate[q.id] \in GateRow /\ gate'[q.id] \in GateRow
  BY <1>1 DEF TypeInv, TypeOK, StoreTypeOK
<1>3. RowStep(gate[q.id], gate'[q.id])
  BY <1>1, OnlyCommitsWrite, GateTable
<1>4. CASE q = gateReq[w]
  BY <1>1, <1>2, <1>3, <1>4, CurrentGate DEF SnapshotCurrent
<1>5. CASE Taken(q.cur, q.expect, gate[q.id]) /\ UNCHANGED gate
  BY <1>1, <1>2, <1>5, FreshCopy DEF Taken, GateRow
<1> QED
  BY <1>4, <1>5, GateCopyStep

\* The same for the copies of a directive and of its gate that a request on
\* directives holds.
LEMMA DirectiveCopyStep ==
  ASSUME TypeInv, [Next]_vars, NEW w \in DirectiveWorker
  PROVE  LET p == dirReq[w]  q == dirReq'[w] IN
         /\ \/ /\ p.op = q.op /\ p.id = q.id /\ p.expect = q.expect
               /\ p.cur = q.cur
            \/ q.op \notin {"update", "transition"}
            \/ /\ Taken(q.cur, q.expect, directive[q.id])
               /\ UNCHANGED directive
         /\ \/ p.cur = q.cur /\ p.linked = q.linked
            \/ q.linked = NoGate
            \/ Taken(q.linked, 0, gate[q.cur.gate]) /\ UNCHANGED gate
<1> USE IdleDirectiveRequest, BoundsAreNaturals
<1> USE DEF TypeInv, TypeOK, StoreTypeOK, DirReqTypeOK
<1> DEFINE p == dirReq[w]
           q == dirReq'[w]
           Goal == /\ \/ /\ p.op = q.op /\ p.id = q.id /\ p.expect = q.expect
                         /\ p.cur = q.cur
                      \/ q.op \notin {"update", "transition"}
                      \/ /\ Taken(q.cur, q.expect, directive[q.id])
                         /\ UNCHANGED directive
                   /\ \/ p.cur = q.cur /\ p.linked = q.linked
                      \/ q.linked = NoGate
                      \/ Taken(q.linked, 0, gate[q.cur.gate]) /\ UNCHANGED gate
<1>1. CASE UNCHANGED dirReq
  BY <1>1
<1>2. ASSUME NEW v \in DirectiveWorker, FinishDirective(v) PROVE Goal
  BY <1>2 DEF FinishDirective
<1>3. ASSUME NEW v \in DirectiveWorker, NEW d \in Directive, NEW g \in Gate,
             NEW t \in Target, GetGateForDirectiveCreate(v, d, g, t)
      PROVE  Goal
  BY <1>3 DEF GetGateForDirectiveCreate, DirectiveRequest
<1>4. ASSUME NEW v \in DirectiveWorker, NEW d \in Directive, NEW g \in Gate,
             NEW t \in Target, NEW e \in 1..MaxDirectiveVersion,
             GetForDirectiveUpdate(v, d, g, t, e)
      PROVE  Goal
  BY <1>4 DEF GetForDirectiveUpdate, ClientVersions, Taken, DirectiveRow, storeVars
<1>5. ASSUME NEW v \in DirectiveWorker, GetGateForDirectiveUpdate(v)
      PROVE  Goal
  BY <1>5 DEF GetGateForDirectiveUpdate, DirectiveRequest
<1>6. ASSUME NEW v \in DirectiveWorker, NEW d \in Directive,
             NEW to \in DirectiveStates, NEW u \in User,
             NEW e \in 1..MaxDirectiveVersion,
             GetForDirectiveTransition(v, d, to, u, e)
      PROVE  Goal
  BY <1>6 DEF GetForDirectiveTransition, ClientVersions, Taken, DirectiveRow,
              storeVars
<1>7. ASSUME NEW v \in DirectiveWorker, GetGateForDirectiveTransition(v)
      PROVE  Goal
  <2> DEFINE linked == gate[dirReq[v].cur.gate]
  <2>1. /\ dirReq[v] \in DirectiveRequest /\ Found(linked)
        /\ dirReq' = [dirReq EXCEPT ![v] =
             [dirReq[v] EXCEPT !.step = "commit", !.linked = linked]]
        /\ UNCHANGED gate
    BY <1>7 DEF GetGateForDirectiveTransition, storeVars
  <2>2. DirectiveRequestOK(dirReq[v]) /\ dirReq[v].op = "transition"
    BY <1>7 DEF GetGateForDirectiveTransition, RequestsChecked
  <2>3. linked \in GateRow /\ Taken(linked, 0, linked)
    BY <2>1, <2>2 DEF DirectiveRequestOK, Taken, GateRow
  <2> QED
    BY <2>1, <2>3 DEF DirectiveRequest
<1>8. ASSUME NEW v \in DirectiveWorker, NEW d \in Directive,
             GetForDirectiveDelete(v, d)
      PROVE  Goal
  BY <1>8 DEF GetForDirectiveDelete, DirectiveRequest
<1>9. CASE OperationDirectiveNext
  BY <1>2, <1>3, <1>4, <1>5, <1>6, <1>7, <1>8, <1>9
  DEF OperationDirectiveNext, OperationDirectiveStep, CommitDirectiveCreate,
      CommitDirectiveUpdate, CommitDirectiveTransition, CommitDirectiveDelete,
      AbandonDirective
<1> QED
  BY <1>1, <1>9 DEF Next, vars

\* So do the copies of directive and gate that a directive request decides on.
LEMMA DirectiveCopiesStayCurrent ==
  ASSUME TypeInv, TypeInv', SnapshotCurrent, [Next]_vars, NEW w \in DirectiveWorker
  PROVE  LET q == dirReq'[w] IN
         /\ q.op \in {"update", "transition"} =>
              Current(q.cur, q.expect, directive'[q.id])
         /\ q.linked # NoGate => Current(q.linked, 0, gate'[q.cur.gate])
<1> DEFINE p == dirReq[w]
           q == dirReq'[w]
<1>1. /\ q \in DirectiveRequest /\ DirectiveRequestOK(q)
      /\ q.cur \in DirectiveRow /\ q.linked \in GateRow /\ q.expect \in Nat
  BY BoundsAreNaturals
  DEF TypeInv, TypeOK, DirReqTypeOK, DirectiveRequest, RequestsChecked
<1>2. ASSUME q.op \in {"update", "transition"}
      PROVE  Current(q.cur, q.expect, directive'[q.id])
  <2>1. q.id \in Directive
    BY <1>1, <1>2 DEF DirectiveRequestOK
  <2>2. /\ directive[q.id] \in DirectiveRow /\ directive'[q.id] \in DirectiveRow
        /\ RowStep(directive[q.id], directive'[q.id])
    BY <2>1, OnlyCommitsWrite, DirectiveTable DEF TypeInv, TypeOK, StoreTypeOK
  <2>3. CASE p.op = q.op /\ p.id = q.id /\ p.expect = q.expect /\ p.cur = q.cur
    BY <1>1, <1>2, <2>2, <2>3, CurrentDirective DEF SnapshotCurrent
  <2>4. CASE Taken(q.cur, q.expect, directive[q.id]) /\ UNCHANGED directive
    BY <1>1, <2>2, <2>4, FreshCopy DEF Taken, DirectiveRow
  <2> QED
    BY <1>2, <2>3, <2>4, DirectiveCopyStep
<1>3. ASSUME q.linked # NoGate
      PROVE  Current(q.linked, 0, gate'[q.cur.gate])
  <2>1. q.cur.gate \in Gate
    BY <1>1, <1>3 DEF DirectiveRequestOK
  <2>2. /\ gate[q.cur.gate] \in GateRow /\ gate'[q.cur.gate] \in GateRow
        /\ RowStep(gate[q.cur.gate], gate'[q.cur.gate])
    BY <2>1, OnlyCommitsWrite, GateTable DEF TypeInv, TypeOK, StoreTypeOK
  <2>3. CASE p.cur = q.cur /\ p.linked = q.linked
    BY <1>1, <1>3, <2>2, <2>3, CurrentGate DEF SnapshotCurrent
  <2>4. CASE Taken(q.linked, 0, gate[q.cur.gate]) /\ UNCHANGED gate
    BY <2>2, <2>4, FreshCopy, BoundsAreNaturals DEF Taken, GateRow
  <2> QED
    BY <1>3, <2>3, <2>4, DirectiveCopyStep
<1> QED
  BY <1>2, <1>3

\* The same for the copies a request on receipts holds: the receipt, its
\* directive and the gate of that directive.
LEMMA ReceiptCopyStep ==
  ASSUME TypeInv, [Next]_vars, NEW w \in ReceiptWorker
  PROVE  LET p == recReq[w]  q == recReq'[w] IN
         /\ \/ /\ p.op = q.op /\ p.id = q.id /\ p.expect = q.expect
               /\ p.cur = q.cur
            \/ q.op \notin {"update", "transition"}
            \/ Taken(q.cur, q.expect, receipt[q.id]) /\ UNCHANGED receipt
         /\ \/ p.cur = q.cur /\ p.dir = q.dir
            \/ q.dir = NoDirective
            \/ /\ Taken(q.dir, 0, directive[q.cur.directive])
               /\ UNCHANGED directive
         /\ \/ p.dir = q.dir /\ p.linked = q.linked
            \/ q.linked = NoGate
            \/ Taken(q.linked, 0, gate[q.dir.gate]) /\ UNCHANGED gate
<1> USE IdleReceiptRequest, BoundsAreNaturals
<1> USE DEF TypeInv, TypeOK, StoreTypeOK, RecReqTypeOK
<1> DEFINE p == recReq[w]
           q == recReq'[w]
           Goal ==
             /\ \/ /\ p.op = q.op /\ p.id = q.id /\ p.expect = q.expect
                   /\ p.cur = q.cur
                \/ q.op \notin {"update", "transition"}
                \/ Taken(q.cur, q.expect, receipt[q.id]) /\ UNCHANGED receipt
             /\ \/ p.cur = q.cur /\ p.dir = q.dir
                \/ q.dir = NoDirective
                \/ /\ Taken(q.dir, 0, directive[q.cur.directive])
                   /\ UNCHANGED directive
             /\ \/ p.dir = q.dir /\ p.linked = q.linked
                \/ q.linked = NoGate
                \/ Taken(q.linked, 0, gate[q.dir.gate]) /\ UNCHANGED gate
<1>1. CASE UNCHANGED recReq
  BY <1>1
<1>2. ASSUME NEW v \in ReceiptWorker, FinishReceipt(v) PROVE Goal
  BY <1>2 DEF FinishReceipt
<1>3. ASSUME NEW v \in ReceiptWorker, NEW r \in Receipt, NEW d \in Directive,
             GetDirectiveForReceiptCreate(v, r, d)
      PROVE  Goal
  BY <1>3 DEF GetDirectiveForReceiptCreate, ReceiptRequest
<1>4. ASSUME NEW v \in ReceiptWorker,
             CountReceipts(v) \/ GetDirectiveForReceiptUpdate(v)
      PROVE  Goal
  BY <1>4 DEF CountReceipts, GetDirectiveForReceiptUpdate, ReceiptRequest
<1>5. ASSUME NEW v \in ReceiptWorker, NEW r \in Receipt,
             NEW e \in 1..MaxReceiptVersion, GetForReceiptUpdate(v, r, e)
      PROVE  Goal
  BY <1>5 DEF GetForReceiptUpdate, ClientVersions, Taken, ReceiptRow, storeVars
<1>6. ASSUME NEW v \in ReceiptWorker, NEW r \in Receipt, NEW to \in ReceiptStates,
             NEW e \in 1..MaxReceiptVersion, GetForReceiptTransition(v, r, to, e)
      PROVE  Goal
  BY <1>6 DEF GetForReceiptTransition, ClientVersions, Taken, ReceiptRow, storeVars
<1>7. ASSUME NEW v \in ReceiptWorker, GetDirectiveForReceiptTransition(v)
      PROVE  Goal
  <2> DEFINE dir == directive[recReq[v].cur.directive]
  <2>1. /\ recReq[v] \in ReceiptRequest /\ Found(dir)
        /\ recReq' = [recReq EXCEPT ![v] =
             [recReq[v] EXCEPT !.step = "gate", !.dir = dir]]
        /\ UNCHANGED directive
    BY <1>7 DEF GetDirectiveForReceiptTransition, Executing, storeVars
  <2>2. /\ ReceiptRequestOK(recReq[v]) /\ recReq[v].op = "transition"
        /\ recReq[v].step = "directive"
    BY <1>7 DEF GetDirectiveForReceiptTransition, RequestsChecked
  <2>3. dir \in DirectiveRow /\ Taken(dir, 0, dir)
    BY <2>1, <2>2 DEF ReceiptRequestOK, Taken, DirectiveRow
  <2>4. recReq[v].linked = NoGate
    BY <2>2 DEF ReceiptRequestOK
  <2> QED
    BY <2>1, <2>3, <2>4 DEF ReceiptRequest
<1>8. ASSUME NEW v \in ReceiptWorker, GetGateForReceiptTransition(v)
      PROVE  Goal
  <2> DEFINE linked == gate[recReq[v].dir.gate]
  <2>1. /\ recReq[v] \in ReceiptRequest /\ Found(linked)
        /\ recReq' = [recReq EXCEPT ![v] =
             [recReq[v] EXCEPT !.step = "commit", !.linked = linked]]
        /\ UNCHANGED gate
    BY <1>8 DEF GetGateForReceiptTransition, storeVars
  <2>2. /\ ReceiptRequestOK(recReq[v]) /\ recReq[v].op = "transition"
        /\ recReq[v].step = "gate"
    BY <1>8 DEF GetGateForReceiptTransition, RequestsChecked
  <2>3. linked \in GateRow /\ Taken(linked, 0, linked)
    BY <2>1, <2>2 DEF ReceiptRequestOK, Taken, GateRow
  <2> QED
    BY <2>1, <2>3 DEF ReceiptRequest
<1>9. ASSUME NEW v \in ReceiptWorker, NEW r \in Receipt, GetForReceiptDelete(v, r)
      PROVE  Goal
  BY <1>9 DEF GetForReceiptDelete, ReceiptRequest
<1>10. CASE ExecutionConfirmationNext
  BY <1>2, <1>3, <1>4, <1>5, <1>6, <1>7, <1>8, <1>9, <1>10
  DEF ExecutionConfirmationNext, ExecutionConfirmationStep, CommitReceiptCreate,
      CommitReceiptUpdate, CommitReceiptCancel, CommitReceiptOutcome,
      CommitReceiptDelete, AbandonReceipt
<1> QED
  BY <1>1, <1>10 DEF Next, vars

\* So do the copies of receipt, directive and gate of a receipt request.
LEMMA ReceiptCopiesStayCurrent ==
  ASSUME TypeInv, TypeInv', SnapshotCurrent, [Next]_vars, NEW w \in ReceiptWorker
  PROVE  LET q == recReq'[w] IN
         /\ q.op \in {"update", "transition"} =>
              Current(q.cur, q.expect, receipt'[q.id])
         /\ q.dir # NoDirective =>
              Current(q.dir, 0, directive'[q.cur.directive])
         /\ q.linked # NoGate => Current(q.linked, 0, gate'[q.dir.gate])
<1> DEFINE p == recReq[w]
           q == recReq'[w]
<1>1. /\ q \in ReceiptRequest /\ ReceiptRequestOK(q)
      /\ q.cur \in ReceiptRow /\ q.dir \in DirectiveRow
      /\ q.linked \in GateRow /\ q.expect \in Nat
  BY BoundsAreNaturals
  DEF TypeInv, TypeOK, RecReqTypeOK, ReceiptRequest, RequestsChecked
<1>2. ASSUME q.op \in {"update", "transition"}
      PROVE  Current(q.cur, q.expect, receipt'[q.id])
  <2>1. q.id \in Receipt
    BY <1>1, <1>2 DEF ReceiptRequestOK
  <2>2. /\ receipt[q.id] \in ReceiptRow /\ receipt'[q.id] \in ReceiptRow
        /\ RowStep(receipt[q.id], receipt'[q.id])
    BY <2>1, OnlyCommitsWrite, ReceiptTable DEF TypeInv, TypeOK, StoreTypeOK
  <2>3. CASE p.op = q.op /\ p.id = q.id /\ p.expect = q.expect /\ p.cur = q.cur
    BY <1>1, <1>2, <2>2, <2>3, CurrentReceipt DEF SnapshotCurrent
  <2>4. CASE Taken(q.cur, q.expect, receipt[q.id]) /\ UNCHANGED receipt
    BY <1>1, <2>2, <2>4, FreshCopy DEF Taken, ReceiptRow
  <2> QED
    BY <1>2, <2>3, <2>4, ReceiptCopyStep
<1>3. ASSUME q.dir # NoDirective
      PROVE  Current(q.dir, 0, directive'[q.cur.directive])
  <2> DEFINE d == q.cur.directive
  <2>1. d \in Directive
    BY <1>1, <1>3 DEF ReceiptRequestOK
  <2>2. /\ directive[d] \in DirectiveRow /\ directive'[d] \in DirectiveRow
        /\ RowStep(directive[d], directive'[d])
    BY <2>1, OnlyCommitsWrite, DirectiveTable DEF TypeInv, TypeOK, StoreTypeOK
  <2>3. CASE p.cur = q.cur /\ p.dir = q.dir
    BY <1>1, <1>3, <2>2, <2>3, CurrentDirective DEF SnapshotCurrent
  <2>4. CASE Taken(q.dir, 0, directive[d]) /\ UNCHANGED directive
    BY <2>2, <2>4, FreshCopy, BoundsAreNaturals DEF Taken, DirectiveRow
  <2> QED
    BY <1>3, <2>3, <2>4, ReceiptCopyStep
<1>4. ASSUME q.linked # NoGate
      PROVE  Current(q.linked, 0, gate'[q.dir.gate])
  <2>1. q.dir.gate \in Gate
    BY <1>1, <1>4 DEF ReceiptRequestOK
  <2>2. /\ gate[q.dir.gate] \in GateRow /\ gate'[q.dir.gate] \in GateRow
        /\ RowStep(gate[q.dir.gate], gate'[q.dir.gate])
    BY <2>1, OnlyCommitsWrite, GateTable DEF TypeInv, TypeOK, StoreTypeOK
  <2>3. CASE p.dir = q.dir /\ p.linked = q.linked
    BY <1>1, <1>4, <2>2, <2>3, CurrentGate DEF SnapshotCurrent
  <2>4. CASE Taken(q.linked, 0, gate[q.dir.gate]) /\ UNCHANGED gate
    BY <2>2, <2>4, FreshCopy, BoundsAreNaturals DEF Taken, GateRow
  <2> QED
    BY <1>4, <2>3, <2>4, ReceiptCopyStep
<1> QED
  BY <1>2, <1>3, <1>4

\* The optimistic lock is enough: whenever the version check of an update
\* succeeds, the row it overwrites is the row the request read and checked.
\* This covers the copies a request took of other services' rows as well.
THEOREM LockIsSound == Spec => []SnapshotCurrent
<1>1. Init => SnapshotCurrent
  BY IdleDirectiveRequest, IdleReceiptRequest
  DEF Init, GateUnitInit, OperationDirectiveInit, ExecutionConfirmationInit,
      SnapshotCurrent, NoGateRequest
<1>2. TypeInv /\ TypeInv' /\ SnapshotCurrent /\ [Next]_vars => SnapshotCurrent'
  BY GateCopiesStayCurrent, DirectiveCopiesStayCurrent, ReceiptCopiesStayCurrent
  DEF SnapshotCurrent
<1> QED
  BY <1>1, <1>2, TypeInvariant, PTL DEF Spec

\* Of all requests in flight on the same version of a row, one is applied: any
\* write of the row makes the others, a retry of the same request included, fail.
THEOREM WritersOutdated == Spec => WritesOutdate
<1> DEFINE Outdate ==
      /\ \A w \in GateWorker : LET q == gateReq[w] IN
           q.op = "write" /\ gate'[q.id] # gate[q.id]
             => ~Updatable(gate'[q.id], q.expect)
      /\ \A w \in DirectiveWorker : LET q == dirReq[w] IN
           q.op \in {"update", "transition"} /\ directive'[q.id] # directive[q.id]
             => ~Updatable(directive'[q.id], q.expect)
      /\ \A w \in ReceiptWorker : LET q == recReq[w] IN
           q.op \in {"update", "transition"} /\ receipt'[q.id] # receipt[q.id]
             => ~Updatable(receipt'[q.id], q.expect)
<1>1. TypeInv /\ SnapshotCurrent /\ [Next]_vars => [Outdate]_vars
  <2> SUFFICES ASSUME TypeInv, SnapshotCurrent, [Next]_vars PROVE Outdate
    OBVIOUS
  <2> USE BoundsAreNaturals
  <2>1. ASSUME NEW w \in GateWorker, gateReq[w].op = "write",
               gate'[gateReq[w].id] # gate[gateReq[w].id]
        PROVE  ~Updatable(gate'[gateReq[w].id], gateReq[w].expect)
    <3> DEFINE q == gateReq[w]
               old == gate[q.id]
    <3>1. /\ q.id \in Gate /\ q.cur.version \in Nat /\ q.expect \in Nat
          /\ old \in GateRow /\ old.version \in Nat
      BY <2>1
      DEF TypeInv, TypeOK, StoreTypeOK, GateReqTypeOK, GateRequest, GateRow,
          RequestsChecked, GateRequestOK
    <3>2. RowStep(old, gate'[q.id]) /\ Current(q.cur, q.expect, old)
      BY <2>1, <3>1, OnlyCommitsWrite, GateTable DEF SnapshotCurrent
    <3> QED
      BY <2>1, <3>1, <3>2, StepOutdates
  <2>2. ASSUME NEW w \in DirectiveWorker, dirReq[w].op \in {"update", "transition"},
               directive'[dirReq[w].id] # directive[dirReq[w].id]
        PROVE  ~Updatable(directive'[dirReq[w].id], dirReq[w].expect)
    <3> DEFINE q == dirReq[w]
               old == directive[q.id]
    <3>1. /\ q.id \in Directive /\ q.cur.version \in Nat /\ q.expect \in Nat
          /\ old \in DirectiveRow /\ old.version \in Nat
      BY <2>2
      DEF TypeInv, TypeOK, StoreTypeOK, DirReqTypeOK, DirectiveRequest,
          DirectiveRow, RequestsChecked, DirectiveRequestOK
    <3>2. RowStep(old, directive'[q.id]) /\ Current(q.cur, q.expect, old)
      BY <2>2, <3>1, OnlyCommitsWrite, DirectiveTable DEF SnapshotCurrent
    <3> QED
      BY <2>2, <3>1, <3>2, StepOutdates
  <2>3. ASSUME NEW w \in ReceiptWorker, recReq[w].op \in {"update", "transition"},
               receipt'[recReq[w].id] # receipt[recReq[w].id]
        PROVE  ~Updatable(receipt'[recReq[w].id], recReq[w].expect)
    <3> DEFINE q == recReq[w]
               old == receipt[q.id]
    <3>1. /\ q.id \in Receipt /\ q.cur.version \in Nat /\ q.expect \in Nat
          /\ old \in ReceiptRow /\ old.version \in Nat
      BY <2>3
      DEF TypeInv, TypeOK, StoreTypeOK, RecReqTypeOK, ReceiptRequest, ReceiptRow,
          RequestsChecked, ReceiptRequestOK
    <3>2. RowStep(old, receipt'[q.id]) /\ Current(q.cur, q.expect, old)
      BY <2>3, <3>1, OnlyCommitsWrite, ReceiptTable DEF SnapshotCurrent
    <3> QED
      BY <2>3, <3>1, <3>2, StepOutdates
  <2> QED
    BY <2>1, <2>2, <2>3
<1> QED
  BY <1>1, LockIsSound, TypeInvariant, PTL DEF Spec, WritesOutdate

-----------------------------------------------------------------------------
(* What follows from the soundness of the optimistic lock: the two-person      *)
(* rule, the status graphs and the frozen content of submitted directives.     *)

\* A row that passes the version check is the copy the request decided on.
LEMMA OverwritesGate ==
  ASSUME NEW c \in GateRow, NEW row \in GateRow, NEW e \in Nat, Found(c),
         \/ Current(c, e, row) /\ Updatable(row, e)
         \/ Current(c, 0, row) /\ Updatable(row, c.version)
  PROVE  row = c
BY BoundsAreNaturals DEF Current, Updatable, Found, SoftDeleted, GateRow

\* The same for a directive.
LEMMA OverwritesDirective ==
  ASSUME NEW c \in DirectiveRow, NEW row \in DirectiveRow, NEW e \in Nat, Found(c),
         \/ Current(c, e, row) /\ Updatable(row, e)
         \/ Current(c, 0, row) /\ Updatable(row, c.version)
  PROVE  row = c
BY BoundsAreNaturals DEF Current, Updatable, Found, SoftDeleted, DirectiveRow

\* The same for a receipt.
LEMMA OverwritesReceipt ==
  ASSUME NEW c \in ReceiptRow, NEW row \in ReceiptRow, NEW e \in Nat, Found(c),
         Current(c, e, row), Updatable(row, e)
  PROVE  row = c
BY BoundsAreNaturals DEF Current, Updatable, Found, SoftDeleted, ReceiptRow

\* What a transaction may do to a directive, from old to new, to its approval
\* rows, from a to b, with entry as its newest audit record: insert a draft,
\* delete it, edit a draft, or advance it along the graph.
Advanced(old, new, a, b) ==
  \/ /\ new.status = "pending" /\ new.submittedBy \in User
     /\ new.approvedBy = old.approvedBy
     /\ b = [a EXCEPT !.submitted = new.submittedBy]
  \/ /\ new.status = "approved" /\ new.approvedBy \in User
     /\ new.submittedBy = old.submittedBy
     /\ new.submittedBy \notin {None, new.approvedBy}
     /\ b = [a EXCEPT !.approved = new.approvedBy]
  \/ /\ new.status \in {"executing", "completed", "aborted"}
     /\ new.submittedBy = old.submittedBy /\ new.approvedBy = old.approvedBy
     /\ b = a

DirectiveMove(old, new, a, b, entry) ==
  \/ new = old /\ b = a
  \/ /\ old = NoDirective /\ new.status = "draft" /\ b = a
     /\ new.submittedBy = None /\ new.approvedBy = None
  \/ Found(old) /\ new = SoftDeleted(old) /\ b = a
  \/ /\ old.status = "draft" /\ new.status = "draft" /\ b = a
     /\ new.submittedBy = old.submittedBy /\ new.approvedBy = old.approvedBy
  \/ /\ CanTransition(OperationDirectiveTransitions, old.status, new.status)
     /\ new.version = old.version + 1
     /\ entry = Entry(old.status, new.status)
     /\ new.gate = old.gate /\ new.target = old.target
     /\ Advanced(old, new, a, b)

\* Inserting a draft is a move the two-person rule allows.
LEMMA MoveOfCreate ==
  ASSUME TypeInv, NEW w \in DirectiveWorker, CommitDirectiveCreate(w),
         NEW d \in Directive
  PROVE  DirectiveMove(directive[d], directive'[d], approval[d], approval'[d],
                       audit'[d])
<1> DEFINE q == dirReq[w]
<1> USE DEF TypeInv, TypeOK, StoreTypeOK
<1>1. /\ Insertable(directive[q.id]) /\ UNCHANGED approval
      /\ directive' = [directive EXCEPT ![q.id] = [NoDirective EXCEPT
           !.row = "live", !.version = 1, !.gate = q.gate, !.target = q.target]]
  BY DEF CommitDirectiveCreate
<1>2. CASE d = q.id
  <2>1. directive[d] = NoDirective
    BY <1>1, <1>2 DEF RowsWellFormed, Insertable
  <2>2. /\ directive'[d].status = "draft"
        /\ directive'[d].submittedBy = None /\ directive'[d].approvedBy = None
    BY <1>1, <1>2, EmptyRows DEF DirectiveRow, NoDirective
  <2> QED
    BY <1>1, <2>1, <2>2 DEF DirectiveMove
<1> QED
  BY <1>1, <1>2 DEF DirectiveMove

\* So is rewriting a draft: the row overwritten is the draft that was read.
LEMMA MoveOfUpdate ==
  ASSUME TypeInv, SnapshotCurrent, NEW w \in DirectiveWorker,
         CommitDirectiveUpdate(w), NEW d \in Directive
  PROVE  DirectiveMove(directive[d], directive'[d], approval[d], approval'[d],
                       audit'[d])
<1> DEFINE q == dirReq[w]
<1> USE DEF TypeInv, TypeOK, StoreTypeOK
<1>1. /\ q \in DirectiveRequest /\ DirectiveRequestOK(q) /\ q.op = "update"
      /\ Updatable(directive[q.id], q.expect) /\ UNCHANGED approval
      /\ directive' = [directive EXCEPT ![q.id] = [q.cur EXCEPT
           !.gate = q.gate, !.target = q.target, !.version = q.expect + 1]]
  BY DEF CommitDirectiveUpdate, DirReqTypeOK, RequestsChecked
<1>2. /\ q.id \in Directive /\ q.cur \in DirectiveRow /\ Found(q.cur)
      /\ q.expect \in Nat /\ q.cur.status = "draft"
  BY <1>1, BoundsAreNaturals DEF DirectiveRequestOK, DirectiveRequest
<1>3. directive[q.id] = q.cur
  BY <1>1, <1>2, OverwritesDirective DEF SnapshotCurrent
<1>4. CASE d = q.id
  BY <1>1, <1>2, <1>3, <1>4 DEF DirectiveMove, DirectiveRow
<1> QED
  BY <1>1, <1>4 DEF DirectiveMove

\* So is a transition, an approval being given by someone other than the submitter
\* of the very row it overwrites.
LEMMA MoveOfTransition ==
  ASSUME TypeInv, SnapshotCurrent, NEW w \in DirectiveWorker,
         CommitDirectiveTransition(w), NEW d \in Directive
  PROVE  DirectiveMove(directive[d], directive'[d], approval[d], approval'[d],
                       audit'[d])
<1> DEFINE q == dirReq[w]
           sub == IF q.to = "pending" THEN q.by ELSE q.cur.submittedBy
           app == IF q.to = "approved" THEN q.by ELSE q.cur.approvedBy
           new == [q.cur EXCEPT !.status = q.to, !.version = q.expect + 1,
                                !.submittedBy = sub, !.approvedBy = app]
<1> USE DEF TypeInv, TypeOK, StoreTypeOK
<1>1. /\ q \in DirectiveRequest /\ DirectiveRequestOK(q)
      /\ q.op = "transition" /\ q.step = "commit"
      /\ Updatable(directive[q.id], q.expect)
      /\ RecordApproval(q.id, q.to, q.by)
      /\ directive' = [directive EXCEPT ![q.id] = new]
  BY DEF CommitDirectiveTransition, DirReqTypeOK, RequestsChecked
<1>2. /\ q.id \in Directive /\ q.cur \in DirectiveRow /\ Found(q.cur)
      /\ q.expect \in Nat /\ q.to \in DirectiveStates /\ q.to # "completed"
      /\ CanTransition(OperationDirectiveTransitions, q.cur.status, q.to)
      /\ q.to \in {"pending", "approved"} => q.by \in User
      /\ q.to = "approved" => q.cur.submittedBy \notin {None, q.by}
      /\ q.cur.gate \in Gate
  BY <1>1, BoundsAreNaturals DEF DirectiveRequestOK, DirectiveRequest
<1>3. directive[q.id] = q.cur
  BY <1>1, <1>2, OverwritesDirective DEF SnapshotCurrent
<1>4. /\ new.status = q.to /\ new.version = q.expect + 1
      /\ new.submittedBy = sub /\ new.approvedBy = app
      /\ new.gate = q.cur.gate /\ new.target = q.cur.target
  BY <1>2 DEF DirectiveRow
<1>5. q.to \in {"pending", "approved", "executing", "aborted"}
  BY <1>2 DEF CanTransition, OperationDirectiveTransitions
<1>6. CASE d = q.id
  <2>1. audit'[d] = Entry(q.cur.status, q.to)
    <3>1. d \in Entity /\ q.cur.gate \in Entity /\ q.cur.gate # d
      BY <1>2, CodesDistinct DEF Entity
    <3> QED
      BY <1>6, <3>1 DEF CommitDirectiveTransition
  <2>2. Advanced(directive[d], directive'[d], approval[d], approval'[d])
    BY <1>1, <1>2, <1>3, <1>4, <1>5, <1>6 DEF Advanced, RecordApproval
  <2>3. q.cur.version = q.expect
    BY <1>1, <1>3 DEF Updatable
  <2> QED
    BY <1>1, <1>2, <1>3, <1>4, <1>6, <2>1, <2>2, <2>3 DEF DirectiveMove
<1>7. CASE d # q.id
  BY <1>1, <1>7 DEF DirectiveMove, RecordApproval
<1> QED
  BY <1>6, <1>7

\* So is an outcome, which takes an executing directive to an end.
LEMMA MoveOfOutcome ==
  ASSUME TypeInv, SnapshotCurrent, NEW w \in ReceiptWorker,
         CommitReceiptOutcome(w), NEW d \in Directive
  PROVE  DirectiveMove(directive[d], directive'[d], approval[d], approval'[d],
                       audit'[d])
<1> DEFINE q == recReq[w]
           c == q.cur.directive
           new == [q.dir EXCEPT !.status = DirectiveOutcome(q.to),
                                !.version = q.dir.version + 1]
<1> USE DEF TypeInv, TypeOK, StoreTypeOK
<1>1. /\ q \in ReceiptRequest /\ ReceiptRequestOK(q) /\ q.op = "transition"
      /\ q.step = "commit" /\ q.cur.status = "pending"
      /\ Updatable(directive[c], q.dir.version) /\ UNCHANGED approval
      /\ directive' = [directive EXCEPT ![c] = new]
  BY DEF CommitReceiptOutcome, RecReqTypeOK, RequestsChecked
<1>2. /\ q.id \in Receipt /\ c \in Directive /\ q.dir \in DirectiveRow
      /\ Found(q.dir) /\ q.dir.status = "executing" /\ q.dir.gate \in Gate
      /\ q.dir # NoDirective
  BY <1>1 DEF ReceiptRequestOK, ReceiptRequest, Executing, Found, NoDirective
<1>3. directive[c] = q.dir
  BY <1>1, <1>2, OverwritesDirective, BoundsAreNaturals DEF SnapshotCurrent
<1>4. /\ new.status = DirectiveOutcome(q.to) /\ new.version = q.dir.version + 1
      /\ new.submittedBy = q.dir.submittedBy /\ new.approvedBy = q.dir.approvedBy
      /\ new.gate = q.dir.gate /\ new.target = q.dir.target
  BY <1>2 DEF DirectiveRow
<1>5. DirectiveOutcome(q.to) \in {"completed", "aborted"}
  BY DEF DirectiveOutcome
<1>6. CASE d = c
  <2>1. audit'[d] = Entry(q.dir.status, DirectiveOutcome(q.to))
    <3>1. /\ d \in Entity /\ q.dir.gate \in Entity /\ q.dir.gate # d
          /\ q.id \in Entity /\ q.id # d
      BY <1>2, CodesDistinct DEF Entity
    <3> QED
      BY <1>6, <3>1 DEF CommitReceiptOutcome
  <2>2. Advanced(directive[d], directive'[d], approval[d], approval'[d])
    BY <1>1, <1>2, <1>3, <1>4, <1>5, <1>6 DEF Advanced
  <2>3. CanTransition(OperationDirectiveTransitions, q.dir.status,
                      DirectiveOutcome(q.to))
    BY <1>2, <1>5 DEF CanTransition, OperationDirectiveTransitions
  <2> QED
    BY <1>1, <1>2, <1>3, <1>4, <1>6, <2>1, <2>2, <2>3 DEF DirectiveMove
<1>7. CASE d # c
  BY <1>1, <1>7 DEF DirectiveMove
<1> QED
  BY <1>6, <1>7

\* Whatever the step, each directive and its approvals stay or make such a move.
LEMMA DirectiveMoves ==
  ASSUME TypeInv, SnapshotCurrent, [Next]_vars, NEW d \in Directive
  PROVE  DirectiveMove(directive[d], directive'[d], approval[d], approval'[d],
                       audit'[d])
<1> USE DEF TypeInv, TypeOK, StoreTypeOK
<1>1. CASE UNCHANGED <<directive, approval>>
  BY <1>1 DEF DirectiveMove
<1>2. ASSUME NEW w \in DirectiveWorker, CommitDirectiveDelete(w)
      PROVE  DirectiveMove(directive[d], directive'[d], approval[d], approval'[d],
                           audit'[d])
  BY <1>2 DEF CommitDirectiveDelete, DirectiveMove
<1> QED
  BY <1>1, <1>2, OnlyCommitsWrite, MoveOfCreate, MoveOfUpdate, MoveOfTransition,
     MoveOfOutcome
  DEF Commits, storeVars, CreateGate, CommitGateWrite, CommitGateDelete,
      CommitReceiptCreate, CommitReceiptUpdate, CommitReceiptCancel,
      CommitReceiptDelete

-----------------------------------------------------------------------------
\* A move keeps the evidence in step with the directive.
LEMMA MoveKeepsEvidence ==
  ASSUME NEW old \in DirectiveRow, NEW new \in DirectiveRow,
         NEW a \in ApprovalRow, NEW b \in ApprovalRow, NEW entry,
         old = NoDirective => a = NoApproval,
         EvidenceOK(old, a), DirectiveMove(old, new, a, b, entry)
  PROVE  EvidenceOK(new, b)
<1> USE DEF EvidenceOK
<1>1. CASE new = old /\ b = a
  BY <1>1
<1>2. CASE /\ old = NoDirective /\ new.status = "draft" /\ b = a
           /\ new.submittedBy = None /\ new.approvedBy = None
  BY <1>2 DEF NoApproval
<1>3. CASE Found(old) /\ new = SoftDeleted(old) /\ b = a
  <2>1. /\ new.status = old.status /\ new.submittedBy = old.submittedBy
        /\ new.approvedBy = old.approvedBy
    BY <1>3 DEF SoftDeleted, DirectiveRow
  <2> QED
    BY <1>3, <2>1
<1>4. CASE /\ old.status = "draft" /\ new.status = "draft" /\ b = a
           /\ new.submittedBy = old.submittedBy /\ new.approvedBy = old.approvedBy
  BY <1>4
<1>5. CASE /\ CanTransition(OperationDirectiveTransitions, old.status, new.status)
           /\ Advanced(old, new, a, b)
  <2>1. CASE new.status = "pending"
    <3>1. a = NoApproval /\ new.submittedBy \in User
          /\ b = [a EXCEPT !.submitted = new.submittedBy]
      BY <1>5, <2>1
      DEF CanTransition, OperationDirectiveTransitions, Advanced
    <3>2. /\ b.submitted = new.submittedBy /\ b.approved = None
          /\ new.approvedBy = None
      BY <1>5, <2>1, <3>1 DEF ApprovalRow, NoApproval, Advanced
    <3> QED
      BY <2>1, <3>1, <3>2 DEF ApprovalRow
  <2>2. CASE new.status = "approved"
    <3>1. /\ old.status = "pending" /\ new.submittedBy = old.submittedBy
          /\ new.approvedBy \in User /\ new.submittedBy # new.approvedBy
          /\ b = [a EXCEPT !.approved = new.approvedBy]
      BY <1>5, <2>2
      DEF CanTransition, OperationDirectiveTransitions, Advanced
    <3>2. b.submitted = new.submittedBy /\ b.approved = new.approvedBy
      BY <3>1 DEF ApprovalRow
    <3>3. new.submittedBy \in User
      BY <3>1
    <3> QED
      BY <2>2, <3>1, <3>2, <3>3 DEF ApprovalRow
  <2>3. CASE new.status \in {"executing", "completed", "aborted"}
    BY <1>5, <2>3 DEF CanTransition, OperationDirectiveTransitions, Advanced, ApprovalRow
  <2> QED
    BY <1>5, <2>1, <2>2, <2>3 DEF Advanced
<1> QED
  BY <1>1, <1>2, <1>3, <1>4, <1>5 DEF DirectiveMove

\* A directive that two persons released remains so.
LEMMA ReleasedStays ==
  ASSUME TypeInv, SnapshotCurrent, [Next]_vars, NEW d \in Directive, Released(d)
  PROVE  Released(d)'
<1>1. /\ directive[d] \in DirectiveRow
      /\ DirectiveMove(directive[d], directive'[d], approval[d], approval'[d],
                       audit'[d])
  BY DirectiveMoves DEF TypeInv, TypeOK, StoreTypeOK
<1> QED
  BY <1>1
  DEF Released, DirectiveMove, Advanced, SoftDeleted, DirectiveRow, NoDirective,
      CanTransition, OperationDirectiveTransitions

\* A create request in flight was in flight before, or has just found its
\* directive executing.
LEMMA CreateRequests ==
  ASSUME TypeInv, [Next]_vars, NEW w \in ReceiptWorker, recReq'[w].op = "create"
  PROVE  \/ recReq[w].op = "create" /\ recReq'[w].directive = recReq[w].directive
         \/ /\ recReq'[w].directive \in Directive /\ UNCHANGED directive
            /\ directive[recReq'[w].directive].status = "executing"
<1> USE DEF TypeInv, TypeOK, RecReqTypeOK
<1>1. CASE recReq'[w] = recReq[w]
  BY <1>1
<1>2. ASSUME NEW r \in Receipt, NEW d \in Directive, NEW v \in ReceiptWorker,
             GetDirectiveForReceiptCreate(v, r, d)
      PROVE  \/ recReq'[w] = recReq[w]
             \/ /\ recReq'[w].directive = d /\ UNCHANGED directive
                /\ directive[d].status = "executing"
  BY <1>2 DEF GetDirectiveForReceiptCreate, Executing, storeVars, NoReceiptRequest
<1>3. ASSUME NEW v \in ReceiptWorker, CountReceipts(v)
      PROVE  /\ recReq[w].op = "create"
             /\ recReq'[w].directive = recReq[w].directive
  BY <1>3 DEF CountReceipts, ReceiptRequest
<1>4. ASSUME NEW v \in ReceiptWorker, FinishReceipt(v)
      PROVE  recReq'[w] = recReq[w]
  BY <1>4 DEF FinishReceipt, NoReceiptRequest
<1>5. ASSUME NEW v \in ReceiptWorker, NEW r \in Receipt
      PROVE  /\ \A e \in 1..MaxReceiptVersion :
                  GetForReceiptUpdate(v, r, e) => recReq'[w] = recReq[w]
             /\ \A to \in ReceiptStates, e \in 1..MaxReceiptVersion :
                  GetForReceiptTransition(v, r, to, e) => recReq'[w] = recReq[w]
             /\ GetForReceiptDelete(v, r) => recReq'[w] = recReq[w]
  <2>1. ASSUME NEW e \in 1..MaxReceiptVersion, GetForReceiptUpdate(v, r, e)
        PROVE  recReq'[w] = recReq[w]
    BY <2>1 DEF GetForReceiptUpdate
  <2>2. ASSUME NEW to \in ReceiptStates, NEW e \in 1..MaxReceiptVersion,
               GetForReceiptTransition(v, r, to, e)
        PROVE  recReq'[w] = recReq[w]
    BY <2>2 DEF GetForReceiptTransition
  <2>3. ASSUME GetForReceiptDelete(v, r) PROVE recReq'[w] = recReq[w]
    BY <2>3 DEF GetForReceiptDelete, NoReceiptRequest
  <2> QED
    BY <2>1, <2>2, <2>3
<1>6. ASSUME NEW v \in ReceiptWorker,
             \/ GetDirectiveForReceiptUpdate(v)
             \/ GetDirectiveForReceiptTransition(v)
             \/ GetGateForReceiptTransition(v)
      PROVE  recReq'[w] = recReq[w]
  BY <1>6 DEF GetDirectiveForReceiptUpdate, GetDirectiveForReceiptTransition,
              GetGateForReceiptTransition, ReceiptRequest
<1> QED
  BY <1>1, <1>2, <1>3, <1>4, <1>5, <1>6
  DEF Next, vars, ExecutionConfirmationNext, ExecutionConfirmationStep,
      CommitReceiptCreate, CommitReceiptUpdate, CommitReceiptCancel,
      CommitReceiptOutcome, CommitReceiptDelete, AbandonReceipt

\* The inductive invariant of the dispatch core.
THEOREM Invariant == Spec => []IInv
<1>1. Init => ApprovalsFollow
  <2> SUFFICES ASSUME Init, NEW d \in Directive
               PROVE  EvidenceOK(directive[d], approval[d])
    BY DEF ApprovalsFollow
  <2>1. directive[d] = SeedDirective[d] /\ approval[d] = SeedApproval[d]
    BY DEF Init, StoreInit
  <2>2. SeedDirective[d] \in DirectiveRow
    BY SeedIsConsistent
  <2>3. CASE SeedDirective[d] = NoDirective /\ SeedApproval[d] = NoApproval
    BY <2>1, <2>3 DEF EvidenceOK, NoDirective, NoApproval
  <2>4. CASE LET s == SeedDirective[d] IN
             /\ s.status \in {"draft", "pending", "executing"}
             /\ SeedApproval[d] =
                  [submitted |-> s.submittedBy, approved |-> s.approvedBy]
             /\ s.status = "draft" => SeedApproval[d] = NoApproval
             /\ s.status = "pending" => s.submittedBy # None /\ s.approvedBy = None
             /\ s.status = "executing" =>
                  /\ s.submittedBy # None /\ s.approvedBy # None
                  /\ s.submittedBy # s.approvedBy
    BY <2>1, <2>2, <2>4 DEF EvidenceOK, DirectiveRow
  <2> QED
    BY <2>3, <2>4, SeedIsConsistent
<1>2. TypeInv /\ TypeInv' /\ SnapshotCurrent /\ ApprovalsFollow /\ [Next]_vars
        => ApprovalsFollow'
  <2> SUFFICES ASSUME TypeInv, TypeInv', SnapshotCurrent, ApprovalsFollow,
                      [Next]_vars, NEW d \in Directive
               PROVE  EvidenceOK(directive'[d], approval'[d])
    BY DEF ApprovalsFollow
  <2>1. /\ directive[d] \in DirectiveRow /\ directive'[d] \in DirectiveRow
        /\ approval[d] \in ApprovalRow /\ approval'[d] \in ApprovalRow
        /\ directive[d] = NoDirective => approval[d] = NoApproval
    BY DEF TypeInv, TypeOK, StoreTypeOK, RowsWellFormed, NoDirective
  <2>2. EvidenceOK(directive[d], approval[d])
    BY DEF ApprovalsFollow
  <2> QED
    BY <2>1, <2>2, DirectiveMoves, MoveKeepsEvidence
<1>3. Init => CreatesBacked
  BY DEF Init, ExecutionConfirmationInit, NoReceiptRequest, CreatesBacked
<1>4. TypeInv /\ SnapshotCurrent /\ ApprovalsFollow /\ CreatesBacked /\ [Next]_vars
        => CreatesBacked'
  <2> SUFFICES ASSUME TypeInv, SnapshotCurrent, ApprovalsFollow, CreatesBacked,
                      [Next]_vars, NEW w \in ReceiptWorker,
                      recReq'[w].op = "create"
               PROVE  Released(recReq[w].directive)'
    BY DEF CreatesBacked
  <2>1. PICK d \in Directive : recReq'[w].directive = d /\ Released(d)
    <3>1. CASE /\ recReq[w].op = "create"
               /\ recReq'[w].directive = recReq[w].directive
      BY <3>1 DEF CreatesBacked, TypeInv, RequestsChecked, ReceiptRequestOK
    <3>2. CASE /\ recReq'[w].directive \in Directive
               /\ directive[recReq'[w].directive].status = "executing"
      <4>1. PICK d \in Directive : recReq'[w].directive = d
        BY <3>2
      <4>2. EvidenceOK(directive[d], approval[d])
        BY DEF ApprovalsFollow
      <4>3. /\ directive[d].submittedBy \in User /\ directive[d].approvedBy \in User
            /\ directive[d].submittedBy # directive[d].approvedBy
        BY <3>2, <4>1, <4>2 DEF EvidenceOK
      <4> QED
        BY <3>2, <4>1, <4>3 DEF Released
    <3> QED
      BY <3>1, <3>2, CreateRequests
  <2>2. Released(d)'
    BY <2>1, ReleasedStays
  <2> QED
    BY <2>1, <2>2 DEF Released
<1> QED
  BY <1>1, <1>2, <1>3, <1>4, TypeInvariant, LockIsSound, PTL DEF Spec, IInv

\* The two-person rule: whatever the interleaving, a directive that was ever
\* approved was submitted by one account and approved by another, and its
\* approval rows name the same two accounts.
THEOREM TwoPersonRule == Spec => []TwoPersonEvidence
<1>1. IInv => TwoPersonEvidence
  BY DEF IInv, ApprovalsFollow, EvidenceOK, TwoPersonEvidence
<1> QED
  BY <1>1, Invariant, PTL

\* Submissions are made of drafts, and approvals of what is pending.
LEMMA StagesBefore ==
  ASSUME NEW from, NEW to, CanTransition(OperationDirectiveTransitions, from, to)
  PROVE  /\ to = "pending" => from = "draft"
         /\ to = "approved" => from = "pending"
BY DEF CanTransition, OperationDirectiveTransitions

\* The place of an approval row is free for whoever passes the version check: the
\* row such a request overwrites is the one it read, and the approvals follow it.
THEOREM IndexNeverDecides == Spec => []ApprovalPlaceFree
<1>1. IInv => ApprovalPlaceFree
  <2> SUFFICES ASSUME IInv, NEW w \in DirectiveWorker, dirReq[w].op = "transition",
                      Updatable(directive[dirReq[w].id], dirReq[w].expect)
               PROVE  /\ dirReq[w].to = "pending" => approval[dirReq[w].id].submitted = None
                      /\ dirReq[w].to = "approved" => approval[dirReq[w].id].approved = None
    BY DEF ApprovalPlaceFree
  <2> DEFINE q == dirReq[w]
  <2>1. /\ q.id \in Directive /\ q.cur \in DirectiveRow /\ q.expect \in Nat
        /\ Found(q.cur) /\ CanTransition(OperationDirectiveTransitions, q.cur.status, q.to)
    <3>1. q \in DirectiveRequest /\ DirectiveRequestOK(q)
      BY DEF IInv, TypeInv, TypeOK, DirReqTypeOK, RequestsChecked
    <3> QED
      BY <3>1, BoundsAreNaturals DEF DirectiveRequest, DirectiveRequestOK
  <2>2. directive[q.id] \in DirectiveRow /\ Current(q.cur, q.expect, directive[q.id])
    BY <2>1 DEF IInv, TypeInv, TypeOK, StoreTypeOK, SnapshotCurrent
  <2>3. directive[q.id] = q.cur
    BY <2>1, <2>2, OverwritesDirective
  <2>4. EvidenceOK(q.cur, approval[q.id])
    BY <2>1, <2>3 DEF IInv, ApprovalsFollow
  <2> QED
    BY <2>1, <2>4, StagesBefore DEF EvidenceOK, NoApproval
<1> QED
  BY <1>1, Invariant, PTL

\* Once submitted, a directive keeps its gate, its target and its submitter, and
\* once approved its approver, whatever edits were in flight when it was.
THEOREM ContentFrozen == Spec => ApprovedContentFrozen
<1> DEFINE Frozen == \A d \in Directive :
       LET old == directive[d]  new == directive'[d] IN
       /\ old.status # "draft" =>
            /\ new.gate = old.gate /\ new.target = old.target
            /\ new.submittedBy = old.submittedBy
       /\ old.status \notin {"draft", "pending"} =>
            new.approvedBy = old.approvedBy
<1>1. IInv /\ [Next]_vars => [Frozen]_vars
  <2> SUFFICES ASSUME IInv, [Next]_vars, NEW d \in Directive,
                      directive[d].status # "draft"
               PROVE  LET old == directive[d]  new == directive'[d] IN
                      /\ new.gate = old.gate /\ new.target = old.target
                      /\ new.submittedBy = old.submittedBy
                      /\ old.status # "pending" => new.approvedBy = old.approvedBy
    OBVIOUS
  <2>1. /\ directive[d] \in DirectiveRow
        /\ DirectiveMove(directive[d], directive'[d], approval[d], approval'[d],
                         audit'[d])
    BY DirectiveMoves DEF IInv, TypeInv, TypeOK, StoreTypeOK
  <2> QED
    BY <2>1
    DEF DirectiveMove, Advanced, SoftDeleted, DirectiveRow, NoDirective,
        CanTransition, OperationDirectiveTransitions
<1> QED
  BY <1>1, Invariant, PTL DEF Spec, ApprovedContentFrozen

-----------------------------------------------------------------------------
(* Every row moves along its graph and leaves a record of the move, whichever  *)
(* of the services writes it.                                                  *)

\* What a transaction may do to a row, from old to new, and to the newest audit
\* record of its code: nothing, insert it, delete it, or write it, its state
\* following the graph; only nothing leaves no record.
Trailed(graph, old, new, before, after) ==
  \/ new = old /\ after = before
  \/ /\ Insertable(old) /\ Found(new) /\ new.status = old.status
     /\ after = Entry("", new.status)
  \/ /\ Found(old) /\ new.row = "deleted" /\ new.status = old.status
     /\ after.after = "deleted"
  \/ /\ Found(old) /\ Found(new) /\ after = Entry(old.status, new.status)
     /\ old.status # new.status =>
          /\ CanTransition(graph, old.status, new.status)
          /\ new.version = old.version + 1

\* Such a step follows the graph.
LEMMA TrailedAdvances ==
  ASSUME NEW graph, NEW old, NEW new, NEW before, NEW after,
         Trailed(graph, old, new, before, after)
  PROVE  Advance(graph, old, new, after)
BY DEF Trailed, Advance, Found

\* Such a step keeps the newest record true of its row.
LEMMA TrailedAudited ==
  ASSUME NEW graph, NEW old, NEW new, NEW before, NEW after,
         Trailed(graph, old, new, before, after), Audited(old, before),
         new.status # ""
  PROVE  Audited(new, after)
<1>1. CASE new = old /\ after = before
  BY <1>1
<1>2. ASSUME Found(new), NEW b, after = Entry(b, new.status)
      PROVE  Audited(new, after)
  <2>1. after.after = new.status
    BY <1>2 DEF Entry
  <2>2. NoEntry.after = ""
    BY DEF NoEntry
  <2> QED
    BY <1>2, <2>1, <2>2 DEF Audited, Found
<1>3. CASE new.row = "deleted" /\ after.after = "deleted"
  BY <1>3 DEF Audited
<1> QED
  BY <1>1, <1>2, <1>3 DEF Trailed

\* A gate code that was never used carries the state a gate begins in.
GatesFresh == \A g \in Gate : Insertable(gate[g]) => gate[g] = NoGate

\* A gate is written by its own service, by a directive or by an outcome.
LEMMA GateTrailed ==
  ASSUME IInv, GatesFresh, [Next]_vars, NEW g \in Gate
  PROVE  Trailed(GateUnitTransitions, gate[g], gate'[g], audit[g], audit'[g])
<1> DEFINE Goal == Trailed(GateUnitTransitions, gate[g], gate'[g], audit[g], audit'[g])
<1>1. CASE gate'[g] = gate[g] /\ audit'[g] = audit[g]
  BY <1>1 DEF Trailed
<1>2. /\ gate \in [Gate -> GateRow] /\ audit \in [Entity -> AuditEntry]
      /\ g \in Entity /\ g \notin Directive /\ g \notin Receipt
  BY CodesDistinct DEF Entity, IInv, TypeInv, TypeOK, StoreTypeOK
<1>3. ASSUME NEW h \in Gate, CreateGate(h) PROVE Goal
  <2>1. CASE h = g
    <3> DEFINE new == [row |-> "live", status |-> "open", version |-> 1]
    <3>1. Found(new) /\ new.status = "open" /\ NoGate.status = "open"
      BY DEF Found, NoGate
    <3>2. /\ Insertable(gate[g]) /\ gate[g] = NoGate
          /\ gate' = [gate EXCEPT ![g] = new]
          /\ audit' = [audit EXCEPT ![g] = Entry("", "open")]
      BY <1>3, <2>1 DEF CreateGate, GatesFresh
    <3> HIDE DEF new
    <3> QED
      BY <1>2, <3>1, <3>2 DEF Trailed
  <2> QED
    BY <1>1, <1>2, <1>3, <2>1 DEF CreateGate
<1>4. ASSUME NEW w \in GateWorker, CommitGateWrite(w) PROVE Goal
  <2> DEFINE q == gateReq[w]
             new == [q.cur EXCEPT !.status = q.to, !.version = q.expect + 1]
  <2>1. /\ q \in GateRequest /\ GateRequestOK(q) /\ q.op = "write"
        /\ Updatable(gate[q.id], q.expect)
        /\ gate' = [gate EXCEPT ![q.id] = new]
        /\ audit' = [audit EXCEPT ![q.id] = Entry(q.cur.status, q.to)]
    BY <1>4 DEF CommitGateWrite, GateReqTypeOK, RequestsChecked, IInv, TypeInv, TypeOK
  <2>2. /\ q.id \in Gate /\ q.cur \in GateRow /\ Found(q.cur) /\ q.expect \in Nat
        /\ q.to = q.cur.status
             \/ CanTransition(GateUnitTransitions, q.cur.status, q.to)
    BY <2>1, BoundsAreNaturals DEF GateRequestOK, GateRequest
  <2>3. gate[q.id] = q.cur /\ q.cur.version = q.expect
    BY <1>2, <2>1, <2>2, OverwritesGate DEF SnapshotCurrent, Updatable, IInv
  <2>4. Found(new) /\ new.status = q.to /\ new.version = q.expect + 1
    BY <2>2 DEF GateRow, Found
  <2>5. CASE g = q.id
    <3>1. gate'[g] = new /\ audit'[g] = Entry(q.cur.status, q.to)
      BY <1>2, <2>1, <2>5
    <3> QED
      BY <2>2, <2>3, <2>4, <2>5, <3>1 DEF Trailed
  <2>6. CASE g # q.id
    BY <1>1, <1>2, <2>1, <2>6
  <2> QED
    BY <2>5, <2>6
<1>5. ASSUME NEW w \in GateWorker, CommitGateDelete(w) PROVE Goal
  BY <1>1, <1>2, <1>5
  DEF CommitGateDelete, Trailed, SoftDeleted, Found, GateRow, Entry
<1>6. ASSUME NEW w \in DirectiveWorker, CommitDirectiveTransition(w) PROVE Goal
  <2> DEFINE q == dirReq[w]
             l == q.linked
             goal == GateTarget(q.cur, q.to, l)
             new == [l EXCEPT !.status = goal, !.version = l.version + 1]
  <2>1. /\ q \in DirectiveRequest /\ DirectiveRequestOK(q)
        /\ q.op = "transition" /\ q.step = "commit"
    BY <1>6
    DEF CommitDirectiveTransition, DirReqTypeOK, RequestsChecked, IInv, TypeInv, TypeOK
  <2>2. q.id # g
    BY <1>2, <2>1 DEF DirectiveRequestOK
  <2>3. CASE ~WritesGate(q.cur, q.to, l) \/ g # q.cur.gate
    <3>1. CASE ~WritesGate(q.cur, q.to, l)
      BY <1>1, <1>2, <1>6, <2>2, <3>1 DEF CommitDirectiveTransition
    <3>2. CASE WritesGate(q.cur, q.to, l) /\ g # q.cur.gate
      <4>1. /\ gate' = [gate EXCEPT ![q.cur.gate] = new]
            /\ audit' = [[audit EXCEPT ![q.id] = Entry(q.cur.status, q.to)]
                 EXCEPT ![q.cur.gate] = Entry(l.status, goal)]
        BY <1>6, <3>2 DEF CommitDirectiveTransition
      <4> HIDE DEF new
      <4> QED
        BY <1>1, <1>2, <2>2, <3>2, <4>1
    <3> QED
      BY <2>3, <3>1, <3>2
  <2>4. CASE WritesGate(q.cur, q.to, l) /\ g = q.cur.gate
    <3>1. /\ Updatable(gate[g], l.version)
          /\ gate' = [gate EXCEPT ![g] = new]
          /\ audit'[g] = Entry(l.status, goal)
      BY <1>2, <1>6, <2>4 DEF CommitDirectiveTransition
    <3>2. /\ l \in GateRow /\ Found(l) /\ l # NoGate
          /\ CanTransition(GateUnitTransitions, l.status, goal)
      <4>1. /\ l \in GateRow /\ Found(l)
            /\ CanTransition(GateUnitTransitions, l.status, goal)
        BY <2>1, <2>4 DEF DirectiveRequestOK, DirectiveRequest, WritesGate
      <4> QED
        BY <4>1 DEF Found, NoGate
    <3>3. Current(l, 0, gate[g]) /\ 0 \in Nat
      BY <2>4, <3>2 DEF SnapshotCurrent, IInv
    <3>4. gate[g] = l
      BY <1>2, <3>1, <3>2, <3>3, OverwritesGate
    <3>5. gate'[g] = new /\ Found(new) /\ new.status = goal
          /\ new.version = l.version + 1
      BY <1>2, <3>1, <3>2 DEF GateRow, Found
    <3> QED
      BY <3>1, <3>2, <3>4, <3>5 DEF Trailed
  <2> QED
    BY <2>3, <2>4
<1>7. ASSUME NEW w \in ReceiptWorker, CommitReceiptOutcome(w) PROVE Goal
  <2> DEFINE q == recReq[w]
             l == q.linked
             goal == GateOutcome(q.to, q.dir)
             new == [l EXCEPT !.status = goal, !.version = l.version + 1]
  <2>1. /\ q \in ReceiptRequest /\ ReceiptRequestOK(q)
        /\ q.op = "transition" /\ q.step = "commit" /\ q.cur.status = "pending"
    BY <1>7
    DEF CommitReceiptOutcome, RecReqTypeOK, RequestsChecked, IInv, TypeInv, TypeOK
  <2>2. q.id # g /\ q.cur.directive # g
    BY <1>2, <2>1 DEF ReceiptRequestOK
  <2>3. CASE l.status = goal \/ g # q.dir.gate
    <3>1. CASE l.status = goal
      BY <1>1, <1>2, <1>7, <2>2, <3>1 DEF CommitReceiptOutcome
    <3>2. CASE l.status # goal /\ g # q.dir.gate
      <4>1. /\ gate' = [gate EXCEPT ![q.dir.gate] = new]
            /\ audit' = [[audit EXCEPT
                 ![q.id] = Entry(q.cur.status, q.to),
                 ![q.cur.directive] = Entry(q.dir.status, DirectiveOutcome(q.to))]
                   EXCEPT ![q.dir.gate] = Entry(l.status, goal)]
        BY <1>7, <3>2 DEF CommitReceiptOutcome
      <4> HIDE DEF new
      <4> QED
        BY <1>1, <1>2, <2>2, <3>2, <4>1
    <3> QED
      BY <2>3, <3>1, <3>2
  <2>4. CASE l.status # goal /\ g = q.dir.gate
    <3>1. /\ Updatable(gate[g], l.version)
          /\ gate' = [gate EXCEPT ![g] = new]
          /\ audit'[g] = Entry(l.status, goal)
      BY <1>2, <1>7, <2>4 DEF CommitReceiptOutcome
    <3>2. /\ l \in GateRow /\ Found(l) /\ l # NoGate
          /\ CanTransition(GateUnitTransitions, l.status, goal)
      BY <2>1, <2>4 DEF ReceiptRequestOK, ReceiptRequest, Found, NoGate
    <3>3. Current(l, 0, gate[g]) /\ 0 \in Nat
      BY <2>4, <3>2 DEF SnapshotCurrent, IInv
    <3>4. gate[g] = l
      BY <1>2, <3>1, <3>2, <3>3, OverwritesGate
    <3>5. gate'[g] = new /\ Found(new) /\ new.status = goal
          /\ new.version = l.version + 1
      BY <1>2, <3>1, <3>2 DEF GateRow, Found
    <3> QED
      BY <3>1, <3>2, <3>4, <3>5 DEF Trailed
  <2> QED
    BY <2>3, <2>4
<1>8. ASSUME NEW w \in DirectiveWorker,
             \/ CommitDirectiveCreate(w) \/ CommitDirectiveUpdate(w)
             \/ CommitDirectiveDelete(w)
      PROVE  Goal
  <2>1. dirReq[w].id \in Directive
    BY <1>8
    DEF CommitDirectiveCreate, CommitDirectiveUpdate, CommitDirectiveDelete,
        RequestsChecked, DirectiveRequestOK, IInv, TypeInv
  <2> QED
    BY <1>1, <1>2, <1>8, <2>1
    DEF CommitDirectiveCreate, CommitDirectiveUpdate, CommitDirectiveDelete
<1>9. ASSUME NEW w \in ReceiptWorker,
             \/ CommitReceiptCreate(w) \/ CommitReceiptUpdate(w)
             \/ CommitReceiptCancel(w) \/ CommitReceiptDelete(w)
      PROVE  Goal
  <2>1. recReq[w].id \in Receipt
    BY <1>9
    DEF CommitReceiptCreate, CommitReceiptUpdate, CommitReceiptCancel,
        CommitReceiptDelete, RequestsChecked, ReceiptRequestOK, IInv, TypeInv
  <2> QED
    BY <1>1, <1>2, <1>9, <2>1
    DEF CommitReceiptCreate, CommitReceiptUpdate, CommitReceiptCancel,
        CommitReceiptDelete
<1> QED
  BY <1>1, <1>3, <1>4, <1>5, <1>6, <1>7, <1>8, <1>9, OnlyCommitsWrite
  DEF Commits, storeVars

\* A directive is written by its own service or by an outcome.
LEMMA DirectiveTrailed ==
  ASSUME IInv, [Next]_vars, NEW d \in Directive
  PROVE  Trailed(OperationDirectiveTransitions, directive[d], directive'[d],
                 audit[d], audit'[d])
<1> DEFINE Goal == Trailed(OperationDirectiveTransitions, directive[d], directive'[d],
                           audit[d], audit'[d])
<1>1. CASE directive'[d] = directive[d] /\ audit'[d] = audit[d]
  BY <1>1 DEF Trailed
<1>2. /\ directive \in [Directive -> DirectiveRow] /\ audit \in [Entity -> AuditEntry]
      /\ d \in Entity /\ d \notin Gate /\ d \notin Receipt
  BY CodesDistinct DEF Entity, IInv, TypeInv, TypeOK, StoreTypeOK
<1>3. ASSUME NEW w \in DirectiveWorker, CommitDirectiveCreate(w) PROVE Goal
  <2> DEFINE q == dirReq[w]
             new == [NoDirective EXCEPT !.row = "live", !.version = 1,
                                        !.gate = q.gate, !.target = q.target]
  <2>1. /\ Insertable(directive[q.id])
        /\ directive' = [directive EXCEPT ![q.id] = new]
        /\ audit' = [audit EXCEPT ![q.id] = Entry("", "draft")]
    BY <1>3 DEF CommitDirectiveCreate
  <2>2. Found(new) /\ new.status = "draft" /\ NoDirective.status = "draft"
    BY DEF Found, NoDirective
  <2> HIDE DEF new
  <2>3. CASE d = q.id
    <3>1. directive[d] = NoDirective
      BY <2>1, <2>3 DEF Insertable, IInv, TypeInv, RowsWellFormed
    <3> QED
      BY <1>2, <2>1, <2>2, <2>3, <3>1 DEF Trailed
  <2> QED
    BY <1>1, <1>2, <2>1, <2>3
<1>4. ASSUME NEW w \in DirectiveWorker, CommitDirectiveUpdate(w) PROVE Goal
  <2> DEFINE q == dirReq[w]
             new == [q.cur EXCEPT !.gate = q.gate, !.target = q.target,
                                  !.version = q.expect + 1]
  <2>1. /\ q \in DirectiveRequest /\ DirectiveRequestOK(q) /\ q.op = "update"
        /\ Updatable(directive[q.id], q.expect)
        /\ directive' = [directive EXCEPT ![q.id] = new]
        /\ audit' = [audit EXCEPT ![q.id] = Entry(q.cur.status, q.cur.status)]
    BY <1>4
    DEF CommitDirectiveUpdate, DirReqTypeOK, RequestsChecked, IInv, TypeInv, TypeOK
  <2>2. q.id \in Directive /\ q.cur \in DirectiveRow /\ Found(q.cur) /\ q.expect \in Nat
    BY <2>1, BoundsAreNaturals DEF DirectiveRequestOK, DirectiveRequest
  <2>3. directive[q.id] = q.cur
    BY <1>2, <2>1, <2>2, OverwritesDirective DEF SnapshotCurrent, IInv
  <2>4. Found(new) /\ new.status = q.cur.status
    BY <2>2 DEF DirectiveRow, Found
  <2> HIDE DEF new
  <2> QED
    BY <1>1, <1>2, <2>1, <2>2, <2>3, <2>4 DEF Trailed
<1>5. ASSUME NEW w \in DirectiveWorker, CommitDirectiveDelete(w) PROVE Goal
  BY <1>1, <1>2, <1>5
  DEF CommitDirectiveDelete, Trailed, SoftDeleted, Found, DirectiveRow, Entry
<1>6. ASSUME NEW to, directive'[d].row = "live", Found(directive[d]),
             directive'[d].status = to,
             directive'[d].version = directive[d].version + 1,
             CanTransition(OperationDirectiveTransitions, directive[d].status, to),
             audit'[d] = Entry(directive[d].status, to)
      PROVE  Goal
  BY <1>6 DEF Trailed, Found
<1>7. ASSUME NEW w \in DirectiveWorker, CommitDirectiveTransition(w) PROVE Goal
  <2> DEFINE q == dirReq[w]
             goal == GateTarget(q.cur, q.to, q.linked)
             new == [q.cur EXCEPT !.status = q.to, !.version = q.expect + 1,
               !.submittedBy = IF q.to = "pending" THEN q.by ELSE q.cur.submittedBy,
               !.approvedBy = IF q.to = "approved" THEN q.by ELSE q.cur.approvedBy]
             trail == [audit EXCEPT ![q.id] = Entry(q.cur.status, q.to)]
  <2>1. /\ q \in DirectiveRequest /\ DirectiveRequestOK(q)
        /\ q.op = "transition" /\ q.step = "commit"
        /\ Updatable(directive[q.id], q.expect)
        /\ directive' = [directive EXCEPT ![q.id] = new]
        /\ \/ audit' = trail
           \/ audit' = [trail EXCEPT ![q.cur.gate] = Entry(q.linked.status, goal)]
    BY <1>7
    DEF CommitDirectiveTransition, DirReqTypeOK, RequestsChecked, IInv, TypeInv, TypeOK
  <2>2. /\ q.id \in Directive /\ q.cur \in DirectiveRow /\ Found(q.cur)
        /\ q.expect \in Nat /\ q.cur.gate \in Gate
        /\ CanTransition(OperationDirectiveTransitions, q.cur.status, q.to)
    BY <2>1, BoundsAreNaturals DEF DirectiveRequestOK, DirectiveRequest
  <2>3. directive[q.id] = q.cur /\ q.cur.version = q.expect
    BY <1>2, <2>1, <2>2, OverwritesDirective DEF SnapshotCurrent, IInv, Updatable
  <2>4. new.row = "live" /\ new.status = q.to /\ new.version = q.expect + 1
    BY <2>2 DEF DirectiveRow, Found
  <2> HIDE DEF new, goal
  <2>5. CASE d = q.id
    <3>1. q.cur.gate # d
      BY <1>2, <2>2
    <3>2. directive'[d] = new /\ audit'[d] = Entry(q.cur.status, q.to)
      BY <1>2, <2>1, <2>5, <3>1
    <3> QED
      BY <1>6, <2>2, <2>3, <2>4, <2>5, <3>2
  <2>6. CASE d # q.id
    BY <1>1, <1>2, <2>1, <2>2, <2>6
  <2> QED
    BY <2>5, <2>6
<1>8. ASSUME NEW w \in ReceiptWorker, CommitReceiptOutcome(w) PROVE Goal
  <2> DEFINE q == recReq[w]
             c == q.cur.directive
             after == DirectiveOutcome(q.to)
             goal == GateOutcome(q.to, q.dir)
             new == [q.dir EXCEPT !.status = after, !.version = q.dir.version + 1]
             trail == [audit EXCEPT ![q.id] = Entry(q.cur.status, q.to),
                                    ![c] = Entry(q.dir.status, after)]
  <2>1. /\ q \in ReceiptRequest /\ ReceiptRequestOK(q)
        /\ q.op = "transition" /\ q.step = "commit" /\ q.cur.status = "pending"
        /\ Updatable(directive[c], q.dir.version)
        /\ directive' = [directive EXCEPT ![c] = new]
        /\ \/ audit' = trail
           \/ audit' = [trail EXCEPT ![q.dir.gate] = Entry(q.linked.status, goal)]
    BY <1>8
    DEF CommitReceiptOutcome, RecReqTypeOK, RequestsChecked, IInv, TypeInv, TypeOK
  <2>2. /\ q.id \in Receipt /\ c \in Directive /\ q.dir \in DirectiveRow
        /\ Found(q.dir) /\ q.dir.status = "executing" /\ q.dir.gate \in Gate
        /\ CanTransition(OperationDirectiveTransitions, q.dir.status, after)
    BY <2>1
    DEF ReceiptRequestOK, ReceiptRequest, Executing, DirectiveOutcome, CanTransition,
        OperationDirectiveTransitions
  <2>3. Current(q.dir, 0, directive[c]) /\ 0 \in Nat
    BY <2>2 DEF SnapshotCurrent, IInv, Found, NoDirective
  <2>4. directive[c] = q.dir
    BY <1>2, <2>1, <2>2, <2>3, OverwritesDirective
  <2>5. new.row = "live" /\ new.status = after /\ new.version = q.dir.version + 1
    BY <2>2 DEF DirectiveRow, Found
  <2> HIDE DEF new, goal, after
  <2>6. CASE d = c
    <3>1. q.dir.gate # d /\ q.id # d
      BY <1>2, <2>2
    <3>2. directive'[d] = new /\ audit'[d] = Entry(q.dir.status, after)
      BY <1>2, <2>1, <2>6, <3>1
    <3> QED
      BY <1>6, <2>2, <2>4, <2>5, <2>6, <3>2
  <2>7. CASE d # c
    BY <1>1, <1>2, <2>1, <2>2, <2>7
  <2> QED
    BY <2>6, <2>7
<1>9. ASSUME NEW w \in GateWorker, CommitGateWrite(w) \/ CommitGateDelete(w)
      PROVE  Goal
  <2>1. gateReq[w].id \in Gate
    BY <1>9
    DEF CommitGateWrite, CommitGateDelete, RequestsChecked, GateRequestOK, IInv, TypeInv
  <2> QED
    BY <1>1, <1>2, <1>9, <2>1 DEF CommitGateWrite, CommitGateDelete
<1>10. ASSUME NEW w \in ReceiptWorker,
              \/ CommitReceiptCreate(w) \/ CommitReceiptUpdate(w)
              \/ CommitReceiptCancel(w) \/ CommitReceiptDelete(w)
       PROVE  Goal
  <2>1. recReq[w].id \in Receipt
    BY <1>10
    DEF CommitReceiptCreate, CommitReceiptUpdate, CommitReceiptCancel,
        CommitReceiptDelete, RequestsChecked, ReceiptRequestOK, IInv, TypeInv
  <2> QED
    BY <1>1, <1>2, <1>10, <2>1
    DEF CommitReceiptCreate, CommitReceiptUpdate, CommitReceiptCancel,
        CommitReceiptDelete
<1>11. ASSUME NEW g \in Gate, CreateGate(g) PROVE Goal
  BY <1>1, <1>2, <1>11 DEF CreateGate
<1> QED
  BY <1>1, <1>3, <1>4, <1>5, <1>7, <1>8, <1>9, <1>10, <1>11, OnlyCommitsWrite
  DEF Commits, storeVars

\* A receipt is written by its own service alone.
LEMMA ReceiptTrailed ==
  ASSUME IInv, [Next]_vars, NEW r \in Receipt
  PROVE  Trailed(ExecutionConfirmationTransitions, receipt[r], receipt'[r],
                 audit[r], audit'[r])
<1> DEFINE Goal == Trailed(ExecutionConfirmationTransitions, receipt[r], receipt'[r],
                           audit[r], audit'[r])
<1>1. CASE receipt'[r] = receipt[r] /\ audit'[r] = audit[r]
  BY <1>1 DEF Trailed
<1>2. /\ receipt \in [Receipt -> ReceiptRow] /\ audit \in [Entity -> AuditEntry]
      /\ r \in Entity /\ r \notin Gate /\ r \notin Directive
  BY CodesDistinct DEF Entity, IInv, TypeInv, TypeOK, StoreTypeOK
<1>3. ASSUME NEW w \in ReceiptWorker, CommitReceiptCreate(w) PROVE Goal
  <2> DEFINE q == recReq[w]
             new == [row |-> "live", status |-> "pending", version |-> 1,
                     directive |-> q.directive]
  <2>1. /\ Insertable(receipt[q.id])
        /\ receipt' = [receipt EXCEPT ![q.id] = new]
        /\ audit' = [audit EXCEPT ![q.id] = Entry("", "pending")]
    BY <1>3 DEF CommitReceiptCreate
  <2>2. Found(new) /\ new.status = "pending" /\ NoReceipt.status = "pending"
    BY DEF Found, NoReceipt
  <2> HIDE DEF new
  <2>3. CASE r = q.id
    <3>1. receipt[r] = NoReceipt
      BY <2>1, <2>3 DEF Insertable, IInv, TypeInv, RowsWellFormed
    <3> QED
      BY <1>2, <2>1, <2>2, <2>3, <3>1 DEF Trailed
  <2> QED
    BY <1>1, <1>2, <2>1, <2>3
<1>4. ASSUME NEW w \in ReceiptWorker, CommitReceiptUpdate(w) PROVE Goal
  <2> DEFINE q == recReq[w]
             new == [q.cur EXCEPT !.version = q.expect + 1]
  <2>1. /\ q \in ReceiptRequest /\ ReceiptRequestOK(q) /\ q.op = "update"
        /\ Updatable(receipt[q.id], q.expect)
        /\ receipt' = [receipt EXCEPT ![q.id] = new]
        /\ audit' = [audit EXCEPT ![q.id] = Entry(q.cur.status, q.cur.status)]
    BY <1>4
    DEF CommitReceiptUpdate, RecReqTypeOK, RequestsChecked, IInv, TypeInv, TypeOK
  <2>2. q.id \in Receipt /\ q.cur \in ReceiptRow /\ Found(q.cur) /\ q.expect \in Nat
    BY <2>1, BoundsAreNaturals DEF ReceiptRequestOK, ReceiptRequest
  <2>3. receipt[q.id] = q.cur
    BY <1>2, <2>1, <2>2, OverwritesReceipt DEF SnapshotCurrent, IInv
  <2>4. Found(new) /\ new.status = q.cur.status
    BY <2>2 DEF ReceiptRow, Found
  <2> HIDE DEF new
  <2> QED
    BY <1>1, <1>2, <2>1, <2>2, <2>3, <2>4 DEF Trailed
<1>5. ASSUME NEW w \in ReceiptWorker, CommitReceiptDelete(w) PROVE Goal
  BY <1>1, <1>2, <1>5
  DEF CommitReceiptDelete, Trailed, SoftDeleted, Found, ReceiptRow, Entry
<1>6. ASSUME NEW w \in ReceiptWorker, CommitReceiptCancel(w) \/ CommitReceiptOutcome(w)
      PROVE  Goal
  <2> DEFINE q == recReq[w]
             c == q.cur.directive
             g == q.dir.gate
             new == [q.cur EXCEPT !.status = q.to, !.version = q.expect + 1]
             trail == [audit EXCEPT ![q.id] = Entry(q.cur.status, q.to)]
  <2>1. /\ q \in ReceiptRequest /\ ReceiptRequestOK(q) /\ q.op = "transition"
        /\ Updatable(receipt[q.id], q.expect)
        /\ receipt' = [receipt EXCEPT ![q.id] = new]
    BY <1>6
    DEF CommitReceiptCancel, CommitReceiptOutcome, RecReqTypeOK, RequestsChecked,
        IInv, TypeInv, TypeOK
  <2>2. /\ q.id \in Receipt /\ q.cur \in ReceiptRow /\ Found(q.cur) /\ q.expect \in Nat
        /\ CanTransition(ExecutionConfirmationTransitions, q.cur.status, q.to)
    BY <2>1, BoundsAreNaturals DEF ReceiptRequestOK, ReceiptRequest
  <2>3. receipt[q.id] = q.cur /\ q.cur.version = q.expect
    BY <1>2, <2>1, <2>2, OverwritesReceipt DEF SnapshotCurrent, IInv, Updatable
  <2>4. new.row = "live" /\ new.status = q.to /\ new.version = q.expect + 1
    BY <2>2 DEF ReceiptRow, Found
  <2>5. audit'[r] = trail[r]
    <3>1. CASE CommitReceiptCancel(w)
      BY <3>1 DEF CommitReceiptCancel
    <3>2. CASE CommitReceiptOutcome(w)
      <4>1. c # r /\ g # r
        BY <1>2, <2>1, <3>2 DEF CommitReceiptOutcome, ReceiptRequestOK
      <4>2. \E a, b :
              \/ audit' = [trail EXCEPT ![c] = a]
              \/ audit' = [[trail EXCEPT ![c] = a] EXCEPT ![g] = b]
        BY <3>2 DEF CommitReceiptOutcome
      <4> QED
        BY <1>2, <4>1, <4>2
    <3> QED
      BY <1>6, <3>1, <3>2
  <2> HIDE DEF new
  <2>6. CASE r = q.id
    <3>1. receipt'[r] = new /\ audit'[r] = Entry(q.cur.status, q.to)
      BY <1>2, <2>1, <2>5, <2>6
    <3> QED
      BY <2>2, <2>3, <2>4, <2>6, <3>1 DEF Trailed, Found
  <2>7. CASE r # q.id
    BY <1>1, <1>2, <2>1, <2>5, <2>7
  <2> QED
    BY <2>6, <2>7
<1>7. ASSUME NEW w \in GateWorker, CommitGateWrite(w) \/ CommitGateDelete(w)
      PROVE  Goal
  <2>1. gateReq[w].id \in Gate
    BY <1>7
    DEF CommitGateWrite, CommitGateDelete, RequestsChecked, GateRequestOK, IInv, TypeInv
  <2> QED
    BY <1>1, <1>2, <1>7, <2>1 DEF CommitGateWrite, CommitGateDelete
<1>8. ASSUME NEW w \in DirectiveWorker,
             \/ CommitDirectiveCreate(w) \/ CommitDirectiveUpdate(w)
             \/ CommitDirectiveDelete(w)
      PROVE  Goal
  <2>1. dirReq[w].id \in Directive
    BY <1>8
    DEF CommitDirectiveCreate, CommitDirectiveUpdate, CommitDirectiveDelete,
        RequestsChecked, DirectiveRequestOK, IInv, TypeInv
  <2> QED
    BY <1>1, <1>2, <1>8, <2>1
    DEF CommitDirectiveCreate, CommitDirectiveUpdate, CommitDirectiveDelete
<1>9. ASSUME NEW w \in DirectiveWorker, CommitDirectiveTransition(w) PROVE Goal
  <2> DEFINE q == dirReq[w]
             trail == [audit EXCEPT ![q.id] = Entry(q.cur.status, q.to)]
  <2>1. q.id # r /\ q.cur.gate # r
    BY <1>2, <1>9
    DEF CommitDirectiveTransition, RequestsChecked, DirectiveRequestOK, IInv, TypeInv
  <2>2. /\ receipt' = receipt
        /\ audit' = trail \/ \E b : audit' = [trail EXCEPT ![q.cur.gate] = b]
    BY <1>9 DEF CommitDirectiveTransition
  <2> QED
    BY <1>1, <1>2, <2>1, <2>2
<1>10. ASSUME NEW g \in Gate, CreateGate(g) PROVE Goal
  BY <1>1, <1>2, <1>10 DEF CreateGate
<1> QED
  BY <1>1, <1>3, <1>4, <1>5, <1>6, <1>7, <1>8, <1>9, <1>10, OnlyCommitsWrite
  DEF Commits, storeVars

-----------------------------------------------------------------------------
\* A gate code stays fresh until it is used.
LEMMA GatesStayFresh == Spec => []GatesFresh
<1>1. Init => GatesFresh
  BY SeedIsConsistent DEF Init, StoreInit, GatesFresh, Insertable
<1>2. IInv /\ GatesFresh /\ [Next]_vars => GatesFresh'
  <2> SUFFICES ASSUME IInv, GatesFresh, [Next]_vars, NEW g \in Gate,
                      Insertable(gate'[g])
               PROVE  gate'[g] = NoGate
    BY DEF GatesFresh
  <2>1. Trailed(GateUnitTransitions, gate[g], gate'[g], audit[g], audit'[g])
    BY GateTrailed
  <2> QED
    BY <2>1 DEF Trailed, Insertable, Found, GatesFresh
<1> QED
  BY <1>1, <1>2, Invariant, PTL DEF Spec

\* Whichever service writes a row, and whatever it had read, the row changes its
\* state only along its graph, by one version and with a record naming both states.
THEOREM GraphsFollowed == Spec => StatusFollowsGraph
<1> DEFINE Follows ==
      /\ \A g \in Gate :
           Advance(GateUnitTransitions, gate[g], gate'[g], audit'[g])
      /\ \A d \in Directive :
           Advance(OperationDirectiveTransitions, directive[d], directive'[d], audit'[d])
      /\ \A r \in Receipt :
           Advance(ExecutionConfirmationTransitions, receipt[r], receipt'[r], audit'[r])
<1>1. IInv /\ GatesFresh /\ [Next]_vars => [Follows]_vars
  BY GateTrailed, DirectiveTrailed, ReceiptTrailed, TrailedAdvances
<1> QED
  BY <1>1, Invariant, GatesStayFresh, PTL DEF Spec, StatusFollowsGraph

\* The audit log explains every row: whatever state it is in, the newest record of
\* its code names that state, or its deletion.
THEOREM TrailComplete == Spec => []AuditMatchesRow
<1>1. Init => AuditMatchesRow
  BY SeedIsConsistent
  DEF Init, StoreInit, AuditMatchesRow, Audited, NoGate, NoDirective, NoReceipt, Entity
<1>2. IInv /\ IInv' /\ GatesFresh /\ AuditMatchesRow /\ [Next]_vars => AuditMatchesRow'
  <2> SUFFICES ASSUME IInv, IInv', GatesFresh, AuditMatchesRow, [Next]_vars
               PROVE  AuditMatchesRow'
    OBVIOUS
  <2>1. /\ \A g \in Gate : gate'[g].status # ""
        /\ \A d \in Directive : directive'[d].status # ""
        /\ \A r \in Receipt : receipt'[r].status # ""
    BY DEF IInv, TypeInv, TypeOK, StoreTypeOK, GateRow, DirectiveRow, ReceiptRow,
           GateStates, DirectiveStates, ReceiptStates
  <2>2. ASSUME NEW g \in Gate PROVE Audited(gate'[g], audit'[g])
    BY <2>1, GateTrailed, TrailedAudited DEF AuditMatchesRow
  <2>3. ASSUME NEW d \in Directive PROVE Audited(directive'[d], audit'[d])
    BY <2>1, DirectiveTrailed, TrailedAudited DEF AuditMatchesRow
  <2>4. ASSUME NEW r \in Receipt PROVE Audited(receipt'[r], audit'[r])
    BY <2>1, ReceiptTrailed, TrailedAudited DEF AuditMatchesRow
  <2> QED
    BY <2>2, <2>3, <2>4 DEF AuditMatchesRow
<1> QED
  BY <1>1, <1>2, Invariant, GatesStayFresh, PTL DEF Spec
=============================================================================
