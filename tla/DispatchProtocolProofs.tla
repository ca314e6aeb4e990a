----------------------- MODULE DispatchProtocolProofs -----------------------
(* What the abstract dispatch keeps: the outcome told by the receipts and by  *)
(* the directives is the same, and every receipt has two persons behind it.   *)
EXTENDS DispatchProtocol, TLAPS

\* Records are typed, and one that was never used carries no data.
Shape ==
  /\ directives \in [Directive -> DirectiveRecord]
  /\ receipts \in [Receipt -> ReceiptRecord]
  /\ \A d \in Directive : Fresh(directives[d]) => directives[d].status = "draft"
  /\ \A r \in Receipt :
       IF Fresh(receipts[r])
       THEN receipts[r].status = "pending" /\ receipts[r].directive = None
       ELSE receipts[r].directive \in Directive

Inv == Shape /\ Agreement /\ Backing

\* A step that leaves the receipts alone and each directive as it is, or moves it
\* on without a receipt having a say, keeps the invariant.
DirectiveAlone(d) ==
  /\ UNCHANGED receipts
  /\ directives' = [directives EXCEPT ![d] = directives'[d]]
  /\ directives'[d] \in DirectiveRecord /\ ~Fresh(directives'[d])
  /\ directives[d].status # "completed" => directives'[d].status # "completed"
  /\ directives[d].status \in {"completed", "aborted"} =>
       directives'[d].status = directives[d].status
  /\ Released(d) => Released(d)'

\* The same for a receipt that comes into being, is withdrawn or is deleted.
ReceiptAlone(r) ==
  /\ UNCHANGED directives
  /\ receipts' = [receipts EXCEPT ![r] = receipts'[r]]
  /\ receipts'[r] \in ReceiptRecord /\ ~Fresh(receipts'[r])
  /\ \/ receipts'[r].directive = receipts[r].directive /\ ~Fresh(receipts[r])
     \/ /\ \A s \in Receipt : receipts[s].directive # receipts'[r].directive
        /\ receipts'[r].directive \in Directive /\ Fresh(receipts[r])
        /\ Released(receipts'[r].directive) /\ receipts'[r].status = "pending"
  /\ receipts[r].status = "confirmed" <=> receipts'[r].status = "confirmed"
  /\ receipts'[r].status \in {"failed", "cancelled"} =>
       receipts[r].status \in {"failed", "cancelled"}

\* A directive that moves alone keeps the invariant.
LEMMA DirectiveAloneKeeps ==
  ASSUME None \notin Directive, Inv, NEW d \in Directive, DirectiveAlone(d)
  PROVE  Inv'
<1> USE DEF Inv, DirectiveAlone
<1>1. Shape'
  BY DEF Shape, DirectiveRecord, ReceiptRecord
<1>2. Agreement'
  BY DEF Agreement, Shape, ReceiptRecord
<1>3. Backing'
  BY DEF Backing, Shape, Released
<1> QED
  BY <1>1, <1>2, <1>3

\* A receipt that moves alone keeps the invariant.
LEMMA ReceiptAloneKeeps ==
  ASSUME None \notin Directive, Inv, NEW r \in Receipt, ReceiptAlone(r)
  PROVE  Inv'
<1> USE DEF Inv, ReceiptAlone
<1>1. Shape'
  BY DEF Shape, ReceiptRecord, Fresh
<1>2. Agreement'
  BY DEF Agreement, Shape, ReceiptRecord
<1>3. Backing'
  BY DEF Backing, Shape, Released
<1> QED
  BY <1>1, <1>2, <1>3

\* An outcome moves the one receipt of a directive and the directive together.
LEMMA SettleKeeps ==
  ASSUME None \notin Directive, Inv, NEW r \in Receipt, NEW to, NEW after,
         Settle(r, to, after)
  PROVE  Inv'
<1> DEFINE d == receipts[r].directive
<1> USE DEF Inv, Live, Fresh
<1>1. /\ d \in Directive /\ directives[d].status = "executing"
      /\ receipts[r].status = "pending" /\ receipts[r].row = "live"
      /\ receipts' = [receipts EXCEPT ![r].status = to]
      /\ directives' = [directives EXCEPT ![d].status = after]
      /\ \/ to = "confirmed" /\ after = "completed"
         \/ to = "failed" /\ after = "aborted"
  BY DEF Settle, Shape
<1>2. \A s \in Receipt : s # r => receipts[s].directive # d
  BY <1>1 DEF Agreement
<1>3. Shape'
  <2>1. receipts' \in [Receipt -> ReceiptRecord]
    BY <1>1 DEF Shape, ReceiptRecord, ReceiptStates
  <2>2. directives' \in [Directive -> DirectiveRecord]
    BY <1>1 DEF Shape, DirectiveRecord, DirectiveStates
  <2>3. directives'[d].row = directives[d].row /\ directives[d].row = "live"
    BY <1>1 DEF Settle, Shape, DirectiveRecord
  <2> QED
    BY <1>1, <2>1, <2>2, <2>3 DEF Shape, ReceiptRecord
<1>4. /\ \A s \in Receipt : s # r => receipts'[s] = receipts[s]
      /\ receipts'[r].status = to /\ receipts'[r].row = "live"
      /\ receipts'[r].directive = d
  BY <1>1 DEF Shape, ReceiptRecord
<1>5. /\ \A c \in Directive : c # d => directives'[c] = directives[c]
      /\ directives'[d].status = after
      /\ directives'[d].submittedBy = directives[d].submittedBy
      /\ directives'[d].approvedBy = directives[d].approvedBy
  BY <1>1 DEF Shape, DirectiveRecord
<1>6. Agreement'
  <2>1. \A c \in Directive :
          directives'[c].status = "completed" <=>
            \E s \in Receipt :
              receipts'[s].directive = c /\ receipts'[s].status = "confirmed"
    <3> SUFFICES ASSUME NEW c \in Directive
                 PROVE  directives'[c].status = "completed" <=>
                          \E s \in Receipt : /\ receipts'[s].directive = c
                                            /\ receipts'[s].status = "confirmed"
      OBVIOUS
    <3>1. CASE c = d
      BY <1>1, <1>2, <1>4, <1>5, <3>1
    <3>2. CASE c # d
      BY <1>1, <1>4, <1>5, <3>2 DEF Agreement
    <3> QED
      BY <3>1, <3>2
  <2>2. \A s \in Receipt : receipts'[s].status \in {"failed", "cancelled"} =>
          directives'[receipts'[s].directive].status = "aborted"
    <3> SUFFICES ASSUME NEW s \in Receipt,
                        receipts'[s].status \in {"failed", "cancelled"}
                 PROVE  directives'[receipts'[s].directive].status = "aborted"
      OBVIOUS
    <3>1. CASE s = r
      BY <1>1, <1>4, <1>5, <3>1
    <3>2. CASE s # r
      <4>1. receipts[s].status \in {"failed", "cancelled"}
        BY <1>4, <3>2
      <4>2. receipts[s].directive \in Directive
        BY <4>1 DEF Shape
      <4>3. PICK c \in Directive : c = receipts[s].directive
        BY <4>2
      <4>4. directives[c].status = "aborted" /\ c # d
        BY <1>2, <3>2, <4>1, <4>3 DEF Agreement
      <4>5. directives'[c].status = "aborted" /\ receipts'[s].directive = c
        BY <1>4, <1>5, <3>2, <4>3, <4>4
      <4> QED
        BY <4>5
    <3> QED
      BY <3>1, <3>2
  <2>3. \A s, t \in Receipt :
          receipts'[s].directive = receipts'[t].directive /\ ~Fresh(receipts'[s])
            => s = t
    BY <1>1, <1>4 DEF Agreement
  <2> QED
    BY <2>1, <2>2, <2>3 DEF Agreement
<1>7. Backing'
  <2> SUFFICES ASSUME NEW s \in Receipt, ~Fresh(receipts'[s])
               PROVE  Released(receipts[s].directive)'
    BY DEF Backing
  <2>1. ~Fresh(receipts[s]) /\ receipts'[s].directive = receipts[s].directive
    BY <1>1, <1>4
  <2>2. PICK c \in Directive : c = receipts[s].directive
    BY <2>1 DEF Shape
  <2> QED
    BY <1>1, <1>5, <2>1, <2>2 DEF Backing, Released
<1> QED
  BY <1>3, <1>6, <1>7

\* Every step keeps the invariant.
LEMMA StepKeeps ==
  ASSUME None \notin Directive, Inv, [Next]_records
  PROVE  Inv'
<1> USE DEF Inv
<1>1. CASE UNCHANGED <<directives, receipts>>
  BY <1>1 DEF Shape, Agreement, Backing, Released
<1>2. ASSUME NEW g \in Gate, GateStep(g) PROVE Inv'
  BY <1>1, <1>2 DEF GateStep, AddGate, MoveGate, RemoveGate
<1>3. ASSUME NEW d \in Directive, DirectiveStep(d) PROVE Inv'
  <2> USE DEF Shape, DirectiveRecord, Moves, CanTransition, OperationDirectiveTransitions,
              Live, Fresh, Released, DirectiveAlone, DirectiveStates, RowTags
  <2>1. ASSUME NEW g \in Gate, NEW t \in GateStates, Draft(d, g, t)
        PROVE  DirectiveAlone(d)
    BY <2>1 DEF Draft, Unsigned
  <2>2. ASSUME NEW g \in Gate, NEW t \in GateStates, Edit(d, g, t)
        PROVE  DirectiveAlone(d)
    BY <2>2 DEF Edit, Unsigned
  <2>3. ASSUME NEW u \in User, Submit(d, u)
        PROVE  DirectiveAlone(d)
    BY <2>3 DEF Submit
  <2>4. ASSUME NEW u \in User, Approve(d, u)
        PROVE  DirectiveAlone(d)
    BY <2>4 DEF Approve
  <2>5. ASSUME Start(d) \/ Abort(d) \/ RemoveDirective(d)
        PROVE  DirectiveAlone(d)
    BY <2>5 DEF Start, Abort, RemoveDirective
  <2> QED
    BY <1>3, <2>1, <2>2, <2>3, <2>4, <2>5, DirectiveAloneKeeps DEF DirectiveStep
<1>4. ASSUME NEW r \in Receipt, ReceiptStep(r) PROVE Inv'
  <2> USE DEF Shape, ReceiptRecord, Live, Fresh, ReceiptAlone, ReceiptStates, RowTags
  <2>1. ASSUME NEW d \in Directive, Report(r, d) PROVE ReceiptAlone(r)
    BY <2>1 DEF Report
  <2>2. ASSUME Cancel(r) \/ RemoveReceipt(r) PROVE ReceiptAlone(r)
    BY <2>2 DEF Cancel, RemoveReceipt
  <2> QED
    BY <1>4, <2>1, <2>2, ReceiptAloneKeeps, SettleKeeps DEF ReceiptStep
<1> QED
  BY <1>1, <1>2, <1>3, <1>4 DEF Next, records

\* Whole requests served one after the other keep the outcome told by receipts
\* and by directives the same, and two persons behind every receipt.
THEOREM Settled ==
  ASSUME None \notin Directive
  PROVE  Spec => [](Agreement /\ Backing)
<1>1. Init => Inv
  BY DEF Init, Inv, Shape, Agreement, Backing, Fresh, Live, ReceiptRecord
<1>2. Inv /\ [Next]_records => Inv'
  BY StepKeeps
<1>3. Inv => Agreement /\ Backing
  BY DEF Inv
<1> QED
  BY <1>1, <1>2, <1>3, PTL DEF Spec
=============================================================================
