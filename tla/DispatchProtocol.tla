--------------------------- MODULE DispatchProtocol ---------------------------
(* What the dispatch promises: an accepted request is one step on the records *)
(* as they are at that moment.  There are no requests in flight, no versions, *)
(* no approval table and no audit log here; the services need all of them to  *)
(* make many concurrent requests look like this.                              *)
EXTENDS StatusGraph, Records

CONSTANTS Gate, Directive, Receipt, User, RoleOf, None

VARIABLES gates, directives, receipts

records == <<gates, directives, receipts>>

GateRecord == [row: RowTags, status: GateStates]

DirectiveRecord ==
  [row: RowTags, status: DirectiveStates, gate: Gate \cup {None}, target: GateStates,
   submittedBy: User \cup {None}, approvedBy: User \cup {None}]

ReceiptRecord ==
  [row: RowTags, status: ReceiptStates, directive: Directive \cup {None}]

Fresh(r) == r.row = "none"

Live(r) == r.row = "live"

Moves(graph, r, to) == Live(r) /\ CanTransition(graph, r.status, to)

-----------------------------------------------------------------------------
\* Gates.
AddGate(g) ==
  /\ Fresh(gates[g])
  /\ gates' = [gates EXCEPT ![g] = [row |-> "live", status |-> "open"]]
  /\ UNCHANGED <<directives, receipts>>

MoveGate(g, to) ==
  /\ Moves(GateUnitTransitions, gates[g], to)
  /\ gates' = [gates EXCEPT ![g].status = to]
  /\ UNCHANGED <<directives, receipts>>

RemoveGate(g) ==
  /\ Live(gates[g])
  /\ gates' = [gates EXCEPT ![g].row = "deleted"]
  /\ UNCHANGED <<directives, receipts>>

-----------------------------------------------------------------------------
\* Directives.  A draft names a gate and a target, one person submits it, a
\* second one approves it.
Unsigned(g, t) ==
  [row |-> "live", status |-> "draft", gate |-> g, target |-> t,
   submittedBy |-> None, approvedBy |-> None]

Draft(d, g, t) ==
  /\ Fresh(directives[d])
  /\ directives' = [directives EXCEPT ![d] = Unsigned(g, t)]
  /\ UNCHANGED <<gates, receipts>>

Edit(d, g, t) ==
  /\ Live(directives[d]) /\ directives[d].status = "draft"
  /\ directives' = [directives EXCEPT ![d] = Unsigned(g, t)]
  /\ UNCHANGED <<gates, receipts>>

Submit(d, u) ==
  /\ Moves(OperationDirectiveTransitions, directives[d], "pending")
  /\ directiveRoleAllowed("pending", RoleOf[u])
  /\ directives' = [directives EXCEPT
       ![d] = [@ EXCEPT !.status = "pending", !.submittedBy = u]]
  /\ UNCHANGED <<gates, receipts>>

Approve(d, u) ==
  /\ Moves(OperationDirectiveTransitions, directives[d], "approved")
  /\ directiveRoleAllowed("approved", RoleOf[u])
  /\ u # directives[d].submittedBy
  /\ directives' = [directives EXCEPT
       ![d] = [@ EXCEPT !.status = "approved", !.approvedBy = u]]
  /\ UNCHANGED <<gates, receipts>>

\* A directive takes its gate along in the same step, or leaves it alone: the
\* services do not look again at a gate they read in the state they want.
TakesGate(g, to) ==
  \/ Moves(GateUnitTransitions, gates[g], to) /\ gates' = [gates EXCEPT ![g].status = to]
  \/ UNCHANGED gates

Start(d) ==
  /\ Moves(OperationDirectiveTransitions, directives[d], "executing")
  /\ TakesGate(directives[d].gate, "moving")
  /\ directives' = [directives EXCEPT ![d].status = "executing"]
  /\ UNCHANGED receipts

\* Only the abort of an executing directive locks its gate.
Abort(d) ==
  /\ Moves(OperationDirectiveTransitions, directives[d], "aborted")
  /\ TakesGate(directives[d].gate, "locked")
  /\ directives[d].status # "executing" => UNCHANGED gates
  /\ directives' = [directives EXCEPT ![d].status = "aborted"]
  /\ UNCHANGED receipts

RemoveDirective(d) ==
  /\ Live(directives[d])
  /\ directives' = [directives EXCEPT ![d].row = "deleted"]
  /\ UNCHANGED <<gates, receipts>>

-----------------------------------------------------------------------------
\* Receipts.  A directive gets one receipt ever, and only after two persons
\* released it; the receipt settles directive and gate with itself.
Released(d) ==
  /\ directives[d].status \in {"executing", "completed", "aborted"}
  /\ {directives[d].submittedBy, directives[d].approvedBy} \subseteq User
  /\ directives[d].submittedBy # directives[d].approvedBy

Report(r, d) ==
  /\ Fresh(receipts[r]) /\ Released(d)
  /\ \A s \in Receipt : receipts[s].directive # d
  /\ receipts' = [receipts EXCEPT ![r] =
       [row |-> "live", status |-> "pending", directive |-> d]]
  /\ UNCHANGED <<gates, directives>>

Settle(r, to, after) ==
  LET d == receipts[r].directive IN
  /\ Live(receipts[r]) /\ receipts[r].status = "pending"
  /\ Live(directives[d]) /\ directives[d].status = "executing"
  /\ <<to, after>> \in {<<"confirmed", "completed">>, <<"failed", "aborted">>}
  /\ TakesGate(directives[d].gate,
               IF to = "confirmed" THEN directives[d].target ELSE "locked")
  /\ receipts' = [receipts EXCEPT ![r].status = to]
  /\ directives' = [directives EXCEPT ![d].status = after]

Cancel(r) ==
  /\ Live(receipts[r]) /\ receipts[r].status = "failed"
  /\ receipts' = [receipts EXCEPT ![r].status = "cancelled"]
  /\ UNCHANGED <<gates, directives>>

RemoveReceipt(r) ==
  /\ Live(receipts[r])
  /\ receipts' = [receipts EXCEPT ![r].row = "deleted"]
  /\ UNCHANGED <<gates, directives>>

-----------------------------------------------------------------------------
GateStep(g) == AddGate(g) \/ RemoveGate(g) \/ \E to \in GateStates : MoveGate(g, to)

DirectiveStep(d) ==
  \/ \E g \in Gate, t \in GateStates : Draft(d, g, t) \/ Edit(d, g, t)
  \/ \E u \in User : Submit(d, u) \/ Approve(d, u)
  \/ Start(d) \/ Abort(d) \/ RemoveDirective(d)

ReceiptStep(r) ==
  \/ \E d \in Directive : Report(r, d)
  \/ Settle(r, "confirmed", "completed") \/ Settle(r, "failed", "aborted")
  \/ Cancel(r) \/ RemoveReceipt(r)

Next ==
  \/ \E g \in Gate : GateStep(g)
  \/ \E d \in Directive : DirectiveStep(d)
  \/ \E r \in Receipt : ReceiptStep(r)

\* What a finished seed leaves: a receipt is pending, of a released directive
\* that executes, and its only one.
Init ==
  /\ gates \in [Gate -> GateRecord]
  /\ directives \in [Directive -> DirectiveRecord]
  /\ receipts \in [Receipt -> ReceiptRecord]
  /\ \A d \in Directive :
       /\ directives[d].status \in {"draft", "pending", "executing"}
       /\ Fresh(directives[d]) => directives[d].status = "draft"
  /\ \A r \in Receipt :
       \/ Fresh(receipts[r]) /\ receipts[r].status = "pending"
                             /\ receipts[r].directive = None
       \/ /\ Live(receipts[r]) /\ receipts[r].status = "pending"
          /\ receipts[r].directive \in Directive
          /\ directives[receipts[r].directive].status = "executing"
          /\ Released(receipts[r].directive)
          /\ \A s \in Receipt :
               receipts[s].directive = receipts[r].directive => s = r

Spec == Init /\ [][Next]_records

-----------------------------------------------------------------------------
\* A directive is completed exactly when a receipt of it was confirmed, a failed
\* receipt goes with an aborted directive, and no directive has two receipts,
\* deleted ones included.
Agreement ==
  /\ \A d \in Directive :
       directives[d].status = "completed" <=>
         \E r \in Receipt :
           receipts[r].directive = d /\ receipts[r].status = "confirmed"
  /\ \A r \in Receipt : receipts[r].status \in {"failed", "cancelled"} =>
       directives[receipts[r].directive].status = "aborted"
  /\ \A r, s \in Receipt :
       receipts[r].directive = receipts[s].directive /\ ~Fresh(receipts[r])
         => r = s

\* Behind every receipt there are two persons.
Backing == \A r \in Receipt : ~Fresh(receipts[r]) => Released(receipts[r].directive)
=============================================================================
