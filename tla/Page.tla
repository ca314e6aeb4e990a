-------------------------------- MODULE Page ---------------------------------
(* The directives page of the web client (components/EntityPage.vue with its  *)
(* store, stores/factory.ts, and hooks/usePolling.ts) over one directive of   *)
(* the server and the gate it names, which the page does not show.  Code of   *)
(* the page runs in one thread: a step below is what runs between two awaits. *)
EXTENDS Naturals, StatusGraph, Records

CONSTANTS User, RoleOf,      \* accounts, whose names differ in more than case,
                             \* and their roles
          Me,                \* the account signed in on this page
          None,              \* no user
          Reader, Writer,    \* requests in flight: loads, and transitions
          Target,            \* gate states a directive's form may ask for
          MaxVersion,        \* bound on the versions of the record
          MaxGateVersion,    \* and on those of its gate
          MaxFaults,         \* bound on the requests that fail
          Start              \* directives with their gates, as the page may find them

ASSUME PageConstants ==
  /\ Me \in User /\ None \notin User
  /\ Target \subseteq GateStates \ {"moving"}
  /\ MaxVersion \in Nat \ {0} /\ MaxGateVersion \in Nat \ {0}
  /\ MaxFaults \in Nat

VARIABLES row,               \* the record on the server
          gate,              \* its gate on the server
          item,              \* the record as the page shows it
          dialog,            \* the transition the user is asked to confirm
          call,              \* the requests in flight
          error,             \* whether the page shows an error
          faults             \* requests that failed so far

vars == <<row, gate, item, dialog, call, error, faults>>

Row == [version: 0..MaxVersion, status: DirectiveStates, target: GateStates,
        submittedBy: User \cup {None}]

GateRow == [row: RowTags, status: GateStates, version: 0..MaxGateVersion]

\* A directive that was submitted tells by whom.
ASSUME StartIsRecorded ==
  /\ Start \subseteq [row: Row, gate: GateRow]
  /\ \A s \in Start : s.row.version >= 1
                   /\ (s.row.status = "pending" => s.row.submittedBy \in User)

NoGate == [row |-> "none", status |-> "open", version |-> 0]

\* An empty list.
NoItem == [version |-> 0, status |-> "draft", target |-> "closed", submittedBy |-> None]

Dialog == [open: BOOLEAN, item: Row, target: DirectiveStates]

Closed == [open |-> FALSE, item |-> NoItem, target |-> "draft"]

\* A load carries the row it was answered with, a transition the item and the
\* target that the user confirmed and, on the server, the gate as it was read.
Phase == {"free", "load", "loaded", "write", "checked", "written", "failed"}

Call == [phase: Phase, item: Row, target: DirectiveStates, linked: GateRow]

Free == [phase |-> "free", item |-> NoItem, target |-> "draft", linked |-> NoGate]

TypeOK ==
  /\ row \in Row /\ gate \in GateRow /\ item \in Row /\ dialog \in Dialog
  /\ call \in [Reader \cup Writer -> Call]
  /\ error \in BOOLEAN /\ faults \in 0..MaxFaults

Init ==
  /\ \E s \in Start : row = s.row /\ gate = s.gate
  /\ item = NoItem
  /\ dialog = Closed
  /\ call = [c \in Reader \cup Writer |-> Free]
  /\ error = FALSE /\ faults = 0

\* A call that carries nothing more than how far it is.
Becomes(c, p) == call' = [call EXCEPT ![c] = [Free EXCEPT !.phase = p]]

-----------------------------------------------------------------------------
\* The server's checks of a transition (service/operation_directive.go): first
\* those on the record it reads ...
RecordAllows(r, u, to) ==
  /\ CanTransition(OperationDirectiveTransitions, r.status, to)
  /\ to # "completed"
  /\ directiveRoleAllowed(to, RoleOf[u])
  /\ to = "approved" => r.submittedBy \notin {None, u}

\* Mutant of GateAllows: a gate that is already locked cannot be locked again.
GateAllowsMovesOnly(r, to) ==
  NeedsGate(r, to) =>
    /\ Found(gate)
    /\ to = "executing" => gate.status # "locked"
    /\ GateTarget(r, to, gate) # "" =>
         CanTransition(GateUnitTransitions, gate.status, GateTarget(r, to, gate))

\* ... then those on the gate that the record names.
GateAllows(r, to) ==
  NeedsGate(r, to) =>
    /\ Found(gate)
    /\ to = "executing" => gate.status # "locked"
    /\ WritesGate(r, to, gate) =>
         CanTransition(GateUnitTransitions, gate.status, GateTarget(r, to, gate))

Accepts(r, u, to) == RecordAllows(r, u, to) /\ GateAllows(r, to)

\* Mutant of Moved: the version is counted up twice.
MovedTwice(r, u, to) ==
  [version |-> r.version + 2, status |-> to, target |-> r.target,
   submittedBy |-> IF to = "pending" THEN u ELSE r.submittedBy]

Moved(r, u, to) ==
  [version |-> r.version + 1, status |-> to, target |-> r.target,
   submittedBy |-> IF to = "pending" THEN u ELSE r.submittedBy]

\* The gate is written with its next version; it keeps its state when edited.
WriteGate(status) ==
  /\ Found(gate) /\ gate.version < MaxGateVersion
  /\ gate' = [gate EXCEPT !.status = status, !.version = @ + 1]

MoveGate(status) ==
  CanTransition(GateUnitTransitions, gate.status, status) /\ WriteGate(status)

\* Directive and gate are read one after the other; a directive that changes
\* between the two reads is refused by its version later.
ServerChecks(c) ==
  LET to == call[c].target IN
  /\ call[c].phase = "write"
  /\ IF Accepts(row, Me, to)
     THEN call' = [call EXCEPT ![c].phase = "checked",
                     ![c].linked = IF NeedsGate(row, to) THEN gate ELSE NoGate]
     ELSE Becomes(c, "failed")
  /\ UNCHANGED <<row, gate, item, dialog, error, faults>>

\* Mutant of Applies: the version of the record is not compared.
AppliesAnyVersion(i, to, linked) ==
  WritesGate(row, to, linked) => Updatable(gate, linked.version)

\* The request carries the version of the item it was confirmed on, and a gate
\* is written only as it was read.
Applies(i, to, linked) ==
  /\ row.version = i.version
  /\ WritesGate(row, to, linked) => Updatable(gate, linked.version)

\* The transaction.  A record that still has the version of the item is the one
\* that was read and checked.
ServerCommits(c) ==
  LET to == call[c].target
      linked == call[c].linked IN
  /\ call[c].phase = "checked"
  /\ IF Applies(call[c].item, to, linked)
     THEN /\ row.version < MaxVersion
          /\ row' = Moved(row, Me, to)
          /\ IF WritesGate(row, to, linked)
             THEN WriteGate(GateTarget(row, to, linked))
             ELSE UNCHANGED gate
          /\ Becomes(c, "written")
     ELSE Becomes(c, "failed") /\ UNCHANGED <<row, gate>>
  /\ UNCHANGED <<item, dialog, error, faults>>

ServerReads(c) ==
  /\ call[c].phase = "load"
  /\ call' = [call EXCEPT ![c].phase = "loaded", ![c].item = row]
  /\ UNCHANGED <<row, gate, item, dialog, error, faults>>

\* A request or its response is lost; a transition may have been applied, or be
\* applied later, which is then OthersMove of the same account.
Lose(c) ==
  /\ call[c].phase \notin {"free", "failed"}
  /\ faults < MaxFaults
  /\ faults' = faults + 1
  /\ Becomes(c, "failed")
  /\ UNCHANGED <<row, gate, item, dialog, error>>

-----------------------------------------------------------------------------
\* Another page moves the record, or a receipt settles it.  As in the dispatch,
\* the gate may be left alone although it changed after it was read.
OthersMove(u, to) ==
  /\ row.version < MaxVersion
  /\ \/ RecordAllows(row, u, to)
     \/ row.status = "executing" /\ to \in {"completed", "aborted"}
  /\ row' = Moved(row, u, to)
  /\ \/ UNCHANGED gate
     \/ NeedsGate(row, to) /\ MoveGate(GateTarget(row, to, gate))
     \/ to = "completed" /\ MoveGate(row.target)
  /\ UNCHANGED <<item, dialog, call, error, faults>>

\* A draft is edited; the form may name another gate, which then is the gate, and
\* ask for another state of it.  The gate that it names exists and is not locked.
OthersEdit(t, g) ==
  /\ row.version < MaxVersion /\ row.status = "draft"
  /\ Found(g) /\ g.status # "locked" /\ g.version >= 1
  /\ row' = [row EXCEPT !.version = @ + 1, !.target = t]
  /\ gate' = g
  /\ UNCHANGED <<item, dialog, call, error, faults>>

\* The gate is moved, edited or deleted, whatever its directive does.
OthersGate ==
  /\ \/ \E status \in GateStates : MoveGate(status)
     \/ WriteGate(gate.status)
     \/ Found(gate) /\ gate' = SoftDeleted(gate)
  /\ UNCHANGED <<row, item, dialog, call, error, faults>>

-----------------------------------------------------------------------------
\* store.load: at first, on a click, and whenever the timer fires.
Load(c) ==
  /\ call[c].phase = "free"
  /\ Becomes(c, "load")
  /\ error' = FALSE
  /\ UNCHANGED <<row, gate, item, dialog, faults>>

\* A response replaces the list, the latest to arrive and not the latest asked
\* for.  The reload after a transition ends confirmTransition, which closes
\* whatever dialog is open unless there is an error by now.
Loaded(c) ==
  /\ call[c].phase = "loaded"
  /\ item' = call[c].item
  /\ call' = [call EXCEPT ![c] = Free]
  /\ dialog' = IF c \in Writer /\ ~error THEN Closed ELSE dialog
  /\ UNCHANGED <<row, gate, error, faults>>

\* A request was refused or lost: load and transition catch the error and show it;
\* the dialog stays open.
Failed(c) ==
  /\ call[c].phase = "failed"
  /\ error' = TRUE
  /\ call' = [call EXCEPT ![c] = Free]
  /\ UNCHANGED <<row, gate, item, dialog, faults>>

\* A transition that succeeded loads the list again.
Reload(c) ==
  /\ call[c].phase = "written"
  /\ Becomes(c, "load")
  /\ error' = FALSE
  /\ UNCHANGED <<row, gate, item, dialog, faults>>

-----------------------------------------------------------------------------
Can(u, roles) == RoleOf[u] \in roles

\* Mutant of transitionsFor: one's own submission is offered for approval.
transitionsForAnySubmitter(u, i) ==
  {to \in DirectiveStates :
     /\ CanTransition(OperationDirectiveTransitions, i.status, to)
     /\ \/ to \in {"pending", "executing"} /\ Can(u, {"operator", "admin"})
        \/ to = "approved" /\ Can(u, {"reviewer", "admin"})
        \/ to = "aborted" /\ Can(u, {"operator", "reviewer", "admin"})}

\* The buttons that user u has on a directive.
transitionsFor(u, i) ==
  {to \in DirectiveStates :
     /\ CanTransition(OperationDirectiveTransitions, i.status, to)
     /\ \/ to \in {"pending", "executing"} /\ Can(u, {"operator", "admin"})
        \/ to = "approved" /\ Can(u, {"reviewer", "admin"}) /\ i.submittedBy # u
        \/ to = "aborted" /\ Can(u, {"operator", "reviewer", "admin"})}

selectTransition(to) ==
  /\ item # NoItem /\ to \in transitionsFor(Me, item)
  /\ ~dialog.open
  /\ dialog' = [open |-> TRUE, item |-> item, target |-> to]
  /\ UNCHANGED <<row, gate, item, call, error, faults>>

Cancel ==
  /\ dialog.open
  /\ dialog' = Closed
  /\ UNCHANGED <<row, gate, item, call, error, faults>>

\* The dialog stays open while the request runs, and can be confirmed again.
confirmTransition(c) ==
  /\ dialog.open /\ call[c].phase = "free"
  /\ call' = [call EXCEPT ![c] =
       [phase |-> "write", item |-> dialog.item, target |-> dialog.target,
        linked |-> NoGate]]
  /\ error' = FALSE
  /\ UNCHANGED <<row, gate, item, dialog, faults>>

Proceed(c) ==
  \/ ServerReads(c) \/ ServerChecks(c) \/ ServerCommits(c)
  \/ Loaded(c) \/ Failed(c) \/ Reload(c)

\* Mutant of Poll: polling ends with the first error.
PollUnlessError == ~error /\ \E c \in Reader : Load(c)

Poll == \E c \in Reader : Load(c)

Next ==
  \/ \E c \in Reader \cup Writer : Proceed(c) \/ Lose(c)
  \/ Poll
  \/ \E c \in Writer : confirmTransition(c)
  \/ \E to \in DirectiveStates : selectTransition(to)
  \/ Cancel
  \/ \E u \in User, to \in DirectiveStates : OthersMove(u, to)
  \/ \E t \in Target, g \in GateRow : OthersEdit(t, g)
  \/ OthersGate

\* Requests are answered in the end, and the timer goes on.
Spec ==
  /\ Init /\ [][Next]_vars
  /\ \A c \in Reader \cup Writer : WF_vars(Proceed(c))
  /\ WF_vars(Poll)

-----------------------------------------------------------------------------
\* A transition is applied to exactly the record that its user was looking at
\* when confirming it, however late it arrives and however often it was
\* confirmed: at most once, and not on top of what somebody else did.
AppliedAsSeen ==
  [][\A c \in Writer :
       call[c].phase = "checked" /\ call'[c].phase = "written" =>
         call[c].item = row /\ call[c].target \in transitionsFor(Me, row)]_vars

\* How the gate can keep a directive from moving: it is locked or gone when the
\* directive is to be executed, or gone when an execution is to be aborted.
GateInTheWay(r, to) ==
  \/ to = "executing" /\ (~Found(gate) \/ gate.status = "locked")
  \/ to = "aborted" /\ r.status = "executing" /\ ~Found(gate)

\* The page and the server agree on who may do what: of an item that is up to
\* date a user has a button for each transition the server would accept from that
\* user, and none but those and the ones the gate stands in the way of.
OffersWhatIsAccepted ==
  item = row => \A u \in User :
    {to \in transitionsFor(u, item) : ~GateInTheWay(item, to)}
      = {to \in DirectiveStates : Accepts(row, u, to)}

\* A button that the page offered is refused by the server only because somebody
\* else, or an earlier confirmation, moved the record meanwhile, because the gate
\* stood in the way, or because the gate changed after it was read and was to be
\* written: never for a rule that the page could have known.
RefusedForCause ==
  [][\A c \in Writer : LET q == call[c] IN
       q.phase \in {"write", "checked"} /\ call'[c].phase = "failed" /\ faults' = faults =>
         \/ q.item.version < row.version
         \/ q.phase = "write" /\ GateInTheWay(q.item, q.target)
         \/ /\ q.phase = "checked" /\ gate # q.linked
            /\ WritesGate(q.item, q.target, q.linked)]_vars

\* Responses overtake each other, but polling makes up for it: when nobody
\* moves the record any more, the page comes to show it and stays with it.
CatchesUp == <>[](item = row)
=============================================================================
