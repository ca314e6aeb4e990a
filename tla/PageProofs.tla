----------------------------- MODULE PageProofs ------------------------------
(* What the directives page shows, offers and asks for, and what the server    *)
(* makes of it, for any number of users and requests in flight.                *)
EXTENDS Page, TLAPS

\* A copy of the record is never ahead of it, and as new only if it is the same.
Behind(i) == i.version <= row.version /\ (i.version = row.version => i = row)

\* A record that was loaded, as opposed to the empty list, tells who submitted it.
Sound(i) == i.version >= 1 /\ (i.status = "pending" => i.submittedBy \in User)

Copy(i) == Behind(i) /\ (i = NoItem \/ Sound(i))

\* What the user is asked, and what the user confirmed, was a button of the copy.
Offered(i, to) == Sound(i) /\ to \in transitionsFor(Me, i)

\* What a request carries: a copy, of which the user had the button and, once the
\* record was checked as it still is, a gate that was found.
Carried(q) ==
  /\ Copy(q.item)
  /\ q.phase \in {"write", "checked"} => Offered(q.item, q.target)
  /\ q.phase = "loaded" => Sound(q.item)
  /\ q.phase = "checked" /\ q.item = row /\ NeedsGate(q.item, q.target) => Found(q.linked)

IInv ==
  /\ TypeOK
  /\ Sound(row)
  /\ Copy(item) /\ Copy(dialog.item)
  /\ dialog.open => Offered(dialog.item, dialog.target)
  /\ \A c \in Reader \cup Writer : Carried(call[c])

-----------------------------------------------------------------------------
(* The server and the buttons.                                                *)

\* The graph leads to "completed", and to what there are buttons for.
LEMMA Targets ==
  ASSUME NEW from, NEW to, CanTransition(OperationDirectiveTransitions, from, to)
  PROVE  /\ to \in {"pending", "approved", "executing", "aborted", "completed"}
         /\ to = "approved" => from = "pending"
BY DEF CanTransition, OperationDirectiveTransitions

\* A button is what the server allows of the record, if that tells who submitted it.
LEMMA ButtonsAllowed ==
  ASSUME NEW r, Sound(r), NEW u \in User, NEW to \in DirectiveStates
  PROVE  to \in transitionsFor(u, r) <=> RecordAllows(r, u, to)
<1>1. CASE CanTransition(OperationDirectiveTransitions, r.status, to)
  <2>1. /\ to \in {"pending", "approved", "executing", "aborted", "completed"}
        /\ to = "approved" => r.submittedBy # None
    BY <1>1, Targets, PageConstants DEF Sound
  <2> QED
    BY <1>1, <2>1 DEF transitionsFor, RecordAllows, Can, directiveRoleAllowed
<1>2. CASE ~CanTransition(OperationDirectiveTransitions, r.status, to)
  BY <1>2 DEF transitionsFor, RecordAllows
<1> QED
  BY <1>1, <1>2

\* The gate's own graph never decides: a gate that is found, and not locked when
\* the directive is to be executed, has an edge to where it has to go.
LEMMA GateObstacles ==
  ASSUME gate \in GateRow, NEW r, NEW to
  PROVE  GateAllows(r, to) <=> ~GateInTheWay(r, to)
<1>1. gate.status \in {"open", "closed", "moving", "locked"}
  BY DEF GateRow, GateStates
<1>2. CASE to = "executing"
  <2>1. Found(gate) /\ gate.status # "locked" /\ WritesGate(r, to, gate)
        => CanTransition(GateUnitTransitions, gate.status, GateTarget(r, to, gate))
    BY <1>1, <1>2 DEF WritesGate, GateTarget, CanTransition, GateUnitTransitions
  <2> QED
    BY <1>2, <2>1 DEF GateAllows, GateInTheWay, NeedsGate
<1>3. CASE to = "aborted" /\ r.status = "executing"
  <2>1. WritesGate(r, to, gate)
        => CanTransition(GateUnitTransitions, gate.status, GateTarget(r, to, gate))
    BY <1>1, <1>3 DEF WritesGate, GateTarget, CanTransition, GateUnitTransitions
  <2> QED
    BY <1>3, <2>1 DEF GateAllows, GateInTheWay, NeedsGate
<1>4. CASE to # "executing" /\ ~(to = "aborted" /\ r.status = "executing")
  BY <1>4 DEF GateAllows, GateInTheWay, NeedsGate
<1> QED
  BY <1>2, <1>3, <1>4

-----------------------------------------------------------------------------
(* The invariant.                                                             *)

\* A record that moves gets its next version, and a submission its submitter.
LEMMA MovedSound ==
  ASSUME TypeOK, Sound(row), NEW u \in User, NEW to \in DirectiveStates,
         row.version < MaxVersion
  PROVE  /\ Moved(row, u, to) \in Row /\ Sound(Moved(row, u, to))
         /\ Moved(row, u, to).version = row.version + 1
<1>1. row \in Row /\ row.version + 1 \in 1..MaxVersion
      /\ row.submittedBy \in User \cup {None}
  BY PageConstants DEF TypeOK, Row
<1> QED
  BY <1>1, PageConstants DEF Moved, Row, Sound

\* The gate is written with its next version.
LEMMA GateWritten ==
  ASSUME gate \in GateRow, NEW status \in GateStates, WriteGate(status)
  PROVE  gate' \in GateRow
<1>1. gate.version + 1 \in 0..MaxGateVersion
  BY PageConstants DEF WriteGate, GateRow
<1> QED
  BY <1>1 DEF WriteGate, GateRow

\* Only states of a gate are moved to.
LEMMA GateMoved ==
  ASSUME gate \in GateRow, NEW status, MoveGate(status)
  PROVE  gate' \in GateRow
<1>1. status \in GateStates
  BY DEF MoveGate, CanTransition, GateUnitTransitions, GateStates
<1> QED
  BY <1>1, GateWritten DEF MoveGate

\* The copies stay copies while the record stays or moves on by a version.
LEMMA CopiesKept ==
  ASSUME TypeOK, NEW i \in Row, Copy(i), row' = row \/ row'.version = row.version + 1
  PROVE  Copy(i)'
<1>1. i.version \in Nat /\ row.version \in Nat
  BY PageConstants DEF TypeOK, Row
<1> QED
  BY <1>1 DEF Copy, Behind, Sound

\* A request still carries what it carried when the record stays or moves on.
LEMMA CarriedKept ==
  ASSUME TypeOK, NEW q \in Call, Carried(q),
         row' = row \/ row'.version = row.version + 1
  PROVE  Carried(q)'
<1>1. q.item \in Row /\ q.item.version \in Nat /\ row.version \in Nat
  BY PageConstants DEF TypeOK, Call, Row
<1>2. Copy(q.item)'
  <2>1. PICK i \in Row : i = q.item
    BY <1>1
  <2>2. Copy(i)'
    BY <2>1, CopiesKept DEF Carried
  <2> QED
    BY <2>1, <2>2
<1>3. q.item = row' => q.item = row
  BY <1>1 DEF Carried, Copy, Behind
<1> QED
  BY <1>2, <1>3 DEF Carried, Offered, Sound, transitionsFor, NeedsGate, Found

\* A step that shows, asks and sends only copies of the record as it was.
LEMMA Preserved ==
  ASSUME IInv, TypeOK', Sound(row'), row' = row \/ row'.version = row.version + 1,
         Copy(item'), Copy(dialog'.item),
         dialog'.open => Offered(dialog'.item, dialog'.target),
         \A c \in Reader \cup Writer : Carried(call'[c])
  PROVE  IInv'
<1>1. ASSUME NEW i \in Row, Copy(i) PROVE Copy(i)'
  BY <1>1, CopiesKept DEF IInv
<1>2. /\ item' \in Row /\ dialog'.item \in Row
      /\ \A c \in Reader \cup Writer : call'[c] \in Call
  BY DEF TypeOK, Dialog
<1>3. PICK i \in Row : i = item'
  BY <1>2
<1>4. PICK j \in Row : j = dialog'.item
  BY <1>2
<1>5. Copy(item)' /\ Copy(dialog.item)'
  BY <1>1, <1>3, <1>4 DEF Copy, Behind, Sound
<1>6. ASSUME NEW c \in Reader \cup Writer PROVE Carried(call[c])'
  <2>1. PICK q \in Call : q = call'[c]
    BY <1>2
  <2>2. Carried(q)'
    BY <2>1, CarriedKept DEF IInv
  <2> QED
    BY <2>1, <2>2 DEF Carried, Copy, Behind, Sound, Offered, transitionsFor,
                      NeedsGate, Found
<1>7. dialog'.open => Offered(dialog.item, dialog.target)'
  BY DEF Offered, Sound, transitionsFor
<1> QED
  BY <1>5, <1>6, <1>7 DEF IInv, Sound

\* The empty list, dialog and request have the types of full ones.
LEMMA Empties ==
  /\ NoItem \in Row /\ NoGate \in GateRow /\ Closed \in Dialog /\ Free \in Call
  /\ Closed.item = NoItem /\ ~Closed.open /\ Free.item = NoItem /\ Free.phase = "free"
  /\ TypeOK /\ Sound(row) => Copy(NoItem)
<1>1. NoItem \in Row /\ NoItem.version = 0
  BY PageConstants DEF NoItem, Row, DirectiveStates, GateStates
<1>2. NoGate \in GateRow
  BY PageConstants DEF NoGate, GateRow, RowTags, GateStates
<1>3. Closed \in Dialog /\ Free \in Call
  BY <1>1, <1>2 DEF Closed, Free, Dialog, Call, Phase, DirectiveStates
<1>4. TypeOK /\ Sound(row) => Copy(NoItem)
  BY <1>1, PageConstants DEF TypeOK, Row, Sound, Copy, Behind
<1> QED
  BY <1>1, <1>2, <1>3, <1>4 DEF Closed, Free

\* A step that is about one request, and possibly the record and its gate.
LEMMA CallChanges ==
  ASSUME IInv, NEW c \in Reader \cup Writer, NEW q \in Call,
         call' = [call EXCEPT ![c] = q], UNCHANGED <<item, dialog>>,
         row' \in Row, Sound(row'), row' = row \/ row'.version = row.version + 1,
         gate' \in GateRow, error' \in BOOLEAN, faults' \in 0..MaxFaults, Carried(q)
  PROVE  IInv'
<1>1. TypeOK'
  BY DEF IInv, TypeOK
<1>2. \A x \in Reader \cup Writer : call'[x] = IF x = c THEN q ELSE call[x]
  BY DEF IInv, TypeOK
<1> QED
  BY <1>1, <1>2, Preserved DEF IInv

\* A request that only gets on, and carries nothing any more.
LEMMA Empty ==
  ASSUME IInv, NEW c \in Reader \cup Writer,
         NEW p \in {"free", "load", "written", "failed"},
         Becomes(c, p), UNCHANGED <<item, dialog>>,
         row' \in Row, Sound(row'), row' = row \/ row'.version = row.version + 1,
         gate' \in GateRow, error' \in BOOLEAN, faults' \in 0..MaxFaults
  PROVE  IInv'
<1> DEFINE q == [Free EXCEPT !.phase = p]
<1>1. q \in Call /\ q.item = NoItem /\ q.phase = p
  BY Empties DEF Call, Phase
<1>2. call' = [call EXCEPT ![c] = q]
  BY DEF Becomes
<1> HIDE DEF q
<1>3. Carried(q)
  BY <1>1, Empties DEF Carried, IInv
<1> QED
  BY <1>1, <1>2, <1>3, CallChanges

\* A load or a transition is started, or ends in an error.
LEMMA Starts ==
  ASSUME IInv, NEW c \in Reader \cup Writer, Load(c) \/ Reload(c) \/ Failed(c)
  PROVE  IInv'
<1>1. PICK p \in {"free", "load"} : Becomes(c, p)
  <2>1. Load(c) \/ Reload(c) => Becomes(c, "load")
    BY DEF Load, Reload
  <2>2. Failed(c) => Becomes(c, "free")
    <3>1. [Free EXCEPT !.phase = "free"] = Free
      BY Empties DEF Call
    <3> QED
      BY <3>1 DEF Failed, Becomes
  <2> QED
    BY <2>1, <2>2
<1>2. UNCHANGED <<row, gate, item, dialog, faults>> /\ error' \in BOOLEAN
  BY DEF Load, Reload, Failed
<1>3. row \in Row /\ gate \in GateRow /\ faults \in 0..MaxFaults /\ Sound(row)
  BY DEF IInv, TypeOK
<1> QED
  BY <1>1, <1>2, <1>3, Empty

\* The server answers a load with the record itself.
LEMMA Reads ==
  ASSUME IInv, NEW c \in Reader \cup Writer, ServerReads(c)
  PROVE  IInv'
<1>1. call[c] \in Call /\ row \in Row /\ gate \in GateRow /\ Sound(row)
      /\ error \in BOOLEAN /\ faults \in 0..MaxFaults
  BY DEF IInv, TypeOK
<1>2. PICK q \in Call :
        call' = [call EXCEPT ![c] = q] /\ q.item = row /\ q.phase = "loaded"
  <2> DEFINE old == call[c]
             q == [old EXCEPT !.phase = "loaded", !.item = row]
  <2>1. q \in Call /\ q.item = row /\ q.phase = "loaded"
    BY <1>1 DEF Call, Phase
  <2>2. call' = [call EXCEPT ![c] = q]
    BY <1>1 DEF ServerReads, Call, IInv, TypeOK
  <2> QED
    BY <2>1, <2>2
<1>3. Carried(q)
  BY <1>1, <1>2, PageConstants DEF Carried, Copy, Behind, Row
<1>4. UNCHANGED <<row, gate, item, dialog, error, faults>>
  BY DEF ServerReads
<1> QED
  BY <1>1, <1>2, <1>3, <1>4, CallChanges

\* The server checks a transition, and the gate it needs is there.
LEMMA Checks ==
  ASSUME IInv, NEW c \in Reader \cup Writer, ServerChecks(c)
  PROVE  IInv'
<1> DEFINE old == call[c]
<1>1. /\ row \in Row /\ gate \in GateRow /\ Sound(row) /\ old \in Call /\ Carried(old)
      /\ error \in BOOLEAN /\ faults \in 0..MaxFaults
      /\ UNCHANGED <<row, gate, item, dialog, error, faults>>
  BY DEF IInv, TypeOK, ServerChecks
<1>2. CASE Accepts(row, Me, old.target)
  <2> DEFINE linked == IF NeedsGate(row, old.target) THEN gate ELSE NoGate
             q == [old EXCEPT !.phase = "checked", !.linked = linked]
  <2>1. linked \in GateRow /\ (NeedsGate(row, old.target) => Found(linked))
    BY <1>1, <1>2, Empties DEF Accepts, GateAllows
  <2> HIDE DEF linked
  <2>2. /\ q \in Call /\ q.item = old.item /\ q.target = old.target
        /\ q.phase = "checked" /\ q.linked = linked
    BY <1>1, <2>1 DEF Call, Phase
  <2>3. call' = [call EXCEPT ![c] = q]
    BY <1>1, <1>2 DEF ServerChecks, Call, IInv, TypeOK, linked
  <2> HIDE DEF q
  <2>4. Carried(q)
    <3>1. old.phase = "write"
      BY DEF ServerChecks
    <3> QED
      BY <1>1, <2>1, <2>2, <3>1 DEF Carried
  <2> QED
    BY <1>1, <2>2, <2>3, <2>4, CallChanges
<1>3. CASE ~Accepts(row, Me, old.target)
  BY <1>1, <1>3, Empty DEF ServerChecks
<1> QED
  BY <1>2, <1>3

\* The server applies a transition to the record and its gate, or refuses it.
LEMMA Commits ==
  ASSUME IInv, NEW c \in Reader \cup Writer, ServerCommits(c)
  PROVE  IInv'
<1> DEFINE q == call[c]
<1>1. /\ row \in Row /\ gate \in GateRow /\ Sound(row) /\ q \in Call
      /\ error' \in BOOLEAN /\ faults' \in 0..MaxFaults /\ UNCHANGED <<item, dialog>>
  BY DEF IInv, TypeOK, ServerCommits
<1>2. CASE Applies(q.item, q.target, q.linked)
  <2>1. /\ row.version < MaxVersion /\ row' = Moved(row, Me, q.target)
        /\ Becomes(c, "written")
    BY <1>2 DEF ServerCommits
  <2>2. row' \in Row /\ Sound(row') /\ row'.version = row.version + 1
    <3>1. q.target \in DirectiveStates
      BY <1>1 DEF Call
    <3> QED
      BY <2>1, <3>1, MovedSound, PageConstants DEF IInv
  <2>3. gate' \in GateRow
    <3>1. CASE WritesGate(row, q.target, q.linked)
      <4>1. GateTarget(row, q.target, q.linked) \in GateStates
        BY <3>1 DEF WritesGate, GateTarget, GateStates
      <4>2. WriteGate(GateTarget(row, q.target, q.linked))
        BY <1>2, <3>1 DEF ServerCommits
      <4> QED
        BY <1>1, <4>1, <4>2, GateWritten
    <3>2. CASE ~WritesGate(row, q.target, q.linked)
      BY <1>1, <1>2, <3>2 DEF ServerCommits
    <3> QED
      BY <3>1, <3>2
  <2> QED
    BY <1>1, <2>1, <2>2, <2>3, Empty
<1>3. CASE ~Applies(q.item, q.target, q.linked)
  <2>1. Becomes(c, "failed") /\ row' = row /\ gate' = gate
    BY <1>3 DEF ServerCommits
  <2> QED
    BY <1>1, <2>1, Empty
<1> QED
  BY <1>2, <1>3

\* A request or its answer is lost.
LEMMA Losses ==
  ASSUME IInv, NEW c \in Reader \cup Writer, Lose(c)
  PROVE  IInv'
<1>1. /\ row \in Row /\ gate \in GateRow /\ Sound(row)
      /\ error \in BOOLEAN /\ faults \in 0..MaxFaults
  BY DEF IInv, TypeOK
<1>2. /\ UNCHANGED <<row, gate, item, dialog, error>>
      /\ faults < MaxFaults /\ faults' = faults + 1 /\ Becomes(c, "failed")
  BY DEF Lose
<1>3. faults' \in 0..MaxFaults
  BY <1>1, <1>2, PageConstants
<1> QED
  BY <1>1, <1>2, <1>3, Empty

\* The page shows what was loaded, and the dialog closes or stays.
LEMMA Shows ==
  ASSUME IInv, NEW c \in Reader \cup Writer, Loaded(c)
  PROVE  IInv'
<1>1. /\ item' = call[c].item /\ call' = [call EXCEPT ![c] = Free]
      /\ dialog' \in {Closed, dialog} /\ UNCHANGED <<row, gate, error, faults>>
  BY DEF Loaded
<1>2. Copy(call[c].item) /\ Copy(NoItem) /\ call[c].item \in Row
  BY Empties DEF IInv, TypeOK, Call, Carried
<1>3. TypeOK'
  BY <1>1, <1>2, Empties DEF IInv, TypeOK
<1>4. \A x \in Reader \cup Writer : call'[x] = IF x = c THEN Free ELSE call[x]
  BY <1>1 DEF IInv, TypeOK
<1>5. Carried(Free)
  BY <1>2, Empties DEF Carried
<1> QED
  BY <1>1, <1>2, <1>3, <1>4, <1>5, Empties, Preserved DEF IInv

\* The user presses a button, or thinks better of it.
LEMMA Asks ==
  ASSUME IInv, Cancel \/ \E to \in DirectiveStates : selectTransition(to)
  PROVE  IInv'
<1>1. CASE Cancel
  <2>1. dialog' = Closed /\ UNCHANGED <<row, gate, item, call, error, faults>> /\ Copy(NoItem)
    BY <1>1, Empties DEF Cancel, IInv
  <2>2. TypeOK'
    BY <2>1, Empties DEF IInv, TypeOK
  <2> QED
    BY <2>1, <2>2, Empties, Preserved DEF IInv
<1>2. ASSUME NEW to \in DirectiveStates, selectTransition(to) PROVE IInv'
  <2>1. /\ dialog' = [open |-> TRUE, item |-> item, target |-> to]
        /\ UNCHANGED <<row, gate, item, call, error, faults>>
        /\ item # NoItem /\ to \in transitionsFor(Me, item)
    BY <1>2 DEF selectTransition
  <2>2. TypeOK'
    BY <2>1 DEF IInv, TypeOK, Dialog
  <2>3. Copy(item) /\ Offered(item, to)
    BY <2>1 DEF IInv, Copy, Offered
  <2> QED
    BY <2>1, <2>2, <2>3, Preserved DEF IInv
<1> QED
  BY <1>1, <1>2

\* The user confirms what the dialog asks.
LEMMA Confirms ==
  ASSUME IInv, NEW c \in Writer, confirmTransition(c)
  PROVE  IInv'
<1>1. /\ dialog \in Dialog /\ dialog.open /\ Copy(dialog.item)
      /\ Offered(dialog.item, dialog.target)
      /\ row \in Row /\ gate \in GateRow /\ Sound(row) /\ faults \in 0..MaxFaults
  BY DEF confirmTransition, IInv, TypeOK
<1>2. PICK q \in Call :
        /\ call' = [call EXCEPT ![c] = q]
        /\ q.item = dialog.item /\ q.target = dialog.target /\ q.phase = "write"
  <2> DEFINE q == [phase |-> "write", item |-> dialog.item, target |-> dialog.target,
                   linked |-> NoGate]
  <2>1. q \in Call
    BY <1>1, Empties DEF Dialog, Call, Phase
  <2> QED
    BY <2>1 DEF confirmTransition
<1>3. UNCHANGED <<row, gate, item, dialog, faults>> /\ error' \in BOOLEAN
  BY DEF confirmTransition
<1>4. Carried(q)
  BY <1>1, <1>2 DEF Carried
<1> QED
  BY <1>1, <1>2, <1>3, <1>4, CallChanges

\* Somebody else writes the record, or its gate, or both.
LEMMA Elsewhere ==
  ASSUME IInv, gate' \in GateRow, UNCHANGED <<item, dialog, call, error, faults>>,
         \/ row' = row
         \/ row' \in Row /\ Sound(row') /\ row'.version = row.version + 1
  PROVE  IInv'
<1>1. TypeOK' /\ Sound(row')
  BY DEF IInv, TypeOK
<1> QED
  BY <1>1, Preserved DEF IInv

\* Somebody else moves or edits the record, or writes its gate.
LEMMA OthersMoves ==
  ASSUME IInv,
         \/ \E u \in User, to \in DirectiveStates : OthersMove(u, to)
         \/ \E t \in Target, g \in GateRow : OthersEdit(t, g)
         \/ OthersGate
  PROVE  IInv'
<1>1. gate \in GateRow /\ row \in Row
  BY DEF IInv, TypeOK
<1>2. ASSUME NEW u \in User, NEW to \in DirectiveStates, OthersMove(u, to) PROVE IInv'
  <2>1. /\ row.version < MaxVersion /\ row' = Moved(row, u, to)
        /\ UNCHANGED <<item, dialog, call, error, faults>>
    BY <1>2 DEF OthersMove
  <2>2. row' \in Row /\ Sound(row') /\ row'.version = row.version + 1
    BY <2>1, MovedSound DEF IInv
  <2>3. gate' \in GateRow
    BY <1>1, <1>2, GateMoved DEF OthersMove
  <2> QED
    BY <2>1, <2>2, <2>3, Elsewhere
<1>3. ASSUME NEW t \in Target, NEW g \in GateRow, OthersEdit(t, g) PROVE IInv'
  <2> DEFINE v == row.version + 1
             draft == [row EXCEPT !.version = v]
  <2>1. /\ row' = [draft EXCEPT !.target = t] /\ row.version < MaxVersion
        /\ UNCHANGED <<item, dialog, call, error, faults>> /\ gate' = g
        /\ row.status = "draft" /\ t \in GateStates
    BY <1>1, <1>3, PageConstants DEF OthersEdit, Row
  <2>2. v \in 1..MaxVersion
    <3>1. row.version \in 0..MaxVersion
      BY <1>1 DEF Row
    <3> QED
      BY <2>1, <3>1, PageConstants
  <2> HIDE DEF v
  <2>3. draft \in Row /\ draft.version = v /\ draft.status = "draft"
    BY <1>1, <2>1, <2>2 DEF Row
  <2> HIDE DEF draft
  <2>4. row' \in Row /\ row'.version = v /\ row'.status = "draft"
    BY <2>1, <2>3 DEF Row
  <2>5. Sound(row') /\ row'.version = row.version + 1
    BY <2>2, <2>4 DEF Sound, v
  <2> QED
    BY <1>1, <2>1, <2>4, <2>5, Elsewhere
<1>4. CASE OthersGate
  <2>1. gate' \in GateRow
    <3>1. gate' = SoftDeleted(gate) => gate' \in GateRow
      BY <1>1 DEF SoftDeleted, GateRow, RowTags
    <3>2. gate.status \in GateStates
      BY <1>1 DEF GateRow
    <3> QED
      BY <1>1, <1>4, <3>1, <3>2, GateMoved, GateWritten DEF OthersGate
  <2> QED
    BY <1>4, <2>1, Elsewhere DEF OthersGate
<1> QED
  BY <1>2, <1>3, <1>4

\* The page is empty at first, over a directive that may have begun.
LEMMA InitShown == Init => IInv
<1> SUFFICES ASSUME Init PROVE IInv
  OBVIOUS
<1>1. row \in Row /\ gate \in GateRow /\ Sound(row)
  <2>1. PICK s \in Start : row = s.row /\ gate = s.gate
    BY DEF Init
  <2> QED
    BY <2>1, StartIsRecorded DEF Sound
<1>2. TypeOK
  <2>1. item \in Row /\ dialog \in Dialog
    BY Empties DEF Init
  <2>2. call \in [Reader \cup Writer -> Call]
    BY Empties DEF Init
  <2>3. error \in BOOLEAN
    BY DEF Init
  <2>4. faults \in 0..MaxFaults
    BY PageConstants DEF Init
  <2> QED
    BY <1>1, <2>1, <2>2, <2>3, <2>4 DEF TypeOK
<1>3. Copy(NoItem)
  BY <1>1, <1>2, Empties
<1>4. Carried(Free)
  BY <1>3, Empties DEF Carried
<1> QED
  BY <1>1, <1>2, <1>3, <1>4, Empties DEF Init, IInv

\* Every step keeps the invariant.
LEMMA StepsShown == IInv /\ [Next]_vars => IInv'
<1> SUFFICES ASSUME IInv, [Next]_vars PROVE IInv'
  OBVIOUS
<1>1. ASSUME NEW c \in Reader \cup Writer, Proceed(c) \/ Lose(c) PROVE IInv'
  BY <1>1, Starts, Reads, Checks, Commits, Losses, Shows DEF Proceed
<1>2. CASE Poll
  BY <1>2, Starts DEF Poll
<1>3. ASSUME NEW c \in Writer, confirmTransition(c) PROVE IInv'
  BY <1>3, Confirms
<1>4. CASE Cancel \/ \E to \in DirectiveStates : selectTransition(to)
  BY <1>4, Asks
<1>5. CASE \/ \E u \in User, to \in DirectiveStates : OthersMove(u, to)
           \/ (\E t \in Target, g \in GateRow : OthersEdit(t, g)) \/ OthersGate
  BY <1>5, OthersMoves
<1>6. CASE UNCHANGED vars
  <2>1. UNCHANGED <<row, gate, item, dialog, call, error, faults>>
    BY <1>6 DEF vars
  <2> QED
    BY <2>1, Elsewhere DEF IInv, TypeOK
<1> QED
  BY <1>1, <1>2, <1>3, <1>4, <1>5, <1>6 DEF Next

-----------------------------------------------------------------------------
(* What follows.                                                              *)

\* PageTypeCorrect: the record, what the page shows and the requests in flight
\* keep their types (EntityPage.vue, stores/factory.ts).
THEOREM PageTypeCorrect == Spec => []TypeOK
<1>1. IInv => TypeOK
  BY DEF IInv
<1> QED
  BY InitShown, StepsShown, <1>1, PTL DEF Spec

\* ButtonsAreRules: the buttons of an item that is up to date, for every user and
\* role, are the transitions that the server accepts and those that only the gate
\* stands in the way of (transitionsFor, and the checks on directive and gate of
\* service/operation_directive.go).
THEOREM ButtonsAreRules == Spec => []OffersWhatIsAccepted
<1>1. IInv => OffersWhatIsAccepted
  <2> SUFFICES ASSUME IInv, item = row, NEW u \in User
               PROVE  {to \in transitionsFor(u, item) : ~GateInTheWay(item, to)}
                        = {to \in DirectiveStates : Accepts(row, u, to)}
    BY DEF OffersWhatIsAccepted
  <2>1. \A to \in DirectiveStates : to \in transitionsFor(u, row) <=> RecordAllows(row, u, to)
    BY ButtonsAllowed DEF IInv
  <2>2. \A to \in DirectiveStates : GateAllows(row, to) <=> ~GateInTheWay(row, to)
    BY GateObstacles DEF IInv, TypeOK
  <2>3. transitionsFor(u, row) \subseteq DirectiveStates
    BY DEF transitionsFor
  <2> QED
    BY <2>1, <2>2, <2>3 DEF Accepts
<1> QED
  BY InitShown, StepsShown, <1>1, PTL DEF Spec

\* A step that settles a transition is the server's, or loses it.
LEMMA SettledByServer ==
  ASSUME IInv, [Next]_vars, NEW c \in Writer, call[c].phase \in {"write", "checked"},
         call'[c].phase \in {"written", "failed"}
  PROVE  ServerChecks(c) \/ ServerCommits(c) \/ Lose(c)
<1> USE DEF IInv, TypeOK
<1>1. call'[c] # call[c]
  OBVIOUS
<1>2. ASSUME NEW x \in Reader \cup Writer, Proceed(x) \/ Lose(x)
      PROVE  x = c
  BY <1>1, <1>2 DEF Proceed, Lose, ServerReads, ServerChecks, ServerCommits, Becomes,
                    Loaded, Failed, Reload
<1>3. ASSUME NEW x \in Reader, Load(x) PROVE FALSE
  BY <1>1, <1>3 DEF Load, Becomes
<1>4. ASSUME NEW x \in Writer, confirmTransition(x) PROVE FALSE
  BY <1>1, <1>4 DEF confirmTransition
<1>5. Proceed(c) \/ Lose(c)
  BY <1>1, <1>2, <1>3, <1>4
  DEF Next, vars, Poll, selectTransition, Cancel, OthersMove, OthersEdit, OthersGate
<1>6. CASE Proceed(c)
  BY <1>6 DEF Proceed, ServerReads, Loaded, Failed, Reload
<1> QED
  BY <1>5, <1>6

\* A step that leads a request to a phase is read off the request afterwards.
LEMMA BecomesPhase ==
  ASSUME TypeOK, NEW c \in Reader \cup Writer, NEW p \in Phase, Becomes(c, p)
  PROVE  call'[c].phase = p
<1>1. [Free EXCEPT !.phase = p].phase = p
  BY Empties DEF Call
<1> QED
  BY <1>1 DEF Becomes, TypeOK

\* The server writes only what it applies.
LEMMA WrittenIfApplied ==
  ASSUME IInv, NEW c \in Writer, call'[c].phase = "written",
         ServerChecks(c) \/ ServerCommits(c) \/ Lose(c)
  PROVE  /\ ServerCommits(c)
         /\ Applies(call[c].item, call[c].target, call[c].linked)
<1>1. TypeOK /\ ~Becomes(c, "failed")
  BY BecomesPhase DEF IInv, Phase
<1>2. ~Lose(c)
  BY <1>1 DEF Lose
<1>3. ASSUME ServerChecks(c) PROVE FALSE
  <2>1. call[c] \in Call
    BY <1>1 DEF TypeOK
  <2>2. call'[c].phase = "checked"
    BY <1>1, <1>3, <2>1 DEF ServerChecks, TypeOK, Call
  <2> QED
    BY <2>2
<1>4. ServerCommits(c)
  BY <1>2, <1>3
<1> QED
  BY <1>1, <1>4 DEF ServerCommits

\* AppliedOnce: a transition is applied to the record that its user saw when
\* confirming it (confirmTransition and the version it sends).
THEOREM AppliedOnce == Spec => AppliedAsSeen
<1>1. IInv /\ [Next]_vars =>
        [\A c \in Writer :
           call[c].phase = "checked" /\ call'[c].phase = "written" =>
             call[c].item = row /\ call[c].target \in transitionsFor(Me, row)]_vars
  <2> SUFFICES ASSUME IInv, [Next]_vars, NEW c \in Writer,
                      call[c].phase = "checked", call'[c].phase = "written"
               PROVE  call[c].item = row /\ call[c].target \in transitionsFor(Me, row)
    OBVIOUS
  <2>1. Applies(call[c].item, call[c].target, call[c].linked)
    BY SettledByServer, WrittenIfApplied
  <2>2. Carried(call[c])
    BY DEF IInv
  <2>3. call[c].item = row
    BY <2>1, <2>2 DEF Carried, Copy, Behind, Applies
  <2>4. Offered(call[c].item, call[c].target)
    BY <2>2 DEF Carried
  <2> QED
    BY <2>3, <2>4 DEF Offered
<1> QED
  BY InitShown, StepsShown, <1>1, PTL DEF Spec, AppliedAsSeen

\* The server refuses what it does not accept, and what it cannot apply.
LEMMA RefusedIfNot ==
  ASSUME IInv, NEW c \in Writer, call'[c].phase = "failed"
  PROVE  /\ ServerChecks(c) => ~Accepts(row, Me, call[c].target)
         /\ ServerCommits(c) => ~Applies(call[c].item, call[c].target, call[c].linked)
<1>1. TypeOK /\ call[c] \in Call
  BY DEF IInv, TypeOK
<1>2. ASSUME ServerChecks(c), Accepts(row, Me, call[c].target) PROVE FALSE
  <2>1. call'[c].phase = "checked"
    BY <1>1, <1>2 DEF ServerChecks, TypeOK, Call
  <2> QED
    BY <2>1
<1>3. ASSUME ServerCommits(c), Applies(call[c].item, call[c].target, call[c].linked)
      PROVE  FALSE
  <2>1. call'[c].phase = "written"
    BY <1>1, <1>3, BecomesPhase DEF ServerCommits, Phase
  <2> QED
    BY <2>1
<1> QED
  BY <1>2, <1>3

\* RefusalsExplained: a transition that was offered is refused only if the record
\* has moved on, if the gate is gone or locked, or if it changed under the server,
\* unless the request was lost (the checks and the transaction of Transition).
THEOREM RefusalsExplained == Spec => RefusedForCause
<1> DEFINE Cause(q) ==
      \/ q.item.version < row.version
      \/ q.phase = "write" /\ GateInTheWay(q.item, q.target)
      \/ /\ q.phase = "checked" /\ gate # q.linked
         /\ WritesGate(q.item, q.target, q.linked)
<1>1. ASSUME IInv, [Next]_vars, NEW c \in Writer,
             call[c].phase \in {"write", "checked"}, call'[c].phase = "failed",
             faults' = faults
      PROVE  Cause(call[c])
  <2> DEFINE q == call[c]
  <2>1. /\ q \in Call /\ row \in Row /\ gate \in GateRow /\ faults \in 0..MaxFaults
        /\ Carried(q) /\ Offered(q.item, q.target) /\ q.target \in DirectiveStates
    BY <1>1 DEF IInv, TypeOK, Carried, Call
  <2>2. ServerChecks(c) \/ ServerCommits(c)
    <3>1. ~Lose(c)
      BY <1>1, <2>1, PageConstants DEF Lose
    <3> QED
      BY <1>1, <3>1, SettledByServer
  <2>3. CASE q.item # row
    <3>1. q.item.version \in Nat /\ row.version \in Nat
      BY <2>1, PageConstants DEF Call, Row
    <3> QED
      BY <2>1, <2>3, <3>1 DEF Carried, Copy, Behind
  <2>4. CASE q.item = row /\ ServerChecks(c)
    <3>1. ~Accepts(row, Me, q.target)
      BY <1>1, <2>4, RefusedIfNot
    <3>2. RecordAllows(row, Me, q.target)
      BY <2>1, <2>4, ButtonsAllowed, PageConstants DEF Offered
    <3>3. GateInTheWay(q.item, q.target)
      BY <2>1, <2>4, <3>1, <3>2, GateObstacles DEF Accepts
    <3> QED
      BY <2>4, <3>3 DEF ServerChecks
  <2>5. CASE q.item = row /\ ServerCommits(c)
    <3>1. ~Applies(q.item, q.target, q.linked)
      BY <1>1, <2>5, RefusedIfNot
    <3>2. WritesGate(q.item, q.target, q.linked) /\ ~Updatable(gate, q.linked.version)
      BY <2>5, <3>1 DEF Applies
    <3>3. q.phase = "checked"
      BY <2>5 DEF ServerCommits
    <3>4. Found(q.linked)
      BY <2>1, <2>5, <3>2, <3>3 DEF Carried, WritesGate
    <3> QED
      BY <3>2, <3>3, <3>4 DEF Updatable
  <2> QED
    BY <2>2, <2>3, <2>4, <2>5
<1>2. IInv /\ [Next]_vars =>
        [\A c \in Writer : LET q == call[c] IN
           q.phase \in {"write", "checked"} /\ call'[c].phase = "failed" /\ faults' = faults =>
             Cause(q)]_vars
  BY <1>1
<1> QED
  BY InitShown, StepsShown, <1>2, PTL DEF Spec, RefusedForCause
=============================================================================
