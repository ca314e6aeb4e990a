------------------------------- MODULE Linkage -------------------------------
(* service/reservoir.go, and the part of service/gate_unit.go that ties a     *)
(* gate to its reservoir: a gate lies in the facility of the reservoir it     *)
(* names.  The gate's own status is the subject of GateUnit.                  *)
EXTENDS Naturals, StatusGraph, Records

CONSTANTS Reservoir, Gate,   \* codes
          Facility,          \* up to the case of letters
          Worker,            \* goroutines serving requests
          None,              \* no facility or code
          MaxVersion         \* bound on versions

ASSUME LinkageConstants ==
  MaxVersion \in Nat \ {0} /\ None \notin Facility \cup Reservoir \cup Gate

VARIABLES reservoir,         \* the reservoir table
          gate,              \* the columns of the gate table a link needs
          req,               \* what each worker is about to write
          sites              \* history: the facilities each reservoir has had

vars == <<reservoir, gate, req, sites>>

ReservoirRow ==
  [row: RowTags, version: 0..MaxVersion,
   facility: Facility \cup {None}, status: ReservoirStates]

GateLink ==
  [row: RowTags, version: 0..MaxVersion,
   facility: Facility \cup {None}, reservoir: Reservoir \cup {None}]

NoReservoir ==
  [row |-> "none", version |-> 0, facility |-> None, status |-> "normal"]

NoLink == [row |-> "none", version |-> 0, facility |-> None, reservoir |-> None]

\* The row a request is going to write, with the version it expects to find.
Request ==
  [op: {"none", "write", "delete"}, id: Reservoir \cup {None},
   expect: 0..MaxVersion, row: ReservoirRow]
  \cup
  [op: {"check gate", "insert gate", "write gate", "delete gate"}, id: Gate,
   expect: 0..MaxVersion, row: GateLink]

NoRequest == [op |-> "none", id |-> None, expect |-> 0, row |-> NoReservoir]

TypeOK ==
  /\ reservoir \in [Reservoir -> ReservoirRow]
  /\ gate \in [Gate -> GateLink]
  /\ req \in [Worker -> Request]
  /\ sites \in [Reservoir -> SUBSET Facility]

Init ==
  /\ reservoir = [r \in Reservoir |-> NoReservoir]
  /\ gate = [g \in Gate |-> NoLink]
  /\ req = [w \in Worker |-> NoRequest]
  /\ sites = [r \in Reservoir |-> {}]

Idle(w) == req[w] = NoRequest

Begin(w, op, id, e, row) ==
  /\ req' = [req EXCEPT ![w] = [op |-> op, id |-> id, expect |-> e, row |-> row]]
  /\ UNCHANGED <<reservoir, gate, sites>>

Finish(w) == req' = [req EXCEPT ![w] = NoRequest]

\* The version the client sends with an edit of a row.  As in the dispatch, that it
\* is not ahead of the row is an assumption about clients: the services never
\* compare it with the copy they read.
Expected(row) == {e \in 1..row.version : e < MaxVersion}

-----------------------------------------------------------------------------
CreateReservoir(r, f) ==
  /\ Insertable(reservoir[r])
  /\ reservoir' = [reservoir EXCEPT ![r] =
       [row |-> "live", version |-> 1, facility |-> f, status |-> "normal"]]
  /\ sites' = [sites EXCEPT ![r] = {f}]
  /\ UNCHANGED <<gate, req>>

\* Update may move the reservoir to another facility; nobody asks its gates.
GetForUpdate(w, r, f, e) ==
  /\ Idle(w) /\ Found(reservoir[r]) /\ e \in Expected(reservoir[r])
  /\ Begin(w, "write", r, e,
           [reservoir[r] EXCEPT !.facility = f, !.version = e + 1])

GetForTransition(w, r, to, e) ==
  /\ Idle(w) /\ Found(reservoir[r]) /\ e \in Expected(reservoir[r])
  /\ CanTransition(ReservoirTransitions, reservoir[r].status, to)
  /\ Begin(w, "write", r, e,
           [reservoir[r] EXCEPT !.status = to, !.version = e + 1])

CommitWrite(w) ==
  LET q == req[w] IN
  /\ q.op = "write" /\ Updatable(reservoir[q.id], q.expect)
  /\ reservoir' = [reservoir EXCEPT ![q.id] = q.row]
  /\ sites' = [sites EXCEPT ![q.id] = @ \cup {q.row.facility}]
  /\ Finish(w)
  /\ UNCHANGED gate

GetForDelete(w, r) ==
  /\ Idle(w) /\ Found(reservoir[r])
  /\ Begin(w, "delete", r, 0, reservoir[r])

CommitDelete(w) ==
  LET q == req[w] IN
  /\ q.op = "delete" /\ Found(reservoir[q.id])
  /\ reservoir' = [reservoir EXCEPT ![q.id] = SoftDeleted(@)]
  /\ Finish(w)
  /\ UNCHANGED <<gate, sites>>

-----------------------------------------------------------------------------
\* Mutant of InFacility: a link to a reservoir elsewhere is accepted.
InFacilityUnchecked(r, f) == Found(reservoir[r])

\* The reservoir is found under its code and lies in facility f.
InFacility(r, f) == Found(reservoir[r]) /\ reservoir[r].facility = f

GetForGateCreate(w, g, r, f) ==
  /\ Idle(w) /\ Insertable(gate[g]) /\ InFacility(r, f)
  /\ Begin(w, "insert gate", g, 0,
           [row |-> "live", version |-> 1, facility |-> f, reservoir |-> r])

CommitGateInsert(w) ==
  LET q == req[w] IN
  /\ q.op = "insert gate" /\ Insertable(gate[q.id])
  /\ gate' = [gate EXCEPT ![q.id] = q.row]
  /\ Finish(w)
  /\ UNCHANGED <<reservoir, sites>>

\* Update reads the gate, whose link must stay, and then its reservoir.
GetForGateUpdate(w, g, f, e) ==
  /\ Idle(w) /\ Found(gate[g]) /\ e \in Expected(gate[g])
  /\ Begin(w, "check gate", g, e,
           [gate[g] EXCEPT !.facility = f, !.version = e + 1])

GetReservoirForGateUpdate(w) ==
  LET q == req[w] IN
  /\ q.op = "check gate" /\ InFacility(q.row.reservoir, q.row.facility)
  /\ Begin(w, "write gate", q.id, q.expect, q.row)

\* A transition of the gate writes its facility and link back.
GetForGateTransition(w, g, e) ==
  /\ Idle(w) /\ Found(gate[g]) /\ e \in Expected(gate[g])
  /\ Begin(w, "write gate", g, e, [gate[g] EXCEPT !.version = e + 1])

CommitGateWrite(w) ==
  LET q == req[w] IN
  /\ q.op = "write gate" /\ Updatable(gate[q.id], q.expect)
  /\ gate' = [gate EXCEPT ![q.id] = q.row]
  /\ Finish(w)
  /\ UNCHANGED <<reservoir, sites>>

GetForGateDelete(w, g) ==
  /\ Idle(w) /\ Found(gate[g])
  /\ Begin(w, "delete gate", g, 0, gate[g])

CommitGateDelete(w) ==
  LET q == req[w] IN
  /\ q.op = "delete gate" /\ Found(gate[q.id])
  /\ gate' = [gate EXCEPT ![q.id] = SoftDeleted(@)]
  /\ Finish(w)
  /\ UNCHANGED <<reservoir, sites>>

\* A failed check, a conflict, a database error or a crash.
Abandon(w) ==
  /\ ~Idle(w)
  /\ Finish(w)
  /\ UNCHANGED <<reservoir, gate, sites>>

ReservoirStep(w) ==
  \/ \E r \in Reservoir, e \in 1..MaxVersion :
       \/ \E f \in Facility : GetForUpdate(w, r, f, e)
       \/ \E to \in ReservoirStates : GetForTransition(w, r, to, e)
  \/ CommitWrite(w)
  \/ \E r \in Reservoir : GetForDelete(w, r)
  \/ CommitDelete(w)

GateStep(w) ==
  \/ \E g \in Gate, r \in Reservoir, f \in Facility : GetForGateCreate(w, g, r, f)
  \/ CommitGateInsert(w)
  \/ \E g \in Gate, f \in Facility, e \in 1..MaxVersion : GetForGateUpdate(w, g, f, e)
  \/ GetReservoirForGateUpdate(w)
  \/ \E g \in Gate, e \in 1..MaxVersion : GetForGateTransition(w, g, e)
  \/ CommitGateWrite(w)
  \/ \E g \in Gate : GetForGateDelete(w, g)
  \/ CommitGateDelete(w)

Next ==
  \/ \E r \in Reservoir, f \in Facility : CreateReservoir(r, f)
  \/ \E w \in Worker : ReservoirStep(w) \/ GateStep(w) \/ Abandon(w)

Spec == Init /\ [][Next]_vars

-----------------------------------------------------------------------------
\* Whatever is edited, moved or deleted meanwhile, a gate lies in a facility
\* that its reservoir has, or had when the gate was last checked against it.
FacilityOfReservoir ==
  \A g \in Gate : gate[g].row # "none" =>
    gate[g].reservoir \in Reservoir /\ gate[g].facility \in sites[gate[g].reservoir]

\* Two writers of a reservoir never undo each other: a write is the next
\* version, and either moves the status along the graph or edits the fields,
\* with all that the previous writer left.
ReservoirMoves ==
  [][\A r \in Reservoir :
       Found(reservoir[r]) /\ reservoir'[r] # reservoir[r] /\ Found(reservoir'[r]) =>
         /\ reservoir'[r].version = reservoir[r].version + 1
         /\ \/ reservoir'[r].status = reservoir[r].status
            \/ /\ CanTransition(ReservoirTransitions,
                                reservoir[r].status, reservoir'[r].status)
               /\ reservoir'[r].facility = reservoir[r].facility]_vars
=============================================================================
