---------------------------- MODULE LinkageProofs -----------------------------
(* A gate lies in a facility its reservoir has had, and two writers of a       *)
(* reservoir do not undo each other, for any number of records and workers.    *)
EXTENDS Linkage, TLAPS

\* A reservoir that exists lies in one of the facilities it has had.
ReservoirSited(r) ==
  IF Insertable(reservoir[r]) THEN sites[r] = {}
  ELSE reservoir[r].version \in 1..MaxVersion /\ reservoir[r].facility \in sites[r]

\* So does a gate, in one its reservoir has had.
LinkSited(row) == row.reservoir \in Reservoir /\ row.facility \in sites[row.reservoir]

\* What a request for a reservoir may carry: a copy of the row it read, edited
\* and one version on.  While the version is still the one it read, so is what
\* the edit left alone.
WriteSound(q) ==
  LET row == reservoir[q.id] IN
  /\ q.id \in Reservoir /\ row.row # "none"
  /\ q.row.row = "live" /\ q.row.version = q.expect + 1 /\ q.row.facility \in Facility
  /\ q.expect <= row.version
  /\ q.expect = row.version =>
       \/ q.row.status = row.status
       \/ /\ CanTransition(ReservoirTransitions, row.status, q.row.status)
          /\ q.row.facility = row.facility

\* A request for a gate carries the link it checked or found.
RequestSound(q) ==
  CASE q.op = "write" -> WriteSound(q)
    [] q.op = "delete" -> q.id \in Reservoir
    [] q.op = "check gate" -> q.row.reservoir \in Reservoir /\ q.row.row = "live"
    [] q.op \in {"insert gate", "write gate"} -> LinkSited(q.row) /\ q.row.row = "live"
    [] OTHER -> TRUE

IInv ==
  /\ TypeOK
  /\ \A r \in Reservoir : ReservoirSited(r)
  /\ FacilityOfReservoir
  /\ \A w \in Worker : RequestSound(req[w])

-----------------------------------------------------------------------------
\* What the tables do to one another: versions and facilities only grow, and a
\* row a request has read is there for good.
Forward(r) ==
  /\ sites[r] \subseteq sites'[r]
  /\ ~Insertable(reservoir[r]) =>
       /\ ~Insertable(reservoir'[r])
       /\ reservoir[r].version <= reservoir'[r].version
       /\ \/ reservoir'[r].version # reservoir[r].version
          \/ /\ reservoir'[r].status = reservoir[r].status
             /\ reservoir'[r].facility = reservoir[r].facility

\* The copy a request carries stays sound however the tables move on.
LEMMA CopiesAge ==
  ASSUME TypeOK, TypeOK', NEW q \in Request, RequestSound(q),
         \A r \in Reservoir : Forward(r)
  PROVE  RequestSound(q)'
<1>1. LinkSited(q.row) => LinkSited(q.row)'
  BY DEF LinkSited, Forward
<1>2. ASSUME q.op = "write" PROVE WriteSound(q)'
  <2>1. q.id \in Reservoir /\ WriteSound(q) /\ Forward(q.id)
    BY <1>2 DEF RequestSound, WriteSound
  <2>2. /\ reservoir[q.id].version \in Nat /\ reservoir'[q.id].version \in Nat
        /\ q.expect \in Nat
    <3>1. q.expect \in 0..MaxVersion
      BY DEF Request
    <3>2. reservoir[q.id] \in ReservoirRow /\ reservoir'[q.id] \in ReservoirRow
      BY <2>1 DEF TypeOK
    <3> QED
      BY <3>1, <3>2, LinkageConstants DEF ReservoirRow
  <2> QED
    BY <2>1, <2>2 DEF WriteSound, Forward, Insertable
<1> QED
  BY <1>1, <1>2 DEF RequestSound

\* A request that is taken up or handed on changes no table.
LEMMA RequestsKeep ==
  ASSUME IInv, NEW w \in Worker, NEW q \in Request, RequestSound(q),
         req' = [req EXCEPT ![w] = q], UNCHANGED <<reservoir, gate, sites>>
  PROVE  IInv'
<1>1. TypeOK'
  BY DEF IInv, TypeOK
<1>2. \A x \in Worker : req'[x] = IF x = w THEN q ELSE req[x]
  BY DEF IInv, TypeOK
<1>3. \A x \in Worker : RequestSound(req[x]) /\ RequestSound(req'[x])
  BY <1>2 DEF IInv
<1>4. \A x \in Worker : RequestSound(req[x])'
  BY <1>3 DEF RequestSound, WriteSound, LinkSited
<1>5. \A r \in Reservoir : ReservoirSited(r)'
  BY DEF IInv, ReservoirSited
<1> QED
  BY <1>1, <1>4, <1>5 DEF IInv, FacilityOfReservoir

\* The requests that are taken up carry a copy of the row they read.
LEMMA ReservoirReads ==
  ASSUME IInv, NEW w \in Worker, NEW r \in Reservoir, NEW e \in 1..MaxVersion,
         \/ \E f \in Facility : GetForUpdate(w, r, f, e)
         \/ \E to \in ReservoirStates : GetForTransition(w, r, to, e)
  PROVE  IInv'
<1> USE LinkageConstants
<1>1. /\ reservoir[r] \in ReservoirRow /\ e \in 1..reservoir[r].version /\ e < MaxVersion
      /\ Found(reservoir[r]) /\ ReservoirSited(r) /\ sites[r] \subseteq Facility
  BY DEF IInv, TypeOK, GetForUpdate, GetForTransition, Expected
<1>2. /\ e \in Nat /\ e + 1 \in 0..MaxVersion /\ e \in 0..MaxVersion
      /\ reservoir[r].version \in Nat /\ e <= reservoir[r].version
      /\ reservoir[r].facility \in Facility
  BY <1>1 DEF ReservoirRow, ReservoirSited, Insertable, Found
<1>3. PICK row \in ReservoirRow :
        /\ Begin(w, "write", r, e, row)
        /\ row.row = "live" /\ row.version = e + 1 /\ row.facility \in Facility
        /\ \/ row.status = reservoir[r].status
           \/ /\ CanTransition(ReservoirTransitions, reservoir[r].status, row.status)
              /\ row.facility = reservoir[r].facility
  <2>1. ASSUME NEW f \in Facility, GetForUpdate(w, r, f, e)
        PROVE  \E row \in ReservoirRow :
                 /\ Begin(w, "write", r, e, row)
                 /\ row.row = "live" /\ row.version = e + 1 /\ row.facility \in Facility
                 /\ row.status = reservoir[r].status
    <3> DEFINE old == reservoir[r]
               row == [old EXCEPT !.facility = f, !.version = e + 1]
    <3>1. /\ row \in ReservoirRow /\ row.row = "live" /\ row.version = e + 1
          /\ row.facility = f /\ row.status = old.status
      BY <1>1, <1>2 DEF ReservoirRow, Found
    <3>2. Begin(w, "write", r, e, row)
      BY <2>1 DEF GetForUpdate
    <3> QED
      BY <3>1, <3>2
  <2>2. ASSUME NEW to \in ReservoirStates, GetForTransition(w, r, to, e)
        PROVE  \E row \in ReservoirRow :
                 /\ Begin(w, "write", r, e, row)
                 /\ row.row = "live" /\ row.version = e + 1
                 /\ row.facility = reservoir[r].facility
                 /\ CanTransition(ReservoirTransitions, reservoir[r].status, row.status)
    <3> DEFINE old == reservoir[r]
               row == [old EXCEPT !.status = to, !.version = e + 1]
    <3>1. /\ row \in ReservoirRow /\ row.row = "live" /\ row.version = e + 1
          /\ row.facility = old.facility /\ row.status = to
      BY <1>1, <1>2 DEF ReservoirRow, Found
    <3>2. Begin(w, "write", r, e, row) /\ CanTransition(ReservoirTransitions, old.status, to)
      BY <2>2 DEF GetForTransition
    <3> QED
      BY <3>1, <3>2
  <2> QED
    BY <1>2, <2>1, <2>2
<1> DEFINE q == [op |-> "write", id |-> r, expect |-> e, row |-> row]
<1>4. q \in Request /\ WriteSound(q)
  BY <1>1, <1>2, <1>3 DEF Request, WriteSound, Found
<1>5. RequestSound(q)
  BY <1>4 DEF RequestSound
<1>6. req' = [req EXCEPT ![w] = q] /\ UNCHANGED <<reservoir, gate, sites>>
  BY <1>3 DEF Begin
<1> HIDE DEF q
<1> QED
  BY <1>4, <1>5, <1>6, RequestsKeep

\* Those for a gate carry the link they checked or found.
LEMMA GateReads ==
  ASSUME IInv, NEW w \in Worker, NEW g \in Gate, NEW e \in 1..MaxVersion,
         \/ \E f \in Facility : GetForGateUpdate(w, g, f, e)
         \/ GetForGateTransition(w, g, e)
  PROVE  IInv'
<1> USE LinkageConstants
<1>1. /\ gate[g] \in GateLink /\ e \in 0..MaxVersion /\ e + 1 \in 0..MaxVersion
      /\ Found(gate[g]) /\ LinkSited(gate[g])
  <2>1. gate[g] \in GateLink /\ Found(gate[g]) /\ e < MaxVersion
    BY DEF IInv, TypeOK, GetForGateUpdate, GetForGateTransition, Expected
  <2>2. e \in 0..MaxVersion /\ e + 1 \in 0..MaxVersion
    BY <2>1
  <2>3. LinkSited(gate[g])
    BY <2>1 DEF IInv, FacilityOfReservoir, LinkSited, Found
  <2> QED
    BY <2>1, <2>2, <2>3
<1>2. PICK op \in {"check gate", "write gate"}, row \in GateLink :
        /\ Begin(w, op, g, e, row)
        /\ row.row = "live" /\ row.reservoir \in Reservoir
        /\ op = "write gate" => LinkSited(row)
  <2>1. ASSUME NEW f \in Facility, GetForGateUpdate(w, g, f, e)
        PROVE  \E row \in GateLink :
                 /\ Begin(w, "check gate", g, e, row)
                 /\ row.row = "live" /\ row.reservoir \in Reservoir
    <3> DEFINE old == gate[g]
               row == [old EXCEPT !.facility = f, !.version = e + 1]
    <3>1. row \in GateLink /\ row.row = "live" /\ row.reservoir = old.reservoir
      BY <1>1 DEF GateLink, Found
    <3>2. Begin(w, "check gate", g, e, row)
      BY <2>1 DEF GetForGateUpdate
    <3> QED
      BY <1>1, <3>1, <3>2 DEF LinkSited
  <2>2. ASSUME GetForGateTransition(w, g, e)
        PROVE  \E row \in GateLink :
                 /\ Begin(w, "write gate", g, e, row)
                 /\ row.row = "live" /\ LinkSited(row)
    <3> DEFINE old == gate[g]
               row == [old EXCEPT !.version = e + 1]
    <3>1. /\ row \in GateLink /\ row.row = "live" /\ row.reservoir = old.reservoir
          /\ row.facility = old.facility
      BY <1>1 DEF GateLink, Found
    <3>2. Begin(w, "write gate", g, e, row)
      BY <2>2 DEF GetForGateTransition
    <3>3. LinkSited(row)
      BY <1>1, <3>1 DEF LinkSited
    <3> QED
      BY <3>1, <3>2, <3>3
  <2> QED
    BY <2>1, <2>2 DEF LinkSited
<1> DEFINE q == [op |-> op, id |-> g, expect |-> e, row |-> row]
<1>3. q \in Request
  BY <1>1, <1>2 DEF Request
<1>4. RequestSound(q)
  BY <1>2 DEF RequestSound
<1>5. req' = [req EXCEPT ![w] = q] /\ UNCHANGED <<reservoir, gate, sites>>
  BY <1>2 DEF Begin
<1> HIDE DEF q
<1> QED
  BY <1>3, <1>4, <1>5, RequestsKeep

\* A new gate is checked against the reservoir it names.
LEMMA GateCreateReads ==
  ASSUME IInv, NEW w \in Worker, NEW g \in Gate, NEW r \in Reservoir, NEW f \in Facility,
         GetForGateCreate(w, g, r, f)
  PROVE  IInv'
<1> USE LinkageConstants
<1> DEFINE row == [row |-> "live", version |-> 1, facility |-> f, reservoir |-> r]
           q == [op |-> "insert gate", id |-> g, expect |-> 0, row |-> row]
<1>1. row \in GateLink
  BY DEF GateLink, RowTags
<1>2. f \in sites[r]
  BY DEF IInv, ReservoirSited, GetForGateCreate, InFacility, Found, Insertable
<1>3. q \in Request
  BY <1>1 DEF Request
<1>4. RequestSound(q)
  BY <1>2 DEF RequestSound, LinkSited
<1>5. req' = [req EXCEPT ![w] = q] /\ UNCHANGED <<reservoir, gate, sites>>
  BY DEF GetForGateCreate, Begin
<1> HIDE DEF q
<1> QED
  BY <1>3, <1>4, <1>5, RequestsKeep

\* An edited gate is checked against the reservoir it has named all along.
LEMMA GateUpdateChecks ==
  ASSUME IInv, NEW w \in Worker, GetReservoirForGateUpdate(w)
  PROVE  IInv'
<1> USE LinkageConstants
<1>1. /\ req[w] \in Request /\ req[w].op = "check gate" /\ RequestSound(req[w])
      /\ InFacility(req[w].row.reservoir, req[w].row.facility)
  BY DEF IInv, TypeOK, GetReservoirForGateUpdate
<1>2. /\ req[w].id \in Gate /\ req[w].expect \in 0..MaxVersion /\ req[w].row \in GateLink
      /\ req[w].row.reservoir \in Reservoir /\ req[w].row.row = "live"
  BY <1>1 DEF Request, RequestSound
<1>3. LinkSited(req[w].row)
  <2>1. ReservoirSited(req[w].row.reservoir)
    BY <1>2 DEF IInv
  <2> QED
    BY <1>1, <1>2, <2>1 DEF ReservoirSited, InFacility, Found, Insertable, LinkSited
<1>4. PICK q \in Request :
        /\ q = [op |-> "write gate", id |-> req[w].id, expect |-> req[w].expect,
                row |-> req[w].row]
  BY <1>2 DEF Request
<1>5. RequestSound(q)
  BY <1>2, <1>3, <1>4 DEF RequestSound
<1>6. req' = [req EXCEPT ![w] = q] /\ UNCHANGED <<reservoir, gate, sites>>
  BY <1>4 DEF GetReservoirForGateUpdate, Begin
<1> QED
  BY <1>5, <1>6, RequestsKeep

\* The idle request is one of them.
LEMMA IdleSound == NoRequest \in Request /\ \A w \in Worker : RequestSound(NoRequest)
BY LinkageConstants
   DEF NoRequest, Request, NoReservoir, ReservoirRow, RowTags, ReservoirStates, RequestSound

\* A request that is given up leaves the tables as they are.
LEMMA GivenUp ==
  ASSUME IInv, NEW w \in Worker, Abandon(w)
  PROVE  IInv'
<1>1. RequestSound(NoRequest) /\ NoRequest \in Request
  BY IdleSound
<1>2. req' = [req EXCEPT ![w] = NoRequest] /\ UNCHANGED <<reservoir, gate, sites>>
  BY DEF Abandon, Finish
<1> QED
  BY <1>1, <1>2, RequestsKeep

\* A deletion remembers only what it is to delete.
LEMMA DeleteReads ==
  ASSUME IInv, NEW w \in Worker,
         \/ \E r \in Reservoir : GetForDelete(w, r)
         \/ \E g \in Gate : GetForGateDelete(w, g)
  PROVE  IInv'
<1> USE LinkageConstants
<1>1. PICK q \in Request :
        /\ \/ q.op = "delete" /\ q.id \in Reservoir
           \/ q.op = "delete gate"
        /\ req' = [req EXCEPT ![w] = q] /\ UNCHANGED <<reservoir, gate, sites>>
  <2>1. ASSUME NEW r \in Reservoir, GetForDelete(w, r)
        PROVE  \E q \in Request :
                 /\ q.op = "delete" /\ q.id \in Reservoir
                 /\ req' = [req EXCEPT ![w] = q] /\ UNCHANGED <<reservoir, gate, sites>>
    <3> DEFINE q == [op |-> "delete", id |-> r, expect |-> 0, row |-> reservoir[r]]
    <3>1. q \in Request
      <4>1. reservoir[r] \in ReservoirRow /\ 0 \in 0..MaxVersion
        BY DEF IInv, TypeOK
      <4> QED
        BY <4>1 DEF Request
    <3>2. req' = [req EXCEPT ![w] = q] /\ UNCHANGED <<reservoir, gate, sites>>
      BY <2>1 DEF GetForDelete, Begin
    <3> QED
      BY <3>1, <3>2
  <2>2. ASSUME NEW g \in Gate, GetForGateDelete(w, g)
        PROVE  \E q \in Request :
                 /\ q.op = "delete gate"
                 /\ req' = [req EXCEPT ![w] = q] /\ UNCHANGED <<reservoir, gate, sites>>
    <3> DEFINE q == [op |-> "delete gate", id |-> g, expect |-> 0, row |-> gate[g]]
    <3>1. q \in Request
      <4>1. gate[g] \in GateLink /\ 0 \in 0..MaxVersion
        BY DEF IInv, TypeOK
      <4> QED
        BY <4>1 DEF Request
    <3>2. req' = [req EXCEPT ![w] = q] /\ UNCHANGED <<reservoir, gate, sites>>
      BY <2>2 DEF GetForGateDelete, Begin
    <3> QED
      BY <3>1, <3>2
  <2> QED
    BY <2>1, <2>2
<1>2. RequestSound(q)
  BY <1>1 DEF RequestSound
<1> QED
  BY <1>1, <1>2, RequestsKeep

-----------------------------------------------------------------------------
\* A step that moves one reservoir forward, and the request that did it on.
LEMMA ReservoirChanges ==
  ASSUME IInv, NEW r \in Reservoir, NEW row \in ReservoirRow, NEW had \in SUBSET Facility,
         reservoir' = [reservoir EXCEPT ![r] = row],
         sites' = [sites EXCEPT ![r] = had], gate' = gate,
         Forward(r), row.row # "none", row.version \in 1..MaxVersion, row.facility \in had,
         req' \in [Worker -> Request],
         \A w \in Worker : req'[w] = req[w] \/ req'[w] = NoRequest
  PROVE  IInv'
<1>1. /\ \A x \in Reservoir : reservoir'[x] = IF x = r THEN row ELSE reservoir[x]
      /\ \A x \in Reservoir : sites'[x] = IF x = r THEN had ELSE sites[x]
  BY DEF IInv, TypeOK
<1>2. TypeOK'
  BY DEF IInv, TypeOK
<1>3. \A x \in Reservoir : Forward(x)
  <2>1. ASSUME NEW x \in Reservoir, x # r PROVE Forward(x)
    <3>1. reservoir'[x] = reservoir[x] /\ sites'[x] = sites[x]
      BY <1>1, <2>1
    <3>2. reservoir[x].version \in Nat
      BY LinkageConstants DEF IInv, TypeOK, ReservoirRow
    <3> QED
      BY <3>1, <3>2 DEF Forward
  <2> QED
    BY <2>1
<1>4. \A x \in Reservoir : ReservoirSited(x)'
  BY <1>1 DEF IInv, ReservoirSited, Insertable
<1>5. FacilityOfReservoir'
  BY <1>3 DEF IInv, FacilityOfReservoir, Forward
<1>6. \A w \in Worker : RequestSound(req[w])'
  <2> SUFFICES ASSUME NEW w \in Worker, NEW q, q = req'[w] PROVE RequestSound(q)'
    BY DEF RequestSound, WriteSound, LinkSited
  <2>1. q \in Request /\ RequestSound(q)
    BY IdleSound DEF IInv, TypeOK
  <2> QED
    BY <1>2, <1>3, <2>1, CopiesAge DEF IInv
<1> QED
  BY <1>2, <1>4, <1>5, <1>6 DEF IInv

\* The writes of reservoirs.
LEMMA ReservoirWrites ==
  ASSUME IInv,
         \/ \E r \in Reservoir, f \in Facility : CreateReservoir(r, f)
         \/ \E w \in Worker : CommitWrite(w) \/ CommitDelete(w)
  PROVE  IInv'
<1> USE LinkageConstants
<1>1. req \in [Worker -> Request] /\ NoRequest \in Request
  BY IdleSound DEF IInv, TypeOK
<1>2. ASSUME NEW r \in Reservoir, NEW f \in Facility, CreateReservoir(r, f)
      PROVE  IInv'
  <2> DEFINE row == [row |-> "live", version |-> 1, facility |-> f, status |-> "normal"]
  <2>1. /\ row \in ReservoirRow /\ row.row # "none" /\ row.version \in 1..MaxVersion
        /\ row.facility \in {f}
    BY DEF ReservoirRow, RowTags, ReservoirStates
  <2>2. /\ reservoir' = [reservoir EXCEPT ![r] = row] /\ sites' = [sites EXCEPT ![r] = {f}]
        /\ gate' = gate /\ req' = req /\ Insertable(reservoir[r])
    BY <1>2 DEF CreateReservoir
  <2>3. Forward(r)
    BY <2>2 DEF IInv, TypeOK, ReservoirSited, Forward
  <2> HIDE DEF row
  <2>4. {f} \in SUBSET Facility /\ \A w \in Worker : req'[w] = req[w]
    BY <2>2
  <2>5. req' \in [Worker -> Request]
    BY <1>1, <2>2
  <2> QED
    BY <2>1, <2>2, <2>3, <2>4, <2>5, ReservoirChanges
<1>3. ASSUME NEW w \in Worker, CommitWrite(w)
      PROVE  IInv'
  <2>1. PICK r \in Reservoir, row \in ReservoirRow, had \in SUBSET Facility :
          r = req[w].id /\ row = req[w].row /\ had = sites[r] \cup {row.facility}
    <3>1. /\ req[w] \in Request /\ req[w].op = "write" /\ WriteSound(req[w])
      BY <1>1, <1>3 DEF CommitWrite, IInv, RequestSound
    <3>2. req[w].id \in Reservoir /\ req[w].row \in ReservoirRow
          /\ req[w].row.facility \in Facility
      BY <3>1 DEF WriteSound, Request
    <3> QED
      BY <3>2 DEF IInv, TypeOK
  <2>2. /\ req[w].op = "write" /\ Updatable(reservoir[r], req[w].expect)
        /\ reservoir' = [reservoir EXCEPT ![r] = row]
        /\ sites' = [sites EXCEPT ![r] = had]
        /\ req' = [req EXCEPT ![w] = NoRequest] /\ gate' = gate
    BY <1>3, <2>1 DEF CommitWrite, Finish, IInv, TypeOK
  <2>3. /\ row.row = "live" /\ row.version = reservoir[r].version + 1
    BY <1>3, <2>1, <2>2 DEF IInv, RequestSound, WriteSound, Updatable
  <2>4. reservoir[r].version \in Nat /\ row.version \in 0..MaxVersion
        /\ row.version \in 1..MaxVersion
    BY <2>3 DEF IInv, TypeOK, ReservoirRow
  <2>5. reservoir'[r] = row /\ sites'[r] = had
    BY <2>2 DEF IInv, TypeOK
  <2>6. Forward(r)
    BY <2>1, <2>3, <2>4, <2>5 DEF Forward, Insertable
  <2>7. /\ req' \in [Worker -> Request]
        /\ \A x \in Worker : req'[x] = req[x] \/ req'[x] = NoRequest
    BY <1>1, <2>2
  <2> QED
    BY <2>1, <2>2, <2>3, <2>4, <2>6, <2>7, ReservoirChanges
<1>4. ASSUME NEW w \in Worker, CommitDelete(w)
      PROVE  IInv'
  <2>1. PICK r \in Reservoir : r = req[w].id
    BY <1>4 DEF CommitDelete, IInv, RequestSound
  <2> DEFINE old == reservoir[r]
             row == SoftDeleted(old)
  <2>2. /\ Found(old) /\ reservoir' = [reservoir EXCEPT ![r] = row]
        /\ req' = [req EXCEPT ![w] = NoRequest] /\ gate' = gate /\ sites' = sites
    BY <1>4, <2>1 DEF CommitDelete, Finish, IInv, TypeOK
  <2>3. old \in ReservoirRow /\ ReservoirSited(r)
    BY DEF IInv, TypeOK
  <2>4. /\ row \in ReservoirRow /\ row.row = "deleted" /\ row.version = old.version
        /\ row.status = old.status /\ row.facility = old.facility
    BY <2>3 DEF SoftDeleted, ReservoirRow, RowTags
  <2>5. old.version \in 1..MaxVersion /\ old.facility \in sites[r]
    BY <2>2, <2>3 DEF ReservoirSited, Found, Insertable
  <2>6. /\ sites' = [sites EXCEPT ![r] = sites[r]] /\ sites[r] \in SUBSET Facility
    BY <2>2 DEF IInv, TypeOK
  <2>7. reservoir'[r] = row
    BY <2>2 DEF IInv, TypeOK
  <2> HIDE DEF row
  <2>8. Forward(r)
    BY <2>2, <2>4, <2>5, <2>7 DEF Forward, Insertable
  <2>9. /\ req' \in [Worker -> Request]
        /\ \A x \in Worker : req'[x] = req[x] \/ req'[x] = NoRequest
    BY <1>1, <2>2
  <2> QED
    BY <2>2, <2>4, <2>5, <2>6, <2>8, <2>9, ReservoirChanges
<1> QED
  BY <1>2, <1>3, <1>4

\* The writes of gates.
LEMMA GateWrites ==
  ASSUME IInv, NEW w \in Worker,
         CommitGateInsert(w) \/ CommitGateWrite(w) \/ CommitGateDelete(w)
  PROVE  IInv'
<1> USE LinkageConstants
<1>1. /\ req[w] \in Request /\ RequestSound(req[w])
      /\ gate \in [Gate -> GateLink] /\ req \in [Worker -> Request]
  BY DEF IInv, TypeOK
<1>2. /\ req' = [req EXCEPT ![w] = NoRequest] /\ UNCHANGED <<reservoir, sites>>
  BY DEF CommitGateInsert, CommitGateWrite, CommitGateDelete, Finish
<1>3. PICK g \in Gate : g = req[w].id
  BY <1>1 DEF Request, CommitGateInsert, CommitGateWrite, CommitGateDelete
<1>4. PICK link \in GateLink : gate' = [gate EXCEPT ![g] = link] /\ LinkSited(link)
  <2>1. CASE CommitGateInsert(w) \/ CommitGateWrite(w)
    <3>1. /\ req[w].op \in {"insert gate", "write gate"}
          /\ gate' = [gate EXCEPT ![g] = req[w].row]
      BY <1>3, <2>1 DEF CommitGateInsert, CommitGateWrite
    <3>2. req[w].row \in GateLink /\ LinkSited(req[w].row)
      BY <1>1, <3>1 DEF Request, RequestSound
    <3> QED
      BY <3>1, <3>2
  <2>2. CASE CommitGateDelete(w)
    <3> DEFINE old == gate[g]
               link == SoftDeleted(old)
    <3>1. Found(old) /\ gate' = [gate EXCEPT ![g] = link]
      BY <1>1, <1>3, <2>2 DEF CommitGateDelete
    <3>2. old \in GateLink /\ LinkSited(old)
      BY <1>1, <3>1 DEF IInv, FacilityOfReservoir, LinkSited, Found
    <3>3. /\ link \in GateLink /\ link.facility = old.facility
          /\ link.reservoir = old.reservoir
      BY <3>2 DEF SoftDeleted, GateLink, RowTags
    <3>4. LinkSited(link)
      BY <3>2, <3>3 DEF LinkSited
    <3> QED
      BY <3>1, <3>3, <3>4
  <2> QED
    BY <2>1, <2>2
<1>5. TypeOK'
  BY <1>2, <1>4, IdleSound DEF IInv, TypeOK
<1>6. FacilityOfReservoir'
  <2> SUFFICES ASSUME NEW x \in Gate, gate'[x].row # "none"
               PROVE  LinkSited(gate'[x])
    BY <1>2 DEF FacilityOfReservoir, LinkSited
  <2>1. CASE x = g
    BY <1>1, <1>4, <2>1
  <2>2. CASE x # g
    BY <1>1, <1>4, <2>2 DEF IInv, FacilityOfReservoir, LinkSited
  <2> QED
    BY <2>1, <2>2
<1>7. \A x \in Worker : RequestSound(req[x])'
  <2>1. \A x \in Worker : RequestSound(req'[x])
    BY <1>1, <1>2, IdleSound DEF IInv
  <2> QED
    BY <1>2, <2>1 DEF RequestSound, WriteSound, LinkSited
<1>8. \A x \in Reservoir : ReservoirSited(x)'
  BY <1>2 DEF IInv, ReservoirSited
<1> QED
  BY <1>5, <1>6, <1>7, <1>8 DEF IInv

\* Nothing exists at the start.
LEMMA InitLinked == Init => IInv
<1> SUFFICES ASSUME Init PROVE IInv
  OBVIOUS
<1>1. TypeOK
  <2>1. NoReservoir \in ReservoirRow /\ NoLink \in GateLink
    BY LinkageConstants
    DEF NoReservoir, NoLink, ReservoirRow, GateLink, RowTags, ReservoirStates
  <2>2. Worker = {} \/ NoRequest \in Request
    BY IdleSound
  <2> QED
    BY <2>1, <2>2 DEF Init, TypeOK
<1>2. \A r \in Reservoir : ReservoirSited(r)
  BY DEF Init, ReservoirSited, Insertable, NoReservoir
<1>3. FacilityOfReservoir
  BY DEF Init, FacilityOfReservoir, NoLink
<1>4. \A w \in Worker : RequestSound(req[w])
  BY IdleSound DEF Init
<1> QED
  BY <1>1, <1>2, <1>3, <1>4 DEF IInv

\* Every step keeps the tables linked.
LEMMA StepsLinked == IInv /\ [Next]_vars => IInv'
<1> SUFFICES ASSUME IInv, [Next]_vars PROVE IInv'
  OBVIOUS
<1>1. ASSUME NEW r \in Reservoir, NEW f \in Facility, CreateReservoir(r, f) PROVE IInv'
  BY <1>1, ReservoirWrites
<1>2. ASSUME NEW w \in Worker, ReservoirStep(w) PROVE IInv'
  BY <1>2, ReservoirReads, ReservoirWrites, DeleteReads DEF ReservoirStep
<1>3. ASSUME NEW w \in Worker, GateStep(w) PROVE IInv'
  BY <1>3, GateReads, GateCreateReads, GateUpdateChecks, GateWrites, DeleteReads DEF GateStep
<1>4. ASSUME NEW w \in Worker, Abandon(w) PROVE IInv'
  BY <1>4, GivenUp
<1>5. CASE UNCHANGED vars
  <2>1. UNCHANGED <<reservoir, gate, req, sites>>
    BY <1>5 DEF vars
  <2>2. \A w \in Worker : RequestSound(req[w])'
    BY <2>1 DEF IInv, RequestSound, WriteSound, LinkSited
  <2>3. \A r \in Reservoir : ReservoirSited(r)'
    BY <2>1 DEF IInv, ReservoirSited
  <2> QED
    BY <2>1, <2>2, <2>3 DEF IInv, TypeOK, FacilityOfReservoir
<1> QED
  BY <1>1, <1>2, <1>3, <1>4, <1>5 DEF Next

\* The tables and the requests keep their types.
THEOREM LinkageTypeCorrect == Spec => []TypeOK
<1>1. IInv => TypeOK
  BY DEF IInv
<1> QED
  BY InitLinked, StepsLinked, <1>1, PTL DEF Spec

\* GatesLinked: a gate lies in a facility its reservoir has, or had when the gate
\* was last checked against it (gate_unit.go Create and Update), whatever is
\* edited, moved or deleted meanwhile.
THEOREM GatesLinked == Spec => []FacilityOfReservoir
<1>1. IInv => FacilityOfReservoir
  BY DEF IInv
<1> QED
  BY InitLinked, StepsLinked, <1>1, PTL DEF Spec

\* NothingUndone: a write of a reservoir (reservoir.go Update and
\* TransitionStatus) loses nothing that another writer left.
THEOREM NothingUndone == Spec => ReservoirMoves
<1>1. IInv /\ [Next]_vars =>
        [\A r \in Reservoir :
           Found(reservoir[r]) /\ reservoir'[r] # reservoir[r] /\ Found(reservoir'[r]) =>
             /\ reservoir'[r].version = reservoir[r].version + 1
             /\ \/ reservoir'[r].status = reservoir[r].status
                \/ /\ CanTransition(ReservoirTransitions,
                                    reservoir[r].status, reservoir'[r].status)
                   /\ reservoir'[r].facility = reservoir[r].facility]_vars
  <2> SUFFICES ASSUME IInv, [Next]_vars, NEW r \in Reservoir,
                      Found(reservoir[r]), reservoir'[r] # reservoir[r], Found(reservoir'[r])
               PROVE  /\ reservoir'[r].version = reservoir[r].version + 1
                      /\ \/ reservoir'[r].status = reservoir[r].status
                         \/ /\ CanTransition(ReservoirTransitions,
                                             reservoir[r].status, reservoir'[r].status)
                            /\ reservoir'[r].facility = reservoir[r].facility
    OBVIOUS
  <2>1. reservoir \in [Reservoir -> ReservoirRow] /\ req \in [Worker -> Request]
    BY DEF IInv, TypeOK
  <2>2. ~\E x \in Reservoir, f \in Facility : CreateReservoir(x, f)
    BY <2>1 DEF CreateReservoir, Insertable, Found
  <2>3. ~\E w \in Worker : CommitDelete(w)
    <3> SUFFICES ASSUME NEW w \in Worker, CommitDelete(w) PROVE FALSE
      OBVIOUS
    <3>1. reservoir[r] \in ReservoirRow /\ SoftDeleted(reservoir[r]).row = "deleted"
      BY <2>1 DEF SoftDeleted, ReservoirRow
    <3>2. reservoir' = [reservoir EXCEPT ![req[w].id] = SoftDeleted(@)]
      BY DEF CommitDelete
    <3>3. reservoir'[r] = reservoir[r] \/ reservoir'[r] = SoftDeleted(reservoir[r])
      BY <2>1, <3>2
    <3> QED
      BY <3>1, <3>3 DEF Found
  <2>4. PICK w \in Worker : CommitWrite(w)
    BY <2>2, <2>3
    DEF Next, vars, ReservoirStep, GateStep, GetForUpdate, GetForTransition, GetForDelete,
        GetForGateCreate, CommitGateInsert, GetForGateUpdate, GetReservoirForGateUpdate,
        GetForGateTransition, CommitGateWrite, GetForGateDelete, CommitGateDelete,
        Abandon, Begin
  <2>5. /\ req[w].op = "write" /\ WriteSound(req[w])
        /\ Updatable(reservoir[req[w].id], req[w].expect)
        /\ reservoir' = [reservoir EXCEPT ![req[w].id] = req[w].row]
    BY <2>4 DEF CommitWrite, IInv, RequestSound
  <2>6. r = req[w].id /\ reservoir'[r] = req[w].row
    BY <2>1, <2>5
  <2> QED
    BY <2>5, <2>6 DEF WriteSound, Updatable
<1> QED
  BY InitLinked, StepsLinked, <1>1, PTL DEF Spec, ReservoirMoves
=============================================================================
