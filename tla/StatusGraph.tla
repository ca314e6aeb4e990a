----------------------------- MODULE StatusGraph -----------------------------
(* The status values of the records, the graphs along which they may move,   *)
(* the roles that may move a directive, and what a move asks of its gate.  A *)
(* graph is the set of its edges: the Go maps of maps hold true for exactly  *)
(* these pairs.                                                              *)

GateStates == {"open", "closed", "moving", "locked"}

DirectiveStates ==
  {"draft", "pending", "approved", "executing", "completed", "aborted"}

ReceiptStates == {"pending", "confirmed", "failed", "cancelled"}

ReservoirStates == {"normal", "warning", "critical", "restricted"}

ReservoirTransitions ==
  {<<"normal", "warning">>,      <<"normal", "critical">>,
   <<"warning", "critical">>,    <<"warning", "restricted">>,
   <<"warning", "normal">>,
   <<"critical", "restricted">>, <<"critical", "warning">>,
   <<"restricted", "critical">>}

GateUnitTransitions ==
  {<<"open", "moving">>,   <<"open", "locked">>,
   <<"closed", "moving">>, <<"closed", "locked">>,
   <<"moving", "open">>,   <<"moving", "closed">>, <<"moving", "locked">>,
   <<"locked", "closed">>}

OperationDirectiveTransitions ==
  {<<"draft", "pending">>,
   <<"pending", "approved">>,    <<"pending", "aborted">>,
   <<"approved", "executing">>,  <<"approved", "aborted">>,
   <<"executing", "completed">>, <<"executing", "aborted">>}

ExecutionConfirmationTransitions ==
  {<<"pending", "confirmed">>, <<"pending", "failed">>,
   <<"failed", "cancelled">>}

CanTransition(graph, from, to) == <<from, to>> \in graph

\* Who may move a directive to target, by role.
directiveRoleAllowed(target, role) ==
  CASE target = "pending"   -> role \in {"operator", "admin"}
    [] target = "approved"  -> role \in {"reviewer", "admin"}
    [] target = "executing" -> role \in {"operator", "admin"}
    [] target = "aborted"   -> role \in {"operator", "reviewer", "admin"}
    [] OTHER                -> FALSE

\* Which transitions of directive cur ask for its gate, where they want it ("" if
\* it may stay where it is), and which of them write the gate they have read.
NeedsGate(cur, to) == to = "executing" \/ (cur.status = "executing" /\ to = "aborted")

GateTarget(cur, to, linked) ==
  IF to = "aborted" THEN "locked"
  ELSE IF linked.status # cur.target THEN "moving"
  ELSE ""

WritesGate(cur, to, linked) ==
  NeedsGate(cur, to) /\ GateTarget(cur, to, linked) \notin {"", linked.status}
=============================================================================
