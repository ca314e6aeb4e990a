------------------------------- MODULE MCSession -------------------------------
(* Instance of Session for TLC.                                               *)
EXTENDS Session

CONSTANTS ana, ben

\* The first is an operator, the second a reviewer.
MCSeed ==
  [u \in Username |-> IF u = ana THEN [id |-> 1, role |-> "operator", active |-> TRUE]
                                 ELSE [id |-> 2, role |-> "reviewer", active |-> TRUE]]
=============================================================================
