-------------------------------- MODULE MCPage --------------------------------
(* Instances of Page for TLC.                                                 *)
EXTENDS Page

CONSTANTS op, rev, adm, view

MCRoleOf ==
  [u \in User |-> CASE u = op  -> "operator"
                    [] u = rev -> "reviewer"
                    [] u = adm -> "admin"
                    [] u = view -> "viewer"]

Directive(v, status, target, by) ==
  [version |-> v, status |-> status, target |-> target, submittedBy |-> by]

NewGate(status) == [row |-> "live", status |-> status, version |-> 1]

\* A draft that was edited twice, a directive just submitted for a closed gate,
\* and the directive OD-003 of the seed, executing while its gate moves.
MCStart ==
  {[row |-> Directive(3, "draft", "open", None), gate |-> NewGate("open")],
   [row |-> Directive(2, "pending", "open", op), gate |-> NewGate("closed")],
   [row |-> Directive(1, "executing", "open", op), gate |-> NewGate("moving")]}
=============================================================================
