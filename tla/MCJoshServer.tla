---------------------------- MODULE MCJoshServer ----------------------------
(***************************************************************************)
(* Connections for the model checker: one execution that makes two tool    *)
(* calls under a limit of one active request, two executions one after the *)
(* other, and one execution with one call, of either kind, in which        *)
(* everything that can fail does.                                          *)
(***************************************************************************)
EXTENDS JoshServer

CONSTANTS h1, r1, r2, e1, e2, g1, s1

Busy ==
  [calls |-> {"tool/invoke"}, faults |-> {}, executions |-> {e1},
   targets |-> {r1, r2}, max_active |-> 1]

Again == [Busy EXCEPT !.executions = {e1, e2}, !.targets = {r1}]

Faulty ==
  [calls |-> CallMethods, faults |-> {"io", "full", "big", "deadline"},
   executions |-> {e1}, targets |-> {r1}, max_active |-> 2]

Silent == [Faulty EXCEPT !.calls = {"tool/invoke"}, !.faults = {"io", "full"}]

Connections       == {Busy, Again, Faulty}
SilentConnections == {Silent}

=============================================================================
