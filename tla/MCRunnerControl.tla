--------------------------- MODULE MCRunnerControl ---------------------------
(***************************************************************************)
(* RunnerControl on a small instance: a bounded run and an open-ended one, *)
(* in either order, with a drain, with an exit asked for at the stop, or   *)
(* handed over to an operator.                                             *)
(***************************************************************************)
EXTENDS RunnerControl

MCDurations == {2, Forever}
MCWeekend == {1}
MCSettings ==
    {[drains |-> TRUE, closes |-> FALSE, handoff |-> FALSE],
     [drains |-> FALSE, closes |-> TRUE, handoff |-> FALSE],
     [drains |-> TRUE, closes |-> TRUE, handoff |-> TRUE]}
=============================================================================
