--------------------------- MODULE MCEventRuntime ---------------------------
(***************************************************************************)
(* EventRuntime on a small instance.                                       *)
(***************************************************************************)
EXTENDS EventRuntime, TLC

(***************************************************************************)
(* Where TLC looks: one event through every fault, or two events through   *)
(* time-outs and one restart.                                              *)
(***************************************************************************)
Focus ==
    \/ Cardinality(Captured) <= 1
    \/ faults.crashes <= 1 /\ faults.errors = 0 /\ audits <= 2

\* Only the safety runs use the symmetry.
EventSymmetry == Permutations(Events)
=============================================================================
