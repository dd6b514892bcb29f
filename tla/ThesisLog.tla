------------------------------ MODULE ThesisLog ------------------------------
(***************************************************************************)
(* What the thesis memory promises: events are decided one after another,  *)
(* each once, and a decision adds its event to the evidence of the theses  *)
(* it changes and to no other.                                             *)
(***************************************************************************)
EXTENDS Naturals, Sequences, SequencesExt

CONSTANT Events
VARIABLES decided, evidence, revision

Init ==
    /\ decided = <<>>
    /\ evidence = [t \in Events |-> {}]
    /\ revision = [t \in Events |-> 0]

Known(t) == revision[t] > 0

\* A decision may create the thesis named after its event and revise known ones.
Decide(e) ==
    /\ ~Contains(decided, e)
    /\ decided' = Append(decided, e)
    /\ \E changed \in SUBSET ({e} \cup {t \in Events : Known(t)}) :
         /\ evidence' = [t \in Events |-> IF t \in changed THEN evidence[t] \cup {e} ELSE evidence[t]]
         /\ revision' = [t \in Events |-> IF t \in changed THEN revision[t] + 1 ELSE revision[t]]

Next == \E e \in Events : Decide(e)
Spec == Init /\ [][Next]_<<decided, evidence, revision>>
=============================================================================
