---------------------------- MODULE MCEventWorker ----------------------------
(***************************************************************************)
(* The event worker's other jobs on small instances: bundles of news       *)
(* (EventBundles) and reviews of theses (Reviews).  They share no state,   *)
(* and a behaviour is about one of them: part tells which, and in which    *)
(* instance.  Bundles: "retried", two items of one moment with every       *)
(* fault, or "crowded", a third that pushes items out of the scan's        *)
(* window, with one restart or one exception.  Reviews: "one" thesis with  *)
(* everything, or "two" that share the total.                              *)
(***************************************************************************)
EXTENDS EventBundles, Reviews

VARIABLE part

MCvars == <<part, vars, reviewVars>>

Closed == CHOOSE t \in Theses : TRUE
TwoAtOnce == [i \in Items |-> IF i <= 2 THEN 1 ELSE i]
-----------------------------------------------------------------------------
Bundling == part \in {"retried", "crowded"}

MCInit ==
    /\ Init /\ ReviewsInit
    /\ part \in {"retried", "crowded", "one", "two"}
    /\ {t \in Theses : ~theses[t].active} = IF part = "one" THEN {Closed} ELSE {}
    /\ Bundling => ~high

\* A step of the bundles within their instance.
Bundles ==
    /\ UNCHANGED <<part, reviewVars>>
    /\ part = "retried" => ~Contains(arrivals', 3)
    /\ part = "crowded" =>
         /\ faults' # faults => BreaksOff /\ starts + faults = 1
         /\ runner'.pc = "down" => faults = 0
         /\ \A e \in Events : rows'[e].attempts <= 1

\* A step of the reviews within theirs: the closed thesis of "one" stays as it is.
OfTheses ==
    /\ UNCHANGED <<part, vars>>
    /\ part = "one" => theses'[Closed] = theses[Closed]
    /\ part = "two" => trouble' = 0 /\ \A t \in Theses : theses'[t].revision = 1

MCNext ==
    \/ Bundling /\ Next /\ Bundles
    \/ ~Bundling /\ ReviewsNext /\ OfTheses

\* The fairness of both specifications.
Starts == (Bundling /\ Start /\ Bundles) \/ (~Bundling /\ SessionBegins /\ OfTheses)
GoesOn == (Bundling /\ (Recovery \/ Scan \/ Cycle) /\ Bundles) \/ (~Bundling /\ Works /\ OfTheses)
Ticks == ~Bundling /\ Tick /\ OfTheses

MCSpec == MCInit /\ [][MCNext]_MCvars /\ WF_MCvars(Starts) /\ WF_MCvars(GoesOn) /\ WF_MCvars(Ticks)
=============================================================================
