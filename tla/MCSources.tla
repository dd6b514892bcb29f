------------------------------ MODULE MCSources ------------------------------
(***************************************************************************)
(* What is kept of the news sources, on small instances: the store of what *)
(* they showed (Observer), the full text of an article (Enrichment) and    *)
(* the gate that a source's health puts on new risk (SourceHealth).  They  *)
(* share no state here, and a behaviour is about one of them: part tells   *)
(* which, and in which instance.                                           *)
(***************************************************************************)
EXTENDS Observer, Enrichment, SourceHealth

CONSTANTS desk, press, wire, calendar, t1, t2

VARIABLE part

MCvars == <<part, vars, textVars, healthVars>>

\* The instances of the store: an article that is edited and queried, one that two
\* streams share, a list that moves on, the backlog of a second stream, and captures
\* that fail in every way.
Limit ==
    [edited  |-> [streams |-> {desk}, items |-> 1, versions |-> 2, clock |-> 3, back |-> 0,
                  errors |-> 0, crashes |-> 1, views |-> 1],
     shared  |-> [streams |-> {desk, press}, items |-> 1, versions |-> 1, clock |-> 2, back |-> 0,
                  errors |-> 0, crashes |-> 1, views |-> 1],
     listed  |-> [streams |-> {desk}, items |-> 3, versions |-> 1, clock |-> 1, back |-> 0,
                  errors |-> 2, crashes |-> 0, views |-> 0],
     backlog |-> [streams |-> {desk, press}, items |-> 2, versions |-> 1, clock |-> 1, back |-> 0,
                  errors |-> 1, crashes |-> 0, views |-> 0],
     failing |-> [streams |-> {desk}, items |-> 1, versions |-> 2, clock |-> 2, back |-> 1,
                  errors |-> 1, crashes |-> 1, views |-> 1]]
-----------------------------------------------------------------------------
Storing == part \in DOMAIN Limit
Enriching == part \in {"one", "two"}
Gating == part \in {"gate", "overlap"}

MCInit ==
    /\ Init /\ TextInit /\ HealthInit
    /\ part \in DOMAIN Limit \cup {"one", "two", "gate", "overlap"}

\* A step of the store within its instance.
Stored ==
    LET limit == Limit[part] IN
    /\ Storing /\ UNCHANGED <<part, textVars, healthVars>>
    /\ Len(site') <= limit.items /\ \A i \in DOMAIN site' : site'[i] <= limit.versions
    /\ \A s \in Streams \ limit.streams : fetch'[s] = NoFetch
    /\ now' <= limit.clock /\ back' <= limit.back /\ errors' <= limit.errors
    /\ crashes' <= limit.crashes /\ Cardinality(views') <= limit.views

\* A step of the enrichment: one stream, with more versions, which may move the article
\* and be without a page; or two side by side, whose captures may be cut off.
Enriched ==
    /\ Enriching /\ UNCHANGED <<part, vars, healthVars>>
    /\ part = "one" => cuts' = 0 /\ poll'[press] = NoPoll
    /\ part = "two" => version' <= 2 /\ failures' <= 1
    /\ \A v \in 1..version' : v = 1 \/ part = "two" => edition'[v] = [address |-> 1, wanted |-> TRUE]

\* A step of the gate: streams polled by one task at a time; or by several, one of them
\* by the day.
Gated ==
    /\ Gating /\ UNCHANGED <<part, vars, textVars>>
    /\ \A t \in Tasks : ~TaskAt(t, "idle")' =>
         task'[t].stream \in IF part = "gate" THEN Deduplicated ELSE Polled \ Deduplicated
    /\ part = "gate" => day' = 1
    /\ part = "overlap" => faults' <= 1

MCNext ==
    \/ Next /\ Stored
    \/ TextNext /\ Enriched
    \/ HealthNext /\ Gated

\* The fairness of the three specifications, for one of the store's streams and, of
\* the gate, in the instance whose liveness is checked.
Watched == part = "gate" /\ Gated
MCSpec ==
    /\ MCInit /\ [][MCNext]_MCvars
    /\ WF_MCvars(\/ (Stamps \/ MakesAvailable) /\ Stored
                 \/ Polls(desk) /\ Enriched
                 \/ (AnswersWell(t1) \/ TaskEnds(t1)) /\ Watched)
    /\ WF_MCvars(\/ Fetches(desk) /\ Stored
                 \/ Polls(press) /\ Enriched
                 \/ (AnswersWell(t2) \/ TaskEnds(t2)) /\ Watched)
    /\ SF_MCvars(\/ Records(desk) /\ Stored
                 \/ (\E t \in Tasks : Begins(t, desk)) /\ Watched)
    /\ SF_MCvars((\E t \in Tasks : Begins(t, press)) /\ Watched)
-----------------------------------------------------------------------------
\* Once nothing fails any more the gate opens (SourceHealth!GateReopens), where no polls
\* overlap and none is recorded by the day.
GateOpensAgain == <>[](part = "gate" => MayOpen)
=============================================================================
