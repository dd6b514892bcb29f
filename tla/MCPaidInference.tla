--------------------------- MODULE MCPaidInference ---------------------------
(***************************************************************************)
(* The two programs that pay for inference beside the runner, on small     *)
(* instances: the watcher of the Fed's feed (FedInbox) and the series of   *)
(* research episodes (SeriesJournal).  They share no state, and a          *)
(* behaviour is about one of them: part tells which.  The feed announces   *)
(* two statements, or a statement and one that is not the Fed's; two or    *)
(* one things go wrong.                                                    *)
(***************************************************************************)
EXTENDS FedInbox, SeriesJournal

CONSTANTS w1, w2, a, b, c

VARIABLE part

MCvars == <<part, vars, seriesVars>>
-----------------------------------------------------------------------------
OfFeed == part \in {"genuine", "spoofed"}
Announced == IF part = "genuine" THEN {a, b} ELSE {a, c}

MCInit ==
    /\ Init /\ SeriesInit
    /\ \/ part \in {"genuine", "spoofed"} /\ feed \subseteq Announced
       \/ part = "series" /\ feed = {}

Within == OfFeed /\ UNCHANGED <<part, seriesVars>>

MCNext ==
    \/ Within /\ Next /\ feed' \subseteq Announced
       /\ crashes' + faults' <= IF part = "genuine" THEN 2 ELSE 1
    \/ part = "series" /\ SeriesNext /\ UNCHANGED <<part, vars>>

MCSpec ==
    /\ MCInit /\ [][MCNext]_MCvars
    /\ \A w \in Watchers : WF_MCvars(Within /\ Step(w))
=============================================================================
