------------------------------- MODULE MCQuotes -------------------------------
(***************************************************************************)
(* The two feeds of quotes on small instances: the files of the bridge     *)
(* (QuoteFeed) and the stream of the Open API (QuoteStream).  They share   *)
(* no state, and a behaviour is about one of them: part tells which, and   *)
(* in which instance.  Files: "one" run with kills and torn lines; "two"   *)
(* runs; or "many", more than are followed.  Stream: "order", one          *)
(* connection and sessions that may outlive their duration, or "back",     *)
(* three connections and two troubles.                                     *)
(***************************************************************************)
EXTENDS QuoteFeed, QuoteStream

VARIABLE part

MCvars == <<part, feedVars, streamVars>>
-----------------------------------------------------------------------------
MCInit ==
    /\ FeedInit /\ StreamInit
    /\ part \in {"one", "two", "many", "order", "back"}
    /\ IF part = "back" THEN token.file \/ token.refresh ELSE token.file /\ token.refresh

\* A step of the files within their instance.  Where there are several runs, the
\* bridge writes nothing while lines that were read are handed to the collector, and
\* there is nothing to take up when the runner starts again.
Filed ==
    /\ part \in {"one", "two", "many"} /\ UNCHANGED <<part, streamVars>>
    /\ part = "one" => Files' \subseteq {1}
    /\ part = "two" => Files' \subseteq {1, 2} /\ \A r \in BridgeRuns : Quotes(r)' <= 1
    /\ part = "many" => starts' <= 1 /\ now' <= 2 /\ \A r \in BridgeRuns : Quotes(r)' = 0
    /\ part # "one" =>
          /\ torn' = {} /\ failures' = 0
          /\ Pending => UNCHANGED bridges

\* A step of the stream within its instance.
Streamed ==
    /\ part \in {"order", "back"} /\ UNCHANGED <<part, feedVars>>
    /\ part = "order" => connection.n' <= 1 /\ troubles' <= 1
    /\ part = "back" => instant' <= 3 /\ stream'.seq <= 1 /\ stream'.pending = {}

MCNext ==
    \/ FeedNext /\ Filed
    \/ StreamNext /\ Streamed

\* The fairness of the stream, in the instance whose liveness is checked.
Back == part = "back" /\ Streamed
MCSpec ==
    /\ MCInit /\ [][MCNext]_MCvars
    /\ WF_MCvars(Connecting /\ Back) /\ WF_MCvars(Ending /\ Back)
    /\ WF_MCvars(Task /\ Back) /\ WF_MCvars(StreamTick /\ Back)
-----------------------------------------------------------------------------
\* A session whose time is over is given up, and the stream comes back after what
\* broke it (QuoteStream!StreamCarriesOn), in the instance where time goes on.
BackCarriesOn ==
    /\ []<>(part = "back" => ~Outdated)
    /\ []<>(part = "back" => Streaming \/ GivenUp \/ stopping \/ LockedOut)
=============================================================================
