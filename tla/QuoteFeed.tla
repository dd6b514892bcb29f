------------------------------ MODULE QuoteFeed ------------------------------
(***************************************************************************)
(* Quotes from the local bridge (EventLensQuoteBridge.cs writes a file per *)
(* run; sources/ctrader_demo.py: DirectoryTail follows new files and       *)
(* DemoQuoteCollector checks their lines; runtime.py: ShadowRunner polls   *)
(* both and attaches to a running bridge when it starts; quotes.py stores  *)
(* them).                                                                  *)
(*                                                                         *)
(* The bridge and the runner are processes of their own, either of which   *)
(* may die.  A reader may find the last line of a file half written.  A    *)
(* poll goes through the files in the order of their names, which are      *)
(* random; what it read of one is handed to the collector line by line.    *)
(***************************************************************************)
EXTENDS QuoteStore

CONSTANTS
    BridgeRuns,  \* runs of the bridge, as numbers in the order of their file names
    StartAge,    \* how old a start line may be when it is received
    QuoteAge,    \* how old a quote may be
    MaxFiles,    \* files one process follows (4)
    MaxQuotes,   \* bound: quotes of a run
    MaxTime,     \* bound: the clock
    MaxStarts,   \* bound: how often the runner is started
    MaxFailures  \* bound: kills of the bridge, errors of the database

ASSUME FeedAssumption ==
    /\ BridgeRuns \subseteq Nat /\ MaxFiles \in Nat \ {0} /\ MaxTime \in Nat \ {0}
    /\ {StartAge, QuoteAge, MaxQuotes, MaxStarts, MaxFailures} \subseteq Nat

VARIABLES
    now,
    file,     \* the whole lines of each run's file
    torn,     \* the file that ends in the beginning of a line, and the line: none or one
    bridge,   \* the run that is going on: none or one
    written,  \* the runs with a file, as they began: the one written last is at the end
    store,    \* the database
    tail,     \* DirectoryTail and DemoQuoteCollector, with the poll that is going on
    starts, failures

feedVars == <<now, file, torn, bridge, written, store, tail, starts, failures>>
bridges == <<file, torn, bridge, written>>

NoChunk == [run |-> 0, lines |-> <<>>]
Down == [up |-> FALSE, since |-> 0, ignored |-> {}, files |-> <<>>, session |-> {},
         stopped |-> FALSE, todo |-> {}, chunk |-> NoChunk, storing |-> {}]

FeedInit ==
    /\ now = 1 /\ file = [r \in BridgeRuns |-> <<>>] /\ torn = {} /\ bridge = {}
    /\ written = <<>> /\ store = EmptyStore /\ tail = Down
    /\ starts = 0 /\ failures = 0
-----------------------------------------------------------------------------
(***************************************************************************)
(* The bridge                                                              *)
(***************************************************************************)
Line(kind, n) == [kind |-> kind, at |-> now, n |-> n]
Quotes(r) == Cardinality({i \in DOMAIN file[r] : file[r][i].kind = "quote"})
BeganAt(r) == file[r][1].at
BeganAfter(r, q) == \E m, n \in DOMAIN written : m < n /\ written[m] = q /\ written[n] = r

\* A line is seen in the file whole, or its beginning first.
Writes(r, line) ==
    /\ torn = {}
    /\ \/ file' = [file EXCEPT ![r] = Append(@, line)] /\ UNCHANGED torn
       \/ torn' = {[run |-> r, line |-> line]} /\ UNCHANGED file
    /\ written' = IF r \in ToSet(written) THEN written ELSE Append(written, r)

LineEnds ==
    /\ \E t \in torn : file' = [file EXCEPT ![t.run] = Append(@, t.line)]
    /\ torn' = {}
    /\ UNCHANGED <<now, bridge, written, store, tail, starts, failures>>

BridgeStarts(r) ==
    /\ bridge = {} /\ r \notin ToSet(written)
    /\ bridge' = {r} /\ Writes(r, Line("start", 0))
    /\ UNCHANGED <<now, store, tail, starts, failures>>

BridgeQuotes(r) ==
    /\ r \in bridge /\ file[r] # <<>> /\ Quotes(r) < MaxQuotes
    /\ now < BeganAt(r) + Duration
    /\ Writes(r, Line("quote", Quotes(r) + 1))
    /\ UNCHANGED <<now, bridge, store, tail, starts, failures>>

\* By its timer or by hand.
BridgeStops(r) ==
    /\ r \in bridge /\ file[r] # <<>>
    /\ bridge' = {} /\ Writes(r, Line("stop", Quotes(r)))
    /\ UNCHANGED <<now, store, tail, starts, failures>>

BridgeDies ==
    /\ bridge # {} /\ bridge' = {} /\ torn' = {}
    /\ failures < MaxFailures /\ failures' = failures + 1
    /\ UNCHANGED <<now, file, written, store, tail, starts>>
-----------------------------------------------------------------------------
(***************************************************************************)
(* The runner starts                                                       *)
(***************************************************************************)
Files == ToSet(written)
Complete(r) == Len(file[r])
IsTorn(r) == \E t \in torn : t.run = r

\* _attach_active_bridge_session: the file written last, if its run goes on.
Attachable(r) ==
    /\ r = Last(written) /\ file[r] # <<>>
    /\ \A i \in DOMAIN file[r] : file[r][i].kind # "stop"
    /\ now <= BeganAt(r) + Duration

\* Mutant: the lines written before are read again.
Consumed_None(r) == 0

Consumed(r) == Complete(r)

\* The beginning of a line counts as read and as unread: it will come twice.
Follows(r) == [offset |-> Consumed(r), garbled |-> IsTorn(r)]

RunnerStarts ==
    /\ ~tail.up /\ starts < MaxStarts /\ starts' = starts + 1
    /\ LET active == {r \in Files : Attachable(r)}
           new == {r \in active : MayStart(store, r, BeganAt(r), now)}
       IN  /\ tail' = [Down EXCEPT !.up = TRUE, !.since = now, !.ignored = Files \ active,
                           !.files = [r \in active |-> Follows(r)],
                           !.session = new]
           /\ store' = IF new = {} THEN store
                       ELSE Started(store, Last(written), BeganAt(Last(written)))
    /\ UNCHANGED <<now, bridges, failures>>

RunnerDies ==
    /\ tail.up /\ starts < MaxStarts /\ tail' = Down
    /\ UNCHANGED <<now, bridges, store, starts, failures>>
-----------------------------------------------------------------------------
(***************************************************************************)
(* A poll (under _quote_bridge_lock, hence one at a time)                  *)
(***************************************************************************)
Followed == DOMAIN tail.files
Pending == tail.chunk.lines # <<>>
Unread(r) == IF r \in Followed THEN tail.files[r].offset < Complete(r) ELSE TRUE

PollBegins ==
    /\ tail.up /\ tail.todo = {} /\ ~Pending /\ tail.storing = {}
    /\ \E r \in Files \ tail.ignored : Unread(r)
    /\ tail' = [tail EXCEPT !.todo = Files \ tail.ignored]
    /\ UNCHANGED <<now, bridges, store, starts, failures>>

Reads(r, from) ==
    [n \in 1 .. Complete(r) - from.offset |->
        IF n = 1 /\ from.garbled THEN [file[r][from.offset + 1] EXCEPT !.kind = "garbled"]
        ELSE file[r][from.offset + n]]

MayFollow(r) == r \in Followed \/ Cardinality(Followed) < MaxFiles

\* One file after another; beyond the number of files it may follow, it raises.
PollReads ==
    /\ tail.todo # {} /\ ~Pending /\ tail.storing = {}
    /\ LET r == Min(tail.todo)
           from == IF r \in Followed THEN tail.files[r] ELSE [offset |-> 0, garbled |-> FALSE]
           some == Complete(r) > from.offset
           next == [offset |-> Complete(r), garbled |-> from.garbled /\ ~some]
       IN  IF ~MayFollow(r) THEN tail' = [tail EXCEPT !.todo = {}]
           ELSE tail' = [tail EXCEPT
                    !.todo = @ \ {r},
                    !.files = [x \in Followed \cup {r} |-> IF x = r THEN next ELSE tail.files[x]],
                    !.chunk = [run |-> r, lines |-> Reads(r, from)]]
    /\ UNCHANGED <<now, bridges, store, starts, failures>>

\* An error the collector does not catch ends the poll; what was read is gone.
PollRaises ==
    /\ Pending /\ failures < MaxFailures /\ failures' = failures + 1
    /\ tail' = [tail EXCEPT !.todo = {}, !.chunk = NoChunk, !.storing = {}]
    /\ UNCHANGED <<now, bridges, store, starts>>
-----------------------------------------------------------------------------
(***************************************************************************)
(* DemoQuoteCollector.accept                                               *)
(***************************************************************************)
Run == tail.chunk.run
Head1 == Head(tail.chunk.lines)
Fresh(line, age) == line.at <= now /\ now - line.at <= age
Drop == [tail EXCEPT !.chunk.lines = Tail(@)]

\* One session at a time; the one before must have said it stopped.
Hears(line) ==
    /\ line.kind = "start"
    /\ tail.session = {} \/ tail.stopped
    /\ tail.since <= line.at /\ Fresh(line, StartAge)
    /\ MayStart(store, Run, line.at, now)

InSession == Run \in tail.session /\ ~tail.stopped

Row(line) == [session |-> Run, seq |-> line.n, source |-> line.at, bridge |-> line.at,
              received |-> now, available |-> Never]

Stores(line) ==
    /\ line.kind = "quote" /\ InSession
    /\ Fresh(line, QuoteAge) /\ MayRecord(store, Row(line), now)

Ends(line) == line.kind = "stop" /\ InSession /\ MayStop(store, Run, line.n, line.at, now)

AcceptStart ==
    /\ Pending /\ tail.storing = {} /\ Hears(Head1)
    /\ store' = Started(store, Run, Head1.at)
    /\ tail' = [Drop EXCEPT !.session = {Run}, !.stopped = FALSE]
    /\ UNCHANGED <<now, bridges, starts, failures>>

\* record, first transaction
AcceptQuote ==
    /\ Pending /\ tail.storing = {} /\ Stores(Head1)
    /\ store' = Inserted(store, Row(Head1))
    /\ tail' = [tail EXCEPT !.storing = {Row(Head1)}]
    /\ UNCHANGED <<now, bridges, starts, failures>>

\* record, second transaction
Publish ==
    /\ \E q \in tail.storing : store' = Published(store, q, now)
    /\ tail' = [Drop EXCEPT !.storing = {}]
    /\ UNCHANGED <<now, bridges, starts, failures>>

AcceptStop ==
    /\ Pending /\ tail.storing = {} /\ Ends(Head1)
    /\ store' = WithStop(store, Run, Head1.n)
    /\ tail' = [Drop EXCEPT !.stopped = TRUE]
    /\ UNCHANGED <<now, bridges, starts, failures>>

Reject ==
    /\ Pending /\ tail.storing = {}
    /\ ~Hears(Head1) /\ ~Stores(Head1) /\ ~Ends(Head1)
    /\ tail' = Drop
    /\ UNCHANGED <<now, bridges, store, starts, failures>>
-----------------------------------------------------------------------------
FeedTick ==
    /\ now < MaxTime /\ now' = now + 1
    /\ UNCHANGED <<bridges, store, tail, starts, failures>>

Poll == PollBegins \/ PollReads \/ PollRaises
Accept == AcceptStart \/ AcceptQuote \/ Publish \/ AcceptStop \/ Reject

FeedNext ==
    \/ LineEnds \/ BridgeDies
    \/ \E r \in BridgeRuns : BridgeStarts(r) \/ BridgeQuotes(r) \/ BridgeStops(r)
    \/ RunnerStarts \/ RunnerDies \/ Poll \/ Accept \/ FeedTick

FeedSpec == FeedInit /\ [][FeedNext]_feedVars
-----------------------------------------------------------------------------
(***************************************************************************)
(* Properties                                                              *)
(***************************************************************************)
\* The state keeps its shape: the collector's session is in the database, a
\* poll follows no more files than it may, and what it is about to accept is
\* in a file.
FeedTypeOK ==
    /\ now \in 1 .. MaxTime /\ starts \in 0 .. MaxStarts /\ failures \in 0 .. MaxFailures
    /\ bridge \subseteq Files /\ Cardinality(bridge) <= 1
    /\ tail.session \subseteq Ids(store) /\ Cardinality(Followed) <= MaxFiles
    /\ tail.ignored \subseteq Files /\ tail.todo \subseteq Files
    /\ Pending => Len(tail.chunk.lines) <= Complete(Run)
    /\ \A q \in store.rows : q.session \in Ids(store) /\ q.seq \in 1 .. MaxQuotes

\* "There is no forward fill, invented heartbeat quote or backfill at watch
\* startup" (docs/live-quotes.md): a runner stores no quote that was written
\* before it started, though it takes up a file that has some.
NoBackfill == \A q \in tail.storing : q.bridge >= tail.since

\* Files are polled by name.  Of two runs that are both fresh, the one that began later
\* may be taken up first.
TakenUpInOrder ==
    \A i, j \in DOMAIN store.sessions :
        i < j => ~BeganAfter(store.sessions[i].id, store.sessions[j].id)

\* As long as runs are taken up in the order in which they began, the market never shows
\* an older price than it has shown: not when the runner or the bridge is started again,
\* nor when a poll comes late.
QuotesNeverGoBack ==
    [][TakenUpInOrder' =>
         \A q \in Latest(store, now) : \A r \in Latest(store, now)' : q.source <= r.source]_feedVars

\* The feed only moves forward: nothing from before the runner watched, and nothing
\* older than was shown unless runs were taken up out of order.
FeedMovesForward == [](FeedTypeOK /\ NoBackfill) /\ QuotesNeverGoBack
=============================================================================
