----------------------------- MODULE QuoteStream -----------------------------
(***************************************************************************)
(* Quotes from the cTrader Open API (ctrader_openapi.py:                   *)
(* CTraderOpenApiQuoteStreamer on a CTraderOpenApiClient), stored through  *)
(* QuoteStore.                                                             *)
(*                                                                         *)
(* One loop connects, opens a session of the store and subscribes; then a  *)
(* reader handles the broker's ticks, and a second task emits ticks that   *)
(* were held back and rotates the session.  The tasks share a thread, so   *)
(* what one does between two awaits is one step.  A tick carries one side  *)
(* of the price or both; the first after a subscription carries both.  An  *)
(* error of the database may keep a stored quote from being published or a *)
(* session from being opened; failure() is taken to succeed.               *)
(***************************************************************************)
EXTENDS QuoteStore

CONSTANTS
    RotateAfter,     \* session_rotate_seconds
    MaxInstant,      \* bound: the clock
    MaxSequence,     \* bound: quotes of a session
    MaxConnections,  \* bound: connections
    MaxTroubles      \* bound: lost connections, expired tokens, errors of the database

ASSUME StreamAssumption ==
    /\ {RotateAfter, MaxInstant} \subseteq Nat \ {0}
    /\ {MaxSequence, MaxConnections, MaxTroubles} \subseteq Nat

VARIABLES
    instant,     \* the time
    database,    \* what the store holds
    stream,      \* the session in use and the last times emitted in it; the tick held back
    sides,       \* _last_bid and _last_ask: the connection each came on
    pc,          \* where run() is
    connection,  \* the number of the connection, and what was sent on it
    flushing,    \* whether the task that emits and rotates is alive
    token,       \* whether the access token is accepted; config: whether there is a
                 \*   token_file, and a refresh_token
    stopping,    \* stop() was called
    refused,     \* history: sessions in which the store refused a quote
    troubles

link == <<pc, connection, token, stopping>>
streamVars == <<instant, database, stream, sides, link, flushing, refused, troubles>>

NoStream == [id |-> 0, at |-> 0, seq |-> 0, source |-> 0, bridge |-> 0, received |-> 0, pending |-> {}]
Connection(n) == [n |-> n, subscribed |-> FALSE, full |-> FALSE]

StreamInit ==
    /\ instant = 1 /\ database = EmptyStore /\ stream = NoStream
    /\ sides = [bid |-> 0, ask |-> 0]
    /\ pc = "idle" /\ connection = Connection(0)
    /\ flushing = FALSE /\ token \in [good : {TRUE}, file : BOOLEAN, refresh : BOOLEAN] /\ stopping = FALSE
    /\ refused = {} /\ troubles = 0

MayFail == troubles < MaxTroubles
Trouble == MayFail /\ troubles' = troubles + 1
InUse == stream.id # 0
-----------------------------------------------------------------------------
(***************************************************************************)
(* Sessions and quotes, as what they make of [store, stream, result]       *)
(***************************************************************************)
Here == [store |-> database, stream |-> stream, result |-> "none"]

Opened(s) ==
    LET n == Len(s.store.sessions) + 1
    IN  [s EXCEPT !.store = Started(@, n, instant), !.stream = [NoStream EXCEPT !.id = n, !.at = instant]]

RowOf(s, tick) ==
    [session |-> s.stream.id, seq |-> s.stream.seq + 1, source |-> tick.source,
     bridge |-> tick.bridge, received |-> Max({instant, tick.bridge, s.stream.received}),
     available |-> Never, bid |-> tick.bid, ask |-> tick.ask]

Advanced(str, row) ==
    [str EXCEPT !.seq = row.seq, !.source = row.source, !.bridge = row.bridge, !.received = row.received]

\* _emit_quote: a quote the store refuses, or does not publish, is not counted.
Emitted(s, tick) ==
    LET row == RowOf(s, tick)
        written == Inserted(s.store, row)
    IN  IF ~MayRecord(s.store, row, instant) THEN {[s EXCEPT !.result = "refused"]}
        ELSE {[store |-> Published(written, row, instant), stream |-> Advanced(s.stream, row),
               result |-> "published"]}
             \cup IF MayFail THEN {[s EXCEPT !.store = written, !.result = "unpublished"]} ELSE {}

CountOf(before, after) == after.seq

\* _close_quote_session: what was held back first; a stop the store refuses is left.
Closed(s) ==
    LET held == s.stream.pending
        last == IF held = {} THEN {s}
                ELSE UNION {Emitted([s EXCEPT !.stream.pending = {}], tick) : tick \in held}
        Close(o) ==
            LET count == CountOf(s.stream, o.stream)
            IN  [o EXCEPT !.stream = NoStream,
                          !.store = IF MayStop(@, s.stream.id, count, instant, instant)
                                    THEN WithStop(@, s.stream.id, count) ELSE @]
    IN  {Close(o) : o \in last}

Becomes(o) ==
    /\ database' = o.store /\ stream' = o.stream
    /\ refused' = IF o.result = "refused" THEN refused \cup {stream.id} ELSE refused
    /\ troubles' = IF o.result = "unpublished" THEN troubles + 1 ELSE troubles
-----------------------------------------------------------------------------
(***************************************************************************)
(* run()                                                                   *)
(***************************************************************************)
Connect ==
    /\ pc = "idle" /\ ~stopping /\ connection.n < MaxConnections
    /\ connection' = Connection(connection.n + 1) /\ pc' = "auth"
    /\ UNCHANGED <<instant, database, stream, sides, flushing, token, stopping, refused, troubles>>

Authenticates ==
    /\ pc = "auth"
    /\ pc' = IF token.good THEN "ready" ELSE IF token.refresh THEN "refresh" ELSE "teardown"
    /\ UNCHANGED <<instant, database, stream, sides, connection, flushing, token, stopping, refused, troubles>>

\* Mutant: the new token is kept by the client, which is thrown away.
SavesToken_InClient == FALSE

\* What the next client starts with: the token file, where there is one, or again
\* what config holds.
SavesToken == token.file

\* On a connection of its own, then at once from the beginning.
Refreshes ==
    /\ pc = "refresh" /\ token' = [token EXCEPT !.good = SavesToken] /\ pc' = "idle"
    /\ UNCHANGED <<instant, database, stream, sides, connection, flushing, stopping, refused, troubles>>

OpensSession ==
    /\ pc = "ready" /\ pc' = "open"
    /\ Becomes(Opened(Here))
    /\ UNCHANGED <<instant, sides, connection, flushing, token, stopping>>

Unopened == stream

OpeningFails ==
    /\ pc = "ready" /\ pc' = "teardown" /\ Trouble /\ stream' = Unopened
    /\ UNCHANGED <<instant, database, sides, connection, flushing, token, stopping, refused>>

\* Mutant: the subscription may come before the session.
MaySubscribe_Early == pc \in {"ready", "open"}

MaySubscribe == pc = "open"

Subscribes ==
    /\ MaySubscribe /\ ~connection.subscribed
    /\ connection' = [connection EXCEPT !.subscribed = TRUE]
    /\ UNCHANGED <<instant, database, stream, sides, pc, flushing, token, stopping, refused, troubles>>

StartsFlushing ==
    /\ pc = "open" /\ connection.subscribed /\ pc' = "streaming" /\ flushing' = TRUE
    /\ UNCHANGED <<instant, database, stream, sides, connection, token, stopping, refused, troubles>>

Connected == pc \in {"auth", "refresh", "ready", "open", "streaming"}

Drops ==
    /\ Connected /\ Trouble /\ pc' = "teardown"
    /\ UNCHANGED <<instant, database, stream, sides, connection, flushing, token, stopping, refused>>

TokenExpires ==
    /\ token.good /\ Trouble /\ token' = [token EXCEPT !.good = FALSE]
    /\ UNCHANGED <<instant, database, stream, sides, pc, connection, flushing, stopping, refused>>

Stop ==
    /\ ~stopping /\ stopping' = TRUE
    /\ pc' = IF Connected THEN "teardown" ELSE pc
    /\ UNCHANGED <<instant, database, stream, sides, connection, flushing, token, refused, troubles>>

\* The finally clause waits for the second task before it closes the session.
TearsDown ==
    /\ pc = "teardown" /\ flushing /\ flushing' = FALSE
    /\ UNCHANGED <<instant, database, stream, sides, link, refused, troubles>>

Closes ==
    /\ pc = "teardown" /\ ~flushing /\ pc' = "idle"
    /\ IF InUse THEN \E o \in Closed(Here) : Becomes(o)
       ELSE UNCHANGED <<database, stream, refused, troubles>>
    /\ UNCHANGED <<instant, sides, connection, flushing, token, stopping>>

\* The runner cancels run() once stop() has returned; while run() waits for the
\* second task, this skips the rest of the finally clause.
CutShort ==
    /\ stopping /\ pc = "teardown" /\ flushing
    /\ pc' = "ended" /\ flushing' = FALSE
    /\ UNCHANGED <<instant, database, stream, sides, connection, token, stopping, refused, troubles>>

Returns ==
    /\ stopping /\ pc = "idle" /\ pc' = "ended"
    /\ UNCHANGED <<instant, database, stream, sides, connection, flushing, token, stopping, refused, troubles>>
-----------------------------------------------------------------------------
(***************************************************************************)
(* Ticks                                                                   *)
(***************************************************************************)
Sendable == IF connection.full THEN {{"bid"}, {"ask"}, {"bid", "ask"}} ELSE {{"bid", "ask"}}

\* The source's time neither passes the bridge's nor falls behind the last quote's.
SourceOf(at) == Max({at, stream.source})

TickOf(at, s) == [source |-> SourceOf(at), bridge |-> instant, bid |-> s.bid, ask |-> s.ask]

\* _handle_spot_payload.  A tick is due if the spread is positive or has changed,
\* or the interval is over; the first of a session always is.
Spot(sent, at, due) ==
    /\ connection.subscribed /\ pc \in {"ready", "open", "streaming"} /\ sent \in Sendable
    /\ connection' = [connection EXCEPT !.full = TRUE]
    /\ IF ~InUse THEN UNCHANGED <<database, stream, sides, refused, troubles>>
       ELSE LET sides2 == [side \in DOMAIN sides |-> IF side \in sent THEN connection.n ELSE sides[side]]
                tick == TickOf(at, sides2)
            IN  /\ stream.seq < MaxSequence
                /\ sides' = sides2
                /\ IF due \/ stream.seq = 0
                   THEN \E o \in Emitted([Here EXCEPT !.stream.pending = {}], tick) : Becomes(o)
                   ELSE /\ stream' = [stream EXCEPT !.pending = {tick}]
                        /\ UNCHANGED <<database, refused, troubles>>
    /\ UNCHANGED <<instant, pc, flushing, token, stopping>>

Flushes ==
    /\ flushing /\ InUse /\ instant - stream.at < RotateAfter
    /\ \E tick \in stream.pending :
         \E o \in Emitted([Here EXCEPT !.stream.pending = {}], tick) : Becomes(o)
    /\ UNCHANGED <<instant, sides, link, flushing>>

Expired == instant - stream.at >= RotateAfter

Rotates ==
    /\ flushing /\ InUse /\ Expired
    /\ \E o \in Closed(Here) : Becomes(Opened(o))
    /\ UNCHANGED <<instant, sides, link, flushing>>

\* The next session is not opened: the task ends, and nothing waits for it.
RotationFails ==
    /\ flushing /\ InUse /\ Expired /\ MayFail
    /\ \E o \in Closed(Here) :
         /\ database' = o.store /\ stream' = NoStream
         /\ refused' = IF o.result = "refused" THEN refused \cup {stream.id} ELSE refused
    /\ troubles' = troubles + 1 /\ flushing' = FALSE
    /\ UNCHANGED <<instant, sides, link>>

StreamTick ==
    /\ instant < MaxInstant /\ instant' = instant + 1
    /\ UNCHANGED <<database, stream, sides, link, flushing, refused, troubles>>

Connecting == Connect \/ Authenticates \/ Refreshes \/ OpensSession \/ Subscribes \/ StartsFlushing
Ending == TearsDown \/ Closes \/ Returns
Task == Flushes \/ Rotates

StreamNext ==
    \/ Connecting \/ Ending \/ Task \/ OpeningFails \/ Drops \/ TokenExpires \/ Stop \/ CutShort
    \/ RotationFails \/ StreamTick
    \/ \E sent \in SUBSET {"bid", "ask"}, at \in 1 .. instant, due \in BOOLEAN : Spot(sent, at, due)

StreamSpec == StreamInit /\ [][StreamNext]_streamVars

\* The loop's own steps are taken and time goes on; the broker owes no tick.
StreamFairSpec == StreamSpec /\ WF_streamVars(Connecting) /\ WF_streamVars(Ending) /\ WF_streamVars(Task) /\ WF_streamVars(StreamTick)
-----------------------------------------------------------------------------
(***************************************************************************)
(* Properties                                                              *)
(***************************************************************************)
Streaming == pc = "streaming" /\ InUse

\* The state keeps its shape: the session in use is open in the database, and
\* a tick is held back only behind a quote of the same session.
StreamTypeOK ==
    /\ instant \in 1 .. MaxInstant /\ troubles \in 0 .. MaxTroubles
    /\ sides \in [{"bid", "ask"} -> 0 .. MaxConnections]
    /\ pc \in {"idle", "auth", "refresh", "ready", "open", "streaming", "teardown", "ended"}
    /\ connection.n \in 0 .. MaxConnections
    /\ InUse => IsOpen(database, stream.id) /\ pc \notin {"idle", "auth", "refresh"}
    /\ stream.pending # {} => stream.seq > 0 /\ Cardinality(stream.pending) = 1
    /\ refused \subseteq Ids(database)

\* The two sides of a quote come from one connection: a price from before a
\* reconnection is not made half new by the first tick after it.
SidesBelongTogether == \A r \in database.rows : r.bid = r.ask

\* Whatever times the broker sends, and however ticks are held back, the store
\* refuses a quote only in a session in which one was left unpublished, or in one that
\* was not rotated in time.
Outlived(id) == instant > SessionOf(database, id).at + Duration
OnlyUnpublishedBlocks ==
    \A id \in refused : Outlived(id) \/ \E r \in RowsIn(database, id) : Unpublished(r)

\* A session that is over is closed and counts just the quotes published in it
\* ("missing_sequences" of its report is 0), unless one was left unpublished.
SessionsAreAccountedFor ==
    \A s \in ToSet(database.sessions) :
        \/ s.id = stream.id
        \/ s.stop = <<Cardinality(RowsIn(database, s.id))>>
        \/ \E r \in RowsIn(database, s.id) : Unpublished(r)

\* What was stored adds up: each quote of one connection, each session complete,
\* and refusals only where a transaction was left half done or a session is too old.
StreamAddsUp ==
    /\ StreamTypeOK
    /\ SidesBelongTogether
    /\ OnlyUnpublishedBlocks
    /\ SessionsAreAccountedFor

\* A session whose time is over is given up, used or not: one that an unpublished
\* quote has blocked does not block the stream for good.
Outdated == InUse /\ instant >= stream.at + RotateAfter /\ pc # "ended"
SessionsRotate == []<>~Outdated

\* After lost connections, a refused token or a session that did not open the
\* stream comes back, unless it is stopped.  Where a rotation finds no next session it
\* does not, until the connection is lost; nor where a token has expired that cannot be
\* refreshed, or is refreshed with no file to keep the new one in.
GivenUp == pc = "streaming" /\ ~flushing
LockedOut == ~token.good /\ ~(token.refresh /\ token.file)
StreamComesBack == []<>(Streaming \/ GivenUp \/ stopping \/ LockedOut)

\* The stream carries on, over the ends of sessions and of connections.
StreamCarriesOn == SessionsRotate /\ StreamComesBack
=============================================================================
