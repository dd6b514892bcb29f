------------------------------ MODULE QuoteStore ------------------------------
(***************************************************************************)
(* The quote database (quotes.py: QuoteStore), as operations on its        *)
(* content: sessions in the order they were opened and the quotes recorded *)
(* in them.  A write that the store refuses raises; what the caller does   *)
(* then is the caller's.  A quote is written by one transaction and made   *)
(* available by a second one.  Both feeds, the followed files of QuoteFeed *)
(* and the stream of QuoteStream, write here.                              *)
(***************************************************************************)
EXTENDS Naturals, Sequences, FiniteSets, SequencesExt, FiniteSetsExt

CONSTANT Duration   \* duration_seconds of a session, with the two seconds allowed beyond

ASSUME DurationAssumption == Duration \in Nat \ {0}

Never == 0          \* a time before every other
EmptyStore == [sessions |-> <<>>, rows |-> {}]
-----------------------------------------------------------------------------
(***************************************************************************)
(* Sessions                                                                *)
(***************************************************************************)
Ids(store) == {s.id : s \in ToSet(store.sessions)}
SessionOf(store, id) == CHOOSE s \in ToSet(store.sessions) : s.id = id
IsOpen(store, id) == id \in Ids(store) /\ SessionOf(store, id).stop = <<>>

MayStart(store, id, at, received) == id \notin Ids(store) /\ at <= received
Started(store, id, at) ==
    [store EXCEPT !.sessions = Append(@, [id |-> id, at |-> at, stop |-> <<>>])]

RowsIn(store, id) == {r \in store.rows : r.session = id}
LastSeq(store, id) == Max({0} \cup {r.seq : r \in RowsIn(store, id)})

\* stop: the count may not be below a sequence that has been stored.
MayStop(store, id, quotes, at, received) ==
    /\ IsOpen(store, id)
    /\ SessionOf(store, id).at <= at /\ at <= received
    /\ quotes >= LastSeq(store, id)
    /\ \A r \in RowsIn(store, id) : r.bridge <= at
WithStop(store, id, quotes) ==
    [store EXCEPT !.sessions =
        [n \in DOMAIN @ |-> IF @[n].id = id THEN [@[n] EXCEPT !.stop = <<quotes>>] ELSE @[n]]]
-----------------------------------------------------------------------------
(***************************************************************************)
(* Quotes: [session, seq, source, bridge, received, available]             *)
(***************************************************************************)
MayRecord(store, q, now) ==
    /\ q.source <= q.bridge /\ q.bridge <= q.received /\ q.received <= now
    /\ IsOpen(store, q.session)
    /\ SessionOf(store, q.session).at <= q.bridge
    /\ q.bridge <= SessionOf(store, q.session).at + Duration
    /\ \A r \in RowsIn(store, q.session) :
          r.seq = LastSeq(store, q.session) =>
              q.seq > r.seq /\ q.source >= r.source /\ q.bridge >= r.bridge /\ q.received >= r.received

Inserted(store, q) == [store EXCEPT !.rows = @ \cup {q}]

Unpublished(q) == q.available = Never
Published(store, q, now) ==
    [store EXCEPT !.rows = (@ \ {q}) \cup {[q EXCEPT !.available = now]}]
Visible(store, cutoff) == {r \in store.rows : ~Unpublished(r) /\ r.available <= cutoff}

Newer(r, s) ==
    \/ r.received > s.received
    \/ r.received = s.received /\ r.source > s.source
    \/ r.received = s.received /\ r.source = s.source /\ r.seq > s.seq

\* latest, which build_market_snapshot makes the market of: one of these.
Latest(store, cutoff) ==
    {r \in Visible(store, cutoff) : \A s \in Visible(store, cutoff) : ~Newer(s, r)}
=============================================================================
