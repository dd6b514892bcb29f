---------------------------- MODULE SourcesProofs ----------------------------
(***************************************************************************)
(* What is kept of the news sources, for every value of the constants.     *)
(*                                                                         *)
(* The store of what the sources showed (Observer) takes nothing back and  *)
(* tells the truth of its captures.  The inductive invariant says of the   *)
(* tables that they grow together (TablesFit), of a capture in hand that   *)
(* it lists the newest articles of the site (BatchFits), of what a stream  *)
(* remembers how it covers the site (StreamFits), and of the queries that, *)
(* unless the clock steps back, they are behind everything that is yet to  *)
(* be published (ViewsFit).                                                *)
(*                                                                         *)
(* The full text of an article (Enrichment) is kept and replaced for a     *)
(* reason only, as long as one stream shows it: its poll then knows what   *)
(* is on file (OneFits), and what it brings is not older (AloneFits).      *)
(*                                                                         *)
(* The gate on new risk (SourceHealth) follows the health of the provider: *)
(* the answers wait in their order, and what was overtaken is late         *)
(* (AnswersWait), so that a failure stays on record until a poll that came *)
(* after it (FailureStays).                                                *)
(***************************************************************************)
EXTENDS Observer, Enrichment, SourceHealth, TLAPS

(***************************************************************************)
(* The store                                                               *)
(***************************************************************************)
Versions == 1 .. MaxVersion
Sites == {s \in Seq(Versions) : Len(s) <= MaxItems}
ListedOf(s) == {i \in DOMAIN s : i + Depth > Len(s)}
States == {"new", "baseline", "revised"}
Coverages == {"none", "not_evaluated", "baseline", "empty", "overlap", "gap_possible"}

\* What a poll brings home.
Batches == [got : {TRUE}, listed : SUBSET Item, accepted : SUBSET Item, site : Sites,
            bad : BOOLEAN, at : Nat \ {0}]
BatchFits(b, n) ==
    /\ b \in Batches
    /\ b.listed = ListedOf(b.site) /\ b.accepted \subseteq b.listed
    /\ Len(b.site) <= n

\* The tables of an article grow together; neighbouring revisions differ.
TablesFit ==
    /\ revs \in [Item -> Seq(Versions)]
    /\ first \in [Item -> Seq(States)]
    /\ avail \in [Item -> Seq(Nat)]
    /\ \A i \in Item :
         /\ Len(revs[i]) = Len(first[i]) /\ Len(revs[i]) = Len(avail[i])
         /\ \A r \in 2..Len(revs[i]) : revs[i][r] # revs[i][r - 1] /\ first[i][r] = "revised"

\* The capture that is being written sights revisions that are stored.
InHand == [stream : Streams, sights : SUBSET (Item \X Nat), at : Nat \ {0}, stamp : Nat]
WriteFits ==
    write # NoWrite =>
        /\ write \in InHand
        /\ \A x \in write.sights : x[2] \in DOMAIN revs[x[1]]
        /\ write.stamp > 0 => write.stamp >= write.at

Shape ==
    /\ site \in Sites /\ now \in 1 .. MaxNow /\ back \in Nat
    /\ \A s \in Streams : fetch[s] = NoFetch \/ BatchFits(fetch[s], Len(site))
    /\ fetch = [s \in Streams |-> fetch[s]]
    /\ anchors \in [Streams -> {None} \cup SUBSET Item]
    /\ base \in [Streams -> [top : Nat, rejected : SUBSET Item]]
    /\ covered \in [Streams -> [as : Coverages, top : Nat, skipped : SUBSET Item]]

\* What a stream has covered: before its first capture that could be parsed, nothing.
\* After it, the accepted articles of the last capture lie in what that one listed; the
\* articles listed by the first are stored, but for those it rejected.
StreamFits(s) ==
    /\ covered[s].as = "none" <=> anchors[s] = None
    /\ anchors[s] = None => base[s].top = 0
    /\ anchors[s] # None =>
         /\ covered[s].top <= Len(site) /\ base[s].top <= Len(site)
         /\ anchors[s] \subseteq 1 .. covered[s].top
         /\ fetch[s] # NoFetch => base[s].top <= Len(fetch[s].site)
         /\ \A i \in 1 .. base[s].top :
              i + Depth > base[s].top /\ i \notin base[s].rejected => revs[i] # <<>>

CaptureInv ==
    /\ Shape /\ TablesFit /\ WriteFits /\ \A s \in Streams : StreamFits(s)
    /\ OverlapMeansNothingLost /\ NewIsFresh

\* As long as the clock has not stepped back, it is not behind the capture that is being
\* written, a query is behind the clock, and one of this process behind that capture.
ViewsFit ==
    /\ back = 0 /\ write # NoWrite => write.at <= now
    /\ \A v \in views :
         /\ v.cutoff \in Nat
         /\ back = 0 => v.cutoff < now
         /\ back = 0 /\ write # NoWrite /\ ~v.outside => v.cutoff < write.at
-----------------------------------------------------------------------------
LEMMA ObserverBounds ==
    /\ None \notin Streams /\ None \notin SUBSET Item
    /\ Depth \in Nat \ {0} /\ MaxItems \in Nat \ {0} /\ MaxVersion \in Nat \ {0} /\ MaxNow \in Nat \ {0}
    /\ 1 \in Versions
BY ObserverAssumption DEF Item, Versions

\* The newest of the listed articles is the newest of the site.
LEMMA NewestIsLast ==
    ASSUME NEW s \in Seq(Versions)
    PROVE  Newest(ListedOf(s)) = Len(s)
<1>1. Len(s) \in Nat /\ DOMAIN s = 1 .. Len(s) /\ Depth \in Nat \ {0}
  BY ObserverBounds
<1>2. CASE Len(s) = 0
  <2>1. ListedOf(s) = {}
    BY <1>1, <1>2 DEF ListedOf
  <2> QED
    BY <1>2, <2>1 DEF Newest
<1>3. CASE Len(s) # 0
  <2>1. Len(s) \in ListedOf(s) /\ \A j \in ListedOf(s) : j <= Len(s) /\ j \in Nat
    BY <1>1, <1>3 DEF ListedOf
  <2>2. \A i \in ListedOf(s) : (\A j \in ListedOf(s) : j <= i) => i = Len(s)
    BY <1>1, <2>1
  <2> HIDE DEF ListedOf
  <2> QED
    BY <2>1, <2>2 DEF Newest
<1> QED
  BY <1>2, <1>3

LEMMA ListedAreItems ==
    ASSUME NEW s \in Sites
    PROVE  /\ DOMAIN s \subseteq Item /\ ListedOf(s) \subseteq 1 .. Len(s) /\ Len(s) \in Nat
           /\ Len(s) <= MaxItems /\ DOMAIN s = 1 .. Len(s)
BY ObserverBounds DEF Sites, ListedOf, Item

\* A step that leaves the stored alone keeps what is said of it, as long as the site
\* does not shrink and captures in hand are kept, dropped or taken of the present site.
LEMMA StoreRests ==
    ASSUME CaptureInv, UNCHANGED stored, site' \in Sites, Len(site) <= Len(site'),
           now' \in 1 .. MaxNow, back' \in Nat, WriteFits', fetch' = [s \in Streams |-> fetch'[s]],
           \A s \in Streams : \/ fetch'[s] \in {fetch[s], NoFetch}
                              \/ BatchFits(fetch'[s], Len(site')) /\ fetch'[s].site = site
    PROVE  CaptureInv'
<1>1. Shape'
  <2>1. \A s \in Streams : fetch'[s] = NoFetch \/ BatchFits(fetch'[s], Len(site'))
    <3> SUFFICES ASSUME NEW s \in Streams, fetch'[s] = fetch[s], BatchFits(fetch[s], Len(site))
                 PROVE  BatchFits(fetch[s], Len(site'))
      BY DEF CaptureInv, Shape
    <3>1. Len(fetch[s].site) \in Nat /\ Len(site) \in Nat /\ Len(site') \in Nat
      BY ListedAreItems DEF BatchFits, Batches, CaptureInv, Shape
    <3> QED
      BY <3>1 DEF BatchFits
  <2> QED
    BY <2>1 DEF CaptureInv, Shape, stored
<1>2. ASSUME NEW s \in Streams PROVE StreamFits(s)'
  <2>1. StreamFits(s)
    BY DEF CaptureInv
  <2>2. /\ Len(site) \in Nat /\ Len(site') \in Nat
        /\ covered[s].top \in Nat /\ base[s].top \in Nat
    BY ListedAreItems DEF CaptureInv, Shape
  <2>3. anchors[s] # None /\ fetch'[s] # NoFetch => base[s].top <= Len(fetch'[s].site)
    BY <2>1 DEF StreamFits
  <2> QED
    BY <2>1, <2>2, <2>3 DEF StreamFits, stored
<1>3. TablesFit' /\ OverlapMeansNothingLost' /\ NewIsFresh'
  BY DEF CaptureInv, TablesFit, OverlapMeansNothingLost, NewIsFresh, stored
<1> QED
  BY <1>1, <1>2, <1>3 DEF CaptureInv

LEMMA InvSite ==
    ASSUME CaptureInv, Provider
    PROVE  CaptureInv'
<1>1. UNCHANGED <<now, fetch, write, stored, back>>
  BY DEF Provider, bounds
<1>2. site \in Sites /\ site \in Seq(Versions) /\ Len(site) \in Nat
  BY ListedAreItems DEF CaptureInv, Shape, Sites
<1>3. site' \in Sites /\ Len(site) <= Len(site')
  <2>1. CASE Publishes
    BY <1>2, <2>1, ObserverBounds DEF Publishes, Sites
  <2>2. CASE Edits
    <3>1. PICK i \in DOMAIN site : site[i] < MaxVersion /\ site' = [site EXCEPT ![i] = site[i] + 1]
      BY <2>2 DEF Edits
    <3>2. site[i] + 1 \in Versions
      BY <1>2, <3>1, ObserverBounds DEF Versions
    <3> QED
      BY <1>2, <3>1, <3>2 DEF Sites
  <2> QED
    BY <2>1, <2>2 DEF Provider
<1>4. WriteFits'
  BY <1>1 DEF CaptureInv, WriteFits, stored
<1>5. now' \in 1 .. MaxNow /\ back' \in Nat /\ fetch' = [s \in Streams |-> fetch'[s]]
  BY <1>1 DEF CaptureInv, Shape
<1> QED
  BY <1>1, <1>3, <1>4, <1>5, StoreRests

\* The clock, the queries and the stamp.
LEMMA InvClock ==
    ASSUME CaptureInv,
           Tick \/ ClockSteps \/ Stamps \/ Restarts \/ Queries \/ QueriesOutside
    PROVE  CaptureInv'
<1>1. site' = site /\ UNCHANGED stored
  BY DEF Tick, ClockSteps, Stamps, Restarts, Queries, QueriesOutside, Remembers
<1>2. site \in Sites /\ Len(site) <= Len(site')
  BY <1>1, ListedAreItems DEF CaptureInv, Shape
<1>3. now \in 1 .. MaxNow /\ back \in Nat
  BY DEF CaptureInv, Shape
<1>4. now' \in 1 .. MaxNow /\ back' \in Nat
  BY <1>3, ObserverBounds
  DEF Tick, ClockSteps, Stamps, Restarts, Queries, QueriesOutside, Remembers, bounds
<1>5. /\ \A s \in Streams : fetch'[s] \in {fetch[s], NoFetch}
      /\ fetch' = [s \in Streams |-> fetch'[s]]
  BY DEF CaptureInv, Shape, Tick, ClockSteps, Stamps, Restarts, Queries, QueriesOutside, Remembers
<1>6. WriteFits'
  <2>1. CASE Stamps
    <3>1. write' = NoWrite \/ (now >= write.at /\ write' = [write EXCEPT !.stamp = now])
      BY <1>3, <2>1 DEF Stamps, WriteFits, CaptureInv, InHand, LockFree
    <3>2. write \in InHand /\ \A x \in write.sights : x[2] \in DOMAIN revs[x[1]]
      BY <2>1 DEF Stamps, CaptureInv, WriteFits, LockFree
    <3>3. CASE write' = [write EXCEPT !.stamp = now] /\ now >= write.at
      <4>1. /\ write' \in InHand /\ write'.sights = write.sights /\ write'.stamp = now
            /\ write'.at = write.at
        BY <1>3, <3>2, <3>3 DEF InHand
      <4> QED
        BY <1>1, <3>2, <3>3, <4>1 DEF WriteFits, stored
    <3> QED
      BY <3>1, <3>3 DEF WriteFits
  <2>2. CASE Restarts
    BY <2>2 DEF Restarts, WriteFits
  <2>3. CASE ~Stamps /\ ~Restarts
    <3>1. write' = write
      BY <2>3 DEF Tick, ClockSteps, Queries, QueriesOutside, Remembers
    <3> QED
      BY <1>1, <3>1 DEF CaptureInv, WriteFits, stored
  <2> QED
    BY <2>1, <2>2, <2>3
<1> QED
  BY <1>1, <1>2, <1>4, <1>5, <1>6, StoreRests

LEMMA InvFetches ==
    ASSUME CaptureInv, NEW s \in Streams, Fetches(s) \/ FetchesBadly(s)
    PROVE  CaptureInv'
<1>1. /\ site' = site /\ now' = now /\ back' = back /\ write' = write /\ UNCHANGED stored
  BY DEF Fetches, FetchesBadly, bounds
<1>2. site \in Sites /\ now \in 1 .. MaxNow /\ back \in Nat
  BY DEF CaptureInv, Shape
<1>3. PICK accepted \in SUBSET Listed, bad \in BOOLEAN : fetch' = [fetch EXCEPT ![s] = Batch(accepted, bad)]
  <2>1. CASE Fetches(s)
    BY <2>1 DEF Fetches
  <2>2. CASE FetchesBadly(s)
    BY <2>2 DEF FetchesBadly
  <2> QED
    BY <2>1, <2>2
<1>4. Listed = ListedOf(site) /\ Listed \subseteq Item
  BY <1>2, ListedAreItems DEF Listed, ListedOf
<1>5. Batch(accepted, bad) \in Batches
  BY <1>2, <1>4 DEF Batch, Batches
<1>6. Len(site) \in Nat
  BY <1>2, ListedAreItems
<1>7. BatchFits(Batch(accepted, bad), Len(site')) /\ Batch(accepted, bad).site = site
  BY <1>1, <1>4, <1>5, <1>6 DEF BatchFits, Batch
<1>8. /\ \A u \in Streams : fetch'[u] = fetch[u] \/ fetch'[u] = Batch(accepted, bad)
      /\ fetch' = [u \in Streams |-> fetch'[u]]
  BY <1>3 DEF CaptureInv, Shape
<1>9. WriteFits'
  BY <1>1 DEF CaptureInv, WriteFits, stored
<1> QED
  BY <1>1, <1>2, <1>6, <1>7, <1>8, <1>9, StoreRests

-----------------------------------------------------------------------------
\* Accepted articles that do not repeat what is stored get a revision.
Fresh(i, b) == i \in b.accepted /\ ~Repeats(i, b)

LEMMA Appended ==
    ASSUME NEW V, NEW q \in Seq(V), NEW v \in V
    PROVE  /\ Len(Append(q, v)) = Len(q) + 1 /\ Append(q, v)[Len(q) + 1] = v
           /\ \A r \in 1 .. Len(q) : Append(q, v)[r] = q[r]
OBVIOUS

LEMMA TableIsSequence ==
    ASSUME NEW V, NEW n \in Nat, NEW q \in [1 .. n -> V]
    PROVE  q \in Seq(V) /\ Len(q) = n
OBVIOUS

\* A capture that is written, seen from the tables.
LEMMA TablesGrow ==
    ASSUME CaptureInv, NEW s \in Streams, NEW b, BatchFits(b, Len(site)),
           revs' = Extended(revs, b, b.site),
           first' = Extended(first, b, [i \in Item |-> State(s, i)]),
           avail' = Extended(avail, b, [i \in Item |-> 0])
    PROVE  /\ TablesFit'
           /\ \A i \in Item : /\ revs'[i] = IF Fresh(i, b) THEN Append(revs[i], b.site[i]) ELSE revs[i]
                              /\ first'[i] = IF Fresh(i, b) THEN Append(first[i], State(s, i)) ELSE first[i]
                              /\ avail'[i] = IF Fresh(i, b) THEN Append(avail[i], 0) ELSE avail[i]
<1>1. /\ revs \in [Item -> Seq(Versions)] /\ first \in [Item -> Seq(States)] /\ avail \in [Item -> Seq(Nat)]
  BY DEF CaptureInv, TablesFit
<1>2. b.site \in Seq(Versions) /\ b.accepted \subseteq DOMAIN b.site
  BY DEF BatchFits, Batches, Sites, ListedOf
<1>3. \A i \in Item : Fresh(i, b) => b.site[i] \in Versions
  BY <1>2 DEF Fresh
<1>4. \A i \in Item : State(s, i) \in States
  BY DEF State, States
<1>5. /\ revs' \in [Item -> Seq(Versions)]
      /\ \A i \in Item : revs'[i] = IF Fresh(i, b) THEN Append(revs[i], b.site[i]) ELSE revs[i]
  <2>1. revs' = [i \in Item |-> IF Fresh(i, b) THEN Append(revs[i], b.site[i]) ELSE revs[i]]
    BY DEF Extended, Fresh
  <2>2. \A i \in Item : (IF Fresh(i, b) THEN Append(revs[i], b.site[i]) ELSE revs[i]) \in Seq(Versions)
    BY <1>1, <1>3
  <2> QED
    BY <2>1, <2>2
<1>6. /\ first' \in [Item -> Seq(States)]
      /\ \A i \in Item : first'[i] = IF Fresh(i, b) THEN Append(first[i], State(s, i)) ELSE first[i]
  <2>1. first' = [i \in Item |-> IF Fresh(i, b) THEN Append(first[i], State(s, i)) ELSE first[i]]
    BY DEF Extended, Fresh
  <2>2. \A i \in Item : (IF Fresh(i, b) THEN Append(first[i], State(s, i)) ELSE first[i]) \in Seq(States)
    BY <1>1, <1>4
  <2> QED
    BY <2>1, <2>2
<1>7. /\ avail' \in [Item -> Seq(Nat)]
      /\ \A i \in Item : avail'[i] = IF Fresh(i, b) THEN Append(avail[i], 0) ELSE avail[i]
  <2>1. avail' = [i \in Item |-> IF Fresh(i, b) THEN Append(avail[i], 0) ELSE avail[i]]
    BY DEF Extended, Fresh
  <2>2. \A i \in Item : (IF Fresh(i, b) THEN Append(avail[i], 0) ELSE avail[i]) \in Seq(Nat)
    BY <1>1
  <2> QED
    BY <2>1, <2>2
<1>8. ASSUME NEW i \in Item
      PROVE  /\ Len(revs'[i]) = Len(first'[i]) /\ Len(revs'[i]) = Len(avail'[i])
             /\ \A r \in 2..Len(revs'[i]) : revs'[i][r] # revs'[i][r - 1] /\ first'[i][r] = "revised"
  <2>1. /\ revs[i] \in Seq(Versions) /\ first[i] \in Seq(States) /\ avail[i] \in Seq(Nat)
        /\ Len(revs[i]) = Len(first[i]) /\ Len(revs[i]) = Len(avail[i]) /\ Len(revs[i]) \in Nat
        /\ \A r \in 2..Len(revs[i]) : revs[i][r] # revs[i][r - 1] /\ first[i][r] = "revised"
    BY <1>1 DEF CaptureInv, TablesFit
  <2>2. CASE ~Fresh(i, b)
    BY <1>5, <1>6, <1>7, <2>1, <2>2
  <2>3. CASE Fresh(i, b)
    <3>1. /\ revs'[i] = Append(revs[i], b.site[i]) /\ first'[i] = Append(first[i], State(s, i))
          /\ avail'[i] = Append(avail[i], 0)
      BY <1>5, <1>6, <1>7, <2>3
    <3>2. /\ Len(revs'[i]) = Len(revs[i]) + 1 /\ Len(first'[i]) = Len(revs[i]) + 1
          /\ Len(avail'[i]) = Len(revs[i]) + 1
          /\ revs'[i][Len(revs[i]) + 1] = b.site[i] /\ first'[i][Len(revs[i]) + 1] = State(s, i)
          /\ \A r \in 1 .. Len(revs[i]) : revs'[i][r] = revs[i][r] /\ first'[i][r] = first[i][r]
      <4> DEFINE n == Len(revs[i])
      <4>1. b.site[i] \in Versions /\ State(s, i) \in States
        BY <1>3, <1>4, <2>3
      <4>2. /\ Len(revs'[i]) = n + 1 /\ revs'[i][n + 1] = b.site[i]
            /\ \A r \in 1 .. n : revs'[i][r] = revs[i][r]
        BY <2>1, <3>1, <4>1
      <4>3. /\ Len(first'[i]) = n + 1 /\ first'[i][n + 1] = State(s, i)
            /\ \A r \in 1 .. n : first'[i][r] = first[i][r]
        <5> SUFFICES ASSUME NEW x \in States, first'[i] = Append(first[i], x)
                     PROVE  /\ Len(first'[i]) = n + 1 /\ first'[i][n + 1] = x
                            /\ \A r \in 1 .. n : first'[i][r] = first[i][r]
          BY <3>1, <4>1
        <5>1. first[i] \in Seq(States) /\ Len(first[i]) = n
          BY <2>1
        <5>2. /\ Len(Append(first[i], x)) = Len(first[i]) + 1
              /\ Append(first[i], x)[Len(first[i]) + 1] = x
              /\ \A r \in 1 .. Len(first[i]) : Append(first[i], x)[r] = first[i][r]
          BY <5>1, Appended
        <5> HIDE DEF n
        <5> QED
          BY <5>1, <5>2
      <4>4. Len(avail'[i]) = n + 1
        BY <2>1, <3>1
      <4> QED
        BY <4>2, <4>3, <4>4
    <3>3. ASSUME NEW r \in 2 .. Len(revs'[i])
          PROVE  revs'[i][r] # revs'[i][r - 1] /\ first'[i][r] = "revised"
      <4>1. CASE r <= Len(revs[i])
        <5>1. r \in 2 .. Len(revs[i]) /\ r \in 1 .. Len(revs[i]) /\ r - 1 \in 1 .. Len(revs[i])
          BY <2>1, <4>1, SMTT(25)
        <5> QED
          BY <2>1, <3>2, <5>1
      <4>2. CASE r > Len(revs[i])
        <5>1. r = Len(revs[i]) + 1 /\ Len(revs[i]) \in 1 .. Len(revs[i]) /\ r - 1 = Len(revs[i])
          BY <2>1, <3>2, <4>2
        <5>2. revs[i] # <<>>
          BY <2>1, <5>1
        <5>3. revs[i][Len(revs[i])] # b.site[i] /\ State(s, i) = "revised"
          BY <2>3, <5>2 DEF Fresh, Repeats, State
        <5> QED
          BY <3>2, <5>1, <5>3
      <4> QED
        BY <2>1, <3>2, <4>1, <4>2
    <3> QED
      BY <2>1, <3>2, <3>3
  <2> QED
    BY <2>2, <2>3
<1> QED
  BY <1>5, <1>6, <1>7, <1>8 DEF TablesFit

\* A capture overlaps the one before: all that came after the newest article that both
\* list is listed.
LEMMA OverlapListsAll ==
    ASSUME CaptureInv, NEW s \in Streams, NEW b, BatchFits(b, Len(site)),
           Coverage(s, b) = "overlap"
    PROVE  {i \in DOMAIN b.site : i > covered[s].top} \ b.listed = {}
<1>1. /\ b.site \in Sites /\ b.listed = ListedOf(b.site) /\ b.accepted \subseteq b.listed
      /\ DOMAIN b.site = 1 .. Len(b.site) /\ Len(b.site) \in Nat /\ Depth \in Nat
  BY ListedAreItems, ObserverBounds DEF BatchFits, Batches
<1>2. anchors[s] # None
  BY DEF Coverage
<1>3. PICK j \in b.accepted : j \in anchors[s]
  BY <1>2 DEF Coverage
<1>4. anchors[s] \subseteq 1 .. covered[s].top /\ covered[s].top \in Nat
  BY <1>2 DEF CaptureInv, StreamFits, Shape
<1>5. j \in DOMAIN b.site /\ j + Depth > Len(b.site) /\ j <= covered[s].top
  BY <1>1, <1>3, <1>4 DEF ListedOf
<1>6. ASSUME NEW i \in DOMAIN b.site, i > covered[s].top PROVE i \in b.listed
  BY <1>1, <1>4, <1>5, <1>6 DEF ListedOf
<1> QED
  BY <1>6

\* A capture that is written, seen from its stream and from the others.
LEMMA InvWritten ==
    ASSUME CaptureInv, NEW s \in Streams, Records(s), ~(now < fetch[s].at)
    PROVE  CaptureInv'
<1> SUFFICES ASSUME NEW b, b = fetch[s] PROVE CaptureInv'
  OBVIOUS
<1>1. /\ b.got /\ write = NoWrite /\ fetch' = [fetch EXCEPT ![s] = NoFetch]
      /\ write' = [stream |-> s, sights |-> Sighted(b), at |-> now, stamp |-> 0]
      /\ revs' = Extended(revs, b, b.site)
      /\ first' = Extended(first, b, [i \in Item |-> State(s, i)])
      /\ avail' = Extended(avail, b, [i \in Item |-> 0])
      /\ anchors' = [anchors EXCEPT ![s] = Anchors(s, b)]
      /\ base' = IF b.bad \/ base[s].top > 0 \/ covered[s].as # "none" THEN base
                 ELSE [base EXCEPT ![s] = [top |-> Newest(b.listed), rejected |-> b.listed \ b.accepted]]
      /\ covered' = IF b.bad THEN covered
                    ELSE [covered EXCEPT ![s] =
                            [as |-> Coverage(s, b), top |-> Newest(b.listed),
                             skipped |-> {i \in DOMAIN b.site : i > covered[s].top} \ b.listed]]
      /\ site' = site /\ now' = now /\ back' = back
  BY DEF Records, LockFree, bounds
<1>2. BatchFits(b, Len(site))
  <2>1. b = NoFetch \/ BatchFits(b, Len(site))
    BY DEF CaptureInv, Shape
  <2> QED
    BY <1>1, <2>1 DEF NoFetch
<1>3. /\ b.site \in Sites /\ b.listed = ListedOf(b.site) /\ b.accepted \subseteq b.listed
      /\ b.listed \subseteq Item /\ DOMAIN b.site \subseteq Item /\ DOMAIN b.site = 1 .. Len(b.site)
      /\ Len(b.site) \in Nat /\ Len(site) \in Nat /\ Len(b.site) <= Len(site)
      /\ b.listed \subseteq 1 .. Len(b.site) /\ b.bad \in BOOLEAN
  BY <1>2, ListedAreItems DEF BatchFits, Batches, CaptureInv, Shape
<1>4. Newest(b.listed) = Len(b.site)
  BY <1>3, NewestIsLast DEF Sites
<1>5. /\ site \in Sites /\ now \in 1 .. MaxNow /\ back \in Nat
      /\ \A u \in Streams : fetch[u] = NoFetch \/ BatchFits(fetch[u], Len(site))
      /\ fetch = [u \in Streams |-> fetch[u]]
      /\ anchors \in [Streams -> {None} \cup SUBSET Item]
      /\ base \in [Streams -> [top : Nat, rejected : SUBSET Item]]
      /\ covered \in [Streams -> [as : Coverages, top : Nat, skipped : SUBSET Item]]
  BY DEF CaptureInv, Shape
<1>6. Coverage(s, b) \in Coverages /\ (~b.bad => Coverage(s, b) # "none") /\ b.accepted # None
  BY <1>3, ObserverBounds DEF Coverage, Coverages
<1>7. /\ TablesFit'
      /\ \A i \in Item : /\ revs'[i] = IF Fresh(i, b) THEN Append(revs[i], b.site[i]) ELSE revs[i]
                         /\ first'[i] = IF Fresh(i, b) THEN Append(first[i], State(s, i)) ELSE first[i]
                         /\ avail'[i] = IF Fresh(i, b) THEN Append(avail[i], 0) ELSE avail[i]
  BY <1>1, <1>2, TablesGrow
<1>8. ASSUME NEW i \in Item
      PROVE  /\ revs[i] \in Seq(Versions) /\ first[i] \in Seq(States) /\ Len(revs[i]) = Len(first[i])
             /\ Len(revs[i]) \in Nat
             /\ revs[i] # <<>> => revs'[i] # <<>>
             /\ i \in b.accepted => revs'[i] # <<>>
             /\ revs[i] = <<>> <=> first[i] = <<>>
             /\ first[i] # <<>> => first'[i][1] = first[i][1]
  <2>1. /\ revs[i] \in Seq(Versions) /\ first[i] \in Seq(States) /\ Len(revs[i]) = Len(first[i])
        /\ Len(revs[i]) \in Nat
    BY DEF CaptureInv, TablesFit
  <2>2. revs[i] = <<>> <=> first[i] = <<>>
    BY <2>1
  <2>3. Fresh(i, b) => b.site[i] \in Versions /\ State(s, i) \in States
    BY <1>3 DEF Fresh, Sites, State, States
  <2>4. Fresh(i, b) => revs'[i] # <<>>
    <3> SUFFICES ASSUME Fresh(i, b) PROVE revs'[i] # <<>>
      OBVIOUS
    <3>1. Len(Append(revs[i], b.site[i])) = Len(revs[i]) + 1
      BY <2>1, <2>3
    <3>2. Len(Append(revs[i], b.site[i])) # 0
      BY <2>1, <3>1
    <3>3. revs'[i] = Append(revs[i], b.site[i])
      BY <1>7
    <3>4. Len(revs'[i]) # 0
      BY <3>2, <3>3
    <3> HIDE DEF Fresh
    <3>5. ASSUME revs'[i] = <<>> PROVE FALSE
      <4>1. Len(<<>>) = 0
        OBVIOUS
      <4> QED
        BY <3>4, <3>5, <4>1
    <3> QED
      BY <3>5
  <2>5. first[i] # <<>> => first'[i][1] = first[i][1]
    <3> SUFFICES ASSUME first[i] # <<>>, Fresh(i, b), NEW x \in States, x = State(s, i)
                 PROVE  Append(first[i], x)[1] = first[i][1]
      BY <1>7, <2>3
    <3>1. 1 \in 1 .. Len(first[i])
      BY <2>1
    <3> QED
      BY <2>1, <3>1, Appended
  <2>6. i \in b.accepted /\ ~Fresh(i, b) => revs[i] # <<>> /\ revs'[i] = revs[i]
    BY <1>7 DEF Fresh, Repeats
  <2> QED
    BY <1>7, <2>1, <2>2, <2>4, <2>5, <2>6
<1>9. /\ \A u \in Streams \ {s} : anchors'[u] = anchors[u] /\ base'[u] = base[u]
                                  /\ covered'[u] = covered[u] /\ fetch'[u] = fetch[u]
      /\ fetch'[s] = NoFetch /\ fetch' = [u \in Streams |-> fetch'[u]]
      /\ anchors'[s] = IF b.bad THEN anchors[s] ELSE b.accepted
      /\ covered'[s] = IF b.bad THEN covered[s]
                       ELSE [as |-> Coverage(s, b), top |-> Len(b.site),
                             skipped |-> {i \in DOMAIN b.site : i > covered[s].top} \ b.listed]
      /\ base'[s] = IF b.bad \/ base[s].top > 0 \/ covered[s].as # "none" THEN base[s]
                    ELSE [top |-> Len(b.site), rejected |-> b.listed \ b.accepted]
  BY <1>1, <1>4, <1>5 DEF Anchors
<1>10. Shape'
  <2>1. \A u \in Streams : fetch'[u] = NoFetch \/ BatchFits(fetch'[u], Len(site'))
    BY <1>1, <1>5, <1>9
  <2>2. anchors' \in [Streams -> {None} \cup SUBSET Item]
    BY <1>1, <1>3, <1>5 DEF Anchors
  <2>3. base' \in [Streams -> [top : Nat, rejected : SUBSET Item]]
    BY <1>1, <1>3, <1>4, <1>5
  <2>4. covered' \in [Streams -> [as : Coverages, top : Nat, skipped : SUBSET Item]]
    <3>1. [as |-> Coverage(s, b), top |-> Newest(b.listed),
           skipped |-> {i \in DOMAIN b.site : i > covered[s].top} \ b.listed]
             \in [as : Coverages, top : Nat, skipped : SUBSET Item]
      BY <1>3, <1>4, <1>6
    <3> QED
      BY <1>1, <1>5, <3>1
  <2> QED
    BY <1>1, <1>5, <1>9, <2>1, <2>2, <2>3, <2>4 DEF Shape
<1>11. WriteFits'
  <2>1. write' \in InHand
    <3>1. Sighted(b) \in SUBSET (Item \X Nat)
      BY <1>3, <1>8 DEF Sighted, Sightings
    <3> QED
      BY <1>1, <1>5, <3>1 DEF InHand
  <2>2. ASSUME NEW x \in Sighted(b) PROVE x[2] \in DOMAIN revs'[x[1]]
    <3>1. PICK i \in b.accepted : x = <<i, IF Repeats(i, b) THEN Len(revs[i]) ELSE Len(revs[i]) + 1>>
      BY <2>2 DEF Sighted, Sightings
    <3>2. i \in Item /\ revs[i] \in Seq(Versions) /\ Len(revs[i]) \in Nat
      BY <1>3, <1>8
    <3>3. CASE Repeats(i, b)
      BY <1>7, <3>1, <3>2, <3>3 DEF Fresh, Repeats
    <3>4. CASE ~Repeats(i, b)
      <4>1. revs'[i] = Append(revs[i], b.site[i]) /\ b.site[i] \in Versions
        <5>1. Fresh(i, b)
          BY <3>4 DEF Fresh
        <5>2. b.site \in Seq(Versions) /\ i \in DOMAIN b.site
          BY <1>3 DEF Sites
        <5>3. revs'[i] = Append(revs[i], b.site[i])
          BY <1>7, <3>2, <5>1
        <5>4. b.site[i] \in Versions
          BY <5>2
        <5> QED
          BY <5>3, <5>4
      <4>2. DOMAIN revs'[i] = 1 .. (Len(revs[i]) + 1)
        BY <3>2, <4>1
      <4> QED
        BY <3>1, <3>2, <3>4, <4>2
    <3> QED
      BY <3>3, <3>4
  <2> QED
    BY <1>1, <2>1, <2>2 DEF WriteFits
<1>12. ASSUME NEW u \in Streams PROVE StreamFits(u)'
  <2>1. StreamFits(u) /\ covered[u].top \in Nat /\ base[u].top \in Nat
    BY <1>5 DEF CaptureInv
  <2>2. CASE u # s
    <3>1. \A i \in 1 .. base[u].top : i \in Item \/ anchors[u] = None
      BY <1>3, <1>5, <2>1, ListedAreItems, ObserverBounds DEF StreamFits, Item
    <3> QED
      BY <1>1, <1>8, <1>9, <2>1, <2>2, <3>1, ZenonT(40) DEF StreamFits
  <2>3. CASE u = s /\ b.bad
    <3>1. /\ anchors'[s] = anchors[s] /\ base'[s] = base[s] /\ covered'[s] = covered[s]
          /\ fetch'[s] = NoFetch /\ site' = site
      BY <1>1, <1>9, <2>3
    <3>2. ASSUME anchors[s] # None, NEW i \in 1 .. base[s].top,
                 i + Depth > base[s].top, i \notin base[s].rejected
          PROVE  revs'[i] # <<>>
      <4>1. i \in Item
        BY <1>3, <1>5, <2>1, <2>3, <3>2, ListedAreItems, ObserverBounds DEF StreamFits, Item
      <4>2. revs[i] # <<>>
        BY <2>1, <2>3, <3>2 DEF StreamFits
      <4> QED
        BY <1>8, <4>1, <4>2
    <3> QED
      BY <2>1, <2>3, <3>1, <3>2 DEF StreamFits
  <2>4. CASE u = s /\ ~b.bad
    <3>1. /\ anchors'[s] = b.accepted /\ covered'[s].as = Coverage(s, b) /\ covered'[s].top = Len(b.site)
          /\ fetch'[s] = NoFetch
      BY <1>9, <2>4
    <3>2. base'[s].top <= Len(site)
          /\ \A i \in 1 .. base'[s].top :
                i + Depth > base'[s].top /\ i \notin base'[s].rejected => revs'[i] # <<>>
      <4>1. CASE base[s].top > 0 \/ covered[s].as # "none"
        <5>1. anchors[s] # None /\ base'[s] = base[s]
          BY <1>9, <2>1, <2>4, <4>1 DEF StreamFits
        <5>2. base[s].top <= Len(site)
          BY <2>1, <2>4, <5>1 DEF StreamFits
        <5>3. \A i \in 1 .. base[s].top : i \in Item
          BY <1>3, <1>5, <2>1, <2>4, <5>2, ListedAreItems, ObserverBounds DEF Item
        <5> QED
          BY <1>8, <2>1, <2>4, <5>1, <5>2, <5>3 DEF StreamFits
      <4>2. CASE ~(base[s].top > 0 \/ covered[s].as # "none")
        <5>1. base'[s].top = Len(b.site) /\ base'[s].rejected = b.listed \ b.accepted
          BY <1>9, <2>4, <4>2
        <5>2. \A i \in 1 .. Len(b.site) : i + Depth > Len(b.site) => i \in b.listed /\ i \in Item
          BY <1>3 DEF ListedOf
        <5> QED
          BY <1>3, <1>8, <5>1, <5>2
      <4> QED
        BY <4>1, <4>2
    <3> QED
      BY <1>1, <1>3, <1>6, <2>4, <3>1, <3>2 DEF StreamFits
  <2> QED
    BY <2>2, <2>3, <2>4
<1>13. OverlapMeansNothingLost'
  <2>1. OverlapMeansNothingLost
    BY DEF CaptureInv
  <2>2. ASSUME NEW u \in Streams, covered'[u].as = "overlap" PROVE covered'[u].skipped = {}
    <3>1. CASE u # s \/ b.bad
      BY <1>9, <2>1, <2>2, <3>1 DEF OverlapMeansNothingLost
    <3>2. CASE u = s /\ ~b.bad
      <4>1. /\ Coverage(s, b) = "overlap"
            /\ covered'[u].skipped = {i \in DOMAIN b.site : i > covered[s].top} \ b.listed
        BY <1>9, <2>2, <3>2
      <4> QED
        BY <1>2, <4>1, OverlapListsAll
    <3> QED
      BY <3>1, <3>2
  <2> QED
    BY <2>2 DEF OverlapMeansNothingLost
<1>14. NewIsFresh'
  <2>1. ASSUME NEW u \in Streams, anchors[u] # None
        PROVE  anchors'[u] # None /\ base'[u] = base[u]
    <3>1. covered[u].as # "none"
      BY <2>1 DEF CaptureInv, StreamFits
    <3> QED
      BY <1>6, <1>9, <2>1, <3>1
  <2>2. ASSUME NEW i \in Item, first'[i] # <<>>, first'[i][1] = "new"
        PROVE  \E u \in Streams : anchors'[u] # None /\ (i > base'[u].top \/ i \in base'[u].rejected)
    <3>1. CASE first[i] # <<>>
      <4>1. PICK u \in Streams : anchors[u] # None /\ (i > base[u].top \/ i \in base[u].rejected)
        BY <1>8, <2>2, <3>1 DEF CaptureInv, NewIsFresh
      <4> QED
        BY <2>1, <4>1
    <3>2. CASE first[i] = <<>>
      <4>1. Fresh(i, b) /\ first'[i] = Append(first[i], State(s, i)) /\ revs[i] = <<>>
        BY <1>7, <1>8, <2>2, <3>2
      <4>2. State(s, i) = "new"
        BY <1>8, <2>2, <3>2, <4>1 DEF State, States
      <4>3. anchors[s] # None
        BY <4>1, <4>2 DEF State
      <4>4. i \in ListedOf(b.site) /\ i + Depth > Len(b.site) /\ i \in Nat /\ i >= 1
        BY <1>3, <4>1 DEF Fresh, ListedOf
      <4>5. StreamFits(s) /\ base[s].top \in Nat /\ fetch[s] # NoFetch
        BY <1>1, <1>5 DEF CaptureInv, NoFetch
      <4>6. /\ base[s].top <= Len(b.site)
            /\ \A k \in 1 .. base[s].top : k + Depth > base[s].top /\ k \notin base[s].rejected => revs[k] # <<>>
        BY <4>3, <4>5 DEF StreamFits
      <4>7. i > base[s].top \/ i \in base[s].rejected
        BY <1>3, <4>1, <4>4, <4>5, <4>6, ObserverBounds
      <4> QED
        BY <2>1, <4>3, <4>7
    <3> QED
      BY <3>1, <3>2
  <2> QED
    BY <2>2 DEF NewIsFresh
<1> QED
  BY <1>7, <1>10, <1>11, <1>12, <1>13, <1>14 DEF CaptureInv

LEMMA InvRecords ==
    ASSUME CaptureInv, NEW s \in Streams, Records(s)
    PROVE  CaptureInv'
<1>1. CASE now < fetch[s].at
  <2>1. /\ UNCHANGED <<write, stored, site, now, back>> /\ fetch' = [fetch EXCEPT ![s] = NoFetch]
    BY <1>1 DEF Records, bounds
  <2>2. site \in Sites /\ Len(site) <= Len(site') /\ now' \in 1 .. MaxNow /\ back' \in Nat
    BY <2>1, ListedAreItems DEF CaptureInv, Shape
  <2>3. WriteFits'
    BY <2>1 DEF CaptureInv, WriteFits, stored
  <2>4. /\ \A u \in Streams : fetch'[u] \in {fetch[u], NoFetch}
        /\ fetch' = [u \in Streams |-> fetch'[u]]
    BY <2>1 DEF CaptureInv, Shape
  <2> QED
    BY <2>1, <2>2, <2>3, <2>4, StoreRests
<1>2. CASE ~(now < fetch[s].at)
  BY <1>2, InvWritten
<1> QED
  BY <1>1, <1>2

\* The second transaction only moves markers.
LEMMA InvMakesAvailable ==
    ASSUME CaptureInv, MakesAvailable
    PROVE  CaptureInv'
<1>1. /\ UNCHANGED <<site, now, fetch, revs, first, anchors, base, covered, back>> /\ write' = NoWrite
      /\ write # NoWrite
      /\ avail' = [i \in Item |-> [r \in DOMAIN avail[i] |->
                    IF <<i, r>> \in write.sights THEN Earliest(avail[i][r], write.stamp)
                    ELSE avail[i][r]]]
  BY DEF MakesAvailable, bounds, LockFree
<1>2. write.stamp \in Nat
  BY <1>1 DEF CaptureInv, WriteFits, InHand
<1>3. ASSUME NEW i \in Item PROVE avail'[i] \in Seq(Nat) /\ Len(avail'[i]) = Len(avail[i])
  <2>1. avail[i] \in Seq(Nat) /\ Len(avail[i]) \in Nat /\ DOMAIN avail[i] = 1 .. Len(avail[i])
    BY DEF CaptureInv, TablesFit
  <2>2. \A r \in 1 .. Len(avail[i]) : avail[i][r] \in Nat
    BY <2>1
  <2>3. avail'[i] \in [1 .. Len(avail[i]) -> Nat]
    BY <1>1, <1>2, <2>1, <2>2 DEF Earliest
  <2> QED
    BY <2>1, <2>3, TableIsSequence
<1>4. TablesFit'
  <2>1. avail' \in [Item -> Seq(Nat)]
    BY <1>1, <1>3
  <2> QED
    BY <1>1, <1>3, <2>1 DEF CaptureInv, TablesFit
<1>5. Shape' /\ WriteFits' /\ OverlapMeansNothingLost' /\ NewIsFresh'
  BY <1>1 DEF CaptureInv, Shape, WriteFits, OverlapMeansNothingLost, NewIsFresh
<1>6. ASSUME NEW s \in Streams PROVE StreamFits(s)'
  BY <1>1 DEF CaptureInv, StreamFits
<1> QED
  BY <1>4, <1>5, <1>6 DEF CaptureInv

LEMMA CapturesBegin ==
    ASSUME Init
    PROVE  CaptureInv
<1>1. Shape
  <2>1. <<>> \in Sites
    BY ObserverBounds DEF Sites
  <2> QED
    BY <2>1, ObserverBounds DEF Init, Shape, Coverages
<1>2. TablesFit
  BY DEF Init, TablesFit
<1>3. \A s \in Streams : StreamFits(s)
  BY DEF Init, StreamFits
<1> QED
  BY <1>1, <1>2, <1>3 DEF Init, CaptureInv, WriteFits, OverlapMeansNothingLost, NewIsFresh

LEMMA CapturesGoOn ==
    ASSUME CaptureInv, [Next]_vars
    PROVE  CaptureInv'
<1>1. CASE UNCHANGED vars
  <2>1. \A s \in Streams : StreamFits(s)'
    BY <1>1 DEF vars, stored, CaptureInv, StreamFits
  <2> QED
    BY <1>1, <2>1 DEF vars, stored, bounds, CaptureInv, Shape, TablesFit, WriteFits,
       OverlapMeansNothingLost, NewIsFresh
<1>2. CASE Next
  BY <1>2, InvSite, InvClock, InvFetches, InvRecords, InvMakesAvailable DEF Next, Collects
<1> QED
  BY <1>1, <1>2

\* A capture is called overlapping only if nothing was lost between it and the one before,
\* and an article new only if no stream has it among what it began with (record and
\* coverage of ObserverStore).
THEOREM CapturesAlwaysTellTruth == Spec => []CapturesTellTruth
<1>1. Spec => []CaptureInv
  BY CapturesBegin, CapturesGoOn, PTL DEF Spec
<1>2. CaptureInv => CapturesTellTruth
  <2> SUFFICES ASSUME CaptureInv PROVE TypeOK
    BY DEF CaptureInv, CapturesTellTruth
  <2>1. site \in UNION {[1..n -> 1..MaxVersion] : n \in 0..MaxItems}
    <3>1. Len(site) \in 0 .. MaxItems /\ site \in [1 .. Len(site) -> 1 .. MaxVersion]
      BY ObserverBounds DEF CaptureInv, Shape, Sites, Versions
    <3> QED
      BY <3>1
  <2>2. \A s \in Streams : anchors[s] # None => anchors[s] \subseteq DOMAIN site
    <3> SUFFICES ASSUME NEW s \in Streams, anchors[s] # None PROVE anchors[s] \subseteq DOMAIN site
      OBVIOUS
    <3>1. anchors[s] \subseteq 1 .. covered[s].top /\ covered[s].top <= Len(site) /\ covered[s].top \in Nat
      BY DEF CaptureInv, StreamFits, Shape
    <3>2. DOMAIN site = 1 .. Len(site) /\ Len(site) \in Nat
      BY ListedAreItems DEF CaptureInv, Shape
    <3> QED
      BY <3>1, <3>2
  <2> QED
    BY <2>1, <2>2 DEF CaptureInv, Shape, TablesFit, WriteFits, TypeOK, LockFree
<1> QED
  BY <1>1, <1>2, PTL
-----------------------------------------------------------------------------
(***************************************************************************)
(* What a query has shown.                                                 *)
(***************************************************************************)
ViewsInv == CaptureInv /\ ViewsFit /\ ViewsAreFinal

LEMMA Seen ==
    ASSUME NEW c, NEW x
    PROVE  x \in Visible(c) <=> /\ \E i \in Item : \E r \in DOMAIN avail[i] : x = <<i, r>>
                               /\ avail[x[1]][x[2]] \in 1 .. c
BY DEF Visible

\* A step that adds no revision but a hidden one, and moves no marker but to an earlier
\* time, takes nothing back.
LEMMA NothingIsTakenBack ==
    ASSUME NEW c \in Nat,
           \A i \in Item : \A r \in DOMAIN avail[i] :
               /\ r \in DOMAIN avail'[i]
               /\ avail[i][r] \in 1 .. c => avail'[i][r] \in 1 .. c
    PROVE  Visible(c) \subseteq Visible(c)'
BY DEF Visible

\* A step that sets no marker at or before the cutoff adds nothing.
LEMMA NothingIsAdded ==
    ASSUME NEW c \in Nat,
           \A i \in Item : \A r \in DOMAIN avail'[i] :
               avail'[i][r] \in 1 .. c => r \in DOMAIN avail[i] /\ avail[i][r] \in 1 .. c
    PROVE  Visible(c)' \subseteq Visible(c)
BY DEF Visible

\* Steps that make no query and move no marker.
LEMMA ViewsRest ==
    ASSUME ViewsInv, CaptureInv', views' = views, ViewsFit', back' = 0 => back = 0,
           \A v \in views : Visible(v.cutoff) = Visible(v.cutoff)'
    PROVE  ViewsInv'
BY DEF ViewsInv, ViewsAreFinal

LEMMA ViewsWritten ==
    ASSUME ViewsInv, NEW s \in Streams, Records(s), CaptureInv'
    PROVE  ViewsInv'
<1>1. /\ UNCHANGED <<views, back, now>> /\ write = NoWrite
      /\ now \in Nat
  BY DEF Records, bounds, LockFree, ViewsInv, CaptureInv, Shape
<1>2. CASE now < fetch[s].at
  <2>1. write' = write /\ avail' = avail
    BY <1>2 DEF Records, stored
  <2>2. ViewsFit'
    BY <1>1, <2>1 DEF ViewsInv, ViewsFit
  <2>3. \A v \in views : Visible(v.cutoff) = Visible(v.cutoff)'
    BY <2>1 DEF Visible
  <2> QED
    BY <1>1, <2>2, <2>3, ViewsRest
<1>3. CASE ~(now < fetch[s].at)
  <2> DEFINE b == fetch[s]
  <2>1. /\ write' = [stream |-> s, sights |-> Sighted(b), at |-> now, stamp |-> 0]
        /\ revs' = Extended(revs, b, b.site)
        /\ first' = Extended(first, b, [i \in Item |-> State(s, i)])
        /\ avail' = Extended(avail, b, [i \in Item |-> 0])
        /\ b # NoFetch
    BY <1>3 DEF Records, NoFetch
  <2>2. BatchFits(b, Len(site)) /\ avail \in [Item -> Seq(Nat)]
    BY <2>1 DEF ViewsInv, CaptureInv, Shape, TablesFit
  <2> HIDE DEF b
  <2>3. \A i \in Item : avail'[i] = IF Fresh(i, b) THEN Append(avail[i], 0) ELSE avail[i]
    BY <2>1, <2>2, TablesGrow DEF ViewsInv
  <2>4. write'.at = now
    BY <2>1
  <2>5. ViewsFit'
    BY <1>1, <2>4 DEF ViewsInv, ViewsFit
  <2>6. ASSUME NEW c \in Nat PROVE Visible(c) = Visible(c)'
    <3>1. ASSUME NEW i \in Item
          PROVE  /\ \A r \in DOMAIN avail[i] : r \in DOMAIN avail'[i] /\ avail'[i][r] = avail[i][r]
                 /\ \A r \in DOMAIN avail'[i] : r \in DOMAIN avail[i] \/ avail'[i][r] = 0
      <4>1. avail[i] \in Seq(Nat) /\ DOMAIN avail[i] = 1 .. Len(avail[i]) /\ Len(avail[i]) \in Nat
        BY <2>2
      <4>2. CASE Fresh(i, b)
        <5>1. avail'[i] = Append(avail[i], 0)
          BY <2>3, <4>2
        <5> QED
          BY <4>1, <5>1
      <4>3. CASE ~Fresh(i, b)
        BY <2>3, <4>3
      <4> QED
        BY <4>2, <4>3
    <3>2. Visible(c) \subseteq Visible(c)'
      BY <3>1, NothingIsTakenBack
    <3>3. Visible(c)' \subseteq Visible(c)
      <4>1. \A i \in Item : \A r \in DOMAIN avail'[i] :
               avail'[i][r] \in 1 .. c => r \in DOMAIN avail[i] /\ avail[i][r] \in 1 .. c
        BY <3>1
      <4> QED
        BY <4>1, NothingIsAdded
    <3> QED
      BY <3>2, <3>3
  <2>7. \A v \in views : Visible(v.cutoff) = Visible(v.cutoff)'
    BY <2>6 DEF ViewsInv, ViewsFit
  <2> QED
    BY <1>1, <2>5, <2>7, ViewsRest
<1> QED
  BY <1>2, <1>3

\* A marker of this process is later than what it has shown.
LEMMA ViewsPublished ==
    ASSUME ViewsInv, MakesAvailable, CaptureInv'
    PROVE  ViewsInv'
<1>1. /\ UNCHANGED <<views, back, now>> /\ write' = NoWrite /\ write # NoWrite /\ write.stamp > 0
      /\ avail' = [i \in Item |-> [r \in DOMAIN avail[i] |->
                    IF <<i, r>> \in write.sights THEN Earliest(avail[i][r], write.stamp)
                    ELSE avail[i][r]]]
  BY DEF MakesAvailable, bounds, LockFree
<1>2. /\ write.stamp \in Nat /\ write.at \in Nat /\ write.stamp >= write.at
      /\ avail \in [Item -> Seq(Nat)]
  BY <1>1 DEF ViewsInv, CaptureInv, WriteFits, InHand, TablesFit
<1>3. ASSUME NEW i \in Item, NEW r \in DOMAIN avail[i]
      PROVE  /\ avail[i][r] \in Nat /\ DOMAIN avail'[i] = DOMAIN avail[i]
             /\ \/ avail'[i][r] = avail[i][r]
                \/ avail'[i][r] = write.stamp /\ (avail[i][r] = 0 \/ write.stamp < avail[i][r])
  <2>1. avail[i][r] \in Nat
    BY <1>2
  <2> QED
    BY <1>1, <2>1 DEF Earliest
<1>4. ViewsFit'
  BY <1>1 DEF ViewsInv, ViewsFit
<1>5. ASSUME NEW v \in views PROVE v.items \subseteq Visible(v.cutoff)'
  <2>1. v.cutoff \in Nat /\ v.items \subseteq Visible(v.cutoff)
    BY DEF ViewsInv, ViewsFit, ViewsAreFinal
  <2>2. \A i \in Item : \A r \in DOMAIN avail[i] :
           /\ r \in DOMAIN avail'[i]
           /\ avail[i][r] \in 1 .. v.cutoff => avail'[i][r] \in 1 .. v.cutoff
    <3> SUFFICES ASSUME NEW i \in Item, NEW r \in DOMAIN avail[i]
                 PROVE  /\ r \in DOMAIN avail'[i]
                        /\ avail[i][r] \in 1 .. v.cutoff => avail'[i][r] \in 1 .. v.cutoff
      OBVIOUS
    <3>1. /\ avail[i][r] \in Nat /\ r \in DOMAIN avail'[i]
          /\ \/ avail'[i][r] = avail[i][r]
             \/ avail'[i][r] = write.stamp /\ (avail[i][r] = 0 \/ write.stamp < avail[i][r])
      BY <1>3
    <3>2. write.stamp \in Nat \ {0} /\ v.cutoff \in Nat
      BY <1>1, <1>2, <2>1
    <3> QED
      BY <3>1, <3>2
  <2>3. Visible(v.cutoff) \subseteq Visible(v.cutoff)'
    BY <2>1, <2>2, NothingIsTakenBack
  <2> QED
    BY <2>1, <2>3
<1>6. ASSUME NEW v \in views, ~v.outside, back = 0 PROVE Visible(v.cutoff)' \subseteq v.items
  <2>1. v.cutoff \in Nat /\ v.items = Visible(v.cutoff) /\ v.cutoff < write.at
    BY <1>1, <1>6 DEF ViewsInv, ViewsFit, ViewsAreFinal
  <2>2. \A i \in Item : DOMAIN avail'[i] = DOMAIN avail[i]
    BY <1>1
  <2>3. \A i \in Item : \A r \in DOMAIN avail'[i] :
           avail'[i][r] \in 1 .. v.cutoff => r \in DOMAIN avail[i] /\ avail[i][r] \in 1 .. v.cutoff
    BY <1>2, <1>3, <2>1, <2>2
  <2>4. Visible(v.cutoff)' \subseteq Visible(v.cutoff)
    BY <2>1, <2>3, NothingIsAdded
  <2> QED
    BY <2>1, <2>4
<1>7. ViewsAreFinal'
  BY <1>1, <1>5, <1>6 DEF ViewsAreFinal
<1> QED
  BY <1>4, <1>7 DEF ViewsInv

\* A query goes up to a time that is over.
LEMMA ViewsQueried ==
    ASSUME ViewsInv, Queries \/ QueriesOutside, CaptureInv'
    PROVE  ViewsInv'
<1>1. PICK cutoff \in 1 .. (now - 1), outside \in BOOLEAN :
        Remembers(cutoff, outside) /\ (~outside => write = NoWrite)
  BY DEF Queries, QueriesOutside, Waits, LockFree
<1> DEFINE v == [cutoff |-> cutoff, outside |-> outside, items |-> Visible(cutoff)]
<1>2. /\ views' = views \cup {v} /\ UNCHANGED <<now, write, avail, back>>
      /\ now \in Nat /\ cutoff \in Nat /\ cutoff < now
  BY <1>1 DEF Remembers, stored, bounds, ViewsInv, CaptureInv, Shape
<1>3. /\ v.cutoff \in Nat /\ v.cutoff < now /\ v.items = Visible(v.cutoff)
      /\ write # NoWrite => v.outside
  BY <1>1, <1>2
<1>4. \A c : Visible(c)' = Visible(c)
  BY <1>2 DEF Visible
<1> HIDE DEF v
<1>5. ViewsFit'
  BY <1>2, <1>3 DEF ViewsInv, ViewsFit
<1>6. ViewsAreFinal'
  BY <1>2, <1>3, <1>4 DEF ViewsInv, ViewsAreFinal
<1> QED
  BY <1>5, <1>6 DEF ViewsInv

LEMMA ViewsGoOn ==
    ASSUME ViewsInv, [Next]_vars
    PROVE  ViewsInv'
<1>1. CaptureInv' /\ CaptureInv
  BY CapturesGoOn DEF ViewsInv
<1>2. now \in Nat /\ back \in Nat
  BY <1>1 DEF CaptureInv, Shape
<1>3. CASE UNCHANGED vars
  <2>1. \A v \in views : Visible(v.cutoff) = Visible(v.cutoff)'
    BY <1>3 DEF vars, stored, Visible
  <2>2. ViewsFit'
    BY <1>3 DEF vars, stored, bounds, ViewsInv, ViewsFit
  <2> QED
    BY <1>1, <1>3, <2>1, <2>2, ViewsRest DEF vars, bounds
<1>4. CASE \/ Provider \/ Tick \/ ClockSteps \/ Stamps \/ Restarts
           \/ \E s \in Streams : Fetches(s) \/ FetchesBadly(s)
  <2>1. views' = views /\ avail' = avail
    BY <1>4 DEF Provider, Tick, ClockSteps, Stamps, Restarts, Fetches, FetchesBadly, stored
  <2>2. back' = 0 => back = 0 /\ now' >= now
    <3>1. CASE Tick
      BY <1>2, <3>1 DEF Tick, bounds
    <3>2. CASE ClockSteps
      BY <1>2, <3>2 DEF ClockSteps
    <3>3. CASE ~Tick /\ ~ClockSteps
      <4>1. now' = now /\ back' = back
        BY <1>4, <3>3 DEF Provider, Stamps, Restarts, Fetches, FetchesBadly, bounds
      <4> QED
        BY <1>2, <4>1
    <3> QED
      BY <3>1, <3>2, <3>3
  <2>3. write' = write \/ write' = NoWrite \/ (write' = [write EXCEPT !.stamp = now] /\ write # NoWrite)
    BY <1>4 DEF Provider, Tick, ClockSteps, Stamps, Restarts, Fetches, FetchesBadly, LockFree
  <2>4. write' # NoWrite => write # NoWrite /\ write'.at = write.at /\ write.at \in Nat
    <3>1. write # NoWrite => write \in InHand
      BY <1>1 DEF CaptureInv, WriteFits
    <3> QED
      BY <2>3, <3>1 DEF InHand
  <2>5. now' \in Nat
    BY <1>1 DEF CaptureInv, Shape
  <2>6. ViewsFit'
    BY <1>2, <2>1, <2>2, <2>4, <2>5 DEF ViewsInv, ViewsFit
  <2>7. \A v \in views : Visible(v.cutoff) = Visible(v.cutoff)'
    BY <2>1 DEF Visible
  <2> QED
    BY <1>1, <2>1, <2>2, <2>6, <2>7, ViewsRest
<1>5. CASE \E s \in Streams : Records(s)
  BY <1>1, <1>5, ViewsWritten
<1>6. CASE MakesAvailable
  BY <1>1, <1>6, ViewsPublished
<1>7. CASE Queries \/ QueriesOutside
  BY <1>1, <1>7, ViewsQueried
<1> QED
  BY <1>3, <1>4, <1>5, <1>6, <1>7 DEF Next, Collects

\* What a query has shown for a cutoff is shown by every later one; and nothing is added to
\* it, but for a reader in another process or after the clock has stepped back (history and
\* revisions of ObserverStore).
THEOREM ViewsStayFinal == Spec => []ViewsAreFinal
<1>1. Init => ViewsInv
  BY CapturesBegin DEF Init, ViewsInv, ViewsFit, ViewsAreFinal
<1>2. ViewsInv /\ [Next]_vars => ViewsInv'
  BY ViewsGoOn
<1>3. ViewsInv => ViewsAreFinal
  BY DEF ViewsInv
<1> QED
  BY <1>1, <1>2, <1>3, PTL DEF Spec
-----------------------------------------------------------------------------
(***************************************************************************)
(* The full text of an article                                             *)
(***************************************************************************)
\* A poll that has asked the store; one that found nothing; one with an article.
Looking == [pc : {"feed"}, based : BOOLEAN, live : BOOLEAN, onFile : {Unknown} \cup Pages]
Empty == [pc : {"record"}, listed : {FALSE}]
Listing == [pc : {"page", "record"}, listed : {TRUE}, version : 1..MaxEdition, early : BOOLEAN,
            text : Texts, page : BOOLEAN]

TextShape ==
    /\ version \in 0..MaxEdition /\ early \in BOOLEAN /\ based \in SUBSET Feeds /\ cuts \in Nat
    /\ edition \in [1..MaxEdition -> {Unknown} \cup Editions]
    /\ \A v \in 1..version : edition[v] \in Editions
    /\ sighted \in {Unknown, "baseline", "new"}
    /\ latest \in {Unknown} \cup Contents
    /\ enriched \in {Unknown} \cup Pages
    /\ poll \in [Feeds -> {NoPoll} \cup Looking \cup Empty \cup Listing]

\* Nothing is known that the site does not show.
KnownFits ==
    /\ (latest = Unknown) <=> (sighted = Unknown)
    /\ latest # Unknown =>
         /\ based # {} /\ latest.version <= version /\ latest.text \in {Bare} \cup 1..version
         /\ latest.shown => ~early
    /\ enriched # Unknown =>
         /\ latest # Unknown
         /\ enriched.version <= enriched.text /\ enriched.text <= version

\* A poll was begun by a stream that had been captured, or by one that has not.
PollFits(s) ==
    /\ poll[s] \in Looking =>
         /\ poll[s].based <=> s \in based
         /\ poll[s].onFile # Unknown => poll[s].onFile.text <= version
    /\ poll[s] \in Listing =>
         /\ poll[s].version <= version /\ poll[s].text \in {Bare} \cup 1..version
         /\ ~poll[s].early => ~early
         /\ poll[s].page =>
              poll[s].pc = "record" /\ poll[s].text # Bare /\ poll[s].version <= poll[s].text
         /\ s \notin based => poll[s].pc = "record" /\ ~poll[s].page /\ poll[s].text = Bare

OneShows == \A s, o \in based : s = o

\* The text that a version of the article has without a new page.
FileText(v) ==
    IF enriched # Unknown /\ Address(enriched.version) = Address(v) THEN enriched.text ELSE Bare

\* As long as one stream shows the article, its poll knows what is on file, and a page
\* is not fetched for the archive.
OneFits ==
    /\ enriched # Unknown => sighted # "baseline"
    /\ \A s \in based :
         /\ poll[s] \in Looking =>
              poll[s].onFile = enriched /\ (poll[s].live => sighted # "baseline")
         /\ poll[s] \in Listing /\ (poll[s].pc = "page" \/ poll[s].page) =>
              sighted # "baseline"

\* If no capture was cut off either, the text of the article is the one on file, if that
\* is of its address, and what a poll has is not older.
AloneFits ==
    /\ latest # Unknown => latest.text = FileText(latest.version)
    /\ \A s \in based : poll[s] \in Listing =>
         /\ latest # Unknown =>
              latest.version <= poll[s].version /\ (poll[s].early => ~latest.shown)
         /\ ~poll[s].page => poll[s].text = FileText(poll[s].version)
         /\ poll[s].page /\ enriched # Unknown => enriched.text <= poll[s].text

TextInv ==
    /\ TextShape /\ KnownFits /\ \A s \in Feeds : PollFits(s)
    /\ OneShows => OneFits
    /\ Alone => AloneFits

-----------------------------------------------------------------------------
\* The bounds, and what is not known.
LEMMA TextBounds ==
    /\ MaxEdition \in Nat \ {0} /\ MaxCuts \in Nat /\ Bare \notin Nat
    /\ Unknown \notin Contents /\ Unknown \notin Pages /\ Unknown # "baseline" /\ Unknown # "new"
BY EnrichmentAssumption DEF EnrichmentAssumption

\* A poll's place is told by what it has.
LEMMA PollKinds ==
    ASSUME TextShape, NEW s \in Feeds
    PROVE  /\ PollAt(s, "idle") <=> poll[s] = NoPoll
           /\ PollAt(s, "feed") <=> poll[s] \in Looking
           /\ PollAt(s, "page") => poll[s] \in Listing
           /\ PollAt(s, "record") <=> poll[s] \in Empty \/ (poll[s] \in Listing /\ poll[s].pc = "record")
           /\ poll[s] \in Empty => poll[s] \notin Listing
           /\ poll[s] \in Looking => poll[s] \notin Listing
<1>1. poll[s] \in {NoPoll} \cup Looking \cup Empty \cup Listing
  BY DEF TextShape
<1>2. NoPoll.pc = "idle"
  BY DEF NoPoll
<1>3. poll[s] \in Looking => poll[s].pc = "feed"
  BY DEF Looking
<1>4. poll[s] \in Empty => poll[s].pc = "record" /\ ~poll[s].listed
  BY DEF Empty
<1>5. poll[s] \in Listing => poll[s].pc \in {"page", "record"} /\ poll[s].listed
  BY DEF Listing
<1> QED BY <1>1, <1>2, <1>3, <1>4, <1>5 DEF PollAt

LEMMA NoPollIsNone == NoPoll \notin Looking /\ NoPoll \notin Listing
BY DEF NoPoll, Looking, Listing

LEMMA TextBegins == TextInit => TextInv
<1> SUFFICES ASSUME TextInit PROVE TextInv
  OBVIOUS
<1> USE TextBounds DEF TextInit
<1>1. TextShape
  <2>1. poll \in [Feeds -> {NoPoll} \cup Looking \cup Empty \cup Listing]
    OBVIOUS
  <2>2. version \in 0..MaxEdition /\ cuts \in Nat /\ based \in SUBSET Feeds
    OBVIOUS
  <2>3. early \in BOOLEAN
    OBVIOUS
  <2> QED BY <2>1, <2>2, <2>3 DEF TextShape
<1>2. KnownFits /\ OneFits /\ AloneFits
  BY DEF KnownFits, OneFits, AloneFits
<1>3. \A s \in Feeds : PollFits(s)
  BY NoPollIsNone DEF PollFits
<1> QED BY <1>1, <1>2, <1>3 DEF TextInv

LEMMA TextRests == TextInv /\ UNCHANGED textVars => TextInv'
BY DEF TextInv, TextShape, KnownFits, PollFits, OneShows, FileText, Address, OneFits, AloneFits, Alone,
       textVars, article, mischances

\* The provider and the time of display.
LEMMA TextProvider == TextInv /\ (Updates \/ ClocksAgree) => TextInv'
<1> SUFFICES ASSUME TextInv, Updates \/ ClocksAgree PROVE TextInv'
  OBVIOUS
<1> USE TextBounds DEF TextInv
<1>1. /\ version' \in 0..MaxEdition /\ version' >= version /\ version \in Nat /\ version' \in Nat
      /\ early' \in BOOLEAN /\ (version > 0 /\ ~early => ~early')
      /\ edition' \in [1..MaxEdition -> {Unknown} \cup Editions]
      /\ \A v \in 1..version' : edition'[v] \in Editions
      /\ \A v \in 1..version : edition'[v] = edition[v]
      /\ UNCHANGED <<poll, based, latest, sighted, enriched, cuts>>
  <2>1. CASE Updates
    <3>1. /\ version < MaxEdition /\ version' = version + 1 /\ version \in 0..MaxEdition
          /\ early \in BOOLEAN /\ early' \in IF version = 0 THEN BOOLEAN ELSE {early}
          /\ UNCHANGED <<poll, based, latest, sighted, enriched, cuts>>
      BY <2>1 DEF Updates, TextShape, mischances
    <3>2. early' \in BOOLEAN /\ (version > 0 /\ ~early => ~early')
      BY <3>1
    <3>3. PICK new \in Editions : edition' = [edition EXCEPT ![version + 1] = new]
      BY <2>1 DEF Updates
    <3>4. /\ edition' \in [1..MaxEdition -> {Unknown} \cup Editions]
          /\ \A v \in 1..version + 1 : edition'[v] \in Editions
          /\ \A v \in 1..version : edition'[v] = edition[v]
      BY <3>1, <3>3 DEF TextShape
    <3> QED BY <3>1, <3>2, <3>4
  <2>2. CASE ClocksAgree
    <3>1. /\ version' = version /\ version \in 0..MaxEdition /\ edition' = edition
          /\ UNCHANGED <<poll, based, latest, sighted, enriched, cuts>>
      BY <2>2 DEF ClocksAgree, TextShape, mischances
    <3>2. early /\ early' \in BOOLEAN
      BY <2>2 DEF ClocksAgree
    <3> QED BY <3>1, <3>2 DEF TextShape
  <2> QED BY <2>1, <2>2
<1>2. TextShape'
  BY <1>1 DEF TextShape
<1>3. KnownFits'
  <2>1. latest # Unknown => version > 0 /\ latest.text \in {Bare} \cup 1..version'
    BY <1>1 DEF KnownFits, TextShape, Contents, Texts
  <2>2. enriched # Unknown => enriched.text \in Nat
    BY DEF TextShape, Pages
  <2> QED BY <1>1, <2>1, <2>2 DEF KnownFits, TextShape, Contents
<1>4. ASSUME NEW s \in Feeds PROVE PollFits(s)'
  <2>1. CASE poll[s] \in Looking
    <3>1. poll[s].onFile # Unknown => poll[s].onFile.text \in Nat
      BY <2>1 DEF Looking, Pages
    <3> QED BY <1>1, <2>1, <3>1, PollKinds DEF PollFits
  <2>2. CASE poll[s] \in Listing
    <3>1. poll[s].version \in 1..MaxEdition
      BY <2>2 DEF Listing
    <3>2. poll[s].version <= version /\ version > 0 /\ poll[s].text \in {Bare} \cup 1..version'
      BY <1>1, <2>2, <3>1 DEF PollFits
    <3> QED BY <1>1, <2>2, <3>1, <3>2, PollKinds DEF PollFits
  <2>3. CASE poll[s] \notin Looking /\ poll[s] \notin Listing
    BY <1>1, <2>3 DEF PollFits
  <2> QED BY <2>1, <2>2, <2>3
<1>5. (OneShows => OneFits)'
  BY <1>1 DEF OneShows, OneFits
<1>6. ASSUME Alone PROVE AloneFits'
  <2>1. \A v \in 1..version : FileText(v)' = FileText(v)
    <3>1. enriched # Unknown => enriched.version \in 1..version
      BY <1>1 DEF KnownFits, TextShape, Pages
    <3> QED BY <1>1, <3>1 DEF FileText, Address
  <2>2. latest # Unknown => latest.version \in 1..version
    BY <1>1 DEF KnownFits, TextShape, Contents
  <2>3. ASSUME NEW s \in based, poll[s] \in Listing PROVE poll[s].version \in 1..version
    <3>1. poll[s].version \in 1..MaxEdition
      BY <2>3 DEF Listing
    <3> QED BY <1>1, <2>3, <3>1 DEF PollFits, TextShape
  <2>4. AloneFits
    BY <1>6
  <2>5. latest # Unknown => latest.text = FileText(latest.version)'
    BY <1>1, <2>1, <2>2, <2>4 DEF AloneFits, FileText, Address
  <2>6. ASSUME NEW s \in based, poll[s] \in Listing, ~poll[s].page
        PROVE  poll[s].text = FileText(poll[s].version)'
    BY <1>1, <2>1, <2>3, <2>4, <2>6 DEF AloneFits, FileText, Address
  <2> QED BY <1>1, <2>4, <2>5, <2>6 DEF AloneFits
<1>7. Alone' = Alone
  BY <1>1 DEF Alone
<1> QED BY <1>2, <1>3, <1>4, <1>5, <1>6, <1>7

\* What a poll may have, given what is known.
NewFits(s, new) ==
    /\ new \in Looking =>
         /\ new.based <=> s \in based
         /\ new.onFile # Unknown => new.onFile.text <= version
    /\ new \in Listing =>
         /\ new.version <= version /\ new.text \in {Bare} \cup 1..version
         /\ ~new.early => ~early
         /\ new.page => new.pc = "record" /\ new.text # Bare /\ new.version <= new.text
         /\ s \notin based => new.pc = "record" /\ ~new.page /\ new.text = Bare
NewFitsOne(new) ==
    /\ new \in Looking => new.onFile = enriched /\ (new.live => sighted # "baseline")
    /\ new \in Listing /\ (new.pc = "page" \/ new.page) => sighted # "baseline"
NewFitsAlone(new) ==
    new \in Listing =>
        /\ latest # Unknown => latest.version <= new.version /\ (new.early => ~latest.shown)
        /\ ~new.page => new.text = FileText(new.version)
        /\ new.page /\ enriched # Unknown => enriched.text <= new.text

\* A step of one poll alone.
LEMMA PollMoves ==
    ASSUME TextInv, NEW s \in Feeds, NEW new \in Looking \cup Empty \cup Listing,
           poll' = [poll EXCEPT ![s] = new],
           UNCHANGED <<version, edition, early, based, latest, sighted, enriched, cuts>>,
           NewFits(s, new),
           OneShows /\ s \in based => NewFitsOne(new),
           Alone /\ s \in based => NewFitsAlone(new)
    PROVE  TextInv'
<1> USE DEF TextInv
<1>1. /\ poll'[s] = new /\ \A o \in Feeds \ {s} : poll'[o] = poll[o]
      /\ poll' \in [Feeds -> {NoPoll} \cup Looking \cup Empty \cup Listing]
  BY DEF TextShape
<1>2. TextShape'
  BY <1>1 DEF TextShape
<1>3. KnownFits'
  BY DEF KnownFits
<1>4. ASSUME NEW o \in Feeds PROVE PollFits(o)'
  <2>1. CASE o = s
    BY <1>1, <2>1 DEF PollFits, NewFits
  <2>2. CASE o # s
    BY <1>1, <2>2 DEF PollFits
  <2> QED BY <2>1, <2>2
<1>5. ASSUME OneShows' PROVE OneFits'
  <2>1. OneShows /\ OneFits
    BY <1>5 DEF OneShows
  <2>2. ASSUME NEW o \in based
        PROVE  /\ poll'[o] \in Looking =>
                    poll'[o].onFile = enriched /\ (poll'[o].live => sighted # "baseline")
               /\ poll'[o] \in Listing /\ (poll'[o].pc = "page" \/ poll'[o].page) =>
                    sighted # "baseline"
    <3>1. CASE o = s
      BY <1>1, <2>1, <2>2, <3>1 DEF NewFitsOne
    <3>2. CASE o # s
      <4>1. poll'[o] = poll[o]
        BY <1>1, <2>2, <3>2 DEF TextShape
      <4> QED BY <2>1, <2>2, <4>1 DEF OneFits
    <3> QED BY <3>1, <3>2
  <2> QED BY <2>1, <2>2 DEF OneFits
<1>6. ASSUME Alone' PROVE AloneFits'
  <2>1. Alone /\ AloneFits
    BY <1>6 DEF Alone
  <2>2. ASSUME NEW o \in based, poll'[o] \in Listing
        PROVE  /\ latest # Unknown =>
                    latest.version <= poll'[o].version /\ (poll'[o].early => ~latest.shown)
               /\ ~poll'[o].page => poll'[o].text = FileText(poll'[o].version)
               /\ poll'[o].page /\ enriched # Unknown => enriched.text <= poll'[o].text
    <3>1. CASE o = s
      BY <1>1, <2>1, <2>2, <3>1 DEF NewFitsAlone
    <3>2. CASE o # s
      <4>1. poll'[o] = poll[o]
        BY <1>1, <2>2, <3>2 DEF TextShape
      <4> QED BY <2>1, <2>2, <4>1 DEF AloneFits
    <3> QED BY <3>1, <3>2
  <2>3. \A v : FileText(v)' = FileText(v)
    BY DEF FileText, Address
  <2> QED BY <2>1, <2>2, <2>3 DEF AloneFits
<1> QED BY <1>2, <1>3, <1>4, <1>5, <1>6

LEMMA TextLooks == ASSUME TextInv, NEW s \in Feeds, Looks(s) PROVE TextInv'
<1> DEFINE new == [pc |-> "feed", based |-> s \in based, live |-> Arrival, onFile |-> OnFile]
<1> USE TextBounds DEF TextInv
<1>1. /\ poll' = [poll EXCEPT ![s] = new]
      /\ UNCHANGED <<version, edition, early, based, latest, sighted, enriched, cuts>>
  BY DEF Looks, mischances, article
<1>2. Arrival \in BOOLEAN /\ OnFile \in {Unknown} \cup Pages /\ OnFile = enriched
  BY DEF Arrival, OnFile, TextShape
<1>3. /\ new \in Looking /\ new.onFile = enriched
      /\ new.based <=> s \in based
      /\ new.live <=> Arrival
  <2>1. (s \in based) \in BOOLEAN
    OBVIOUS
  <2>2. new \in Looking
    BY <1>2, <2>1 DEF Looking
  <2>3. new.onFile = enriched
    BY <1>2
  <2> QED BY <2>2, <2>3
<1>4. new \notin Listing
  BY DEF Listing
<1> HIDE DEF new
<1>5. NewFits(s, new)
  BY <1>3, <1>4 DEF NewFits, KnownFits
<1>6. NewFitsOne(new)
  <2>1. Arrival => sighted # "baseline"
    BY DEF Arrival, KnownFits
  <2> QED BY <1>3, <1>4, <2>1 DEF NewFitsOne
<1>7. NewFitsAlone(new)
  BY <1>4 DEF NewFitsAlone
<1> QED BY <1>1, <1>3, <1>5, <1>6, <1>7, PollMoves

LEMMA TextFetchesFeed == ASSUME TextInv, NEW s \in Feeds, FetchesFeed(s) PROVE TextInv'
<1> USE TextBounds DEF TextInv
<1> DEFINE p == poll[s]
           none == [pc |-> "record", listed |-> FALSE]
           some == [pc |-> IF WantsPage(p) THEN "page" ELSE "record", listed |-> TRUE,
                    version |-> version, early |-> early, text |-> Text(p), page |-> FALSE]
           new == IF version = 0 THEN none ELSE some
<1>1. /\ PollAt(s, "feed") /\ poll' = [poll EXCEPT ![s] = new]
      /\ UNCHANGED <<version, edition, early, based, latest, sighted, enriched, cuts>>
  BY DEF FetchesFeed, mischances, article
<1>2. /\ p \in Looking /\ (p.based <=> s \in based) /\ p.onFile \in {Unknown} \cup Pages
      /\ p.onFile # Unknown => p.onFile.text \in 1..version
  <2>1. p \in Looking
    BY <1>1, PollKinds
  <2>2. p.onFile \in {Unknown} \cup Pages
    BY <2>1 DEF Looking
  <2>3. p.onFile # Unknown => p.onFile.text \in 1..MaxEdition
    BY <2>2 DEF Pages
  <2> QED BY <2>1, <2>2, <2>3 DEF PollFits, TextShape
<1>3. CASE version = 0
  <2>1. new = none /\ none \in Empty /\ none \notin Looking /\ none \notin Listing
    BY <1>3 DEF Empty, Looking, Listing
  <2> HIDE DEF none, new
  <2>2. NewFits(s, new) /\ NewFitsOne(new) /\ NewFitsAlone(new) /\ new \in Empty
    BY <2>1 DEF NewFits, NewFitsOne, NewFitsAlone
  <2> QED BY <1>1, <2>2, PollMoves
<1>4. CASE version # 0
  <2>1. version \in 1..MaxEdition /\ version \in Nat /\ early \in BOOLEAN
    BY <1>4 DEF TextShape
  <2>2. Text(p) = (IF p.based /\ p.onFile # Unknown /\ Address(p.onFile.version) = Address(version)
                   THEN p.onFile.text ELSE Bare)
        /\ Text(p) \in {Bare} \cup 1..version /\ Text(p) \in Texts
    BY <1>2, <2>1 DEF Text, HasMoved, Texts
  <2>3. /\ some.pc = IF WantsPage(p) THEN "page" ELSE "record"
        /\ some.version = version /\ some.early = early /\ some.text = Text(p) /\ some.page = FALSE
    OBVIOUS
  <2>4. some \in Listing /\ some \notin Looking /\ new = some
    <3>1. (IF WantsPage(p) THEN "page" ELSE "record") \in {"page", "record"}
      OBVIOUS
    <3>2. some \in Listing
      BY <2>1, <2>2, <3>1 DEF Listing
    <3>3. some.pc # "feed"
      BY <3>1
    <3> QED BY <1>4, <3>2, <3>3 DEF Looking
  <2> HIDE DEF some, new
  <2>5. NewFits(s, new)
    <3>1. s \notin based => some.pc = "record" /\ some.text = Bare
      BY <1>2, <2>2, <2>3 DEF WantsPage
    <3> QED BY <2>1, <2>2, <2>3, <2>4, <3>1 DEF NewFits
  <2>6. OneShows /\ s \in based => NewFitsOne(new)
    <3>1. OneShows /\ s \in based /\ WantsPage(p) => sighted # "baseline"
      BY <1>2 DEF WantsPage, OneFits
    <3> QED BY <2>3, <2>4, <3>1 DEF NewFitsOne
  <2>7. Alone /\ s \in based => NewFitsAlone(new)
    <3> SUFFICES ASSUME Alone, s \in based PROVE NewFitsAlone(new)
      OBVIOUS
    <3>1. p.onFile = enriched
      BY <1>2 DEF Alone, OneShows, OneFits
    <3>2. some.text = FileText(some.version)
      BY <1>2, <2>2, <2>3, <3>1 DEF FileText
    <3> QED BY <2>3, <2>4, <3>2 DEF NewFitsAlone, KnownFits
  <2> QED BY <1>1, <2>4, <2>5, <2>6, <2>7, PollMoves
<1> QED BY <1>3, <1>4

LEMMA TextFetchesPage ==
    ASSUME TextInv, NEW s \in Feeds, FetchesPage(s) \/ PageFails(s) PROVE TextInv'
<1> USE TextBounds DEF TextInv
<1> DEFINE p == poll[s]
<1>1. /\ PollAt(s, "page") /\ p.pc = "page"
      /\ UNCHANGED <<version, edition, early, based, latest, sighted, enriched, cuts>>
  BY DEF FetchesPage, PageFails, mischances, PollAt, article
<1>2. p \in Listing /\ ~p.page /\ s \in based
  BY <1>1, PollKinds DEF PollFits
<1>3. /\ p.version \in 1..MaxEdition /\ p.version <= version /\ version \in 1..MaxEdition /\ early \in BOOLEAN
      /\ p.early \in BOOLEAN /\ (~p.early => ~early) /\ p.text \in {Bare} \cup 1..version
  <2>1. p.version \in 1..MaxEdition /\ p.early \in BOOLEAN
    BY <1>2 DEF Listing
  <2> QED BY <1>2, <2>1 DEF PollFits, TextShape
<1>4. CASE FetchesPage(s)
  <2> DEFINE new == [p EXCEPT !.pc = "record", !.text = version, !.page = TRUE, !.early = early]
  <2>1. poll' = [poll EXCEPT ![s] = new]
    BY <1>4 DEF FetchesPage
  <2>2. new \in Listing
    BY <1>2, <1>3 DEF Listing, Texts
  <2>3. new.pc = "record" /\ new.text = version /\ new.page /\ new.early = early /\ new.version = p.version
    BY <1>2 DEF Listing
  <2>4. new \notin Looking
    BY <2>3 DEF Looking
  <2> HIDE DEF new, p
  <2>5. NewFits(s, new)
    BY <1>2, <1>3, <2>3, <2>4 DEF NewFits
  <2>6. OneShows => NewFitsOne(new)
    BY <1>1, <1>2, <2>3, <2>4 DEF NewFitsOne, OneFits, p
  <2>7. Alone => NewFitsAlone(new)
    <3>1. Alone /\ latest # Unknown => latest.version <= p.version
      BY <1>2 DEF AloneFits, p
    <3>2. latest # Unknown /\ latest.shown => ~early
      BY DEF KnownFits
    <3>3. enriched # Unknown => enriched.text <= version
      BY DEF KnownFits
    <3> QED BY <2>3, <3>1, <3>2, <3>3 DEF NewFitsAlone
  <2> QED BY <1>1, <2>1, <2>2, <2>5, <2>6, <2>7, PollMoves
<1>5. CASE PageFails(s)
  <2> DEFINE new == [p EXCEPT !.pc = "record"]
  <2>1. poll' = [poll EXCEPT ![s] = new]
    BY <1>5 DEF PageFails
  <2>2. new \in Listing
    BY <1>2 DEF Listing
  <2>3. /\ new.pc = "record" /\ new.text = p.text /\ new.page = p.page /\ new.early = p.early
        /\ new.version = p.version
    BY <1>2 DEF Listing
  <2>4. new \notin Looking
    BY <2>3 DEF Looking
  <2> HIDE DEF new, p
  <2>5. NewFits(s, new)
    BY <1>2, <1>3, <2>3, <2>4 DEF NewFits
  <2>6. OneShows => NewFitsOne(new)
    BY <1>2, <2>3, <2>4 DEF NewFitsOne
  <2>7. Alone => NewFitsAlone(new)
    BY <1>2, <2>3 DEF NewFitsAlone, AloneFits, p
  <2> QED BY <1>1, <2>1, <2>2, <2>5, <2>6, <2>7, PollMoves
<1> QED BY <1>4, <1>5

\* The first transaction, with the second or without, and what becomes of the polls.
LEMMA TextCaptured ==
    ASSUME TextInv, NEW s \in Feeds, Writes(s) \/ WritesHalf(s)
    PROVE  /\ PollAt(s, "record") /\ based' = based \cup {s} /\ UNCHANGED <<version, edition, early>>
           /\ cuts' \in Nat /\ (WritesHalf(s) => cuts' # 0) /\ (Writes(s) => cuts' = cuts)
           /\ poll' \in [Feeds -> {NoPoll} \cup Looking \cup Empty \cup Listing]
           /\ poll'[s] = NoPoll /\ \A o \in Feeds : poll'[o] = poll[o] \/ poll'[o] = NoPoll
           /\ poll[s] \notin Listing => UNCHANGED <<latest, sighted, enriched>>
           /\ poll[s] \in Listing =>
                /\ latest' = Content(poll[s]) /\ sighted' = SightedAs(s)
                /\ enriched' = enriched \/ (poll[s].page /\ enriched' = Kept(poll[s]))
                /\ Writes(s) => enriched' = IF poll[s].page THEN Kept(poll[s]) ELSE enriched
<1> USE TextBounds DEF TextInv
<1>1. /\ Captured(s) /\ UNCHANGED <<version, edition, early>>
      /\ enriched' = enriched \/ enriched' = IF poll[s].listed /\ poll[s].page THEN Kept(poll[s]) ELSE enriched
      /\ Writes(s) => enriched' = IF poll[s].listed /\ poll[s].page THEN Kept(poll[s]) ELSE enriched
  BY DEF Writes, WritesHalf, article
<1>2. cuts' \in Nat /\ (WritesHalf(s) => cuts' # 0) /\ (Writes(s) => cuts' = cuts)
  BY DEF Writes, WritesHalf, mischances, TextShape
<1>3. /\ poll' \in [Feeds -> {NoPoll} \cup Looking \cup Empty \cup Listing]
      /\ poll'[s] = NoPoll /\ \A o \in Feeds : poll'[o] = poll[o] \/ poll'[o] = NoPoll
  <2>1. CASE Writes(s)
    <3>1. poll' = [poll EXCEPT ![s] = NoPoll]
      BY <2>1 DEF Writes
    <3> QED BY <3>1 DEF TextShape
  <2>2. CASE WritesHalf(s)
    <3>1. poll' = [x \in Feeds |-> NoPoll]
      BY <2>2 DEF WritesHalf
    <3> QED BY <3>1
  <2> QED BY <2>1, <2>2
<1>4. PollAt(s, "record") /\ based' = based \cup {s}
  BY <1>1 DEF Captured
<1>5. CASE poll[s] \in Listing
  <2>1. poll[s].listed
    BY <1>5 DEF Listing
  <2>2. latest' = Content(poll[s]) /\ sighted' = SightedAs(s)
    BY <1>1, <2>1 DEF Captured
  <2> QED BY <1>1, <1>2, <1>3, <1>4, <1>5, <2>1, <2>2
<1>6. CASE poll[s] \notin Listing
  <2>1. ~poll[s].listed
    BY <1>4, <1>6, PollKinds DEF Empty
  <2>2. UNCHANGED <<latest, sighted>>
    BY <1>1, <2>1 DEF Captured
  <2> QED BY <1>1, <1>2, <1>3, <1>4, <1>6, <2>1, <2>2
<1> QED BY <1>5, <1>6

LEMMA TextWritten ==
    ASSUME TextInv, NEW s \in Feeds, Writes(s) \/ WritesHalf(s)
    PROVE  TextInv'
<1> DEFINE p == poll[s]
<1> USE TextBounds DEF TextInv
<1>1. /\ PollAt(s, "record") /\ based' = based \cup {s} /\ UNCHANGED <<version, edition, early>>
      /\ cuts' \in Nat /\ (WritesHalf(s) => cuts' # 0) /\ (Writes(s) => cuts' = cuts)
      /\ poll' \in [Feeds -> {NoPoll} \cup Looking \cup Empty \cup Listing]
      /\ poll'[s] = NoPoll /\ \A o \in Feeds : poll'[o] = poll[o] \/ poll'[o] = NoPoll
      /\ p \notin Listing => UNCHANGED <<latest, sighted, enriched>>
  BY TextCaptured
<1>2. p \in Listing =>
        /\ latest' = Content(p) /\ sighted' = SightedAs(s)
        /\ enriched' = enriched \/ (p.page /\ enriched' = Kept(p))
        /\ Writes(s) => enriched' = IF p.page THEN Kept(p) ELSE enriched
  BY TextCaptured
\* What is recorded, if something is.
<1>3. p \in Listing =>
        /\ latest' \in Contents /\ latest'.version = p.version /\ latest'.text = p.text
        /\ latest'.shown = ~p.early /\ p.early \in BOOLEAN
        /\ sighted' \in {"baseline", "new"} /\ (sighted # Unknown => sighted' = sighted)
        /\ s \in based => sighted' # "baseline" \/ sighted = "baseline"
        /\ p.version <= version /\ p.text \in {Bare} \cup 1..version /\ (~p.early => ~early)
  <2> SUFFICES ASSUME p \in Listing
               PROVE  /\ latest' \in Contents /\ latest'.version = p.version /\ latest'.text = p.text
                      /\ latest'.shown = ~p.early /\ p.early \in BOOLEAN
                      /\ sighted' \in {"baseline", "new"} /\ (sighted # Unknown => sighted' = sighted)
                      /\ s \in based => sighted' # "baseline" \/ sighted = "baseline"
                      /\ p.version <= version /\ p.text \in {Bare} \cup 1..version /\ (~p.early => ~early)
    OBVIOUS
  <2>1. p.version \in 1..MaxEdition /\ p.early \in BOOLEAN /\ p.text \in Texts
    BY DEF Listing
  <2>2. latest' = [version |-> p.version, shown |-> ~p.early, text |-> p.text]
    BY <1>2 DEF Content
  <2>3. latest' \in Contents /\ latest'.version = p.version /\ latest'.text = p.text /\ latest'.shown = ~p.early
    BY <2>1, <2>2 DEF Contents
  <2>4. /\ sighted' \in {"baseline", "new"} /\ (sighted # Unknown => sighted' = sighted)
        /\ s \in based => sighted' # "baseline" \/ sighted = "baseline"
    BY <1>2 DEF SightedAs, TextShape
  <2> QED BY <2>1, <2>3, <2>4 DEF PollFits
<1>4. p \in Listing /\ p.page => /\ s \in based /\ p.text \in 1..version /\ p.version <= p.text
                                 /\ Kept(p) \in Pages /\ Kept(p).version = p.version /\ Kept(p).text = p.text
  <2> SUFFICES ASSUME p \in Listing, p.page
               PROVE  /\ s \in based /\ p.text \in 1..version /\ p.version <= p.text
                      /\ Kept(p) \in Pages /\ Kept(p).version = p.version /\ Kept(p).text = p.text
    OBVIOUS
  <2>1. p.version \in 1..MaxEdition
    BY DEF Listing
  <2>2. s \in based /\ p.text \in 1..version /\ p.version <= p.text
    BY DEF PollFits
  <2>3. p.text \in 1..MaxEdition
    BY <2>2 DEF TextShape
  <2> QED BY <2>1, <2>2, <2>3 DEF Kept, Pages
<1> HIDE DEF p
<1>5. TextShape'
  <2>1. latest' \in {Unknown} \cup Contents /\ sighted' \in {Unknown, "baseline", "new"}
    BY <1>1, <1>3 DEF TextShape
  <2>2. enriched' \in {Unknown} \cup Pages
    BY <1>1, <1>2, <1>4 DEF TextShape
  <2> QED BY <1>1, <2>1, <2>2 DEF TextShape
<1>6. KnownFits'
  <2>1. CASE p \in Listing
    <3>1. latest' # Unknown /\ sighted' # Unknown
      BY <1>3, <2>1
    <3>2. /\ based' # {} /\ latest'.version <= version' /\ latest'.text \in {Bare} \cup 1..version'
          /\ latest'.shown => ~early'
      BY <1>1, <1>3, <2>1
    <3>3. enriched' # Unknown => enriched'.version <= enriched'.text /\ enriched'.text <= version'
      BY <1>1, <1>2, <1>4, <2>1 DEF KnownFits
    <3> QED BY <3>1, <3>2, <3>3 DEF KnownFits
  <2>2. CASE p \notin Listing
    BY <1>1, <2>2 DEF KnownFits
  <2> QED BY <2>1, <2>2
<1>7. ASSUME NEW o \in Feeds PROVE PollFits(o)'
  <2>1. CASE poll'[o] = NoPoll
    BY <2>1, NoPollIsNone DEF PollFits
  <2>2. CASE poll'[o] # NoPoll
    <3>1. poll'[o] = poll[o] /\ o # s
      BY <1>1, <2>2
    <3> QED BY <1>1, <3>1 DEF PollFits
  <2> QED BY <2>1, <2>2
\* If only this stream shows the article afterwards, no other did before.
<1>8. ASSUME OneShows'
      PROVE  OneShows /\ (based = {} \/ based = {s}) /\ \A o \in based' : o = s
  BY <1>1, <1>8 DEF OneShows
<1>9. ASSUME OneShows' PROVE OneFits'
  <2>1. \A o \in based' : poll'[o] \notin Looking /\ poll'[o] \notin Listing
    BY <1>1, <1>8, <1>9, NoPollIsNone
  <2>2. enriched' # Unknown => sighted' # "baseline"
    <3>1. OneFits
      BY <1>8, <1>9
    <3>2. CASE enriched' = enriched
      <4>1. enriched # Unknown => sighted # "baseline" /\ sighted # Unknown
        BY <3>1 DEF OneFits, KnownFits
      <4> QED BY <1>1, <1>3, <3>2, <4>1
    <3>3. CASE enriched' # enriched
      <4>1. p \in Listing /\ p.page
        BY <1>1, <1>2, <3>3
      <4>2. s \in based
        BY <1>4, <4>1
      <4>3. sighted # "baseline"
        BY <3>1, <4>1, <4>2 DEF OneFits, p
      <4> QED BY <1>3, <4>1, <4>2, <4>3
    <3> QED BY <3>2, <3>3
  <2> QED BY <2>1, <2>2 DEF OneFits
<1>10. ASSUME Alone' PROVE AloneFits'
  <2>1. OneShows' /\ cuts' = 0
    BY <1>10 DEF Alone, OneShows
  <2>2. Writes(s) /\ Alone /\ AloneFits
    BY <1>1, <1>8, <2>1 DEF Alone, OneShows
  <2>3. \A o \in based' : poll'[o] \notin Listing
    BY <1>1, <1>8, <2>1, NoPollIsNone
  <2>4. latest' # Unknown => latest'.text = FileText(latest.version)'
    <3>1. CASE p \notin Listing
      BY <1>1, <2>2, <3>1 DEF AloneFits, FileText, Address
    <3>2. CASE p \in Listing /\ p.page
      <4>1. enriched' = Kept(p) /\ enriched' # Unknown
        BY <1>2, <1>4, <2>2, <3>2
      <4> QED BY <1>3, <1>4, <3>2, <4>1 DEF FileText, Address
    <3>3. CASE p \in Listing /\ ~p.page /\ s \in based
      <4>1. enriched' = enriched /\ p.text = FileText(p.version)
        BY <1>2, <2>2, <3>3 DEF AloneFits, p
      <4> QED BY <1>1, <1>3, <3>3, <4>1 DEF FileText, Address
    <3>4. CASE p \in Listing /\ ~p.page /\ s \notin based
      <4>1. enriched' = enriched /\ p.text = Bare
        BY <1>2, <2>2, <3>4 DEF PollFits, p
      <4>2. enriched = Unknown
        BY <1>8, <2>1, <3>4 DEF KnownFits
      <4> QED BY <1>3, <3>4, <4>1, <4>2 DEF FileText
    <3> QED BY <3>1, <3>2, <3>3, <3>4
  <2> QED BY <2>3, <2>4 DEF AloneFits
<1> QED BY <1>5, <1>6, <1>7, <1>9, <1>10

LEMMA TextGoesOn == TextInv /\ [TextNext]_textVars => TextInv'
BY TextRests, TextProvider, TextLooks, TextFetchesFeed, TextFetchesPage, TextWritten DEF TextNext, Polls

\* What an article shows changes by a capture only; and if only one stream shows it
\* afterwards and nothing was cut off, from what was on file.
LEMMA TextChanges ==
    ASSUME TextInv, [TextNext]_textVars, Alone', latest' # latest, latest # Unknown
    PROVE  \E s \in based :
             /\ poll[s] \in Listing /\ latest' = Content(poll[s]) /\ Alone
<1> USE TextBounds DEF TextInv
<1>1. PICK s \in Feeds : Writes(s) \/ WritesHalf(s)
  BY DEF TextNext, Polls, Updates, ClocksAgree, Looks, FetchesFeed, FetchesPage, PageFails, textVars
<1>2. /\ based' = based \cup {s} /\ (WritesHalf(s) => cuts' # 0) /\ (Writes(s) => cuts' = cuts)
      /\ poll[s] \notin Listing => UNCHANGED <<latest, sighted, enriched>>
      /\ poll[s] \in Listing => latest' = Content(poll[s])
  BY <1>1, TextCaptured
<1>3. poll[s] \in Listing /\ latest' = Content(poll[s]) /\ Writes(s) /\ cuts = 0
  BY <1>1, <1>2 DEF Alone
<1>4. based # {}
  BY DEF KnownFits
<1>5. s \in based /\ Alone
  BY <1>2, <1>3, <1>4 DEF Alone
<1> QED BY <1>3, <1>5

\* A capture does not change what is at the provider.
LEMMA EditionsStay ==
    ASSUME [TextNext]_textVars, latest' # latest
    PROVE  edition' = edition
BY DEF TextNext, Polls, Updates, ClocksAgree, Looks, FetchesFeed, FetchesPage, PageFails, Writes, WritesHalf,
       textVars, article

\* The text of an article is kept, and replaced for a reason only (TextIsKept): as long
\* as one stream shows it and no capture was cut off, a page that fails does not cost
\* the text on file, unless the article has moved to another address, and no revision is made without something that is new.
THEOREM TextAlwaysKept == TextSpec => TextIsKept
<1>1. TextInv => EnrichmentTypeOK /\ ArchiveIsNotFetched
  <2> SUFFICES ASSUME TextInv PROVE EnrichmentTypeOK /\ ArchiveIsNotFetched
    OBVIOUS
  <2> USE TextBounds DEF TextInv
  <2>1. latest # Unknown => latest.version \in 1..version /\ latest.text \in {Bare} \cup 1..version
    BY DEF KnownFits, TextShape, Contents
  <2>2. enriched # Unknown => 1 <= enriched.version /\ enriched.version <= enriched.text
    BY DEF KnownFits, TextShape, Pages
  <2>3. EnrichmentTypeOK
    BY <2>1, <2>2 DEF EnrichmentTypeOK, TextShape, KnownFits
  <2>4. ArchiveIsNotFetched
    BY DEF ArchiveIsNotFetched, OneShows, OneFits
  <2> QED BY <2>3, <2>4
<1>2. TextInv /\ [TextNext]_textVars => [Alone' => KeepsFullText]_textVars /\ [Alone' => Genuine]_textVars
  <2> SUFFICES ASSUME TextInv, [TextNext]_textVars, Alone'
               PROVE  KeepsFullText /\ Genuine
    OBVIOUS
  <2> USE TextBounds DEF TextInv
  <2>1. CASE latest' = latest \/ latest = Unknown
    BY <2>1 DEF KeepsFullText, Genuine
  <2>2. CASE latest' # latest /\ latest # Unknown
    <3>1. PICK s \in based : poll[s] \in Listing /\ latest' = Content(poll[s]) /\ Alone
      BY <2>2, TextChanges
    <3> DEFINE p == poll[s]
    <3>2. /\ p.version \in Nat /\ p.early \in BOOLEAN /\ p.text \in {Bare} \cup Nat
          /\ p.page \in BOOLEAN /\ (p.page => p.text # Bare)
      <4>1. s \in Feeds
        BY <3>1 DEF TextShape
      <4>2. p.version \in 1..MaxEdition /\ p.early \in BOOLEAN /\ p.page \in BOOLEAN /\ p.text \in Texts
        BY <3>1 DEF Listing
      <4> QED BY <3>1, <4>1, <4>2 DEF PollFits, Texts
    <3>3. latest'.version = p.version /\ latest'.text = p.text /\ latest'.shown = ~p.early
      BY <3>1 DEF Content
    <3>4. /\ latest.text = FileText(latest.version) /\ latest.version <= p.version /\ (p.early => ~latest.shown)
          /\ ~p.page => p.text = FileText(p.version)
          /\ p.page /\ enriched # Unknown => enriched.text <= p.text
      BY <2>2, <3>1 DEF AloneFits
    <3>5. /\ latest \in Contents /\ latest.version \in Nat /\ latest.shown \in BOOLEAN
          /\ latest.text \in {Bare} \cup Nat
          /\ latest = [version |-> latest.version, shown |-> latest.shown, text |-> latest.text]
      BY <2>2 DEF TextShape, Contents, Texts
    <3>6. \A v : FileText(v) # Bare => enriched # Unknown /\ FileText(v) = enriched.text
      BY DEF FileText
    <3>7. KeepsFullText
      <4> SUFFICES ASSUME latest.text # Bare, Stays, ~p.page PROVE p.text # Bare
        BY <3>2, <3>3 DEF KeepsFullText
      <4>1. Address(p.version) = Address(latest.version)
        <5>1. edition' = edition /\ latest'.version = p.version
          BY <2>2, <3>3, EditionsStay
        <5>2. Address(latest.version)' = edition'[latest'.version].address
          BY DEF Address
        <5> QED BY <5>1, <5>2 DEF Address, Stays
      <4>2. FileText(p.version) = FileText(latest.version)
        BY <4>1 DEF FileText
      <4> QED BY <3>4, <4>2
    <3>8. latest' = [version |-> p.version, shown |-> ~p.early, text |-> p.text]
      BY <3>1 DEF Content
    <3> HIDE DEF p
    <3>9. CASE p.version > latest.version
      BY <3>3, <3>7, <3>9 DEF Genuine
    <3>10. CASE p.version = latest.version /\ p.text = latest.text
      <4>1. (~p.early) # latest.shown
        BY <2>2, <3>5, <3>8, <3>10
      <4> QED BY <3>2, <3>3, <3>4, <3>5, <3>7, <4>1 DEF Genuine
    <3>11. CASE p.version = latest.version /\ p.text # latest.text
      <4>1. p.page /\ p.text # Bare /\ (latest.text = Bare \/ p.text > latest.text)
        BY <3>2, <3>4, <3>5, <3>6, <3>11
      <4> QED BY <3>3, <3>7, <4>1 DEF Genuine
    <3> QED BY <3>2, <3>4, <3>5, <3>7, <3>9, <3>10, <3>11
  <2> QED BY <2>1, <2>2
<1> QED BY <1>1, <1>2, TextBegins, TextGoesOn, PTL
        DEF TextSpec, TextIsKept, NeverRegresses, RevisionsAreGenuine
-----------------------------------------------------------------------------
(***************************************************************************)
(* The gate of a source's health                                           *)
(***************************************************************************)
Outs == {"ok"} \cup Bad
Polling == [pc : {"fetch", "failed"}, stream : Polled, day : 1..MaxDay,
            missed : BOOLEAN, late : BOOLEAN]
Answering == [pc : {"answered"}, stream : Polled, day : 1..MaxDay,
              missed : BOOLEAN, late : BOOLEAN, out : Outs]
Busy(t) == ~TaskAt(t, "idle")
Ended(t) == TaskAt(t, "answered") \/ TaskAt(t, "failed")

HealthShape ==
    /\ day \in 1..MaxDay
    /\ task \in [Tasks -> {NoTask} \cup Polling \cup Answering]
    /\ answered \in Seq(Tasks)
    /\ last \in [PollNames -> {"none"} \cup Outs]
    /\ failing \in SUBSET PollNames
    /\ newest \in [Polled -> {"none", "failed"} \cup Outs]

\* The answers wait in their order, each once.  What was overtaken, with everything
\* of its stream before it, is late.
AnswersWait ==
    /\ \A t \in Tasks : (\E k \in DOMAIN answered : answered[k] = t) <=> Ended(t)
    /\ \A i, j \in DOMAIN answered : answered[i] = answered[j] => i = j
    /\ \A t \in Tasks : TaskAt(t, "fetch") => ~task[t].late /\ ~task[t].missed
    /\ \A i, j \in DOMAIN answered :
         /\ i < j /\ task[answered[j]].late
         /\ task[answered[i]].stream = task[answered[j]].stream
         => task[answered[i]].late

\* Where polls do not overlap, none is overtaken.
OneAtATime ==
    \A t \in Tasks : Busy(t) /\ task[t].stream \in Deduplicated =>
        /\ ~task[t].late /\ ~task[t].missed
        /\ \A u \in Tasks \ {t} : Busy(u) => task[u].stream # task[t].stream

\* A failure stays on record until a poll that came after it, since the polls that
\* came before it have missed it.
FailureStays ==
    \A s \in Polled : newest[s] = "failed" =>
        /\ <<s, 0>> \in failing
        /\ \A u \in Tasks :
             TaskAt(u, "answered") /\ task[u].late /\ PollName(u) = <<s, 0>> => task[u].missed

BadStays ==
    \A s \in Deduplicated : newest[s] \in Bad =>
        \E d \in 0..MaxDay : last[<<s, d>>] = newest[s]

GoodClears ==
    \A s \in Deduplicated \ Dated :
        /\ \A d \in 1..MaxDay : last[<<s, d>>] = "none" /\ <<s, d>> \notin failing
        /\ newest[s] = "ok" => last[<<s, 0>>] = "ok" /\ <<s, 0>> \notin failing

HealthInv ==
    HealthShape /\ AnswersWait /\ OneAtATime /\ FailureStays /\ BadStays /\ GoodClears

-----------------------------------------------------------------------------
\* The bounds and what is under way, as sets.
LEMMA HealthBounds ==
    /\ MaxDay \in Nat \ {0} /\ Dated \subseteq Polled /\ Deduplicated \subseteq Polled
    /\ 1 \in 1..MaxDay
    /\ \A s \in Polled, d \in 0..MaxDay : <<s, d>> \in PollNames
BY SourceHealthAssumption DEF SourceHealthAssumption, PollNames

\* Without one of its elements a sequence keeps its order.
LEMMA OneRemoved ==
    ASSUME NEW S, NEW s \in Seq(S), NEW p \in DOMAIN s
    PROVE  /\ RemoveAt(s, p) \in Seq(S) /\ Len(RemoveAt(s, p)) = Len(s) - 1
           /\ \A k \in 1..(Len(s) - 1) :
                RemoveAt(s, p)[k] = IF k < p THEN s[k] ELSE s[k + 1]
<1>1. /\ p \in Nat /\ 1 <= p /\ p <= Len(s) /\ Len(s) \in Nat
  OBVIOUS
<1> DEFINE before == SubSeq(s, 1, p - 1)
           after == SubSeq(s, p + 1, Len(s))
<1>2. /\ before \in Seq(S) /\ Len(before) = p - 1
      /\ \A k \in 1..(p - 1) : before[k] = s[k]
  BY <1>1
<1>3. /\ after \in Seq(S) /\ Len(after) = Len(s) - p
      /\ \A k \in 1..(Len(s) - p) : after[k] = s[p + k]
  BY <1>1
<1> HIDE DEF before, after
<1>4. /\ before \o after \in Seq(S) /\ Len(before \o after) = Len(s) - 1
      /\ \A k \in 1..(Len(s) - 1) :
           (before \o after)[k] = IF k < p THEN before[k] ELSE after[k - (p - 1)]
  BY <1>1, <1>2, <1>3, SMTT(25)
<1>5. ASSUME NEW k \in 1..(Len(s) - 1)
      PROVE  (before \o after)[k] = IF k < p THEN s[k] ELSE s[k + 1]
  <2>1. CASE k < p
    BY <1>1, <1>2, <1>4, <2>1
  <2>2. CASE ~(k < p)
    <3>1. k - (p - 1) \in 1..(Len(s) - p) /\ p + (k - (p - 1)) = k + 1
      BY <1>1, <2>2
    <3> QED BY <1>3, <1>4, <2>2, <3>1
  <2> QED BY <2>1, <2>2
<1>6. RemoveAt(s, p) = before \o after
  BY DEF RemoveAt, before, after
<1> QED BY <1>4, <1>5, <1>6

LEMMA HealthBegins == HealthInit => HealthInv
<1> SUFFICES ASSUME HealthInit PROVE HealthInv
  OBVIOUS
<1> USE HealthBounds DEF HealthInit
<1>1. HealthShape
  BY DEF HealthShape, NoTask, Outs
<1>2. \A t \in Tasks : ~Busy(t) /\ ~Ended(t) /\ ~TaskAt(t, "fetch") /\ ~TaskAt(t, "answered")
  BY DEF Busy, Ended, TaskAt, NoTask
<1>3. DOMAIN answered = {}
  OBVIOUS
<1> QED BY <1>1, <1>2, <1>3 DEF HealthInv, AnswersWait, OneAtATime, FailureStays, BadStays, GoodClears, Bad

\* A task at rest, under way, and with an answer.
LEMMA TaskKinds ==
    ASSUME HealthShape, NEW t \in Tasks
    PROVE  /\ TaskAt(t, "idle") <=> task[t] = NoTask
           /\ TaskAt(t, "fetch") \/ TaskAt(t, "failed") <=> task[t] \in Polling
           /\ TaskAt(t, "answered") <=> task[t] \in Answering
           /\ Busy(t) <=> TaskAt(t, "fetch") \/ Ended(t)
           /\ TaskAt(t, "idle") \/ TaskAt(t, "fetch") \/ TaskAt(t, "failed") \/ TaskAt(t, "answered")
BY DEF HealthShape, TaskAt, NoTask, Polling, Answering, Busy, Ended

LEMMA HealthRests == HealthInv /\ UNCHANGED healthVars => HealthInv'
BY DEF HealthInv, HealthShape, AnswersWait, OneAtATime, FailureStays, BadStays, GoodClears, healthVars,
       mishaps, Busy, Ended, TaskAt, PollName, NoTask

LEMMA HealthBeginsTask ==
    ASSUME HealthInv, NEW t \in Tasks, NEW s \in Polled, Begins(t, s)
    PROVE  HealthInv'
<1> DEFINE new == [pc |-> "fetch", stream |-> s, day |-> day, missed |-> FALSE, late |-> FALSE]
<1> USE HealthBounds DEF HealthInv
<1>1. /\ TaskAt(t, "idle") /\ MayBegin(s) /\ task' = [task EXCEPT ![t] = new]
      /\ UNCHANGED <<day, answered, last, failing, newest>>
  BY DEF Begins
<1>2. new \in Polling /\ new.pc = "fetch" /\ new.stream = s /\ ~new.late /\ ~new.missed
  BY DEF Polling, HealthShape
<1> HIDE DEF new
<1>3. /\ task'[t] = new /\ \A u \in Tasks \ {t} : task'[u] = task[u]
      /\ task' \in [Tasks -> {NoTask} \cup Polling \cup Answering]
  BY <1>1, <1>2 DEF HealthShape
<1>4. HealthShape'
  BY <1>1, <1>3 DEF HealthShape, PollNames
<1>5. ~Ended(t) /\ ~Busy(t) /\ TaskAt(t, "fetch")' /\ ~Ended(t)' /\ ~TaskAt(t, "answered")'
  BY <1>1, <1>2, <1>3 DEF TaskAt, Ended, Busy
<1>6. \A u \in Tasks \ {t} : /\ \A pc \in {"idle", "fetch", "answered", "failed"} : TaskAt(u, pc)' <=> TaskAt(u, pc)
                             /\ Ended(u)' <=> Ended(u)
                             /\ Busy(u)' <=> Busy(u)
                             /\ PollName(u)' = PollName(u)
  BY <1>3 DEF TaskAt, Ended, Busy, PollName
<1>7. AnswersWait'
  <2>1. \A i \in DOMAIN answered : answered[i] \in Tasks \ {t}
    BY <1>5 DEF HealthShape, AnswersWait
  <2> QED BY <1>1, <1>2, <1>3, <1>5, <1>6, <2>1 DEF AnswersWait
<1>8. OneAtATime'
  <2>1. s \in Deduplicated => \A u \in Tasks : Busy(u) => task[u].stream # s
    BY <1>1 DEF MayBegin, InFlight, Busy
  <2> QED BY <1>2, <1>3, <1>5, <1>6, <2>1 DEF OneAtATime
<1>9. FailureStays'
  BY <1>1, <1>3, <1>5, <1>6 DEF FailureStays
<1>10. BadStays' /\ GoodClears'
  BY <1>1 DEF BadStays, GoodClears, Bad
<1> QED BY <1>4, <1>7, <1>8, <1>9, <1>10

\* An answer, or a failure, that is appended.
LEMMA HealthAnswers ==
    ASSUME HealthInv, NEW t \in Tasks, TaskAt(t, "fetch"), NEW new \in Polling \cup Answering,
           new.pc # "fetch", new.stream = task[t].stream, ~new.late, ~new.missed,
           task' = [task EXCEPT ![t] = new], answered' = Append(answered, t),
           UNCHANGED <<day, last, failing, newest>>
    PROVE  HealthInv'
<1> USE HealthBounds DEF HealthInv
<1>1. /\ task'[t] = new /\ \A u \in Tasks \ {t} : task'[u] = task[u]
      /\ task' \in [Tasks -> {NoTask} \cup Polling \cup Answering]
  BY DEF HealthShape
<1>2. /\ answered' \in Seq(Tasks) /\ Len(answered') = Len(answered) + 1 /\ Len(answered) \in Nat
      /\ answered'[Len(answered) + 1] = t /\ \A k \in 1..Len(answered) : answered'[k] = answered[k]
  BY DEF HealthShape
<1>3. HealthShape'
  BY <1>1, <1>2 DEF HealthShape, PollNames
<1>4. ~Ended(t) /\ Busy(t) /\ ~TaskAt(t, "fetch")' /\ Ended(t)' /\ Busy(t)'
  BY <1>1 DEF TaskAt, Ended, Busy, Polling, Answering
<1>5. \A u \in Tasks \ {t} : /\ \A pc \in {"idle", "fetch", "answered", "failed"} : TaskAt(u, pc)' <=> TaskAt(u, pc)
                             /\ Ended(u)' <=> Ended(u)
                             /\ Busy(u)' <=> Busy(u)
                             /\ PollName(u)' = PollName(u)
  BY <1>1 DEF TaskAt, Ended, Busy, PollName
<1>6. AnswersWait'
  <2>1. \A i \in 1..Len(answered) : answered[i] \in Tasks \ {t}
    BY <1>4 DEF HealthShape, AnswersWait
  <2>2. \A u \in Tasks : (\E k \in DOMAIN answered' : answered'[k] = u) <=> Ended(u)'
    <3>1. TAKE u \in Tasks
    <3>2. CASE u = t
      BY <1>2, <1>4, <3>2
    <3>3. CASE u # t
      <4>1. (\E k \in DOMAIN answered : answered[k] = u) <=> Ended(u)
        BY DEF AnswersWait
      <4>2. (\E k \in DOMAIN answered' : answered'[k] = u) <=> (\E k \in 1..Len(answered) : answered[k] = u)
        BY <1>2, <3>3
      <4> QED BY <1>2, <1>5, <3>3, <4>1, <4>2 DEF HealthShape
    <3> QED BY <3>2, <3>3
  <2>3. \A i, j \in DOMAIN answered' : answered'[i] = answered'[j] => i = j
    BY <1>2, <2>1 DEF AnswersWait, HealthShape
  <2>4. \A u \in Tasks : TaskAt(u, "fetch")' => ~task'[u].late /\ ~task'[u].missed
    BY <1>1, <1>4, <1>5 DEF AnswersWait
  <2>5. ASSUME NEW i \in DOMAIN answered', NEW j \in DOMAIN answered', i < j, task'[answered'[j]].late,
               task'[answered'[i]].stream = task'[answered'[j]].stream
        PROVE  task'[answered'[i]].late
    <3>1. i \in 1..Len(answered) + 1 /\ j \in 1..Len(answered) + 1
      BY <1>2
    <3>2. j # Len(answered) + 1
      BY <1>1, <1>2, <2>5
    <3>3. i \in DOMAIN answered /\ j \in DOMAIN answered
      BY <1>2, <2>5, <3>1, <3>2 DEF HealthShape
    <3>4. /\ answered'[i] = answered[i] /\ answered'[j] = answered[j]
          /\ task'[answered[i]] = task[answered[i]] /\ task'[answered[j]] = task[answered[j]]
      BY <1>1, <1>2, <2>1, <3>1, <3>2, <3>3 DEF HealthShape
    <3> QED BY <2>5, <3>3, <3>4 DEF AnswersWait
  <2> QED BY <2>2, <2>3, <2>4, <2>5 DEF AnswersWait
<1>7. OneAtATime'
  BY <1>1, <1>4, <1>5 DEF OneAtATime
<1>8. FailureStays'
  BY <1>1, <1>4, <1>5 DEF FailureStays
<1>9. BadStays' /\ GoodClears'
  BY DEF BadStays, GoodClears, Bad
<1> QED BY <1>3, <1>6, <1>7, <1>8, <1>9

\* What the tasks are after one of them was recorded.
LEMMA TasksRecorded ==
    ASSUME HealthInv, NEW t \in Tasks, Ended(t), NEW out, Recorded(t, out)
    PROVE  /\ Place(t) \in DOMAIN answered /\ answered[Place(t)] = t
           /\ task' \in [Tasks -> {NoTask} \cup Polling \cup Answering] /\ task'[t] = NoTask
           /\ \A u \in Tasks \ {t} :
                /\ ~Busy(u) => task'[u] = task[u]
                /\ Busy(u) =>
                     /\ task'[u].pc = task[u].pc /\ task'[u].stream = task[u].stream
                     /\ task'[u].day = task[u].day
                     /\ task'[u].late <=> task[u].late \/ (u \in Beside(t) /\ u \in Before(t))
                     /\ task'[u].missed <=>
                          \/ task[u].missed
                          \/ /\ u \in Beside(t) /\ out = "failed" /\ TaskAt(u, "answered")
                             /\ PollName(u) = FailName(t)
<1> USE HealthBounds DEF HealthInv
<1>1. \E k \in DOMAIN answered : answered[k] = t
  BY DEF AnswersWait
<1>2. Place(t) \in DOMAIN answered /\ answered[Place(t)] = t
  BY <1>1 DEF Place
<1> DEFINE left(u) ==
           CASE u = t -> NoTask
             [] u \in Beside(t) ->
                  [task[u] EXCEPT
                      !.late = @ \/ u \in Before(t),
                      !.missed = @ \/ (out = "failed" /\ TaskAt(u, "answered") /\ PollName(u) = FailName(t))]
             [] OTHER -> task[u]
<1>3. /\ task' = [u \in Tasks |-> left(u)]
      /\ left(t) = NoTask
  <2>1. task' = [u \in Tasks |-> left(u)]
    BY DEF Recorded
  <2>2. left(t) = NoTask
    BY DEF Beside
  <2> QED BY <2>1, <2>2
<1>4. task'[t] = NoTask
  <2> HIDE DEF left
  <2> QED BY <1>3
<1>5. \A u \in Beside(t) : u \in Tasks \ {t} /\ Busy(u)
  BY DEF Beside, Busy
<1>6. ASSUME NEW u \in Tasks \ {t}, u \notin Beside(t)
      PROVE  task'[u] = task[u]
  <2>1. left(u) = task[u]
    BY <1>6
  <2> HIDE DEF left
  <2> QED BY <1>3, <2>1
<1>7. ASSUME NEW u \in Beside(t)
      PROVE  task'[u] = [task[u] EXCEPT
                      !.late = @ \/ u \in Before(t),
                      !.missed = @ \/ (out = "failed" /\ TaskAt(u, "answered") /\ PollName(u) = FailName(t))]
  <2>1. left(u) = [task[u] EXCEPT
            !.late = @ \/ u \in Before(t),
            !.missed = @ \/ (out = "failed" /\ TaskAt(u, "answered") /\ PollName(u) = FailName(t))]
    BY <1>5
  <2>2. task'[u] = left(u)
    <3> HIDE DEF left
    <3> QED BY <1>3, <1>5
  <2> HIDE DEF left
  <2> QED BY <2>1, <2>2
<1> DEFINE late(u) == task[u].late \/ u \in Before(t)
           missed(u) == \/ task[u].missed
                        \/ out = "failed" /\ TaskAt(u, "answered") /\ PollName(u) = FailName(t)
<1>8. ASSUME NEW u \in Beside(t)
      PROVE  /\ task'[u] = [task[u] EXCEPT !.late = late(u), !.missed = missed(u)]
             /\ late(u) \in BOOLEAN /\ missed(u) \in BOOLEAN
             /\ task[u] \in Polling \cup Answering
  <2>1. task[u] \in Polling \cup Answering
    BY <1>5, TaskKinds DEF HealthShape, Busy
  <2>2. task[u].late \in BOOLEAN /\ task[u].missed \in BOOLEAN
    BY <2>1 DEF Polling, Answering
  <2> QED BY <1>7, <2>1, <2>2
<1> HIDE DEF late, missed, left
<1>9. ASSUME NEW u \in Beside(t)
      PROVE  /\ task'[u] \in Polling \cup Answering
             /\ task'[u].pc = task[u].pc /\ task'[u].stream = task[u].stream
             /\ task'[u].day = task[u].day
             /\ task'[u].late = late(u) /\ task'[u].missed = missed(u)
  <2>1. CASE task[u] \in Polling
    BY <1>8, <2>1, ZenonT(40) DEF Polling
  <2>2. CASE task[u] \in Answering
    <3>1. task'[u] \in Answering
      BY <1>8, <2>2, ZenonT(40) DEF Answering
    <3>2. /\ task'[u].pc = task[u].pc /\ task'[u].stream = task[u].stream /\ task'[u].day = task[u].day
      BY <1>8, <2>2 DEF Answering
    <3>3. task'[u].late = late(u) /\ task'[u].missed = missed(u)
      BY <1>8, <2>2 DEF Answering
    <3> QED BY <3>1, <3>2, <3>3
  <2> QED BY <1>8, <2>1, <2>2
<1>10. task' \in [Tasks -> {NoTask} \cup Polling \cup Answering]
  <2>1. \A u \in Tasks : task'[u] \in {NoTask} \cup Polling \cup Answering
    BY <1>4, <1>6, <1>9 DEF HealthShape
  <2> QED BY <1>3, <2>1
<1>11. ASSUME NEW u \in Tasks \ {t}, Busy(u)
       PROVE  /\ task'[u].pc = task[u].pc /\ task'[u].stream = task[u].stream
              /\ task'[u].day = task[u].day
              /\ task'[u].late <=> task[u].late \/ (u \in Beside(t) /\ u \in Before(t))
              /\ task'[u].missed <=>
                   \/ task[u].missed
                   \/ /\ u \in Beside(t) /\ out = "failed" /\ TaskAt(u, "answered")
                      /\ PollName(u) = FailName(t)
  <2>1. CASE u \in Beside(t)
    BY <1>9, <2>1 DEF late, missed
  <2>2. CASE u \notin Beside(t)
    BY <1>6, <2>2
  <2> QED BY <2>1, <2>2
<1>12. \A u \in Tasks \ {t} : ~Busy(u) => task'[u] = task[u]
  BY <1>5, <1>6
<1> QED BY <1>2, <1>4, <1>10, <1>11, <1>12

\* The rest of them waits as before, and none that was not overtaken becomes late
\* when a late one is recorded.
LEMMA AnswersRecorded ==
    ASSUME HealthInv, NEW t \in Tasks, Ended(t), NEW out, Recorded(t, out)
    PROVE  /\ answered' \in Seq(Tasks) /\ AnswersWait' /\ OneAtATime'
           /\ task[t].late =>
                \A u \in Beside(t) : Busy(u)' => (task'[u].late => task[u].late)
<1> USE HealthBounds DEF HealthInv
<1> DEFINE p == Place(t)
           n == Len(answered)
<1>1. p \in DOMAIN answered /\ answered[p] = t /\ n \in Nat /\ p \in 1..n
  BY TasksRecorded DEF HealthShape
<1>2. /\ answered' \in Seq(Tasks) /\ Len(answered') = n - 1 /\ DOMAIN answered' = 1..(n - 1)
      /\ \A k \in 1..(n - 1) : answered'[k] = IF k < p THEN answered[k] ELSE answered[k + 1]
  <2>1. answered' = RemoveAt(answered, p) /\ answered \in Seq(Tasks)
    BY DEF Recorded, HealthShape
  <2>2. /\ RemoveAt(answered, p) \in Seq(Tasks) /\ Len(RemoveAt(answered, p)) = n - 1
        /\ \A k \in 1..(n - 1) :
             RemoveAt(answered, p)[k] = IF k < p THEN answered[k] ELSE answered[k + 1]
    BY <1>1, <2>1, OneRemoved
  <2> QED BY <2>1, <2>2
<1> DEFINE old(k) == IF k < p THEN k ELSE k + 1
<1>3. ASSUME NEW k \in DOMAIN answered'
      PROVE  /\ old(k) \in DOMAIN answered /\ answered'[k] = answered[old(k)] /\ old(k) # p
             /\ answered'[k] \in Tasks \ {t}
  <2>1. k \in 1..(n - 1)
    BY <1>2
  <2>2. old(k) \in 1..n /\ old(k) # p /\ answered'[k] = answered[old(k)]
    BY <1>1, <1>2, <2>1
  <2>3. old(k) \in DOMAIN answered
    BY <2>2 DEF HealthShape
  <2>4. answered[old(k)] # t
    BY <1>1, <2>2, <2>3 DEF AnswersWait
  <2>5. answered[old(k)] \in Tasks
    BY <2>3 DEF HealthShape
  <2> QED BY <2>2, <2>3, <2>4, <2>5
<1>4. \A i, j \in DOMAIN answered' : (i < j <=> old(i) < old(j)) /\ (old(i) = old(j) => i = j)
  BY <1>1, <1>2
<1>5. Before(t) = {answered[k] : k \in 1..(p - 1)}
  BY DEF Before
<1>6. ~TaskAt(t, "fetch")' /\ ~Ended(t)' /\ ~Busy(t)'
  BY TasksRecorded DEF TaskAt, Ended, Busy, NoTask
<1>7. \A u \in Tasks \ {t} : /\ \A pc \in {"idle", "fetch", "answered", "failed"} : TaskAt(u, pc)' <=> TaskAt(u, pc)
                             /\ Ended(u)' <=> Ended(u)
                             /\ Busy(u)' <=> Busy(u)
  BY TasksRecorded DEF TaskAt, Ended, Busy
<1>8. \A k \in DOMAIN answered : Ended(answered[k]) /\ Busy(answered[k])
  BY TaskKinds DEF AnswersWait, HealthShape
<1>9. ASSUME NEW u \in Tasks
      PROVE  (\E k \in DOMAIN answered' : answered'[k] = u) <=> Ended(u)'
  <2>1. CASE u = t
    BY <1>3, <1>6, <2>1
  <2>2. CASE u # t
    <3>1. Ended(u)' <=> \E k \in DOMAIN answered : answered[k] = u
      BY <1>7, <2>2 DEF AnswersWait
    <3>2. ASSUME NEW k \in DOMAIN answered, answered[k] = u
          PROVE  \E m \in DOMAIN answered' : answered'[m] = u
      <4>1. k \in 1..n /\ k # p
        BY <1>1, <2>2, <3>2 DEF HealthShape
      <4>2. CASE k < p
        BY <1>1, <1>2, <3>2, <4>1, <4>2
      <4>3. CASE k > p
        <5>1. k - 1 \in 1..(n - 1) /\ ~(k - 1 < p) /\ (k - 1) + 1 = k
          BY <1>1, <4>1, <4>3
        <5> QED BY <1>2, <3>2, <5>1
      <4> QED BY <1>1, <4>1, <4>2, <4>3
    <3> QED BY <1>3, <3>1, <3>2
  <2> QED BY <2>1, <2>2
<1>10. ASSUME NEW i \in DOMAIN answered, NEW j \in DOMAIN answered, i < j, i # p, j # p,
              task'[answered[j]].late, task'[answered[i]].stream = task'[answered[j]].stream
       PROVE  task'[answered[i]].late
  <2> DEFINE u == answered[i]
             v == answered[j]
  <2>1. u \in Tasks \ {t} /\ v \in Tasks \ {t} /\ Busy(u) /\ Busy(v)
    BY <1>1, <1>8, <1>10 DEF AnswersWait, HealthShape
  <2>2. /\ task'[u].stream = task[u].stream /\ task'[v].stream = task[v].stream
        /\ task'[u].late <=> task[u].late \/ (u \in Beside(t) /\ u \in Before(t))
        /\ task'[v].late <=> task[v].late \/ (v \in Beside(t) /\ v \in Before(t))
    BY <2>1, TasksRecorded
  <2>3. CASE task[v].late
    BY <1>10, <2>2, <2>3 DEF AnswersWait
  <2>4. CASE v \in Beside(t) /\ v \in Before(t)
    <3>1. PICK k \in 1..(p - 1) : answered[k] = v
      BY <1>5, <2>4
    <3>2. k \in DOMAIN answered
      BY <1>1, <3>1 DEF HealthShape
    <3>3. k = j
      BY <3>1, <3>2 DEF AnswersWait
    <3>4. i \in 1..(p - 1)
      BY <1>1, <1>10, <3>1, <3>3 DEF HealthShape
    <3>5. u \in Before(t)
      BY <1>5, <3>4
    <3>6. u \in Beside(t)
      BY <1>10, <2>1, <2>2, <2>4 DEF Beside, Busy
    <3> QED BY <2>2, <3>5, <3>6
  <2> QED BY <1>10, <2>2, <2>3, <2>4
<1>11. AnswersWait'
  <2>1. \A i, j \in DOMAIN answered' : answered'[i] = answered'[j] => i = j
    BY <1>3, <1>4 DEF AnswersWait
  <2>2. \A u \in Tasks : TaskAt(u, "fetch")' => ~task'[u].late /\ ~task'[u].missed
    <3>1. TAKE u \in Tasks
    <3>2. HAVE TaskAt(u, "fetch")'
    <3>3. u # t /\ TaskAt(u, "fetch") /\ Busy(u)
      BY <1>6, <1>7, <3>2, TaskKinds
    <3>4. u \notin Before(t)
      <4>1. ~Ended(u)
        BY <3>3 DEF TaskAt, Ended
      <4> QED BY <1>1, <1>5, <1>8, <4>1 DEF HealthShape
    <3>5. ~TaskAt(u, "answered")
      BY <3>3 DEF TaskAt
    <3> QED BY <3>3, <3>4, <3>5, TasksRecorded DEF AnswersWait
  <2>3. \A i, j \in DOMAIN answered' :
          /\ i < j /\ task'[answered'[j]].late
          /\ task'[answered'[i]].stream = task'[answered'[j]].stream
          => task'[answered'[i]].late
    <3>1. TAKE i, j \in DOMAIN answered'
    <3>2. /\ old(i) \in DOMAIN answered /\ old(j) \in DOMAIN answered /\ old(i) # p /\ old(j) # p
          /\ answered'[i] = answered[old(i)] /\ answered'[j] = answered[old(j)]
          /\ i < j <=> old(i) < old(j)
      BY <1>3, <1>4
    <3> HIDE DEF old, p
    <3> QED BY <1>10, <3>2
  <2> QED BY <1>9, <2>1, <2>2, <2>3 DEF AnswersWait
<1>12. OneAtATime'
  <2>1. ASSUME NEW u \in Tasks, Busy(u)', task'[u].stream \in Deduplicated
        PROVE  /\ ~task'[u].late /\ ~task'[u].missed
               /\ \A v \in Tasks \ {u} : Busy(v)' => task'[v].stream # task'[u].stream
    <3>1. u # t /\ Busy(u) /\ task'[u].stream = task[u].stream
      BY <1>6, <1>7, <2>1, TasksRecorded
    <3>2. /\ ~task[u].late /\ ~task[u].missed
          /\ \A v \in Tasks \ {u} : Busy(v) => task[v].stream # task[u].stream
      BY <2>1, <3>1 DEF OneAtATime
    <3>3. Busy(t)
      BY TaskKinds
    <3>4. u \notin Beside(t)
      BY <3>1, <3>2, <3>3 DEF Beside
    <3>5. ~task'[u].late /\ ~task'[u].missed
      BY <3>1, <3>2, <3>4, TasksRecorded
    <3>6. \A v \in Tasks \ {u} : Busy(v)' => v # t /\ Busy(v) /\ task'[v].stream = task[v].stream
      BY <1>6, <1>7, TasksRecorded
    <3> QED BY <3>1, <3>2, <3>5, <3>6
  <2> QED BY <2>1 DEF OneAtATime
<1>13. ASSUME task[t].late, NEW u \in Beside(t), Busy(u)', task'[u].late
       PROVE  task[u].late
  <2>1. u \in Tasks \ {t} /\ Busy(u) /\ task[u].stream = task[t].stream
    BY DEF Beside, Busy
  <2>2. CASE u \in Before(t)
    <3>1. PICK k \in 1..(p - 1) : answered[k] = u
      BY <1>5, <2>2
    <3>2. k \in DOMAIN answered /\ k < p
      BY <1>1, <3>1 DEF HealthShape
    <3> QED BY <1>1, <1>13, <2>1, <3>1, <3>2 DEF AnswersWait
  <2>3. CASE u \notin Before(t)
    BY <1>13, <2>1, <2>3, TasksRecorded
  <2> QED BY <2>2, <2>3
<1> QED BY <1>2, <1>11, <1>12, <1>13

\* Of the other tasks with an answer, what a poll or a failure leaves as it was.
LEMMA OthersRecorded ==
    ASSUME HealthInv, NEW t \in Tasks, Ended(t), NEW out, Recorded(t, out),
           NEW u \in Tasks, TaskAt(u, "answered")'
    PROVE  /\ u # t /\ TaskAt(u, "answered") /\ Busy(u) /\ Busy(u)' /\ PollName(u)' = PollName(u)
           /\ task'[u].stream = task[u].stream
           /\ task[u].missed => task'[u].missed
           /\ (task'[u].late /\ ~task[u].late) =>
                task[u].stream = task[t].stream /\ ~task[t].late
<1> USE DEF HealthInv
<1>1. u # t
  BY TasksRecorded DEF TaskAt, NoTask
<1>2. Busy(u) /\ Busy(u)'
  BY <1>1, TasksRecorded DEF TaskAt, Busy
<1>3. /\ task'[u].pc = task[u].pc /\ task'[u].stream = task[u].stream
      /\ task'[u].day = task[u].day
      /\ task'[u].late <=> task[u].late \/ (u \in Beside(t) /\ u \in Before(t))
      /\ task[u].missed => task'[u].missed
  BY <1>1, <1>2, TasksRecorded
<1>4. TaskAt(u, "answered") /\ PollName(u)' = PollName(u)
  BY <1>3 DEF TaskAt, PollName
<1>5. ASSUME task'[u].late, ~task[u].late
      PROVE  task[u].stream = task[t].stream /\ ~task[t].late
  <2>1. u \in Beside(t)
    BY <1>3, <1>5
  <2> QED BY <1>2, <1>5, <2>1, AnswersRecorded DEF Beside
<1> QED BY <1>1, <1>2, <1>3, <1>4, <1>5

LEMMA HealthPollRecorded ==
    ASSUME HealthInv, NEW t \in Tasks, RecordsPoll(t)
    PROVE  HealthInv'
<1> DEFINE s == task[t].stream
           out == task[t].out
           name == PollName(t)
<1> USE HealthBounds DEF HealthInv
<1>1. /\ TaskAt(t, "answered") /\ Ended(t) /\ Busy(t) /\ Recorded(t, out)
      /\ last' = [last EXCEPT ![name] = out]
      /\ failing' = IF StillFails(t) THEN failing \cup {name} ELSE failing \ {name}
      /\ day' = day
  BY DEF RecordsPoll, Ended, TaskAt, Busy
<1>2. /\ s \in Polled /\ out \in Outs /\ task[t].day \in 1..MaxDay
      /\ task[t].late \in BOOLEAN /\ task[t].missed \in BOOLEAN
  BY <1>1, TaskKinds DEF Answering
<1>3. /\ name = <<s, IF s \in Dated THEN task[t].day ELSE 0>> /\ name \in PollNames
  BY <1>2 DEF PollName
<1>4. /\ newest' = IF task[t].late THEN newest ELSE [newest EXCEPT ![s] = out]
      /\ task' \in [Tasks -> {NoTask} \cup Polling \cup Answering]
      /\ answered' \in Seq(Tasks) /\ AnswersWait' /\ OneAtATime'
  <2>1. newest' = IF task[t].late THEN newest ELSE [newest EXCEPT ![s] = out]
    BY <1>1 DEF Recorded
  <2> HIDE DEF s, out, name
  <2>2. task' \in [Tasks -> {NoTask} \cup Polling \cup Answering]
    BY <1>1, TasksRecorded
  <2>3. answered' \in Seq(Tasks) /\ AnswersWait' /\ OneAtATime'
    BY <1>1, AnswersRecorded
  <2> QED BY <2>1, <2>2, <2>3
<1> HIDE DEF name, s, out
<1>5. HealthShape'
  BY <1>1, <1>2, <1>3, <1>4 DEF HealthShape, PollNames
<1>6. ASSUME NEW x \in Polled, newest'[x] = "failed"
      PROVE  /\ <<x, 0>> \in failing'
             /\ \A u \in Tasks :
                  TaskAt(u, "answered")' /\ task'[u].late /\ PollName(u)' = <<x, 0>> => task'[u].missed
  <2>1. out # "failed"
    BY <1>2 DEF Outs, Bad
  <2>2. newest[x] = "failed" /\ (x = s => task[t].late)
    BY <1>2, <1>4, <1>6, <2>1 DEF HealthShape
  <2>3. <<x, 0>> \in failing'
    <3>1. <<x, 0>> \in failing
      BY <2>2 DEF FailureStays
    <3>2. CASE <<x, 0>> = name
      <4>1. x = s
        BY <1>3, <3>2
      <4>2. task[t].missed
        BY <1>1, <2>2, <3>2, <4>1 DEF FailureStays, name
      <4> QED BY <1>1, <3>1, <4>2 DEF StillFails
    <3>3. CASE <<x, 0>> # name
      BY <1>1, <3>1, <3>3
    <3> QED BY <3>2, <3>3
  <2>4. ASSUME NEW u \in Tasks, TaskAt(u, "answered")', task'[u].late, PollName(u)' = <<x, 0>>
        PROVE  task'[u].missed
    <3>1. /\ TaskAt(u, "answered") /\ PollName(u) = <<x, 0>>
          /\ task[u].missed => task'[u].missed
          /\ ~task[u].late => task[u].stream = s /\ ~task[t].late
      BY <1>1, <2>4, OthersRecorded DEF s
    <3>2. task[u].stream = x
      BY <3>1 DEF PollName
    <3>3. task[u].late
      BY <2>2, <3>1, <3>2
    <3> QED BY <2>2, <3>1, <3>3 DEF FailureStays
  <2> QED BY <2>3, <2>4
<1>7. FailureStays'
  BY <1>6 DEF FailureStays
<1>8. s \in Deduplicated => ~task[t].late /\ ~task[t].missed
  BY <1>1 DEF OneAtATime, s
<1>9. BadStays'
  <2>1. ASSUME NEW x \in Deduplicated, newest'[x] \in Bad
        PROVE  \E d \in 0..MaxDay : last'[<<x, d>>] = newest'[x]
    <3>1. CASE x = s
      <4>1. newest'[x] = out /\ last'[name] = out
        BY <1>1, <1>2, <1>3, <1>4, <1>8, <3>1 DEF HealthShape
      <4>2. (IF s \in Dated THEN task[t].day ELSE 0) \in 0..MaxDay
        BY <1>2
      <4> QED BY <1>3, <3>1, <4>1, <4>2
    <3>2. CASE x # s
      <4>1. newest'[x] = newest[x]
        BY <1>2, <1>4, <3>2 DEF HealthShape
      <4>2. PICK d \in 0..MaxDay : last[<<x, d>>] = newest[x]
        BY <2>1, <4>1 DEF BadStays
      <4>3. <<x, d>> # name /\ <<x, d>> \in PollNames
        BY <1>3, <3>2
      <4> QED BY <1>1, <4>1, <4>2, <4>3 DEF HealthShape
    <3> QED BY <3>1, <3>2
  <2> QED BY <2>1 DEF BadStays, Bad
<1>10. GoodClears'
  <2>1. ASSUME NEW x \in Deduplicated \ Dated
        PROVE  /\ \A d \in 1..MaxDay : last'[<<x, d>>] = "none" /\ <<x, d>> \notin failing'
               /\ newest'[x] = "ok" => last'[<<x, 0>>] = "ok" /\ <<x, 0>> \notin failing'
    <3>1. \A d \in 1..MaxDay : <<x, d>> # name /\ <<x, d>> \in PollNames
      BY <1>3, <2>1
    <3>2. \A d \in 1..MaxDay : last'[<<x, d>>] = "none" /\ <<x, d>> \notin failing'
      BY <1>1, <3>1 DEF GoodClears, HealthShape
    <3>3. CASE x = s
      <4>1. name = <<x, 0>> /\ newest'[x] = out /\ last'[name] = out /\ failing' = failing \ {name}
        BY <1>1, <1>2, <1>3, <1>4, <1>8, <2>1, <3>3 DEF HealthShape, StillFails
      <4> QED BY <3>2, <4>1
    <3>4. CASE x # s
      <4>1. newest'[x] = newest[x] /\ <<x, 0>> # name /\ <<x, 0>> \in PollNames
        BY <1>2, <1>3, <1>4, <3>4 DEF HealthShape
      <4> QED BY <1>1, <3>2, <4>1 DEF GoodClears, HealthShape
    <3> QED BY <3>3, <3>4
  <2> QED BY <2>1 DEF GoodClears
<1> QED BY <1>4, <1>5, <1>7, <1>9, <1>10

LEMMA HealthFailureRecorded ==
    ASSUME HealthInv, NEW t \in Tasks, RecordsFailure(t)
    PROVE  HealthInv'
<1> DEFINE s == task[t].stream
<1> USE HealthBounds DEF HealthInv
<1>1. /\ TaskAt(t, "failed") /\ Ended(t) /\ Busy(t) /\ Recorded(t, "failed")
      /\ failing' = failing \cup {<<s, 0>>} /\ UNCHANGED <<day, last>>
  BY DEF RecordsFailure, Ended, TaskAt, Busy, FailName
<1>2. s \in Polled /\ task[t].late \in BOOLEAN
  BY <1>1, TaskKinds DEF Polling
<1>3. /\ newest' = IF task[t].late THEN newest ELSE [newest EXCEPT ![s] = "failed"]
      /\ task' \in [Tasks -> {NoTask} \cup Polling \cup Answering]
      /\ answered' \in Seq(Tasks) /\ AnswersWait' /\ OneAtATime'
  <2>1. newest' = IF task[t].late THEN newest ELSE [newest EXCEPT ![s] = "failed"]
    BY <1>1 DEF Recorded
  <2> HIDE DEF s
  <2>2. task' \in [Tasks -> {NoTask} \cup Polling \cup Answering]
    BY <1>1, TasksRecorded
  <2>3. answered' \in Seq(Tasks) /\ AnswersWait' /\ OneAtATime'
    BY <1>1, AnswersRecorded
  <2> QED BY <2>1, <2>2, <2>3
<1>4. FailName(t) = <<s, 0>>
  BY DEF FailName
<1> HIDE DEF s
<1>5. HealthShape'
  BY <1>1, <1>2, <1>3 DEF HealthShape, PollNames
<1>6. ASSUME NEW x \in Polled, newest'[x] = "failed"
      PROVE  /\ <<x, 0>> \in failing'
             /\ \A u \in Tasks :
                  TaskAt(u, "answered")' /\ task'[u].late /\ PollName(u)' = <<x, 0>> => task'[u].missed
  <2>1. x = s \/ newest[x] = "failed"
    BY <1>2, <1>3, <1>6 DEF HealthShape
  <2>2. <<x, 0>> \in failing'
    BY <1>1, <2>1 DEF FailureStays
  <2>3. ASSUME NEW u \in Tasks, TaskAt(u, "answered")', task'[u].late, PollName(u)' = <<x, 0>>
        PROVE  task'[u].missed
    <3>1. /\ u # t /\ Busy(u) /\ TaskAt(u, "answered") /\ PollName(u) = <<x, 0>>
          /\ task[u].missed => task'[u].missed
          /\ ~task[u].late => task[u].stream = s
      BY <1>1, <2>3, OthersRecorded DEF s
    <3>2. task[u].stream = x
      BY <3>1 DEF PollName
    <3>3. CASE x = s
      <4>1. u \in Beside(t)
        BY <3>1, <3>2, <3>3 DEF Beside, Busy, s
      <4>2. task'[u].missed <=> task[u].missed \/ (/\ u \in Beside(t) /\ "failed" = "failed" /\ TaskAt(u, "answered")
                                                   /\ PollName(u) = FailName(t))
        BY <1>1, <3>1, TasksRecorded
      <4> QED BY <1>4, <3>1, <3>3, <4>1, <4>2
    <3>4. CASE x # s
      BY <2>1, <3>1, <3>2, <3>4 DEF FailureStays
    <3> QED BY <3>3, <3>4
  <2> QED BY <2>2, <2>3
<1>7. FailureStays'
  BY <1>6 DEF FailureStays
<1>8. BadStays'
  <2>1. ASSUME NEW x \in Deduplicated, newest'[x] \in Bad
        PROVE  newest'[x] = newest[x]
    BY <1>2, <1>3, <2>1 DEF HealthShape, Bad
  <2> QED BY <1>1, <2>1 DEF BadStays, Bad
<1>9. GoodClears'
  <2>1. s \in Deduplicated => ~task[t].late
    BY <1>1 DEF OneAtATime, s
  <2>2. ASSUME NEW x \in Deduplicated \ Dated
        PROVE  /\ \A d \in 1..MaxDay : last'[<<x, d>>] = "none" /\ <<x, d>> \notin failing'
               /\ newest'[x] = "ok" => last'[<<x, 0>>] = "ok" /\ <<x, 0>> \notin failing'
    <3>1. \A d \in 1..MaxDay : <<x, d>> # <<s, 0>>
      OBVIOUS
    <3>2. newest'[x] = "ok" => x # s /\ newest[x] = "ok"
      BY <1>2, <1>3, <2>1, <2>2 DEF HealthShape
    <3> QED BY <1>1, <3>1, <3>2 DEF GoodClears
  <2> QED BY <2>2 DEF GoodClears
<1> QED BY <1>3, <1>5, <1>7, <1>8, <1>9

LEMMA HealthRestarted == HealthInv /\ (NewDay \/ CollectorRestarts) => HealthInv'
<1> SUFFICES ASSUME HealthInv, NewDay \/ CollectorRestarts PROVE HealthInv'
  OBVIOUS
<1> USE HealthBounds DEF HealthInv
<1>1. CASE NewDay
  <2>1. day' \in 1..MaxDay /\ UNCHANGED <<task, answered, last, failing, newest>>
    BY <1>1 DEF NewDay, HealthShape
  <2> QED BY <2>1 DEF HealthShape, AnswersWait, OneAtATime, FailureStays, BadStays, GoodClears,
                      Bad, Busy, Ended, TaskAt, PollName, NoTask, PollNames
<1>2. CASE CollectorRestarts
  <2>1. task' = [t \in Tasks |-> NoTask] /\ answered' = <<>> /\ UNCHANGED <<day, last, failing, newest>>
    BY <1>2 DEF CollectorRestarts
  <2>2. HealthShape'
    BY <2>1 DEF HealthShape, PollNames
  <2>3. \A t \in Tasks : ~Busy(t)' /\ ~Ended(t)' /\ ~TaskAt(t, "fetch")' /\ ~TaskAt(t, "answered")'
    BY <2>1 DEF Busy, Ended, TaskAt, NoTask
  <2>4. DOMAIN answered' = {}
    BY <2>1
  <2> QED BY <2>1, <2>2, <2>3, <2>4 DEF AnswersWait, OneAtATime, FailureStays, BadStays, GoodClears, Bad
<1> QED BY <1>1, <1>2

LEMMA HealthGoesOn == HealthInv /\ [HealthNext]_healthVars => HealthInv'
<1> SUFFICES ASSUME HealthInv, HealthNext PROVE HealthInv'
  BY HealthRests
<1>1. CASE NewDay \/ CollectorRestarts
  BY <1>1, HealthRestarted
<1>2. ASSUME NEW t \in Tasks, NEW s \in Polled, Begins(t, s)
      PROVE  HealthInv'
  BY <1>2, HealthBeginsTask
<1>3. ASSUME NEW t \in Tasks, AnswersWell(t) \/ AnswersBadly(t)
      PROVE  HealthInv'
  <2>1. PICK out \in Outs : Answers(t, out)
    BY <1>3 DEF AnswersWell, AnswersBadly, Outs
  <2> DEFINE new == [pc |-> "answered", stream |-> task[t].stream, day |-> task[t].day,
                     missed |-> FALSE, late |-> FALSE, out |-> out]
  <2>2. /\ TaskAt(t, "fetch") /\ task' = [task EXCEPT ![t] = new] /\ answered' = Append(answered, t)
        /\ UNCHANGED <<day, last, failing, newest>>
    BY <2>1 DEF Answers
  <2>3. task[t] \in Polling
    BY <2>2, TaskKinds DEF HealthInv
  <2>4. new \in Answering /\ new.pc # "fetch" /\ new.stream = task[t].stream /\ ~new.late /\ ~new.missed
    BY <2>3 DEF Polling, Answering
  <2> HIDE DEF new
  <2> QED BY <2>2, <2>4, HealthAnswers
<1>4. ASSUME NEW t \in Tasks, Errs(t)
      PROVE  HealthInv'
  <2> DEFINE new == [task[t] EXCEPT !.pc = "failed"]
  <2>1. /\ TaskAt(t, "fetch") /\ task' = [task EXCEPT ![t] = new] /\ answered' = Append(answered, t)
        /\ UNCHANGED <<day, last, failing, newest>>
    BY <1>4 DEF Errs
  <2>2. task[t] \in Polling /\ ~task[t].late /\ ~task[t].missed
    BY <2>1, TaskKinds DEF HealthInv, AnswersWait
  <2>3. new \in Polling /\ new.pc # "fetch" /\ new.stream = task[t].stream /\ ~new.late /\ ~new.missed
    BY <2>2 DEF Polling
  <2> HIDE DEF new
  <2> QED BY <2>1, <2>3, HealthAnswers
<1>5. ASSUME NEW t \in Tasks, TaskEnds(t)
      PROVE  HealthInv'
  BY <1>5, HealthPollRecorded, HealthFailureRecorded DEF TaskEnds
<1> QED BY <1>1, <1>2, <1>3, <1>4, <1>5 DEF HealthNext

\* The gate follows the health of the provider, in whatever order polls are recorded
\* (GateFollowsHealth): a failure closes it, whether or not the polls of a stream
\* overlap; an answer that is no good closes it where they do not; and where they do
\* not, and no day is in the name, it is closed for a reason only.
THEOREM GateAlwaysFollowsHealth == HealthSpec => []GateFollowsHealth
<1>1. HealthInv => GateFollowsHealth
  <2> SUFFICES ASSUME HealthInv PROVE GateFollowsHealth
    OBVIOUS
  <2> USE HealthBounds DEF HealthInv
  <2>1. HealthTypeOK
    <3>1. /\ day \in 1..MaxDay /\ failing \subseteq PollNames
          /\ last \in [PollNames -> {"none", "ok"} \cup Bad]
          /\ newest \in [Polled -> {"none", "ok", "failed"} \cup Bad]
      BY DEF HealthShape, Outs, Bad
    <3>2. ASSUME NEW t \in Tasks
          PROVE  (\E k \in DOMAIN answered : answered[k] = t) <=> ~TaskAt(t, "idle") /\ ~TaskAt(t, "fetch")
      <4>1. Ended(t) <=> ~TaskAt(t, "idle") /\ ~TaskAt(t, "fetch")
        BY TaskKinds DEF Ended, TaskAt
      <4> QED BY <4>1 DEF AnswersWait
    <3>3. \A t, u \in Tasks :
            /\ t # u /\ ~TaskAt(t, "idle") /\ ~TaskAt(u, "idle")
            /\ task[t].stream \in Deduplicated
            => task[t].stream # task[u].stream
      BY DEF OneAtATime, Busy
    <3> QED BY <3>1, <3>2, <3>3 DEF HealthTypeOK
  <2>2. FailureClosesGate
    <3>1. ASSUME NEW s \in Polled, newest[s] = "failed"
          PROVE  ~MayOpen
      <4>1. <<s, 0>> \in failing /\ <<s, 0>> \in PollNames
        BY <3>1 DEF FailureStays
      <4>2. <<s, 0>> \in Reported /\ ~Allows(<<s, 0>>)
        BY <4>1 DEF Reported, Allows
      <4> QED BY <4>2 DEF MayOpen
    <3> QED BY <3>1 DEF FailureClosesGate
  <2>3. BadAnswerClosesGate
    <3>1. ASSUME NEW s \in Deduplicated, newest[s] \in Bad
          PROVE  ~MayOpen
      <4>1. PICK d \in 0..MaxDay : last[<<s, d>>] = newest[s]
        BY <3>1 DEF BadStays
      <4>2. <<s, d>> \in PollNames /\ last[<<s, d>>] \notin {"none", "ok"}
        BY <3>1, <4>1 DEF Bad
      <4> QED BY <4>2 DEF MayOpen, Reported, Allows
    <3> QED BY <3>1 DEF BadAnswerClosesGate
  <2>4. ClosedForAReason
    <3>1. ASSUME NEW n \in Reported, n[1] \in Deduplicated \ Dated, ~Allows(n), newest[n[1]] = "ok"
          PROVE  FALSE
      <4>1. PICK s \in Polled, d \in 0..MaxDay : n = <<s, d>>
        BY <3>1 DEF Reported, PollNames
      <4>2. s \in Deduplicated \ Dated /\ newest[s] = "ok" /\ ~Allows(<<s, d>>)
            /\ (last[<<s, d>>] # "none" \/ <<s, d>> \in failing)
        BY <3>1, <4>1 DEF Reported
      <4>3. d = 0 \/ d \in 1..MaxDay
        OBVIOUS
      <4> QED BY <4>2, <4>3 DEF GoodClears, Allows
    <3> QED BY <3>1 DEF ClosedForAReason
  <2> QED BY <2>1, <2>2, <2>3, <2>4 DEF GateFollowsHealth
<1> QED BY <1>1, HealthBegins, HealthGoesOn, PTL DEF HealthSpec
=============================================================================
