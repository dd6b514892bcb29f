------------------------------ MODULE Observer ------------------------------
(***************************************************************************)
(* The store of what the sources showed (observer.py: ObserverStore), fed  *)
(* by the polls of one provider's streams.                                 *)
(*                                                                         *)
(* Every stream lists the newest articles of the provider.  A capture is   *)
(* written in two transactions: the revisions and sightings first, and,    *)
(* after the clock has been read, the time from which they are available.  *)
(* The object's lock is held over both, so that a reader of the same       *)
(* process waits; a reader of another process does not.  A poll's row      *)
(* shows in what it makes available: captures that were never published    *)
(* are left out, as every query leaves them out.                           *)
(***************************************************************************)
EXTENDS Naturals, Sequences, FiniteSets

CONSTANTS
    Streams,       \* streams of the provider
    None,          \* no stream, no anchors
    Depth,         \* articles that a stream lists
    MaxItems,      \* bound: articles
    MaxVersion,    \* bound: versions of an article
    MaxNow,        \* bound: the clock
    MaxBack,       \* bound: steps of the clock back
    MaxErrors,     \* bound: answers that cannot be parsed, or not all of them
    MaxCrashes,    \* bound: restarts
    MaxViews       \* bound: queries that are remembered

ASSUME ObserverAssumption ==
    /\ IsFiniteSet(Streams) /\ None \notin Streams /\ \A listed \in SUBSET (1..MaxItems) : None # listed
    /\ {Depth, MaxItems, MaxVersion, MaxNow} \subseteq Nat \ {0}
    /\ {MaxBack, MaxErrors, MaxCrashes, MaxViews} \subseteq Nat

VARIABLES
    site,      \* the articles of the provider, each with its version, the oldest first
    now,       \* the clock of the collector
    fetch,     \* the capture of each stream that waits to be written
    write,     \* the capture that is being written, which holds the lock
    revs,      \* observer_revisions: the versions of each article, in their order
    first,     \* the state of a revision at its first sighting
    avail,     \* the earliest time from which a revision is available
    anchors,   \* observer_streams: what the last capture that could be parsed listed
    views,     \* history: what queries have returned
    base,      \* history: the newest article when a stream was first captured, and the rejected ones
    covered,   \* history: the coverage of a stream's last capture, and what it has passed over
    back, errors, crashes

stored == <<revs, first, avail, anchors, base, covered>>
bounds == <<back, errors, crashes>>
vars == <<site, now, fetch, write, stored, views, bounds>>

Item == 1..MaxItems
NoFetch == [got |-> FALSE]
NoWrite == [stream |-> None]

Init ==
    /\ site = <<>> /\ now = 1
    /\ fetch = [s \in Streams |-> NoFetch] /\ write = NoWrite
    /\ revs = [i \in Item |-> <<>>] /\ first = [i \in Item |-> <<>>]
    /\ avail = [i \in Item |-> <<>>] /\ anchors = [s \in Streams |-> None]
    /\ views = {} /\ base = [s \in Streams |-> [top |-> 0, rejected |-> {}]]
    /\ covered = [s \in Streams |-> [as |-> "none", top |-> 0, skipped |-> {}]]
    /\ back = 0 /\ errors = 0 /\ crashes = 0

Listed == {i \in DOMAIN site : i + Depth > Len(site)}
Newest(S) == IF S = {} THEN 0 ELSE CHOOSE i \in S : \A j \in S : j <= i
LockFree == write = NoWrite
-----------------------------------------------------------------------------
(***************************************************************************)
(* The provider and the clock                                              *)
(***************************************************************************)
Publishes == Len(site) < MaxItems /\ site' = Append(site, 1)

Edits == \E i \in DOMAIN site : site[i] < MaxVersion /\ site' = [site EXCEPT ![i] = @ + 1]

Provider ==
    /\ Publishes \/ Edits
    /\ UNCHANGED <<now, fetch, write, stored, views, bounds>>

Tick ==
    /\ now < MaxNow /\ now' = now + 1
    /\ UNCHANGED <<site, fetch, write, stored, views, bounds>>

ClockSteps ==
    /\ now > 1 /\ back < MaxBack /\ back' = back + 1 /\ now' = now - 1
    /\ UNCHANGED <<site, fetch, write, stored, views, errors, crashes>>
-----------------------------------------------------------------------------
(***************************************************************************)
(* Captures                                                                *)
(***************************************************************************)
Batch(accepted, bad) ==
    [got |-> TRUE, listed |-> Listed, accepted |-> accepted, site |-> site, bad |-> bad, at |-> now]

Fetches(s) ==
    /\ fetch[s] = NoFetch
    /\ fetch' = [fetch EXCEPT ![s] = Batch(Listed, FALSE)]
    /\ UNCHANGED <<site, now, write, stored, views, bounds>>

\* Rows are rejected one by one; an answer that cannot be parsed has none.
FetchesBadly(s) ==
    /\ fetch[s] = NoFetch /\ errors < MaxErrors /\ errors' = errors + 1
    /\ \/ \E i \in Listed : fetch' = [fetch EXCEPT ![s] = Batch(Listed \ {i}, FALSE)]
       \/ fetch' = [fetch EXCEPT ![s] = Batch({}, TRUE)]
    /\ UNCHANGED <<site, now, write, stored, views, back, crashes>>

\* Mutant: without anchors to compare with, nothing counts as lost.
Coverage_NoAnchors(s, b) ==
    IF b.bad THEN "not_evaluated"
    ELSE IF anchors[s] = None THEN "baseline"
    ELSE IF b.accepted = {} THEN "empty"
    ELSE IF anchors[s] = {} \/ b.accepted \cap anchors[s] # {} THEN "overlap"
    ELSE "gap_possible"

Coverage(s, b) ==
    IF b.bad THEN "not_evaluated"
    ELSE IF anchors[s] = None THEN "baseline"
    ELSE IF b.accepted = {} THEN "empty"
    ELSE IF b.accepted \cap anchors[s] # {} THEN "overlap"
    ELSE "gap_possible"

Repeats(i, b) == revs[i] # <<>> /\ revs[i][Len(revs[i])] = b.site[i]

State(s, i) ==
    IF revs[i] # <<>> THEN "revised" ELSE IF anchors[s] = None THEN "baseline" ELSE "new"

\* Each accepted article with the revision it is sighted at.
Sightings(b) ==
    {<<i, IF Repeats(i, b) THEN Len(revs[i]) ELSE Len(revs[i]) + 1>> : i \in b.accepted}

Anchors(s, b) == IF b.bad THEN anchors[s] ELSE b.accepted

Extended(f, b, value) ==
    [i \in Item |-> IF i \in b.accepted /\ ~Repeats(i, b) THEN Append(f[i], value[i]) ELSE f[i]]

\* Mutant: a sighting that adds no revision is not kept.
Sighted_OnlyNew(b) == {x \in Sightings(b) : x[2] > Len(revs[x[1]])}

Sighted(b) == Sightings(b)

\* record, first transaction; a receipt in the future is refused.
Records(s) ==
    LET b == fetch[s] IN
    /\ b.got /\ LockFree /\ fetch' = [fetch EXCEPT ![s] = NoFetch]
    /\ IF now < b.at THEN UNCHANGED <<write, stored>>
       ELSE /\ write' = [stream |-> s, sights |-> Sighted(b), at |-> now, stamp |-> 0]
            /\ revs' = Extended(revs, b, b.site)
            /\ first' = Extended(first, b, [i \in Item |-> State(s, i)])
            /\ avail' = Extended(avail, b, [i \in Item |-> 0])
            /\ anchors' = [anchors EXCEPT ![s] = Anchors(s, b)]
            /\ base' = IF b.bad \/ base[s].top > 0 \/ covered[s].as # "none" THEN base
                       ELSE [base EXCEPT ![s] = [top |-> Newest(b.listed),
                                                 rejected |-> b.listed \ b.accepted]]
            /\ covered' = IF b.bad THEN covered
                          ELSE [covered EXCEPT ![s] =
                                  [as |-> Coverage(s, b), top |-> Newest(b.listed),
                                   skipped |-> {i \in DOMAIN b.site : i > @.top} \ b.listed]]
    /\ UNCHANGED <<site, now, views, bounds>>

\* The clock is read once more, and must not have gone back.
Stamps ==
    /\ ~LockFree /\ write.stamp = 0
    /\ write' = IF now < write.at THEN NoWrite ELSE [write EXCEPT !.stamp = now]
    /\ UNCHANGED <<site, now, fetch, stored, views, bounds>>

\* Mutant: the query takes the marker of the last sighting.
Earliest_Last(old, new) == new

\* The query takes the earliest marker of a revision's sightings.
Earliest(old, new) == IF old = 0 \/ new < old THEN new ELSE old

\* record, second transaction.
MakesAvailable ==
    /\ ~LockFree /\ write.stamp > 0 /\ write' = NoWrite
    /\ avail' = [i \in Item |-> [r \in DOMAIN avail[i] |->
                    IF <<i, r>> \in write.sights THEN Earliest(avail[i][r], write.stamp)
                    ELSE avail[i][r]]]
    /\ UNCHANGED <<site, now, fetch, revs, first, anchors, base, covered, views, bounds>>

\* A capture that was being written stays without a marker.
Restarts ==
    /\ crashes < MaxCrashes /\ crashes' = crashes + 1
    /\ fetch' = [s \in Streams |-> NoFetch] /\ write' = NoWrite
    /\ UNCHANGED <<site, now, stored, views, back, errors>>
-----------------------------------------------------------------------------
(***************************************************************************)
(* Queries                                                                 *)
(***************************************************************************)
Visible(cutoff) ==
    {x \in UNION {{i} \X DOMAIN avail[i] : i \in Item} :
        avail[x[1]][x[2]] \in 1..cutoff}

Remembers(cutoff, outside) ==
    /\ Cardinality(views) < MaxViews
    /\ views' = views \cup {[cutoff |-> cutoff, outside |-> outside, items |-> Visible(cutoff)]}
    /\ UNCHANGED <<site, now, fetch, write, stored, bounds>>

Waits == LockFree

\* history, revisions: the cutoff is a reading of the clock from before the lock.
Queries == Waits /\ \E cutoff \in 1..(now - 1) : Remembers(cutoff, FALSE)

\* The same by a process that has opened the database for reading.
QueriesOutside == \E cutoff \in 1..(now - 1) : Remembers(cutoff, TRUE)

Collects == Stamps \/ MakesAvailable \/ \E s \in Streams : Fetches(s) \/ Records(s)

Next ==
    \/ Provider \/ Tick \/ ClockSteps \/ Collects \/ Restarts \/ Queries \/ QueriesOutside
    \/ \E s \in Streams : FetchesBadly(s)

Spec == Init /\ [][Next]_vars

\* The collector polls its streams in a loop, and a capture that is held in hand
\* is written.
FairSpec ==
    /\ Spec /\ WF_vars(Stamps \/ MakesAvailable)
    /\ \A s \in Streams : WF_vars(Fetches(s)) /\ SF_vars(Records(s))
-----------------------------------------------------------------------------
(***************************************************************************)
(* Properties                                                              *)
(***************************************************************************)
\* The state keeps its shape: the tables of an article grow together, and a
\* sighting that is being written has its revision.
TypeOK ==
    /\ site \in UNION {[1..n -> 1..MaxVersion] : n \in 0..MaxItems}
    /\ now \in 1..MaxNow
    /\ \A i \in Item :
         Len(revs[i]) = Len(first[i]) /\ Len(revs[i]) = Len(avail[i])
         /\ \A r \in 2..Len(revs[i]) : revs[i][r] # revs[i][r - 1] /\ first[i][r] = "revised"
    /\ \A s \in Streams : anchors[s] # None => anchors[s] \subseteq DOMAIN site
    /\ ~LockFree => \A x \in write.sights : x[2] \in DOMAIN revs[x[1]]

\* What a query has shown for a cutoff is shown for it by every later one, over
\* restarts and failed captures.  Nothing is added either, since nothing becomes
\* available in the past, but for a reader in a process of its own, or after the clock
\* has stepped back between two captures.
ViewsAreFinal ==
    \A v \in views :
        /\ v.items \subseteq Visible(v.cutoff)
        /\ ~v.outside /\ back = 0 => v.items = Visible(v.cutoff)

\* A capture is called overlapping only if nothing was published and pushed out
\* of the list between it and the capture before.
OverlapMeansNothingLost ==
    \A s \in Streams : covered[s].as = "overlap" => covered[s].skipped = {}

\* An article is new only if it came after the first capture of a stream, or if
\* that capture had to reject its row: a capture that cannot be parsed does not
\* stand for the first one, and no stream takes the backlog of another for news.
NewIsFresh ==
    \A i \in Item : first[i] # <<>> /\ first[i][1] = "new" =>
        \E s \in Streams : anchors[s] # None /\ (i > base[s].top \/ i \in base[s].rejected)

\* A capture tells the truth of its list: that nothing was missed, and what is new.
CapturesTellTruth == TypeOK /\ OverlapMeansNothingLost /\ NewIsFresh

Hidden(i) == revs[i] # <<>> /\ avail[i][Len(revs[i])] = 0

\* What was recorded becomes visible, even if its capture was never published, as
\* long as some list shows the same version of it.
RecordedBecomesVisible == []<>(\A i \in Item : ~(Hidden(i) /\ i \in Listed))
=============================================================================
