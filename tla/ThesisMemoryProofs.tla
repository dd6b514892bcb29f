------------------------- MODULE ThesisMemoryProofs -------------------------
(***************************************************************************)
(* The thesis memory is causal, and is one that a single careful reasoner  *)
(* could have written, for every set of events and reasoners and all       *)
(* bounds.                                                                 *)
(*                                                                         *)
(* What the store holds is read by ThesisAt, which picks the last revision *)
(* among the first decisions.  Its lemmas are about any sequence of        *)
(* decisions, so that they can be used of the store before a commit and    *)
(* after it: an append leaves what earlier versions hold, and adds what it *)
(* changes to the last.  The inductive invariant tells how the times of    *)
(* the decisions are ordered, and what an answer on its way rests on.      *)
(***************************************************************************)
EXTENDS ThesisMemory, FiniteSetTheorems, TLAPS

Changed == UNION {[S -> Revisions] : S \in SUBSET Events}
Decisions == [event : Events, base : Nat, started : Times, completed : Times,
              changes : Changed, target : SUBSET Events, committedAt : Times]
Maybe == Times \cup {Never}
Places == [pc : {"idle", "recorded", "looked", "read", "thinking", "committing"},
           event : Events \cup {Never}, cutoff : Maybe, base : Nat, started : Maybe, call : Nat]

Shape ==
    /\ clock \in Times /\ steps \in 0 .. MaxSteps /\ calls \in 0 .. MaxCalls
    /\ received \in [Events -> Arrivals] /\ recorded \in [Events -> Maybe]
    /\ decisions \in Seq(Decisions)
    /\ reasoner \in [Reasoners -> Places]

\* A decision was begun when all before it were committed, and completed before its own commit.
TimesAreOrdered ==
    \A v \in DOMAIN decisions :
      /\ decisions[v].started < decisions[v].completed
      /\ decisions[v].completed <= decisions[v].committedAt
      /\ \A u \in DOMAIN decisions : u < v => decisions[u].committedAt <= decisions[v].started

\* The decisions among the first v of ds that changed a thesis.
Revising(ds, v, t) == {w \in 1 .. v : t \in DOMAIN ds[w].changes}
IsLast(ds, v, t, w) == w \in Revising(ds, v, t) /\ \A u \in Revising(ds, v, t) : u <= w

\* A thesis that was changed has a last revision, and every revision is one.
RevisionsAreFound ==
    /\ \A v \in 0 .. Len(decisions) : \A t \in Events :
         Revising(decisions, v, t) = {} \/ \E w \in 1 .. v : IsLast(decisions, v, t, w)
    /\ \A v \in DOMAIN decisions : \A t \in DOMAIN decisions[v].changes :
         decisions[v].changes[t].revision > 0

\* An answer that waits for its commit changes theses of the memory it was based on,
\* or its own, and adds its event to what they rest on.
AnswerFits(d) ==
    /\ d.id \in 1 .. calls /\ d.event \in Events /\ d.base \in 0 .. Len(decisions)
    /\ d.started \in Times /\ d.completed \in Times /\ d.started < d.completed
    /\ d.target \in SUBSET Events /\ d.changes \in Changed
    /\ \A t \in DOMAIN d.changes :
         /\ t = d.event \/ ThesisAt(d.base, t).revision > 0
         /\ d.changes[t].evidence = ThesisAt(d.base, t).evidence \cup {d.event}

ReasonerFits(r) ==
    /\ reasoner[r].call <= calls
    /\ reasoner[r].pc \in {"recorded", "looked", "read", "thinking"} => reasoner[r].event \in Events
    /\ reasoner[r].pc \in {"looked", "read"} => reasoner[r].cutoff \in Times
    /\ reasoner[r].pc \in {"read", "thinking"} => reasoner[r].base <= Len(decisions)
    /\ At(r, "thinking") => /\ reasoner[r].started \in Times /\ reasoner[r].call > 0
                            /\ \A q \in Reasoners \ {r} : reasoner[q].call # reasoner[r].call

\* What is said of the decisions alone.
DecisionsFit ==
    /\ TimesAreOrdered /\ RevisionsAreFound
    /\ HistoryIsReproducible /\ NoHindsight /\ TargetsRestOnLiveTheses

\* The inductive invariant.
Inv ==
    /\ Shape
    /\ DecisionsFit
    /\ \A d \in commits : AnswerFits(d)
    /\ \A r \in Reasoners : ReasonerFits(r)
-----------------------------------------------------------------------------
(***************************************************************************)
(* Reading a sequence of decisions                                         *)
(***************************************************************************)
\* ThesisAt, of any sequence of decisions.
ThesisIn(ds, v, t) ==
    LET revising == {w \in 1 .. v : t \in DOMAIN ds[w].changes}
    IN  IF revising = {} THEN NoThesis
        ELSE LET last == CHOOSE w \in revising : \A u \in revising : u <= w
             IN  ds[last].changes[t]

LEMMA ThesisAtIsThesisIn ==
    ASSUME NEW CONSTANT v, NEW CONSTANT t
    PROVE  ThesisAt(v, t) = ThesisIn(decisions, v, t) /\ ThesisAt(v, t)' = ThesisIn(decisions', v, t)
BY DEF ThesisAt, ThesisIn

\* The bounds are numbers.
LEMMA Bounds ==
    /\ MaxClock \in Nat /\ MaxSteps \in Nat /\ MaxCalls \in Nat
    /\ Ttl \in Nat \ {0} /\ Horizon \in Nat \ {0} /\ Arrivals \subseteq Nat /\ Times \subseteq Nat
BY MemoryAssumption DEF Times

\* A change is a function from theses to revisions.
LEMMA ChangedType ==
    ASSUME NEW c \in Changed
    PROVE  /\ DOMAIN c \subseteq Events
           /\ \A t \in DOMAIN c : c[t] \in Revisions
           /\ c = [t \in DOMAIN c |-> c[t]]
<1>1. PICK S \in SUBSET Events : c \in [S -> Revisions]
  BY DEF Changed
<1> QED
  BY <1>1

\* A thesis that nothing changed is none, and one that was changed is its last revision.
LEMMA NoRevision ==
    ASSUME NEW ds, NEW v, NEW t, Revising(ds, v, t) = {}
    PROVE  ThesisIn(ds, v, t) = NoThesis
BY DEF ThesisIn, Revising

LEMMA LastRevision ==
    ASSUME NEW ds, NEW v \in Nat, NEW t, NEW w, IsLast(ds, v, t, w)
    PROVE  ThesisIn(ds, v, t) = ds[w].changes[t]
<1> DEFINE revising == {x \in 1 .. v : t \in DOMAIN ds[x].changes}
           last == CHOOSE x \in revising : \A u \in revising : u <= x
<1>1. revising = Revising(ds, v, t) /\ revising \subseteq Nat
  BY DEF Revising
<1>2. w \in revising /\ \A u \in revising : u <= w
  BY <1>1 DEF IsLast
<1>3. last \in revising /\ \A u \in revising : u <= last
  BY <1>2
<1>4. last = w
  <2>1. last <= w /\ w <= last /\ last \in Nat /\ w \in Nat
    BY <1>1, <1>2, <1>3
  <2> HIDE DEF last
  <2> QED
    BY <2>1
<1>5. revising # {}
  BY <1>2
<1>6. ThesisIn(ds, v, t) = ds[last].changes[t]
  BY <1>5 DEF ThesisIn
<1> QED
  BY <1>4, <1>6

\* What a memory can hold.
RevisionsFound(ds, v, t) == Revising(ds, v, t) = {} \/ \E w \in 1 .. v : IsLast(ds, v, t, w)

\* Appending a decision leaves what the earlier versions hold.
LEMMA AppendKeeps ==
    ASSUME NEW ds \in Seq(Decisions), NEW d \in Decisions, NEW v \in 0 .. Len(ds), NEW t \in Events,
           RevisionsFound(ds, v, t)
    PROVE  /\ RevisionsFound(Append(ds, d), v, t)
           /\ ThesisIn(Append(ds, d), v, t) = ThesisIn(ds, v, t)
<1> DEFINE es == Append(ds, d)
<1>1. Len(ds) \in Nat /\ v \in Nat /\ \A w \in 1 .. v : es[w] = ds[w]
  OBVIOUS
<1> HIDE DEF es
<1>2. Revising(es, v, t) = Revising(ds, v, t)
  BY <1>1 DEF Revising
<1>3. CASE Revising(ds, v, t) = {}
  BY <1>2, <1>3, NoRevision DEF RevisionsFound, es
<1>4. ASSUME NEW w \in 1 .. v, IsLast(ds, v, t, w)
      PROVE  RevisionsFound(es, v, t) /\ ThesisIn(es, v, t) = ThesisIn(ds, v, t)
  <2>1. IsLast(es, v, t, w)
    BY <1>2, <1>4 DEF IsLast
  <2>2. ThesisIn(es, v, t) = es[w].changes[t] /\ ThesisIn(ds, v, t) = ds[w].changes[t]
    BY <1>1, <1>4, <2>1, LastRevision
  <2> QED
    BY <1>1, <2>1, <2>2 DEF RevisionsFound
<1> QED
  BY <1>3, <1>4 DEF RevisionsFound, es

\* The new version holds what the decision changes, and the rest as it was.
LEMMA AppendAdds ==
    ASSUME NEW ds \in Seq(Decisions), NEW d \in Decisions, NEW t \in Events,
           RevisionsFound(ds, Len(ds), t)
    PROVE  /\ RevisionsFound(Append(ds, d), Len(ds) + 1, t)
           /\ ThesisIn(Append(ds, d), Len(ds) + 1, t)
                = IF t \in DOMAIN d.changes THEN d.changes[t] ELSE ThesisIn(ds, Len(ds), t)
<1> DEFINE es == Append(ds, d)
           n == Len(ds)
<1>1. n \in Nat /\ es[n + 1] = d /\ \A w \in 1 .. n : es[w] = ds[w]
  OBVIOUS
<1> HIDE DEF es, n
<1>2. CASE t \in DOMAIN d.changes
  <2>1. IsLast(es, n + 1, t, n + 1)
    BY <1>1, <1>2 DEF IsLast, Revising
  <2>2. ThesisIn(es, n + 1, t) = d.changes[t]
    BY <1>1, <2>1, LastRevision
  <2> QED
    BY <1>1, <1>2, <2>1, <2>2 DEF RevisionsFound, es, n
<1>3. CASE t \notin DOMAIN d.changes
  <2>1. Revising(es, n + 1, t) = Revising(ds, n, t)
    BY <1>1, <1>3 DEF Revising
  <2>2. CASE Revising(ds, n, t) = {}
    BY <1>3, <2>1, <2>2, NoRevision DEF RevisionsFound, es, n
  <2>3. ASSUME NEW w \in 1 .. n, IsLast(ds, n, t, w)
        PROVE  RevisionsFound(es, n + 1, t) /\ ThesisIn(es, n + 1, t) = ThesisIn(ds, n, t)
    <3>1. IsLast(es, n + 1, t, w) /\ w \in 1 .. n + 1
      BY <1>1, <2>1, <2>3 DEF IsLast
    <3>2. ThesisIn(es, n + 1, t) = es[w].changes[t] /\ ThesisIn(ds, n, t) = ds[w].changes[t]
      BY <1>1, <2>3, <3>1, LastRevision
    <3> QED
      BY <1>1, <3>1, <3>2 DEF RevisionsFound
  <2> QED
    BY <1>3, <2>2, <2>3 DEF RevisionsFound, es, n
<1> QED
  BY <1>2, <1>3
-----------------------------------------------------------------------------
(***************************************************************************)
(* What the memory holds                                                   *)
(***************************************************************************)
\* A thesis of the memory has a revision, or is none.
LEMMA ThesisType ==
    ASSUME Shape, RevisionsAreFound, NEW v \in 0 .. Len(decisions), NEW t \in Events
    PROVE  /\ ThesisAt(v, t).revision \in Nat /\ ThesisAt(v, t).updatedAt \in Int
           /\ ThesisAt(v, t).evidence \in SUBSET Events
           /\ ThesisAt(v, t) = NoThesis \/ ThesisAt(v, t).revision > 0
<1>1. Len(decisions) \in Nat /\ DOMAIN decisions = 1 .. Len(decisions) /\ v \in Nat
  BY DEF Shape
<1>2. ThesisAt(v, t) = ThesisIn(decisions, v, t)
  BY ThesisAtIsThesisIn
<1>3. ASSUME NEW w \in 1 .. v, IsLast(decisions, v, t, w)
      PROVE  ThesisAt(v, t) \in Revisions /\ ThesisAt(v, t).revision > 0
  <2>1. ThesisAt(v, t) = decisions[w].changes[t]
    BY <1>1, <1>2, <1>3, LastRevision
  <2>2. w \in DOMAIN decisions /\ t \in DOMAIN decisions[w].changes
    BY <1>1, <1>3 DEF IsLast, Revising
  <2>3. decisions[w] \in Decisions
    BY <2>2 DEF Shape
  <2>4. decisions[w].changes \in Changed
    BY <2>3 DEF Decisions
  <2> QED
    BY <2>1, <2>2, <2>4, ChangedType DEF RevisionsAreFound
<1>4. ASSUME NEW x \in Revisions
      PROVE  x.revision \in Nat /\ x.updatedAt \in Int /\ x.evidence \in SUBSET Events
  <2>1. x.revision \in Nat
    BY DEF Revisions
  <2>2. x.evidence \in SUBSET Events
    BY DEF Revisions
  <2>3. x.updatedAt \in Times
    BY DEF Revisions
  <2>4. x.updatedAt \in Nat
    BY <2>3, Bounds
  <2>5. x.updatedAt \in Int
    BY <2>4
  <2> QED
    BY <2>1, <2>2, <2>5
<1>5. NoThesis.revision \in Nat /\ NoThesis.updatedAt \in Int /\ NoThesis.evidence \in SUBSET Events
  BY DEF NoThesis, Never
<1>6. ThesisAt(v, t) = NoThesis \/ (ThesisAt(v, t) \in Revisions /\ ThesisAt(v, t).revision > 0)
  <2>1. CASE Revising(decisions, v, t) = {}
    BY <1>2, <2>1, NoRevision
  <2> QED
    BY <1>3, <2>1 DEF RevisionsAreFound
<1> QED
  BY <1>4, <1>5, <1>6

\* A version is one of the decisions, or none of them.
LEMMA VersionType ==
    ASSUME Shape, NEW m
    PROVE  VersionAt(m) \in 0 .. Len(decisions)
<1> DEFINE S == {v \in DOMAIN decisions : decisions[v].committedAt <= m}
<1>1. Len(decisions) \in Nat /\ DOMAIN decisions = 1 .. Len(decisions)
  BY DEF Shape
<1>2. IsFiniteSet(1 .. Len(decisions)) /\ Cardinality(1 .. Len(decisions)) = Len(decisions)
  <2>1. 1 \in Int /\ Len(decisions) \in Int
    BY <1>1
  <2>2. IsFiniteSet(1 .. Len(decisions))
    BY <2>1, FS_Interval
  <2>3. Cardinality(1 .. Len(decisions)) = IF 1 > Len(decisions) THEN 0 ELSE Len(decisions) - 1 + 1
    BY <2>1, FS_Interval
  <2> QED
    BY <1>1, <2>2, <2>3
<1>3. S \subseteq 1 .. Len(decisions)
  BY <1>1
<1>4. IsFiniteSet(S) /\ Cardinality(S) <= Len(decisions) /\ Cardinality(S) \in Nat
  BY <1>2, <1>3, FS_Subset, FS_CardinalityType
<1> QED
  BY <1>1, <1>4 DEF VersionAt

\* An event that is recorded once more keeps its time.
RecordsStay == \A e \in Events : recorded[e] # Never => recorded'[e] = recorded[e]

\* A step that commits nothing leaves the memory, and answers that wait, as they were.
LEMMA MemoryStays ==
    ASSUME Inv, decisions' = decisions, received' = received, RecordsStay
    PROVE  /\ DecisionsFit'
           /\ \A v, t : ThesisAt(v, t)' = ThesisAt(v, t)
           /\ calls' \in Nat /\ calls <= calls' => \A d \in commits : AnswerFits(d)'
<1>1. ASSUME NEW v, NEW t PROVE ThesisAt(v, t)' = ThesisAt(v, t)
  BY ThesisAtIsThesisIn
<1>2. \A m : VersionAt(m)' = VersionAt(m)
  BY DEF VersionAt
<1>3. TimesAreOrdered' /\ RevisionsAreFound'
  BY DEF Inv, DecisionsFit, TimesAreOrdered, RevisionsAreFound
<1>4. HistoryIsReproducible'
  BY <1>2 DEF Inv, DecisionsFit, HistoryIsReproducible
<1>5. NoHindsight'
  <2>1. DOMAIN decisions \subseteq 0 .. Len(decisions)
    BY DEF Inv, Shape
  <2> SUFFICES ASSUME NEW v \in DOMAIN decisions, NEW t \in Events, NEW e \in ThesisAt(v, t).evidence
               PROVE  /\ recorded'[e] # Never /\ recorded'[e] <= decisions[v].started
                      /\ received[e] <= decisions[v].started
    BY <1>1 DEF NoHindsight
  <2>2. /\ recorded[e] # Never /\ recorded[e] <= decisions[v].started
        /\ received[e] <= decisions[v].started
    BY DEF Inv, DecisionsFit, NoHindsight
  <2>3. e \in Events
    BY <2>1, ThesisType DEF Inv, DecisionsFit
  <2> QED
    BY <2>2, <2>3 DEF RecordsStay
<1>6. TargetsRestOnLiveTheses'
  BY <1>1 DEF Inv, DecisionsFit, TargetsRestOnLiveTheses
<1>7. ASSUME calls' \in Nat, calls <= calls', NEW d \in commits PROVE AnswerFits(d)'
  <2>1. AnswerFits(d) /\ calls \in Nat
    BY Bounds DEF Inv, Shape
  <2>2. d.id \in 1 .. calls'
    BY <1>7, <2>1 DEF AnswerFits
  <2> QED
    BY <1>1, <2>1, <2>2 DEF AnswerFits
<1> QED
  BY <1>1, <1>3, <1>4, <1>5, <1>6, <1>7 DEF DecisionsFit

\* One reasoner moves on: the calls of the others stay distinct from its own.
LEMMA OneMoves ==
    ASSUME Inv, NEW r \in Reasoners, NEW p \in Places, reasoner' = [reasoner EXCEPT ![r] = p],
           UNCHANGED <<time, decisions>>, RecordsStay, recorded' \in [Events -> Maybe],
           \/ calls' = calls /\ p.call \in {0, reasoner[r].call}
           \/ calls' = calls + 1 /\ calls < MaxCalls /\ p.call = calls',
           \A d \in commits' : d \in commits \/ AnswerFits(d)',
           p.pc \in {"recorded", "looked", "read", "thinking"} => p.event \in Events,
           p.pc \in {"looked", "read"} => p.cutoff \in Times,
           p.pc \in {"read", "thinking"} => p.base <= Len(decisions),
           p.pc = "thinking" => p.started \in Times /\ p.call = calls + 1
    PROVE  Inv'
<1>0. Shape /\ calls \in Nat /\ MaxCalls \in Nat
  BY Bounds DEF Inv, Shape
<1>1. reasoner'[r] = p /\ (\A q \in Reasoners : q # r => reasoner'[q] = reasoner[q])
      /\ reasoner' \in [Reasoners -> Places]
  BY <1>0 DEF Shape
<1>2. calls' \in 0 .. MaxCalls /\ calls <= calls' /\ calls' \in Nat
  BY <1>0 DEF Shape
<1>3. Shape'
  BY <1>0, <1>1, <1>2 DEF Shape, time
<1>4. DecisionsFit' /\ \A d \in commits' : AnswerFits(d)'
  BY <1>2, MemoryStays DEF time
<1>5. reasoner[r].call \in Nat /\ reasoner[r].call <= calls
  BY <1>0 DEF Inv, ReasonerFits, Shape, Places
<1>6. ReasonerFits(r)'
  <2>1. p.call <= calls'
    BY <1>0, <1>2, <1>5
  <2>2. ASSUME p.pc = "thinking", NEW q \in Reasoners \ {r} PROVE reasoner'[q].call # p.call
    <3>1. reasoner[q].call <= calls /\ reasoner[q].call \in Nat /\ reasoner'[q] = reasoner[q]
      BY <1>0, <1>1 DEF Inv, ReasonerFits, Shape, Places
    <3> QED
      BY <1>0, <2>2, <3>1
  <2>3. p.pc = "thinking" => p.call > 0
    BY <1>0
  <2> QED
    BY <1>1, <2>1, <2>2, <2>3 DEF ReasonerFits, At
<1>7. ASSUME NEW q \in Reasoners, q # r PROVE ReasonerFits(q)'
  <2>1. ReasonerFits(q) /\ reasoner'[q] = reasoner[q] /\ reasoner[q].call \in Nat
    BY <1>0, <1>1, <1>7 DEF Inv, Shape, Places
  <2>2. reasoner[q].call <= calls'
    BY <1>0, <1>2, <2>1 DEF ReasonerFits
  <2>3. ASSUME At(q, "thinking"), NEW x \in Reasoners \ {q} PROVE reasoner'[x].call # reasoner[q].call
    <3>1. reasoner[x].call # reasoner[q].call /\ reasoner[q].call > 0 /\ reasoner[q].call <= calls
      BY <2>1, <2>3 DEF ReasonerFits
    <3>2. CASE x # r
      BY <1>1, <3>1, <3>2
    <3>3. CASE x = r
      BY <1>0, <1>1, <2>1, <3>1, <3>3
    <3> QED
      BY <3>2, <3>3
  <2> QED
    BY <2>1, <2>2, <2>3 DEF ReasonerFits, At
<1> QED
  BY <1>3, <1>4, <1>6, <1>7 DEF Inv
-----------------------------------------------------------------------------
(***************************************************************************)
(* The steps that leave the memory alone                                   *)
(***************************************************************************)
LEMMA RestingIsPlace ==
    /\ Resting \in Places /\ Resting.call = 0 /\ Resting.pc = "idle"
    /\ \A e \in Events : LET p == [Resting EXCEPT !.pc = "recorded", !.event = e]
                         IN  p \in Places /\ p.call = 0 /\ p.pc = "recorded" /\ p.event = e
BY DEF Resting, Places, Maybe, Never

\* A reasoner has nothing to do any more.
LEMMA InvRests ==
    ASSUME Inv, NEW r \in Reasoners, Goes(r, Resting), UNCHANGED <<time, store, calls, commits>>
    PROVE  Inv'
<1>1. reasoner' = [reasoner EXCEPT ![r] = Resting] /\ RecordsStay /\ recorded' \in [Events -> Maybe]
  BY DEF Goes, store, RecordsStay, Inv, Shape
<1> QED
  BY <1>1, RestingIsPlace, OneMoves DEF store

LEMMA InvRecord ==
    ASSUME Inv, NEW r \in Reasoners, NEW e \in Events, Record(r, e)
    PROVE  Inv'
<1> DEFINE p == [Resting EXCEPT !.pc = "recorded", !.event = e]
<1>1. p \in Places /\ p.call = 0 /\ p.pc = "recorded" /\ p.event = e
  BY RestingIsPlace
<1>2. reasoner' = [reasoner EXCEPT ![r] = p] /\ UNCHANGED <<time, decisions, commits, calls>>
  BY DEF Record, Goes
<1>3. recorded' = [recorded EXCEPT ![e] = IF @ = Never THEN clock ELSE @]
  BY DEF Record
<1>4. RecordsStay /\ recorded' \in [Events -> Maybe]
  BY <1>3 DEF Inv, Shape, RecordsStay, Maybe
<1> HIDE DEF p
<1> QED
  BY <1>1, <1>2, <1>4, OneMoves

LEMMA InvLook ==
    ASSUME Inv, NEW r \in Reasoners, Look(r)
    PROVE  Inv'
<1>0. reasoner[r] \in Places /\ ReasonerFits(r) /\ At(r, "recorded") /\ clock \in Times
  BY DEF Inv, Shape, Look
<1>1. CASE Decided(reasoner[r].event)
  BY <1>1, InvRests DEF Look, Goes
<1>2. CASE ~Decided(reasoner[r].event)
  <2> DEFINE p == [reasoner[r] EXCEPT !.pc = "looked", !.cutoff = clock]
  <2>1. p \in Places /\ p.call = reasoner[r].call /\ p.pc = "looked" /\ p.event = reasoner[r].event
        /\ p.cutoff = clock
    BY <1>0 DEF Places, Maybe
  <2>2. reasoner' = [reasoner EXCEPT ![r] = p] /\ UNCHANGED <<time, store, commits, calls>>
    BY <1>2 DEF Look, Goes
  <2>3. RecordsStay /\ recorded' \in [Events -> Maybe] /\ p.event \in Events
    BY <1>0, <2>1, <2>2 DEF Inv, Shape, RecordsStay, store, ReasonerFits, At
  <2> HIDE DEF p
  <2> QED
    BY <1>0, <2>1, <2>2, <2>3, OneMoves DEF store
<1> QED
  BY <1>1, <1>2

LEMMA InvSnapshot ==
    ASSUME Inv, NEW r \in Reasoners, Snapshot(r)
    PROVE  Inv'
<1>0. reasoner[r] \in Places /\ ReasonerFits(r) /\ At(r, "looked")
  BY DEF Inv, Shape, Snapshot
<1>1. CASE FromTheFuture(r)
  BY <1>1, InvRests DEF Snapshot, Goes
<1>2. CASE ~FromTheFuture(r)
  <2> DEFINE base == VersionAt(reasoner[r].cutoff)
             p == [reasoner[r] EXCEPT !.pc = "read", !.base = base]
  <2>1. base \in 0 .. Len(decisions) /\ base \in Nat
    BY VersionType DEF Inv
  <2>2. reasoner' = [reasoner EXCEPT ![r] = p] /\ UNCHANGED <<time, store, commits, calls>>
    BY <1>2 DEF Snapshot, Goes
  <2> HIDE DEF base
  <2>3. p \in Places /\ p.call = reasoner[r].call /\ p.pc = "read" /\ p.event = reasoner[r].event
        /\ p.cutoff = reasoner[r].cutoff /\ p.base = base
    BY <1>0, <2>1 DEF Places
  <2>4. RecordsStay /\ recorded' \in [Events -> Maybe] /\ p.event \in Events /\ p.cutoff \in Times
    BY <1>0, <2>2, <2>3 DEF Inv, Shape, RecordsStay, store, ReasonerFits, At
  <2>5. p.pc \notin {"recorded", "thinking"} /\ p.base <= Len(decisions)
    BY <2>1, <2>3
  <2> HIDE DEF p
  <2> QED
    BY <2>2, <2>3, <2>4, <2>5, OneMoves DEF store
<1> QED
  BY <1>1, <1>2

LEMMA InvCall ==
    ASSUME Inv, NEW r \in Reasoners, Call(r)
    PROVE  Inv'
<1>0. reasoner[r] \in Places /\ ReasonerFits(r) /\ At(r, "read") /\ calls < MaxCalls /\ calls \in Nat
      /\ clock \in Times
  BY Bounds DEF Inv, Shape, Call
<1> DEFINE started == IF r \in Traders THEN clock ELSE reasoner[r].cutoff
<1>1. CASE started < reasoner[r].cutoff
  BY <1>1, InvRests DEF Call, Goes
<1>2. CASE ~(started < reasoner[r].cutoff)
  <2>1. started \in Times
    BY <1>0 DEF ReasonerFits, At
  <2> DEFINE p == [reasoner[r] EXCEPT !.pc = "thinking", !.started = started, !.call = calls + 1]
             p1 == [reasoner[r] EXCEPT !.pc = "thinking", !.started = started]
  <2>2. reasoner' = [reasoner EXCEPT ![r] = p] /\ calls' = calls + 1 /\ UNCHANGED <<time, store, commits>>
    BY <1>2 DEF Call, Goes
  <2> HIDE DEF started
  <2>3. p1 \in Places
    BY <1>0, <2>1 DEF Places, Maybe
  <2>4. p \in Places
    <3>1. p = [p1 EXCEPT !.call = calls + 1]
      OBVIOUS
    <3> HIDE DEF p, p1
    <3> QED
      BY <1>0, <2>3, <3>1 DEF Places
  <2>5. p.call = calls + 1 /\ p.pc = "thinking" /\ p.event = reasoner[r].event /\ p.base = reasoner[r].base
        /\ p.started = started
    BY <1>0 DEF Places
  <2>6. RecordsStay /\ recorded' \in [Events -> Maybe] /\ p.event \in Events /\ p.base <= Len(decisions)
    BY <1>0, <2>2, <2>5 DEF Inv, Shape, RecordsStay, store, ReasonerFits, At
  <2> HIDE DEF p, p1
  <2> QED
    BY <1>0, <2>1, <2>2, <2>4, <2>5, <2>6, OneMoves DEF store
<1> QED
  BY <1>1, <1>2

LEMMA InvGiveUp ==
    ASSUME Inv, NEW r \in Reasoners, GiveUp(r)
    PROVE  Inv'
BY InvRests DEF GiveUp

\* Time passes, or the clock is set back; all that runs is lost.
LEMMA InvTime ==
    ASSUME Inv, Tick \/ ClockStepsBack
    PROVE  Inv'
<1>1. Shape /\ clock \in Nat /\ MaxClock \in Nat /\ steps \in Nat /\ MaxSteps \in Nat /\ calls \in Nat
  BY Bounds DEF Inv, Shape
<1>2. clock' \in Times /\ steps' \in 0 .. MaxSteps /\ UNCHANGED <<received, store, reasoner, commits, calls>>
  BY <1>1 DEF Tick, ClockStepsBack, Times, Shape
<1>3. Shape' /\ RecordsStay
  BY <1>1, <1>2 DEF Shape, store, RecordsStay
<1>4. DecisionsFit' /\ \A d \in commits' : AnswerFits(d)'
  BY <1>1, <1>2, <1>3, MemoryStays DEF store
<1>5. \A r \in Reasoners : ReasonerFits(r)'
  BY <1>2 DEF Inv, ReasonerFits, At, store
<1> QED
  BY <1>3, <1>4, <1>5 DEF Inv

LEMMA InvCrash ==
    ASSUME Inv, Crash
    PROVE  Inv'
<1>1. commits' = {} /\ reasoner' = [r \in Reasoners |-> Resting] /\ UNCHANGED <<time, store, calls>>
  BY DEF Crash
<1>2. Shape' /\ RecordsStay
  BY <1>1, RestingIsPlace DEF Inv, Shape, time, store, RecordsStay
<1>3. DecisionsFit'
  BY <1>1, <1>2, MemoryStays DEF time, store
<1>4. \A r \in Reasoners : ReasonerFits(r)'
  <2>1. calls' \in Nat /\ 0 <= calls'
    BY <1>2, Bounds DEF Shape
  <2> SUFFICES ASSUME NEW r \in Reasoners PROVE ReasonerFits(r)'
    OBVIOUS
  <2>2. reasoner'[r] = Resting
    BY <1>1
  <2>3. reasoner'[r].pc = "idle" /\ reasoner'[r].call <= calls'
    BY <2>1, <2>2, RestingIsPlace
  <2> QED
    BY <2>3 DEF ReasonerFits, At
<1> QED
  BY <1>1, <1>2, <1>3, <1>4 DEF Inv
-----------------------------------------------------------------------------
(***************************************************************************)
(* The answer of a reasoner                                                *)
(***************************************************************************)
\* What a model's reply amounts to changes theses of the memory it was based on.
LEMMA ChangesFit ==
    ASSUME Inv, NEW r \in Reasoners, NEW changes \in AllChanges(r),
           reasoner[r].event \in Events, reasoner[r].base \in 0 .. Len(decisions)
    PROVE  /\ changes \in Changed
           /\ \A t \in DOMAIN changes :
                /\ t = reasoner[r].event \/ ThesisAt(reasoner[r].base, t).revision > 0
                /\ changes[t].evidence = ThesisAt(reasoner[r].base, t).evidence \cup {reasoner[r].event}
<1>1. CASE changes = NoChanges
  <2>1. DOMAIN NoChanges = {} /\ NoChanges \in [{} -> Revisions]
    BY DEF NoChanges
  <2>2. NoChanges \in Changed
    BY <2>1 DEF Changed
  <2> QED
    BY <1>1, <2>1, <2>2
<1>2. CASE changes # NoChanges
  <2>1. PICK primary \in Known(reasoner[r].base) \cup {reasoner[r].event}, active \in BOOLEAN,
             invalidated \in SUBSET Known(reasoner[r].base) :
               changes = Changes(r, primary, active, invalidated)
    BY <1>2 DEF AllChanges
  <2> DEFINE S == {primary} \cup invalidated
             old(t) == ThesisAt(reasoner[r].base, t)
  <2>2. S \subseteq Events /\ \A t \in S : t = reasoner[r].event \/ old(t) # NoThesis
    BY <2>1 DEF Known
  <2>3. \A t \in S : changes[t] = Revised(old(t), reasoner[r].event, t = primary /\ active, clock)
    BY <2>1 DEF Changes
  <2>4. changes = [t \in S |-> changes[t]]
    BY <2>1 DEF Changes
  <2> HIDE DEF S
  <2>5. ASSUME NEW t \in S
        PROVE  /\ changes[t] \in Revisions
               /\ t = reasoner[r].event \/ old(t).revision > 0
               /\ changes[t].evidence = old(t).evidence \cup {reasoner[r].event}
    <3>1. /\ old(t).revision \in Nat /\ old(t).evidence \in SUBSET Events
          /\ old(t) = NoThesis \/ old(t).revision > 0
      BY <2>2, ThesisType DEF Inv, DecisionsFit
    <3> HIDE DEF old
    <3>2. clock \in Times /\ (t = primary /\ active) \in BOOLEAN /\ old(t).revision + 1 \in Nat
          /\ old(t).evidence \cup {reasoner[r].event} \in SUBSET Events
      BY <3>1 DEF Inv, Shape
    <3>3. changes[t] = [revision |-> old(t).revision + 1, active |-> (t = primary /\ active),
                        evidence |-> old(t).evidence \cup {reasoner[r].event}, updatedAt |-> clock]
      BY <2>3 DEF Revised
    <3>4. changes[t] \in Revisions
      BY <3>2, <3>3 DEF Revisions
    <3>5. changes[t].evidence = old(t).evidence \cup {reasoner[r].event}
      BY <3>3
    <3> QED
      BY <2>2, <3>1, <3>4, <3>5
  <2>6. DOMAIN changes = S /\ changes \in [S -> Revisions]
    BY <2>4, <2>5
  <2>7. changes \in Changed
    BY <2>2, <2>6 DEF Changed
  <2> QED
    BY <2>5, <2>6, <2>7
<1> QED
  BY <1>1, <1>2

LEMMA InvAnswer ==
    ASSUME Inv, NEW r \in Reasoners, Answer(r)
    PROVE  Inv'
<1>0. /\ reasoner[r] \in Places /\ ReasonerFits(r) /\ At(r, "thinking") /\ clock > reasoner[r].started
      /\ clock \in Times /\ calls \in Nat /\ Len(decisions) \in Nat
  BY Bounds DEF Inv, Shape, Answer
<1>1. /\ reasoner[r].event \in Events /\ reasoner[r].base \in 0 .. Len(decisions)
      /\ reasoner[r].started \in Times /\ reasoner[r].call \in 1 .. calls
  BY <1>0 DEF ReasonerFits, At, Places
<1>2. /\ UNCHANGED <<time, store, calls>>
      /\ reasoner' = [reasoner EXCEPT ![r] = [Resting EXCEPT !.pc = "committing", !.call = reasoner[r].call]]
  BY DEF Answer, Goes
<1> DEFINE answer(changes) ==
               [id |-> reasoner[r].call, event |-> reasoner[r].event,
                base |-> reasoner[r].base, started |-> reasoner[r].started,
                completed |-> clock, changes |-> changes, target |-> NoTarget]
<1>a. PICK changes \in AllChanges(r) : \E x \in TargetsOf(r, answer(changes)) :
             commits' = commits \cup {[answer(changes) EXCEPT !.target = x]}
  BY DEF Answer
<1>3. PICK target \in TargetsOf(r, answer(changes)) :
             commits' = commits \cup {[answer(changes) EXCEPT !.target = target]}
  BY <1>a
<1>4. PICK d : d = [answer(changes) EXCEPT !.target = target]
  OBVIOUS
<1>5. /\ d.id = reasoner[r].call /\ d.event = reasoner[r].event /\ d.base = reasoner[r].base
      /\ d.started = reasoner[r].started /\ d.completed = clock /\ d.changes = changes
      /\ d.target = target
  BY <1>4
<1>6. target \in SUBSET Events
  BY <1>3 DEF TargetsOf, NoTarget
<1>7. commits' = commits \cup {d}
  BY <1>3, <1>4
<1> HIDE DEF answer
<1>8. AnswerFits(d)
  <2>1. /\ changes \in Changed
        /\ \A t \in DOMAIN changes :
             /\ t = reasoner[r].event \/ ThesisAt(reasoner[r].base, t).revision > 0
             /\ changes[t].evidence = ThesisAt(reasoner[r].base, t).evidence \cup {reasoner[r].event}
    BY <1>1, <1>3, ChangesFit
  <2> QED
    BY <1>0, <1>1, <1>5, <1>6, <2>1, Bounds DEF AnswerFits
<1>9. AnswerFits(d)'
  <2>1. \A v, t : ThesisAt(v, t)' = ThesisAt(v, t)
    BY <1>2, ThesisAtIsThesisIn DEF store
  <2> QED
    BY <1>2, <1>8, <2>1 DEF AnswerFits, store
<1> DEFINE p == [Resting EXCEPT !.pc = "committing", !.call = reasoner[r].call]
<1>10. p \in Places /\ p.pc = "committing" /\ p.call = reasoner[r].call
  <2>1. \A c \in Nat : LET q == [Resting EXCEPT !.pc = "committing", !.call = c]
                       IN  q \in Places /\ q.pc = "committing" /\ q.call = c
    BY DEF Resting, Places, Maybe
  <2>2. reasoner[r].call \in Nat
    BY <1>1
  <2> QED
    BY <2>1, <2>2
<1>11. RecordsStay /\ recorded' \in [Events -> Maybe]
  BY <1>2 DEF Inv, Shape, RecordsStay, store
<1>12. \A c \in commits' : c \in commits \/ AnswerFits(c)'
  BY <1>7, <1>9
<1>13. reasoner' = [reasoner EXCEPT ![r] = p]
  BY <1>2
<1> HIDE DEF p
<1> QED
  BY <1>2, <1>10, <1>11, <1>12, <1>13, OneMoves DEF store
-----------------------------------------------------------------------------
(***************************************************************************)
(* The commit                                                              *)
(***************************************************************************)
\* What the memory holds after one more decision.
LEMMA OneMore ==
    ASSUME Inv, NEW n, n = Len(decisions), NEW row \in Decisions, decisions' = Append(decisions, row)
    PROVE  /\ n \in Nat /\ DOMAIN decisions = 1 .. n
           /\ Len(decisions') = n + 1 /\ DOMAIN decisions' = 1 .. n + 1
           /\ decisions' \in Seq(Decisions) /\ decisions'[n + 1] = row
           /\ \A v \in 1 .. n : decisions'[v] = decisions[v] /\ decisions[v] \in Decisions
           /\ \A v \in 0 .. n + 1 : \A t \in Events : RevisionsFound(decisions', v, t)
           /\ \A v \in 0 .. n : \A t \in Events : ThesisAt(v, t)' = ThesisAt(v, t)
           /\ \A t \in Events :
                ThesisAt(n + 1, t)' = IF t \in DOMAIN row.changes THEN row.changes[t] ELSE ThesisAt(n, t)
<1>1. decisions \in Seq(Decisions)
  BY DEF Inv, Shape
<1>2. /\ n \in Nat /\ DOMAIN decisions = 1 .. n
      /\ Len(decisions') = n + 1 /\ DOMAIN decisions' = 1 .. n + 1
      /\ decisions' \in Seq(Decisions) /\ decisions'[n + 1] = row
      /\ \A v \in 1 .. n : decisions'[v] = decisions[v] /\ decisions[v] \in Decisions
  BY <1>1
<1>3. \A v \in 0 .. n : \A t \in Events : RevisionsFound(decisions, v, t)
  BY DEF Inv, DecisionsFit, RevisionsAreFound, RevisionsFound
<1>4. ASSUME NEW v \in 0 .. n, NEW t \in Events
      PROVE  RevisionsFound(decisions', v, t) /\ ThesisAt(v, t)' = ThesisAt(v, t)
  <2>1. RevisionsFound(decisions', v, t) /\ ThesisIn(decisions', v, t) = ThesisIn(decisions, v, t)
    BY <1>1, <1>3, AppendKeeps
  <2> QED
    BY <2>1, ThesisAtIsThesisIn
<1>5. ASSUME NEW t \in Events
      PROVE  /\ RevisionsFound(decisions', n + 1, t)
             /\ ThesisAt(n + 1, t)' = IF t \in DOMAIN row.changes THEN row.changes[t] ELSE ThesisAt(n, t)
  <2>1. RevisionsFound(decisions, n, t)
    BY <1>2, <1>3
  <2>2. /\ RevisionsFound(decisions', n + 1, t)
        /\ ThesisIn(decisions', n + 1, t)
             = IF t \in DOMAIN row.changes THEN row.changes[t] ELSE ThesisIn(decisions, n, t)
    BY <1>1, <2>1, AppendAdds
  <2>3. PICK m : m = n + 1
    OBVIOUS
  <2>4. ThesisAt(m, t)' = ThesisIn(decisions', m, t) /\ ThesisAt(n, t) = ThesisIn(decisions, n, t)
    BY ThesisAtIsThesisIn
  <2> QED
    BY <2>2, <2>3, <2>4
<1>6. \A v \in 0 .. n + 1 : v \in 0 .. n \/ v = n + 1
  BY <1>2
<1> QED
  BY <1>2, <1>4, <1>5, <1>6

\* Times are numbers.
LEMMA TimesOf ==
    ASSUME NEW d \in Decisions
    PROVE  d.started \in Nat /\ d.completed \in Nat /\ d.committedAt \in Nat
<1>1. d.started \in Times /\ d.completed \in Times /\ d.committedAt \in Times
  BY DEF Decisions
<1> QED
  BY <1>1, Bounds

\* The version of a time does not count what was committed after it.
LEMMA VersionStays ==
    ASSUME Inv, NEW row \in Decisions, decisions' = Append(decisions, row),
           NEW m \in Int, m < row.committedAt
    PROVE  VersionAt(m)' = VersionAt(m)
<1>1. PICK n : n = Len(decisions)
  OBVIOUS
<1>2. /\ n \in Nat /\ DOMAIN decisions = 1 .. n /\ DOMAIN decisions' = 1 .. n + 1
      /\ decisions'[n + 1] = row /\ \A v \in 1 .. n : decisions'[v] = decisions[v]
  BY <1>1, OneMore
<1>4. row.committedAt \in Nat
  BY TimesOf
<1>5. {v \in DOMAIN decisions' : decisions'[v].committedAt <= m}
       = {v \in DOMAIN decisions : decisions[v].committedAt <= m}
  <2>1. ~(row.committedAt <= m)
    BY <1>4
  <2>2. \A v \in 1 .. n + 1 : v \in 1 .. n \/ v = n + 1
    BY <1>2
  <2>3. \A v : v \in 1 .. n => v \in 1 .. n + 1
    BY <1>2
  <2>4. ASSUME NEW v
        PROVE  (v \in DOMAIN decisions' /\ decisions'[v].committedAt <= m)
                 <=> (v \in DOMAIN decisions /\ decisions[v].committedAt <= m)
    BY <1>2, <2>1, <2>2, <2>3
  <2> QED
    BY <2>4
<1> QED
  BY <1>5 DEF VersionAt

\* A decision that the store accepts, and the row it becomes.
RowOf(d, row) ==
    /\ row \in Decisions
    /\ row.event = d.event /\ row.base = d.base /\ row.started = d.started
    /\ row.completed = d.completed /\ row.changes = d.changes /\ row.target = d.target
    /\ row.committedAt = clock

LEMMA AcceptedRow ==
    ASSUME Inv, NEW d \in commits, Commit(d), Accepted(d)
    PROVE  \E row : RowOf(d, row) /\ decisions' = Append(decisions, row)
<1>1. PICK row : row = [event |-> d.event, base |-> d.base, started |-> d.started,
                        completed |-> d.completed, changes |-> d.changes,
                        target |-> d.target, committedAt |-> clock]
  OBVIOUS
<1>2. AnswerFits(d) /\ clock \in Times /\ Len(decisions) \in Nat
  BY DEF Inv, Shape
<1>3. d.base \in Nat
  BY <1>2 DEF AnswerFits
<1>4. row \in Decisions
  BY <1>1, <1>2, <1>3 DEF AnswerFits, Decisions
<1>5. RowOf(d, row)
  BY <1>1, <1>4 DEF RowOf
<1>6. decisions' = Append(decisions, row)
  BY <1>1 DEF Commit
<1> QED
  BY <1>5, <1>6

\* An accepted decision begins after all that was committed before it.
LEMMA RowIsLast ==
    ASSUME Inv, NEW d \in commits, Accepted(d), NEW row, RowOf(d, row)
    PROVE  /\ row.base = Len(decisions)
           /\ row.started < row.completed /\ row.completed <= row.committedAt
           /\ \A u \in DOMAIN decisions : /\ decisions[u].committedAt <= row.started
                                        /\ decisions[u].started <= row.started
<1>1. PICK n : n = Len(decisions)
  OBVIOUS
<1>2. n \in Nat /\ DOMAIN decisions = 1 .. n /\ \A v \in 1 .. n : decisions[v] \in Decisions
  BY <1>1 DEF Inv, Shape
<1>3. row.base = n /\ row.started < row.completed /\ row.completed <= row.committedAt
  BY <1>1 DEF Accepted, BuiltOnLatest, InTime, RowOf, Inv, AnswerFits
<1>4. ASSUME NEW u \in 1 .. n
      PROVE  decisions[u].committedAt <= row.started /\ decisions[u].started <= row.started
  <2>1. decisions # <<>> /\ n \in 1 .. n
    BY <1>1, <1>2, <1>4
  <2>2. decisions[n].committedAt <= row.started
    BY <1>1, <2>1 DEF Accepted, InOrder, RowOf
  <2>3. /\ decisions[n].started < decisions[n].completed /\ decisions[n].completed <= decisions[n].committedAt
        /\ decisions[u].started < decisions[u].completed /\ decisions[u].completed <= decisions[u].committedAt
        /\ u < n => decisions[u].committedAt <= decisions[n].started
    BY <1>2, <2>1 DEF Inv, DecisionsFit, TimesAreOrdered
  <2>4. /\ decisions[u].started \in Nat /\ decisions[u].completed \in Nat /\ decisions[u].committedAt \in Nat
        /\ decisions[n].started \in Nat /\ decisions[n].completed \in Nat /\ decisions[n].committedAt \in Nat
        /\ row.started \in Nat
    BY <1>2, <2>1, TimesOf DEF RowOf
  <2>5. u < n \/ u = n
    BY <1>2
  <2>6. decisions[u].committedAt <= decisions[n].committedAt
    BY <2>3, <2>4, <2>5
  <2> QED
    BY <2>2, <2>3, <2>4, <2>6
<1> QED
  BY <1>1, <1>2, <1>3, <1>4
LEMMA InvAccepted ==
    ASSUME Inv, NEW d \in commits, Commit(d), Accepted(d)
    PROVE  DecisionsFit'
<1>1. PICK row : RowOf(d, row) /\ decisions' = Append(decisions, row)
  BY AcceptedRow
<1>2. PICK n : n = Len(decisions)
  OBVIOUS
<1>3. row \in Decisions
  BY <1>1 DEF RowOf
<1>4. /\ n \in Nat /\ DOMAIN decisions = 1 .. n /\ Len(decisions') = n + 1 /\ DOMAIN decisions' = 1 .. n + 1
      /\ decisions'[n + 1] = row
      /\ \A v \in 1 .. n : decisions'[v] = decisions[v] /\ decisions[v] \in Decisions
  BY <1>1, <1>2, <1>3, OneMore
<1>5. /\ \A v \in 0 .. n + 1 : \A t \in Events : RevisionsFound(decisions', v, t)
      /\ \A v \in 0 .. n : \A t \in Events : ThesisAt(v, t)' = ThesisAt(v, t)
      /\ \A t \in Events :
           ThesisAt(n + 1, t)' = IF t \in DOMAIN row.changes THEN row.changes[t] ELSE ThesisAt(n, t)
  BY <1>1, <1>2, <1>3, OneMore
<1>6. /\ row.base = n /\ row.started < row.completed /\ row.completed <= row.committedAt
      /\ \A u \in 1 .. n : decisions[u].committedAt <= row.started /\ decisions[u].started <= row.started
  BY <1>1, <1>2, <1>4, RowIsLast
<1>7. \A v \in 1 .. n + 1 : v \in 1 .. n \/ v = n + 1
  BY <1>4
<1>8. AnswerFits(d) /\ DOMAIN row.changes \subseteq Events /\ \A t \in DOMAIN row.changes : row.changes[t] \in Revisions
  BY <1>1, ChangedType DEF Inv, AnswerFits, RowOf
<1>9. row.started \in Nat /\ row.completed \in Nat /\ row.committedAt \in Nat
  BY <1>3, TimesOf
<1>10. TimesAreOrdered'
  <2>1. \A v \in 1 .. n : \A u \in 1 .. n : u < v => decisions[u].committedAt <= decisions[v].started
    BY <1>4 DEF Inv, DecisionsFit, TimesAreOrdered
  <2>2. \A v \in 1 .. n : decisions[v].started < decisions[v].completed /\ decisions[v].completed <= decisions[v].committedAt
    BY <1>4 DEF Inv, DecisionsFit, TimesAreOrdered
  <2>3. ASSUME NEW v \in 1 .. n + 1
        PROVE  /\ decisions'[v].started < decisions'[v].completed
               /\ decisions'[v].completed <= decisions'[v].committedAt
    BY <1>4, <1>6, <1>7, <2>2
  <2>4. ASSUME NEW v \in 1 .. n + 1, NEW u \in 1 .. n + 1, u < v
        PROVE  decisions'[u].committedAt <= decisions'[v].started
    <3>1. u \in 1 .. n
      BY <1>4, <2>4
    <3> QED
      BY <1>4, <1>6, <1>7, <2>1, <2>4, <3>1
  <2> QED
    BY <1>4, <2>3, <2>4 DEF TimesAreOrdered
<1>11. RevisionsAreFound'
  <2>1. ASSUME NEW t \in DOMAIN row.changes PROVE row.changes[t].revision > 0
    <3>1. row.changes[t].revision = ThesisAt(n, t).revision + 1
      BY <1>1, <1>2 DEF Accepted, RevisionFits, RowOf
    <3>2. n \in 0 .. Len(decisions) /\ t \in Events
      BY <1>2, <1>4, <1>8
    <3>3. ThesisAt(n, t).revision \in Nat
      BY <3>2, ThesisType DEF Inv, DecisionsFit
    <3> QED
      BY <3>1, <3>3
  <2>2. \A v \in 1 .. n : \A t \in DOMAIN decisions[v].changes : decisions[v].changes[t].revision > 0
    BY <1>4 DEF Inv, DecisionsFit, RevisionsAreFound
  <2>3. \A v \in 1 .. n + 1 : \A t \in DOMAIN decisions'[v].changes : decisions'[v].changes[t].revision > 0
    BY <1>4, <1>7, <2>1, <2>2
  <2> QED
    BY <1>4, <1>5, <2>3 DEF RevisionsAreFound, RevisionsFound
<1>12. HistoryIsReproducible'
  <2>1. ASSUME NEW v \in 1 .. n PROVE decisions'[v].base = v - 1 /\ VersionAt(decisions[v].started)' = v - 1
    <3>1. decisions[v].base = v - 1 /\ VersionAt(decisions[v].started) = v - 1
      BY <1>4 DEF Inv, DecisionsFit, HistoryIsReproducible
    <3>2. PICK m : m = decisions[v].started
      OBVIOUS
    <3>3. m \in Nat
      BY <1>4, <3>2, TimesOf
    <3>4. m \in Int /\ m < row.committedAt
      BY <1>6, <1>9, <3>2, <3>3
    <3>5. VersionAt(m)' = VersionAt(m)
      BY <1>1, <1>3, <3>4, VersionStays
    <3>6. decisions'[v] = decisions[v]
      BY <1>4
    <3> QED
      BY <3>1, <3>2, <3>5, <3>6
  <2>2. PICK m : m = row.started
    OBVIOUS
  <2>3. VersionAt(m)' = n
    <3>1. {v \in DOMAIN decisions' : decisions'[v].committedAt <= m} = 1 .. n
      <4>1. \A v \in 1 .. n : decisions'[v].committedAt <= m
        BY <1>4, <1>6, <2>2
      <4>2. ~(decisions'[n + 1].committedAt <= m)
        BY <1>4, <1>6, <1>9, <2>2
      <4>3. \A v \in 1 .. n : v \in 1 .. n + 1
        BY <1>4
      <4> QED
        BY <1>4, <1>7, <4>1, <4>2, <4>3
    <3>2. 1 \in Int /\ n \in Int
      BY <1>4
    <3>3. Cardinality(1 .. n) = IF 1 > n THEN 0 ELSE n - 1 + 1
      BY <3>2, FS_Interval
    <3>4. Cardinality(1 .. n) = n
      BY <1>4, <3>3
    <3> QED
      BY <3>1, <3>4 DEF VersionAt
  <2> SUFFICES ASSUME NEW v \in 1 .. n + 1
               PROVE  decisions'[v].base = v - 1 /\ VersionAt(decisions[v].started)' = v - 1
    BY <1>4 DEF HistoryIsReproducible
  <2>5. CASE v \in 1 .. n
    BY <2>1, <2>5
  <2>6. CASE v = n + 1
    <3>1. decisions'[v] = row /\ row.base = n /\ decisions'[v].started = m
      BY <1>4, <1>6, <2>2, <2>6
    <3>2. VersionAt(decisions[v].started)' = VersionAt(m)'
      BY <3>1 DEF VersionAt
    <3>3. v - 1 = n
      BY <1>4, <2>6
    <3> QED
      BY <2>3, <3>1, <3>2, <3>3
  <2> QED
    BY <1>7, <2>5, <2>6
<1>13. NoHindsight'
  <2> DEFINE Seen(e, m) == recorded'[e] # Never /\ recorded'[e] <= m /\ received'[e] <= m
  <2>0. recorded' = recorded /\ received' = received
    BY DEF Commit, time
  <2>1. ASSUME NEW v \in 1 .. n, NEW t \in Events, NEW e \in ThesisAt(v, t).evidence
        PROVE  Seen(e, decisions[v].started) /\ e \in Events
    <3>1. v \in DOMAIN decisions /\ v \in 0 .. Len(decisions)
      BY <1>2, <1>4
    <3>2. e \in Events
      BY <3>1, ThesisType DEF Inv, DecisionsFit
    <3> QED
      BY <2>0, <3>1, <3>2 DEF Inv, DecisionsFit, NoHindsight
  <2>2. ASSUME NEW t \in Events, NEW e \in ThesisAt(n, t).evidence
        PROVE  Seen(e, row.started)
    <3>1. CASE n = 0
      <4>1. Revising(decisions, n, t) = {}
        BY <3>1 DEF Revising
      <4>2. ThesisAt(n, t) = NoThesis
        BY <4>1, NoRevision, ThesisAtIsThesisIn
      <4> QED
        BY <2>2, <4>2 DEF NoThesis
    <3>2. CASE n # 0
      <4>1. n \in 1 .. n /\ decisions[n] \in Decisions
        BY <1>4, <3>2
      <4>2. Seen(e, decisions[n].started) /\ e \in Events /\ decisions[n].started <= row.started
        BY <1>6, <2>1, <2>2, <4>1
      <4>3. decisions[n].started \in Nat
        BY <4>1, TimesOf
      <4>4. recorded[e] \in Int /\ received[e] \in Int
        <5>1. recorded[e] \in Maybe /\ received[e] \in Nat
          BY <4>2, Bounds DEF Inv, Shape
        <5>2. recorded[e] \in Nat \/ recorded[e] = -1
          BY <5>1, Bounds DEF Maybe, Never
        <5> QED
          BY <5>1, <5>2
      <4> QED
        BY <1>9, <2>0, <4>2, <4>3, <4>4
    <3> QED
      BY <3>1, <3>2
  <2>3. ASSUME NEW t \in DOMAIN row.changes, NEW e \in row.changes[t].evidence
        PROVE  Seen(e, row.started)
    BY <1>1, <2>0, <2>3 DEF Accepted, RevisionFits, Available, RowOf
  <2>4. ASSUME NEW v \in 1 .. n + 1, NEW t \in Events, NEW e \in ThesisAt(v, t).evidence'
        PROVE  Seen(e, decisions'[v].started)
    <3>1. CASE v \in 1 .. n
      <4>1. v \in 0 .. n
        BY <1>4, <3>1
      <4>2. ThesisAt(v, t)' = ThesisAt(v, t) /\ decisions'[v] = decisions[v]
        BY <1>4, <1>5, <3>1, <4>1
      <4> QED
        BY <2>1, <2>4, <3>1, <4>2
    <3>2. CASE v = n + 1
      <4>1. e \in (IF t \in DOMAIN row.changes THEN row.changes[t] ELSE ThesisAt(n, t)).evidence
        <5>1. ThesisAt(v, t)' = IF t \in DOMAIN row.changes THEN row.changes[t] ELSE ThesisAt(n, t)
          BY <1>5, <3>2
        <5> QED
          BY <2>4, <5>1
      <4>2. Seen(e, row.started)
        BY <2>2, <2>3, <4>1
      <4> QED
        BY <1>4, <3>2, <4>2
    <3> QED
      BY <1>7, <3>1, <3>2
  <2> QED
    BY <1>4, <2>4 DEF NoHindsight
<1>14. TargetsRestOnLiveTheses'
  <2> DEFINE Rests(v, t) == ThesisAt(v, t).active /\ decisions[v].completed < ThesisAt(v, t).updatedAt + Horizon
  <2>1. ASSUME NEW v \in 1 .. n, NEW t \in decisions[v].target
        PROVE  Rests(v, t)'
    <3>1. Rests(v, t)
      BY <1>4, <2>1 DEF Inv, DecisionsFit, TargetsRestOnLiveTheses
    <3>2. v \in 0 .. n /\ t \in Events
      BY <1>4, <2>1 DEF Decisions
    <3>3. ThesisAt(v, t)' = ThesisAt(v, t) /\ decisions'[v] = decisions[v]
      BY <1>4, <1>5, <2>1, <3>2
    <3> QED
      BY <3>1, <3>3
  <2>2. ASSUME NEW t \in row.target
        PROVE  Rests(n + 1, t)'
    <3>1. t \in Events
      BY <1>3 DEF Decisions
    <3>2. Live(IF t \in DOMAIN row.changes THEN row.changes[t] ELSE ThesisAt(n, t), row.completed)
      BY <1>1, <1>2, <2>2 DEF Accepted, TargetFits, RowOf
    <3>3. PICK x : x = IF t \in DOMAIN row.changes THEN row.changes[t] ELSE ThesisAt(n, t)
      OBVIOUS
    <3>4. x.updatedAt \in Int
      <4>1. CASE t \in DOMAIN row.changes
        <5>1. x.updatedAt \in Times
          BY <1>8, <3>3, <4>1 DEF Revisions
        <5>2. x.updatedAt \in Nat
          BY <5>1, Bounds
        <5> QED
          BY <5>2
      <4>2. CASE t \notin DOMAIN row.changes
        <5>1. n \in 0 .. Len(decisions)
          BY <1>2, <1>4
        <5> QED
          BY <3>1, <3>3, <4>2, <5>1, ThesisType DEF Inv, DecisionsFit
      <4> QED
        BY <4>1, <4>2
    <3>5. x.active /\ row.completed < x.updatedAt + Horizon
      BY <1>9, <3>2, <3>3, <3>4, Bounds DEF Live
    <3>6. ThesisAt(n + 1, t)' = x /\ decisions'[n + 1] = row
      BY <1>4, <1>5, <3>1, <3>3
    <3> QED
      BY <3>5, <3>6
  <2>3. ASSUME NEW v \in 1 .. n + 1, NEW t \in decisions'[v].target
        PROVE  Rests(v, t)'
    BY <1>4, <1>7, <2>1, <2>2, <2>3
  <2> QED
    BY <1>4, <2>3 DEF TargetsRestOnLiveTheses
<1> QED
  BY <1>10, <1>11, <1>12, <1>13, <1>14 DEF DecisionsFit
LEMMA InvCommit ==
    ASSUME Inv, NEW d \in commits, Commit(d)
    PROVE  Inv'
<1>1. /\ commits' = commits \ {d} /\ UNCHANGED <<time, recorded, calls>>
      /\ reasoner' = [r \in Reasoners |-> IF reasoner[r].call = d.id THEN Resting ELSE reasoner[r]]
  BY DEF Commit
<1>2. /\ decisions \in Seq(Decisions) /\ reasoner \in [Reasoners -> Places]
      /\ calls \in Nat /\ Len(decisions) \in Nat
  BY Bounds DEF Inv, Shape
<1>3. \A r \in Reasoners : reasoner'[r] = Resting \/ reasoner'[r] = reasoner[r]
  BY <1>1
<1>4. reasoner' \in [Reasoners -> Places]
  BY <1>1, <1>2, RestingIsPlace
\* What the store becomes.
<1>5. /\ DecisionsFit' /\ decisions' \in Seq(Decisions) /\ Len(decisions) <= Len(decisions')
      /\ \A v \in 0 .. Len(decisions) : \A t \in Events : ThesisAt(v, t)' = ThesisAt(v, t)
  <2>1. CASE Accepted(d)
    <3>1. DecisionsFit'
      BY <2>1, InvAccepted
    <3>2. PICK row : row \in Decisions /\ decisions' = Append(decisions, row)
      BY <2>1, AcceptedRow DEF RowOf
    <3>3. PICK n : n = Len(decisions)
      OBVIOUS
    <3>4. /\ decisions' \in Seq(Decisions) /\ Len(decisions') = n + 1
          /\ \A v \in 0 .. n : \A t \in Events : ThesisAt(v, t)' = ThesisAt(v, t)
      BY <3>2, <3>3, OneMore
    <3> QED
      BY <1>2, <3>1, <3>3, <3>4
  <2>2. CASE ~Accepted(d)
    <3>1. decisions' = decisions /\ received' = received /\ RecordsStay
      BY <1>1, <2>2 DEF Commit, time, RecordsStay
    <3> QED
      BY <1>2, <3>1, MemoryStays
  <2> QED
    BY <2>1, <2>2
<1>6. Shape'
  BY <1>1, <1>4, <1>5 DEF Inv, Shape, time
<1>7. ASSUME NEW c \in commits' PROVE AnswerFits(c)'
  <2>1. AnswerFits(c)
    BY <1>1 DEF Inv
  <2>2. c.base \in 0 .. Len(decisions') /\ c.base \in 0 .. Len(decisions)
    BY <1>2, <1>5, <1>6, <2>1 DEF AnswerFits, Shape
  <2>3. \A t \in DOMAIN c.changes : t \in Events
    BY <2>1, ChangedType DEF AnswerFits
  <2>4. \A t \in DOMAIN c.changes : ThesisAt(c.base, t)' = ThesisAt(c.base, t)
    BY <1>5, <2>2, <2>3
  <2>5. \A t \in DOMAIN c.changes :
          /\ t = c.event \/ ThesisAt(c.base, t)'.revision > 0
          /\ c.changes[t].evidence = ThesisAt(c.base, t)'.evidence \cup {c.event}
    BY <2>1, <2>4 DEF AnswerFits
  <2> QED
    BY <1>1, <2>1, <2>2, <2>5 DEF AnswerFits
<1>8. ASSUME NEW r \in Reasoners PROVE ReasonerFits(r)'
  <2>1. CASE reasoner'[r] = Resting
    <3>1. reasoner'[r].pc = "idle" /\ reasoner'[r].call = 0
      BY <2>1, RestingIsPlace
    <3>2. reasoner'[r].call <= calls'
      BY <1>1, <1>2, <3>1
    <3> QED
      BY <3>1, <3>2 DEF ReasonerFits, At
  <2>2. CASE reasoner'[r] = reasoner[r]
    <3>1. ReasonerFits(r) /\ reasoner[r].base \in Nat
      BY <1>2 DEF Inv, Places
    <3>2. reasoner[r].base <= Len(decisions) => reasoner[r].base <= Len(decisions')
      BY <1>2, <1>5, <1>6, <3>1 DEF Shape
    <3>3. ASSUME At(r, "thinking"), NEW q \in Reasoners \ {r}
          PROVE  reasoner'[q].call # reasoner[r].call
      <4>1. reasoner[q].call # reasoner[r].call /\ reasoner[r].call > 0
        BY <3>1, <3>3 DEF ReasonerFits
      <4>2. reasoner'[q].call = 0 \/ reasoner'[q].call = reasoner[q].call
        BY <1>3, RestingIsPlace
      <4> QED
        BY <4>1, <4>2
    <3> QED
      BY <1>1, <2>2, <3>1, <3>2, <3>3 DEF ReasonerFits, At
  <2> QED
    BY <1>3, <2>1, <2>2
<1> QED
  BY <1>5, <1>6, <1>7, <1>8 DEF Inv
-----------------------------------------------------------------------------
(***************************************************************************)
(* The memory is causal                                                    *)
(***************************************************************************)
LEMMA InvInit == Init => Inv
<1> SUFFICES ASSUME Init PROVE Inv
  OBVIOUS
<1>1. decisions = <<>> /\ DOMAIN decisions = {} /\ Len(decisions) = 0 /\ commits = {}
  BY DEF Init
<1>2. Shape
  <2>1. clock \in Times /\ steps \in 0 .. MaxSteps /\ calls \in 0 .. MaxCalls
    BY Bounds DEF Init, Times
  <2>2. received \in [Events -> Arrivals] /\ recorded \in [Events -> Maybe]
    BY DEF Init, Maybe
  <2>3. decisions \in Seq(Decisions)
    BY <1>1
  <2>4. reasoner \in [Reasoners -> Places]
    BY RestingIsPlace DEF Init
  <2> QED
    BY <2>1, <2>2, <2>3, <2>4 DEF Shape
<1>3. TimesAreOrdered /\ HistoryIsReproducible /\ NoHindsight /\ TargetsRestOnLiveTheses
  BY <1>1 DEF TimesAreOrdered, HistoryIsReproducible, NoHindsight, TargetsRestOnLiveTheses
<1>4. RevisionsAreFound
  BY <1>1 DEF RevisionsAreFound, Revising
<1>5. ASSUME NEW r \in Reasoners PROVE ReasonerFits(r)
  <2>1. reasoner[r] = Resting /\ calls = 0
    BY DEF Init
  <2>2. reasoner[r].pc = "idle" /\ reasoner[r].call = 0
    BY <2>1, RestingIsPlace
  <2>3. reasoner[r].call <= calls
    BY <2>1, <2>2
  <2> QED
    BY <2>2, <2>3 DEF ReasonerFits, At
<1> QED
  BY <1>1, <1>2, <1>3, <1>4, <1>5 DEF Inv, DecisionsFit

LEMMA InvNext == Inv /\ [Next]_vars => Inv'
<1> SUFFICES ASSUME Inv, [Next]_vars PROVE Inv'
  OBVIOUS
<1>1. CASE \E r \in Reasoners, e \in Events : Record(r, e)
  BY <1>1, InvRecord
<1>2. CASE \E r \in Reasoners : Look(r) \/ Snapshot(r) \/ Call(r) \/ Answer(r) \/ GiveUp(r)
  BY <1>2, InvLook, InvSnapshot, InvCall, InvAnswer, InvGiveUp
<1>3. CASE \E d \in commits : Commit(d)
  BY <1>3, InvCommit
<1>4. CASE Crash
  BY <1>4, InvCrash
<1>5. CASE Tick \/ ClockStepsBack
  BY <1>5, InvTime
<1>6. CASE UNCHANGED vars
  <2>1. UNCHANGED <<clock, steps, received, recorded, decisions, reasoner, commits, calls>>
    BY <1>6 DEF vars
  <2>2. RecordsStay /\ calls \in Nat /\ calls <= calls
    BY <2>1, Bounds DEF Inv, Shape, RecordsStay
  <2>3. DecisionsFit' /\ \A d \in commits : AnswerFits(d)'
    BY <2>1, <2>2, MemoryStays
  <2>4. Shape' /\ \A r \in Reasoners : ReasonerFits(r)'
    BY <2>1 DEF Inv, Shape, ReasonerFits, At
  <2> QED
    BY <2>1, <2>3, <2>4 DEF Inv
<1> QED
  BY <1>1, <1>2, <1>3, <1>4, <1>5, <1>6 DEF Next

\* The shape of the invariant is the type the runs check.
LEMMA InvTyped == Inv => TypeOK
<1> SUFFICES ASSUME Inv PROVE TypeOK
  OBVIOUS
<1>1. \A c \in Changed : IsChanges(c)
  BY ChangedType DEF IsChanges
<1>2. ASSUME NEW v \in DOMAIN decisions
      PROVE  /\ decisions[v].event \in Events /\ decisions[v].base \in Nat /\ decisions[v].target \subseteq Events
             /\ {decisions[v].started, decisions[v].completed, decisions[v].committedAt} \subseteq Times
             /\ IsChanges(decisions[v].changes)
  <2>1. decisions[v] \in Decisions
    BY DEF Inv, Shape
  <2> QED
    BY <1>1, <2>1 DEF Decisions
<1>3. \A d \in commits : d.id \in 1 .. calls /\ IsChanges(d.changes) /\ d.target \subseteq Events
  BY <1>1 DEF Inv, AnswerFits
<1>4. ASSUME NEW r \in Reasoners
      PROVE  /\ reasoner[r].pc \in {"idle", "recorded", "looked", "read", "thinking", "committing"}
             /\ reasoner[r].pc = "thinking" =>
                  \A q \in Reasoners \ {r} : reasoner[q].call # reasoner[r].call
  <2>1. reasoner[r] \in Places /\ ReasonerFits(r)
    BY DEF Inv, Shape
  <2> QED
    BY <2>1 DEF Places, ReasonerFits, At
<1>5. /\ clock \in Times /\ steps \in 0 .. MaxSteps /\ calls \in 0 .. MaxCalls
      /\ received \in [Events -> Arrivals] /\ recorded \in [Events -> Times \cup {Never}]
  BY DEF Inv, Shape, Maybe
<1> QED
  BY <1>2, <1>3, <1>4, <1>5 DEF TypeOK

\* Whatever reasoners run at once, however late their answers come and whenever they or
\* the process are gone: a committed decision can be explained from what the store had
\* when its reasoning began, rests on no event that was stored later, and asks only for
\* positions on theses that are live in the memory it leaves (sqlite_memory.py: _commit).
THEOREM MemoryStaysCausal == Spec => []MemoryIsCausal
<1>1. Inv => MemoryIsCausal
  BY InvTyped DEF Inv, DecisionsFit, MemoryIsCausal
<1> QED
  BY <1>1, InvInit, InvNext, PTL DEF Spec
-----------------------------------------------------------------------------
(***************************************************************************)
(* The memory is a thesis log                                              *)
(***************************************************************************)
\* What the memory is, seen as a log.
DecidedEvents == [v \in DOMAIN decisions |-> decisions[v].event]
EvidenceOf == [t \in Events |-> ThesisAt(Len(decisions), t).evidence]
RevisionOf == [t \in Events |-> ThesisAt(Len(decisions), t).revision]

\* The events decided are a sequence, which an append prolongs by one.
LEMMA DecidedSequence ==
    ASSUME NEW ds \in Seq(Decisions)
    PROVE  /\ [v \in DOMAIN ds |-> ds[v].event] \in Seq(Events)
           /\ Len([v \in DOMAIN ds |-> ds[v].event]) = Len(ds)
           /\ \A row \in Decisions :
                [v \in DOMAIN Append(ds, row) |-> Append(ds, row)[v].event]
                  = Append([v \in DOMAIN ds |-> ds[v].event], row.event)
<1> DEFINE f == [v \in DOMAIN ds |-> ds[v].event]
<1>1. PICK n : n = Len(ds)
  OBVIOUS
<1>2. n \in Nat /\ DOMAIN ds = 1 .. n /\ \A v \in 1 .. n : ds[v] \in Decisions
  BY <1>1
<1>3. f \in [1 .. n -> Events]
  BY <1>2 DEF Decisions
<1>4. f \in Seq(Events) /\ Len(f) = n
  BY <1>2, <1>3
<1>5. ASSUME NEW row \in Decisions
      PROVE  [v \in DOMAIN Append(ds, row) |-> Append(ds, row)[v].event] = Append(f, row.event)
  <2> DEFINE es == Append(ds, row)
             g == [v \in DOMAIN es |-> es[v].event]
  <2>1. DOMAIN es = 1 .. n + 1 /\ es[n + 1] = row /\ \A v \in 1 .. n : es[v] = ds[v]
    BY <1>1, <1>2
  <2>2. row.event \in Events
    BY DEF Decisions
  <2>3. /\ Append(f, row.event) \in Seq(Events) /\ Len(Append(f, row.event)) = n + 1
        /\ Append(f, row.event)[n + 1] = row.event
        /\ \A v \in 1 .. n : Append(f, row.event)[v] = f[v]
    <3> HIDE DEF f
    <3> QED
      BY <1>2, <1>4, <2>2
  <2>4. \A v \in 1 .. n : f[v] = ds[v].event
    BY <1>2
  <2> DEFINE h == Append(f, row.event)
  <2>5. DOMAIN h = 1 .. n + 1 /\ h = [v \in 1 .. n + 1 |-> h[v]]
    <3> HIDE DEF h
    <3> QED
      BY <1>2, <2>3 DEF h
  <2> HIDE DEF f, es, h
  <2>6. ASSUME NEW v \in 1 .. n + 1 PROVE es[v].event = h[v]
    <3>1. v \in 1 .. n \/ v = n + 1
      BY <1>2
    <3> QED
      BY <2>1, <2>3, <2>4, <3>1 DEF h
  <2>7. g = [v \in 1 .. n + 1 |-> h[v]]
    BY <2>1, <2>6
  <2> QED
    BY <2>5, <2>7 DEF es, h, f
<1> QED
  BY <1>1, <1>4, <1>5

\* An accepted commit is a decision of the log.
LEMMA CommitDecides ==
    ASSUME Inv, NEW d \in commits, Commit(d), Accepted(d)
    PROVE  Log!Decide(d.event) /\ d.event \in Events
<1>1. PICK row : RowOf(d, row) /\ decisions' = Append(decisions, row)
  BY AcceptedRow
<1>2. PICK n : n = Len(decisions)
  OBVIOUS
<1>3. row \in Decisions /\ row.event = d.event /\ row.changes = d.changes /\ decisions \in Seq(Decisions)
  BY <1>1 DEF RowOf, Inv, Shape
<1>4. /\ n \in Nat /\ DOMAIN decisions = 1 .. n /\ Len(decisions') = n + 1
      /\ \A t \in Events :
           ThesisAt(n + 1, t)' = IF t \in DOMAIN row.changes THEN row.changes[t] ELSE ThesisAt(n, t)
  BY <1>1, <1>2, <1>3, OneMore
<1>5. AnswerFits(d) /\ d.base = n /\ DOMAIN d.changes \subseteq Events
  BY <1>2, ChangedType DEF Inv, AnswerFits, Accepted, BuiltOnLatest
<1>6. d.event \in Events
  BY <1>5 DEF AnswerFits
<1>7. ~Log!Contains(DecidedEvents, d.event)
  <2>1. \A v \in 1 .. n : decisions[v].event # d.event
    BY <1>4 DEF Accepted, FirstForEvent, Decided
  <2>2. Len(DecidedEvents) = n
    BY <1>2, <1>3, DecidedSequence DEF DecidedEvents
  <2>3. \A v \in 1 .. n : DecidedEvents[v] = decisions[v].event
    BY <1>4 DEF DecidedEvents
  <2> QED
    BY <2>1, <2>2, <2>3 DEF Log!Contains
<1>8. DecidedEvents' = Append(DecidedEvents, d.event)
  BY <1>1, <1>3, DecidedSequence DEF DecidedEvents
<1>9. ASSUME NEW t \in Events
      PROVE  /\ EvidenceOf[t] = ThesisAt(n, t).evidence /\ RevisionOf[t] = ThesisAt(n, t).revision
             /\ EvidenceOf'[t] = ThesisAt(n + 1, t)'.evidence /\ RevisionOf'[t] = ThesisAt(n + 1, t)'.revision
  <2>1. ThesisAt(Len(decisions), t)' = ThesisIn(decisions', n + 1, t)
    BY <1>4, ThesisAtIsThesisIn DEF ThesisAt, ThesisIn
  <2>2. ThesisAt(n + 1, t)' = ThesisIn(decisions', n + 1, t)
    BY DEF ThesisAt, ThesisIn
  <2> QED
    BY <1>2, <2>1, <2>2 DEF EvidenceOf, RevisionOf
<1>10. ASSUME NEW t \in DOMAIN d.changes
       PROVE  /\ t = d.event \/ RevisionOf[t] > 0
              /\ EvidenceOf'[t] = EvidenceOf[t] \cup {d.event}
              /\ RevisionOf'[t] = RevisionOf[t] + 1
  <2>1. t \in Events /\ ThesisAt(n + 1, t)' = d.changes[t]
    BY <1>3, <1>4, <1>5
  <2>2. /\ t = d.event \/ ThesisAt(n, t).revision > 0
        /\ d.changes[t].evidence = ThesisAt(n, t).evidence \cup {d.event}
    BY <1>5 DEF AnswerFits
  <2>3. d.changes[t].revision = ThesisAt(n, t).revision + 1
    BY <1>2 DEF Accepted, RevisionFits
  <2> QED
    BY <1>9, <2>1, <2>2, <2>3
<1>11. ASSUME NEW t \in Events, t \notin DOMAIN d.changes
       PROVE  EvidenceOf'[t] = EvidenceOf[t] /\ RevisionOf'[t] = RevisionOf[t]
  BY <1>3, <1>4, <1>9, <1>11
<1> DEFINE changed == DOMAIN d.changes
<1>12. changed \in SUBSET ({d.event} \cup {t \in Events : Log!Known(t)})
  BY <1>5, <1>10 DEF Log!Known, RevisionOf
<1>13. EvidenceOf' = [t \in Events |-> IF t \in changed THEN EvidenceOf[t] \cup {d.event} ELSE EvidenceOf[t]]
  <2>1. \A t \in Events : EvidenceOf'[t] = IF t \in changed THEN EvidenceOf[t] \cup {d.event} ELSE EvidenceOf[t]
    BY <1>10, <1>11
  <2>2. EvidenceOf' = [t \in Events |-> EvidenceOf'[t]]
    BY DEF EvidenceOf
  <2> HIDE DEF changed
  <2> QED
    BY <2>1, <2>2
<1>14. RevisionOf' = [t \in Events |-> IF t \in changed THEN RevisionOf[t] + 1 ELSE RevisionOf[t]]
  <2>1. \A t \in Events : RevisionOf'[t] = IF t \in changed THEN RevisionOf[t] + 1 ELSE RevisionOf[t]
    BY <1>10, <1>11
  <2>2. RevisionOf' = [t \in Events |-> RevisionOf'[t]]
    BY DEF RevisionOf
  <2> HIDE DEF changed
  <2> QED
    BY <2>1, <2>2
<1> HIDE DEF changed
<1> QED
  BY <1>6, <1>7, <1>8, <1>12, <1>13, <1>14 DEF Log!Decide, DecidedEvents, EvidenceOf, RevisionOf

\* Every other step leaves the log as it is.
LEMMA StepOfLog ==
    Inv /\ [Next]_vars => [Log!Next]_<<DecidedEvents, EvidenceOf, RevisionOf>>
<1> SUFFICES ASSUME Inv, [Next]_vars
             PROVE  Log!Next \/ UNCHANGED <<DecidedEvents, EvidenceOf, RevisionOf>>
  OBVIOUS
<1>1. ASSUME decisions' = decisions PROVE UNCHANGED <<DecidedEvents, EvidenceOf, RevisionOf>>
  BY <1>1 DEF DecidedEvents, EvidenceOf, RevisionOf, ThesisAt
<1>2. CASE \E d \in commits : Commit(d) /\ Accepted(d)
  BY <1>2, CommitDecides DEF Log!Next
<1>3. CASE ~\E d \in commits : Commit(d) /\ Accepted(d)
  <2>1. decisions' = decisions
    BY <1>3 DEF Next, Record, Look, Snapshot, Call, Answer, GiveUp, Commit, Crash, Tick, ClockStepsBack,
                store, vars
  <2> QED
    BY <1>1, <2>1
<1> QED
  BY <1>2, <1>3

LEMMA InitOfLog == Init => Log!Init
<1> SUFFICES ASSUME Init PROVE Log!Init
  OBVIOUS
<1>1. decisions = <<>> /\ DOMAIN decisions = {} /\ Len(decisions) = 0
  BY DEF Init
<1>2. \A t \in Events : ThesisAt(Len(decisions), t) = NoThesis
  BY <1>1, NoRevision, ThesisAtIsThesisIn DEF Revising
<1>3. DecidedEvents = <<>>
  BY <1>1 DEF DecidedEvents
<1>4. EvidenceOf = [t \in Events |-> {}] /\ RevisionOf = [t \in Events |-> 0]
  BY <1>2 DEF EvidenceOf, RevisionOf, NoThesis
<1> QED
  BY <1>3, <1>4 DEF Log!Init, DecidedEvents, EvidenceOf, RevisionOf

\* Concurrent reasoners, abandoned commits and crashes leave a memory that one careful
\* reasoner could have written: every accepted commit is a decision of ThesisLog, every
\* other step leaves it as it is (sqlite_memory.py: _commit, the checks in order).
THEOREM MemoryImplementsLog == Spec => IsThesisLog
<1>1. Inv /\ [Next]_vars => [Log!Next]_<<DecidedEvents, EvidenceOf, RevisionOf>>
  BY StepOfLog
<1> QED
  BY <1>1, InitOfLog, InvInit, InvNext, PTL
     DEF Spec, IsThesisLog, Log!Spec, DecidedEvents, EvidenceOf, RevisionOf
=============================================================================
