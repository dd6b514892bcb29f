------------------------ MODULE PaidInferenceProofs ------------------------
(***************************************************************************)
(* What pays for inference beside the runner pays once: the watcher of the *)
(* Fed's feed and the series of research episodes, each for every number   *)
(* of processes, items or episodes, starts, crashes and failures.          *)
(***************************************************************************)
EXTENDS FedInbox, SeriesJournal, FiniteSetTheorems, TLAPS
-----------------------------------------------------------------------------
(***************************************************************************)
(* The watcher of the feed.  The inductive invariant has two parts.  One   *)
(* is about what is stored: how the inbox, the memory and the bill go      *)
(* together.  The other is what a process relies on between its            *)
(* transactions, about the item in its hands and those it has left: nobody *)
(* else writes while it has the lock.                                      *)
(***************************************************************************)
Statuses == {"none", "baseline", "pending", "processed", "quarantined"}
Hands == {"article", "record", "mark", "reject"}
Pcs == {"off", "idle", "fetch", "sort", "items", "reason", "call", "answered", "bad", "done"} \cup Hands
Places == [pc : Pcs, todo : SUBSET Items, item : Items \cup {None}, posted : Nat,
           reason : BOOLEAN, watch : BOOLEAN]

Shape ==
    /\ feed \subseteq Items /\ recorded \subseteq Items /\ decided \subseteq Items /\ baseline \subseteq Items
    /\ inbox \in [Items -> Statuses] /\ ready \in BOOLEAN
    /\ lock \in Watchers \cup {None}
    /\ watcher \in [Watchers -> Places]
    /\ paid \in [Items -> Nat] /\ unanswered \in [Items -> Nat] /\ lost \in [Items -> Nat]
    /\ starts \in Nat /\ crashes \in Nat /\ faults \in Nat

\* The inbox and the memory agree.
StoresAgree ==
    \A i \in Items :
      /\ inbox[i] = "pending" => i \in recorded
      /\ inbox[i] = "processed" => i \in decided
      /\ i \in decided => i \in recorded /\ inbox[i] \in {"pending", "processed", "quarantined"}
      /\ i \in Spoofed => inbox[i] \in {"none", "quarantined"} /\ i \notin recorded

\* Nothing is taken in before the inbox is set up, and what it was set up with stays out.
HistoryIsOut ==
    /\ ~ready => /\ baseline = {} /\ recorded = {}
                 /\ \A i \in Items : inbox[i] \in {"none", "quarantined"} /\ paid[i] = 0
                                     /\ (inbox[i] = "quarantined" => i \in Spoofed)
    /\ \A i \in baseline : inbox[i] = "baseline" /\ i \notin recorded /\ paid[i] = 0

\* The requests that n calls may make.
Allowed(n) == n * (1 + ClientRetries)

LEMMA AllowedGrows ==
    ASSUME NEW n \in Nat
    PROVE  Allowed(n) \in Nat /\ Allowed(0) = 0 /\ Allowed(1 + n) = Allowed(n) + 1 + ClientRetries
BY InboxAssumption, SMT DEF Allowed

\* The item that whoever holds the lock has made a request for, in a call not yet used.
InHand(i) == lock # None /\ Billed(lock) /\ Item(lock) = i

\* Every request was left without an answer, or is one of a process that ended.
PaidBefore(i) == paid[i] <= lost[i] + unanswered[i] /\ paid[i] <= Allowed(lost[i])

\* A request that was answered is accounted for by a process that ended, by what
\* was made of it, or by whoever has it in hand; so are the requests of a call.
BillIsRight ==
    \A i \in Items :
      /\ paid[i] <= 1 + lost[i] + unanswered[i] /\ paid[i] <= Allowed(1 + lost[i])
      /\ PaidBefore(i) \/ i \in decided \/ inbox[i] = "quarantined" \/ InHand(i)

\* A call has made no more requests than it may, and none before it is left to be used.
CallFits(w) ==
    LET i == Item(w) IN
    /\ watcher[w].posted <= ClientRetries
    /\ paid[i] <= lost[i] + unanswered[i]
    /\ paid[i] <= Allowed(lost[i]) + watcher[w].posted

\* What a process relies on at each of its steps.
WatcherFits(w) ==
    /\ ~At(w, "off") /\ ~At(w, "idle") => lock = w
    /\ watcher[w].pc \notin {"off", "idle", "fetch", "sort"} => ready
    /\ watcher[w].pc \in Hands \cup {"items"} => watcher[w].todo \cap Spoofed = {}
    /\ watcher[w].pc \in Hands => Item(w) \in Items \ Spoofed /\ inbox[Item(w)] = "none"
    /\ At(w, "mark") => Item(w) \in recorded
    /\ At(w, "reason") => watcher[w].todo \subseteq Waiting
    /\ watcher[w].pc \in {"call", "answered", "bad", "done"} =>
         /\ watcher[w].todo \subseteq Waiting \ {Item(w)}
         /\ Item(w) \in Waiting
         /\ Item(w) \in decided <=> At(w, "done")
    /\ At(w, "call") => CallFits(w)

\* The inductive invariant.
Inv ==
    /\ Shape /\ StoresAgree /\ HistoryIsOut /\ BillIsRight
    /\ \A w \in Watchers : WatcherFits(w)
-----------------------------------------------------------------------------
(***************************************************************************)
(* Where a step leaves the processes                                       *)
(***************************************************************************)
\* All processes but w are where they were.
OnlyMoves(w) ==
    /\ watcher' \in [Watchers -> Places]
    /\ \A v \in Watchers : v # w => watcher'[v] = watcher[v]

LEMMA GoesTo ==
    ASSUME Shape, NEW w \in Watchers, NEW pc \in Pcs, Goes(w, pc)
    PROVE  /\ OnlyMoves(w)
           /\ watcher'[w].pc = pc /\ watcher'[w].todo = watcher[w].todo /\ watcher'[w].item = watcher[w].item
           /\ watcher'[w].posted = watcher[w].posted
<1>1. watcher[w] \in Places /\ watcher' = [watcher EXCEPT ![w].pc = pc]
  BY DEF Shape, Goes
<1>2. watcher' = [watcher EXCEPT ![w] = [watcher[w] EXCEPT !.pc = pc]]
  BY <1>1 DEF Shape
<1>3. [watcher[w] EXCEPT !.pc = pc] \in Places
  BY <1>1 DEF Places
<1> QED
  BY <1>1, <1>2, <1>3 DEF Shape, OnlyMoves, Places

LEMMA TakesTo ==
    ASSUME Shape, NEW w \in Watchers, NEW pc \in Pcs, NEW i \in Items, Takes(w, i, pc)
    PROVE  /\ OnlyMoves(w)
           /\ watcher'[w].pc = pc /\ watcher'[w].todo = watcher[w].todo \ {i} /\ watcher'[w].item = i
           /\ watcher'[w].posted = 0
<1> DEFINE p1 == [watcher[w] EXCEPT !.pc = pc]
           p2 == [p1 EXCEPT !.item = i]
           p3 == [p2 EXCEPT !.posted = 0]
           p4 == [p3 EXCEPT !.todo = @ \ {i}]
<1>1. watcher[w] \in Places
      /\ watcher' = [watcher EXCEPT ![w].pc = pc, ![w].item = i, ![w].posted = 0,
                                ![w].todo = @ \ {i}]
  BY DEF Shape, Takes
<1>2. watcher' = [watcher EXCEPT ![w] = p4]
  BY <1>1 DEF Shape
<1>3. p1 \in Places /\ p1.pc = pc /\ p1.todo = watcher[w].todo
  BY <1>1 DEF Places
<1> HIDE DEF p1
<1>4. p2 \in Places /\ p2.pc = pc /\ p2.todo = watcher[w].todo /\ p2.item = i
  BY <1>3 DEF Places
<1> HIDE DEF p2
<1>5. p3 \in Places /\ p3.pc = pc /\ p3.todo = watcher[w].todo /\ p3.item = i /\ p3.posted = 0
  BY <1>4 DEF Places
<1> HIDE DEF p3
<1>6. p3.todo \ {i} \in SUBSET Items
  BY <1>5 DEF Places
<1>7. p4 \in Places
  BY <1>5, <1>6 DEF Places
<1>8. p4.pc = pc /\ p4.todo = watcher[w].todo \ {i} /\ p4.item = i /\ p4.posted = 0
  BY <1>5 DEF Places
<1> HIDE DEF p4
<1> QED
  BY <1>2, <1>7, <1>8 DEF Shape, OnlyMoves

\* A process takes over a list of items.
LEMMA ListTo ==
    ASSUME Shape, NEW w \in Watchers, NEW pc \in Pcs, NEW S \in SUBSET Items,
           watcher' = [watcher EXCEPT ![w].pc = pc, ![w].todo = S]
    PROVE  OnlyMoves(w) /\ watcher'[w].pc = pc /\ watcher'[w].todo = S
<1> DEFINE p1 == [watcher[w] EXCEPT !.pc = pc]
           p2 == [p1 EXCEPT !.todo = S]
<1>1. watcher[w] \in Places /\ watcher' = [watcher EXCEPT ![w] = p2]
  BY DEF Shape
<1>2. p1 \in Places /\ p1.pc = pc
  BY <1>1 DEF Places
<1> HIDE DEF p1
<1>3. p2 \in Places
  BY <1>2 DEF Places
<1>4. p2.pc = pc /\ p2.todo = S
  BY <1>2 DEF Places
<1> HIDE DEF p2
<1> QED
  BY <1>1, <1>3, <1>4 DEF Shape, OnlyMoves

LEMMA OffIsPlace == Off \in Places /\ Off.pc = "off"
BY DEF Off, Places, Pcs

LEMMA FinishesTo ==
    ASSUME Shape, NEW w \in Watchers, Finishes(w)
    PROVE  OnlyMoves(w) /\ watcher'[w].pc \in {"off", "idle"} /\ lock' = Released(w)
<1> DEFINE p1 == [watcher[w] EXCEPT !.pc = "idle"]
           p2 == [p1 EXCEPT !.todo = {}]
           p3 == [p2 EXCEPT !.item = None]
           p == IF watcher[w].watch THEN p3 ELSE Off
<1>1. watcher[w] \in Places /\ watcher' = [watcher EXCEPT ![w] = p]
  BY DEF Shape, Finishes
<1>2. p1 \in Places /\ p1.pc = "idle"
  BY <1>1 DEF Places, Pcs
<1> HIDE DEF p1
<1>3. p2 \in Places /\ p2.pc = "idle"
  BY <1>2 DEF Places
<1> HIDE DEF p2
<1>4. p3 \in Places /\ p3.pc = "idle"
  BY <1>3 DEF Places
<1> HIDE DEF p3
<1>5. p \in Places /\ p.pc \in {"off", "idle"}
  BY <1>4, OffIsPlace
<1> HIDE DEF p
<1> QED
  BY <1>1, <1>5 DEF Shape, OnlyMoves, Finishes
-----------------------------------------------------------------------------
(***************************************************************************)
(* Who else is at work                                                     *)
(***************************************************************************)
\* Nobody is at work beside the holder of the lock.
LEMMA HolderIsAlone ==
    ASSUME Inv, NEW w \in Watchers, watcher[w].pc \notin {"off", "idle"}
    PROVE  lock = w /\ w # None /\ \A v \in Watchers : v # w => watcher[v].pc \in {"off", "idle"}
BY InboxAssumption DEF Inv, WatcherFits, At

\* Who is off or idle relies on nothing.
LEMMA IdleFits ==
    ASSUME NEW v \in Watchers, watcher'[v].pc \in {"off", "idle"}
    PROVE  WatcherFits(v)'
BY DEF WatcherFits, At, Hands

\* A step of the holder of the lock has only itself and what is stored to answer for.
LEMMA HolderSteps ==
    ASSUME Inv, NEW w \in Watchers, watcher[w].pc \notin {"off", "idle"}, OnlyMoves(w),
           Shape', StoresAgree', HistoryIsOut', BillIsRight', WatcherFits(w)'
    PROVE  Inv'
<1>1. \A v \in Watchers : v # w => watcher'[v].pc \in {"off", "idle"}
  BY HolderIsAlone DEF OnlyMoves
<1>2. \A v \in Watchers : v # w => WatcherFits(v)'
  BY <1>1, IdleFits
<1> QED
  BY <1>2 DEF Inv

\* A step that stores nothing, of a process that has no request to answer for.
LEMMA PlainSteps ==
    ASSUME Inv, NEW w \in Watchers, OnlyMoves(w), ~Billed(w),
           feed' \subseteq Items, UNCHANGED data, lock' \in Watchers \cup {None},
           lock # None /\ lock # w => lock' = lock,
           starts' \in Nat, crashes' \in Nat, faults' \in Nat,
           WatcherFits(w)'
    PROVE  Inv'
<1>1. Shape /\ StoresAgree /\ HistoryIsOut /\ BillIsRight
  BY DEF Inv
<1>2. Shape' /\ StoresAgree' /\ HistoryIsOut'
  BY <1>1 DEF Shape, StoresAgree, HistoryIsOut, data, bill, OnlyMoves
<1>3. BillIsRight'
  <2>1. \A i : InHand(i) => InHand(i)'
    BY <1>1 DEF InHand, Item, At, Billed, OnlyMoves, Shape
  <2> QED
    BY <1>1, <2>1 DEF BillIsRight, PaidBefore, data, bill
<1>4. ASSUME NEW v \in Watchers, v # w PROVE WatcherFits(v)'
  <2>1. WatcherFits(v) /\ watcher'[v] = watcher[v]
    BY <1>4 DEF Inv, OnlyMoves
  <2>2. ~At(v, "off") /\ ~At(v, "idle") => lock' = v
    BY <1>4, <2>1, InboxAssumption DEF WatcherFits
  <2> QED
    BY <2>1, <2>2 DEF WatcherFits, CallFits, data, bill, At, Item, Waiting
<1> QED
  BY <1>2, <1>3, <1>4 DEF Inv
-----------------------------------------------------------------------------
(***************************************************************************)
(* The steps that store nothing                                            *)
(***************************************************************************)
LEMMA InvAnnounces ==
    ASSUME Inv, Announces
    PROVE  Inv'
<1>1. feed' \subseteq Items /\ UNCHANGED <<data, lock, watcher, bounds>>
  BY DEF Announces, Inv, Shape
<1>2. Shape' /\ StoresAgree' /\ HistoryIsOut' /\ BillIsRight'
  BY <1>1 DEF Inv, Shape, StoresAgree, HistoryIsOut, BillIsRight, PaidBefore, InHand, Item, At, Billed, data, bill, bounds
<1>3. \A v \in Watchers : WatcherFits(v)'
  BY <1>1 DEF Inv, WatcherFits, CallFits, At, Item, Waiting, data, bill
<1> QED
  BY <1>2, <1>3 DEF Inv

\* A poll that is over, or that failed.
LEMMA InvFinishes ==
    ASSUME Inv, NEW w \in Watchers, Finishes(w), UNCHANGED <<feed, data>>,
           watcher[w].pc \notin {"off", "idle", "call", "answered", "bad"},
           starts' \in Nat, crashes' \in Nat, faults' \in Nat
    PROVE  Inv'
<1>1. OnlyMoves(w) /\ watcher'[w].pc \in {"off", "idle"} /\ lock' = Released(w)
  BY FinishesTo DEF Inv
<1>2. WatcherFits(w)'
  BY <1>1, IdleFits
<1>3. lock' \in Watchers \cup {None} /\ (lock # None /\ lock # w => lock' = lock) /\ feed' \subseteq Items
  BY <1>1 DEF Released, Inv, Shape
<1>4. ~Billed(w)
  BY DEF Billed, At
<1> QED
  BY <1>1, <1>2, <1>3, <1>4, PlainSteps

\* A process starts, polls, reads the feed or finds an article.
LEMMA InvReads ==
    ASSUME Inv, NEW w \in Watchers,
           Start(w) \/ Poll(w) \/ FetchFeed(w) \/ TakesIn(w) \/ FetchArticle(w) \/ ArticleFails(w)
    PROVE  Inv'
<1>0. Shape /\ WatcherFits(w) /\ UNCHANGED data /\ feed' \subseteq Items
  BY DEF Inv, Shape, Start, Poll, FetchFeed, TakesIn, FetchArticle, ArticleFails
<1>1. starts' \in Nat /\ crashes' \in Nat /\ faults' \in Nat
  <2>1. starts \in Nat /\ crashes \in Nat /\ faults \in Nat
    BY <1>0 DEF Shape
  <2>2. \/ UNCHANGED bounds
        \/ starts' = starts + 1 /\ UNCHANGED <<crashes, faults>>
        \/ faults' = faults + 1 /\ UNCHANGED <<starts, crashes>>
    BY DEF Start, Poll, FetchFeed, TakesIn, FetchArticle, ArticleFails, Fault
  <2> QED
    BY <2>1, <2>2 DEF bounds
<1>2. /\ ~Billed(w)
      /\ lock' \in Watchers \cup {None}
      /\ lock # None /\ lock # w => lock' = lock
  BY <1>0 DEF Shape, Start, Poll, FetchFeed, TakesIn, FetchArticle, ArticleFails, Billed, At, Sorted, LockFree
<1> SUFFICES OnlyMoves(w) /\ WatcherFits(w)'
  BY <1>0, <1>1, <1>2, PlainSteps
<1>3. CASE Start(w)
  <2>1. PICK reason \in BOOLEAN, watch \in BOOLEAN :
          watcher' = [watcher EXCEPT ![w] = [Off EXCEPT !.pc = "idle", !.reason = reason, !.watch = watch]]
    BY <1>3 DEF Start
  <2> DEFINE p1 == [Off EXCEPT !.pc = "idle"]
             p2 == [p1 EXCEPT !.reason = reason]
             p3 == [p2 EXCEPT !.watch = watch]
  <2>2. p1 \in Places /\ p1.pc = "idle"
    BY OffIsPlace DEF Places, Pcs
  <2>3. watcher' = [watcher EXCEPT ![w] = p3]
    BY <2>1
  <2> HIDE DEF p1
  <2>4. p2 \in Places /\ p2.pc = "idle"
    BY <2>2 DEF Places
  <2> HIDE DEF p2
  <2>5. p3 \in Places /\ p3.pc = "idle"
    BY <2>4 DEF Places
  <2> HIDE DEF p3
  <2>6. OnlyMoves(w) /\ watcher'[w].pc = "idle"
    BY <1>0, <2>3, <2>5 DEF Shape, OnlyMoves
  <2> QED
    BY <2>6, IdleFits
<1>4. CASE Poll(w)
  <2>1. CASE LockFree
    <3>1. Goes(w, "fetch") /\ lock' = w
      BY <1>4, <2>1 DEF Poll
    <3>2. OnlyMoves(w) /\ watcher'[w].pc = "fetch"
      BY <1>0, <3>1, GoesTo DEF Pcs
    <3> QED
      BY <3>1, <3>2 DEF WatcherFits, Hands, At
  <2>2. CASE ~LockFree
    <3>1. watcher' = [watcher EXCEPT ![w] = Off]
      BY <1>4, <2>2 DEF Poll
    <3>2. OnlyMoves(w) /\ watcher'[w].pc = "off"
      BY <1>0, <3>1, OffIsPlace DEF Shape, OnlyMoves
    <3> QED
      BY <3>2, IdleFits
  <2> QED
    BY <2>1, <2>2
<1>5. CASE FetchFeed(w)
  <2>1. watcher' = [watcher EXCEPT ![w].pc = "sort", ![w].todo = feed] /\ lock' = lock /\ At(w, "fetch")
    BY <1>5 DEF FetchFeed
  <2>2. OnlyMoves(w) /\ watcher'[w].pc = "sort"
    BY <1>0, <2>1, ListTo, ZenonT(40) DEF Pcs, Shape
  <2> QED
    BY <1>0, <2>1, <2>2 DEF WatcherFits, Hands, At
<1>6. CASE TakesIn(w)
  <2>1. Goes(w, "items") /\ Sorted(w) /\ ready /\ lock' = lock
    BY <1>6 DEF TakesIn
  <2>2. OnlyMoves(w) /\ watcher'[w].pc = "items" /\ watcher'[w].todo = watcher[w].todo
    BY <1>0, <2>1, GoesTo DEF Pcs
  <2> QED
    BY <1>0, <2>1, <2>2 DEF WatcherFits, Hands, At, Sorted, data, bill
<1>7. CASE FetchArticle(w)
  <2>1. PICK pc \in {"record", "reject"} : Goes(w, pc)
    BY <1>7 DEF FetchArticle
  <2>2. At(w, "article") /\ lock' = lock
    BY <1>7 DEF FetchArticle
  <2>3. OnlyMoves(w) /\ watcher'[w].pc = pc /\ watcher'[w].todo = watcher[w].todo
        /\ watcher'[w].item = watcher[w].item
    BY <1>0, <2>1, GoesTo DEF Pcs, Hands
  <2> QED
    BY <1>0, <2>2, <2>3 DEF WatcherFits, Hands, At, Item, data, bill
<1>8. CASE ArticleFails(w)
  <2>1. Goes(w, "items") /\ At(w, "article") /\ lock' = lock
    BY <1>8 DEF ArticleFails
  <2>2. OnlyMoves(w) /\ watcher'[w].pc = "items" /\ watcher'[w].todo = watcher[w].todo
    BY <1>0, <2>1, GoesTo DEF Pcs
  <2> QED
    BY <1>0, <2>1, <2>2 DEF WatcherFits, Hands, At, data, bill
<1> QED
  BY <1>3, <1>4, <1>5, <1>6, <1>7, <1>8

\* A process takes up the next item, or what waits.
LEMMA InvTakesUp ==
    ASSUME Inv, NEW w \in Watchers, Looks(w) \/ Asks(w) \/ AllTaken(w)
    PROVE  Inv'
<1>0. Shape /\ WatcherFits(w) /\ StoresAgree /\ UNCHANGED <<feed, data, bounds>> /\ feed' \subseteq Items
  BY DEF Inv, Shape, Looks, Asks, AllTaken
<1>1. starts' \in Nat /\ crashes' \in Nat /\ faults' \in Nat
  BY <1>0 DEF Shape, bounds
<1>2. watcher[w].pc \in {"items", "reason"} /\ watcher[w].todo \subseteq Items /\ ~Billed(w)
  BY <1>0 DEF Looks, Asks, AllTaken, Billed, At, Shape, Places
<1>3. CASE Looks(w)
  <2>1. PICK i \in watcher[w].todo : Takes(w, i, IF Seen(i) THEN "items" ELSE WayOf(i))
    BY <1>3 DEF Looks
  <2> DEFINE pc == IF Seen(i) THEN "items" ELSE WayOf(i)
  <2>2. /\ i \in Items \ Spoofed /\ At(w, "items") /\ lock' = lock /\ ready
        /\ watcher[w].todo \cap Spoofed = {} /\ lock = w
    BY <1>0, <1>2, <1>3 DEF Looks, WatcherFits, At, Hands
  <2>3. /\ pc \in {"items", "mark", "article"} /\ (pc # "items" => inbox[i] = "none")
        /\ (pc = "mark" => i \in recorded)
    BY DEF WayOf, Seen
  <2> HIDE DEF pc
  <2>4. OnlyMoves(w) /\ watcher'[w].pc = pc /\ watcher'[w].todo = watcher[w].todo \ {i}
        /\ watcher'[w].item = i
    BY <1>0, <2>1, <2>2, <2>3, TakesTo DEF Pcs, Hands, pc
  <2>5. WatcherFits(w)'
    BY <1>0, <2>2, <2>3, <2>4 DEF WatcherFits, Hands, At, Item, data, bill
  <2> QED
    BY <1>0, <1>1, <1>2, <2>2, <2>4, <2>5, PlainSteps DEF Shape
<1>4. CASE Asks(w)
  <2>1. PICK i \in watcher[w].todo : Takes(w, i, IF Known(i) THEN "done" ELSE "call")
    BY <1>4 DEF Asks
  <2> DEFINE pc == IF Known(i) THEN "done" ELSE "call"
  <2>2. /\ i \in Items /\ At(w, "reason") /\ lock' = lock /\ lock = w /\ ready
        /\ watcher[w].todo \subseteq Waiting
    BY <1>0, <1>2, <1>4 DEF Asks, WatcherFits, At
  <2>3. pc \in {"call", "done"} /\ (pc = "done" <=> i \in decided)
    BY DEF Known
  <2> HIDE DEF pc
  <2>4. OnlyMoves(w) /\ watcher'[w].pc = pc /\ watcher'[w].todo = watcher[w].todo \ {i}
        /\ watcher'[w].item = i /\ watcher'[w].posted = 0
    BY <1>0, <2>1, <2>2, <2>3, TakesTo DEF Pcs, pc
  <2>5. pc = "call" => CallFits(w)'
    <3>1. ~InHand(i) /\ inbox[i] = "pending" /\ paid[i] \in Nat /\ lost[i] \in Nat
      BY <1>0, <1>2, <2>2 DEF InHand, Waiting, Shape
    <3>2. pc = "call" => PaidBefore(i)
      BY <2>2, <2>3, <3>1 DEF Inv, BillIsRight
    <3>3. Allowed(lost[i]) \in Nat /\ ClientRetries >= 0
      BY <3>1, AllowedGrows, InboxAssumption
    <3> QED
      BY <1>0, <2>4, <3>1, <3>2, <3>3 DEF CallFits, PaidBefore, Item, data, bill
  <2>6. WatcherFits(w)'
    BY <1>0, <2>2, <2>3, <2>4, <2>5 DEF WatcherFits, Hands, At, Item, data, Waiting
  <2> QED
    BY <1>0, <1>1, <1>2, <2>2, <2>4, <2>6, PlainSteps DEF Shape
<1>5. CASE AllTaken(w)
  <2>1. CASE ~watcher[w].reason
    BY <1>0, <1>1, <1>2, <1>5, <2>1, InvFinishes DEF AllTaken
  <2>2. CASE watcher[w].reason
    <3>1. watcher' = [watcher EXCEPT ![w].pc = "reason", ![w].todo = Waiting] /\ lock' = lock /\ At(w, "items")
      BY <1>5, <2>2 DEF AllTaken
    <3>2. OnlyMoves(w) /\ watcher'[w].pc = "reason" /\ watcher'[w].todo = Waiting
      <4>1. Waiting \in SUBSET Items /\ "reason" \in Pcs
        BY DEF Waiting, Pcs
      <4> QED
        BY <1>0, <3>1, <4>1, ListTo
    <3>3. WatcherFits(w)'
      BY <1>0, <3>1, <3>2 DEF WatcherFits, Hands, At, data, bill, Waiting
    <3> QED
      BY <1>0, <1>1, <1>2, <3>1, <3>2, <3>3, PlainSteps DEF Shape
  <2> QED
    BY <2>1, <2>2
<1> QED
  BY <1>3, <1>4, <1>5
-----------------------------------------------------------------------------
(***************************************************************************)
(* The steps of the holder of the lock that store something                *)
(***************************************************************************)
\* An announcement that is not the Fed's is put aside.
LEMMA InvRejects ==
    ASSUME Inv, NEW w \in Watchers, Rejects(w)
    PROVE  Inv'
<1>0. Shape /\ StoresAgree /\ HistoryIsOut /\ BillIsRight /\ WatcherFits(w) /\ At(w, "sort") /\ lock = w
  BY DEF Inv, Rejects, WatcherFits, At
<1>1. PICK i \in watcher[w].todo \cap Spoofed : Takes(w, i, "sort") /\ Marked(i, "quarantined")
  BY DEF Rejects, bill
<1>2. UNCHANGED <<feed, ready, recorded, decided, paid, unanswered, lost, baseline, lock, bounds>> /\ i \in Items
  BY InboxAssumption DEF Rejects, bill
<1>3. OnlyMoves(w) /\ watcher'[w].pc = "sort"
  BY <1>0, <1>1, <1>2, TakesTo DEF Pcs
<1>4. /\ inbox' \in [Items -> Statuses] /\ inbox'[i] = "quarantined"
      /\ \A j \in Items : j # i => inbox'[j] = inbox[j]
      /\ inbox[i] \in {"none", "quarantined"} /\ i \notin recorded /\ i \in Spoofed
  BY <1>0, <1>1, <1>2 DEF Marked, Shape, Statuses, StoresAgree
<1>5. Shape'
  BY <1>0, <1>2, <1>3, <1>4 DEF Shape, OnlyMoves, bounds
<1>6. StoresAgree'
  BY <1>0, <1>2, <1>4 DEF StoresAgree
<1>7. HistoryIsOut'
  <2>1. i \notin baseline
    BY <1>0, <1>4 DEF HistoryIsOut
  <2> QED
    BY <1>0, <1>2, <1>4, <2>1 DEF HistoryIsOut, Shape
<1>8. BillIsRight'
  <2>1. \A j : ~InHand(j)
    BY <1>0 DEF InHand, Item, Billed, At
  <2> QED
    BY <1>0, <1>2, <1>4, <2>1 DEF BillIsRight, PaidBefore
<1>9. WatcherFits(w)'
  BY <1>0, <1>2, <1>3 DEF WatcherFits, At, Hands
<1> QED
  BY <1>0, <1>3, <1>5, <1>6, <1>7, <1>8, <1>9, HolderSteps DEF At

\* The inbox is set up with what the feed announces: none of it is the watcher's.
LEMMA InvBootstraps ==
    ASSUME Inv, NEW w \in Watchers, Bootstraps(w)
    PROVE  Inv'
<1>0. Shape /\ StoresAgree /\ HistoryIsOut /\ BillIsRight /\ WatcherFits(w) /\ At(w, "sort") /\ lock = w
  BY DEF Inv, Bootstraps, Sorted, WatcherFits, At
<1> DEFINE S == watcher[w].todo
<1>1. /\ ~ready /\ ready' = TRUE /\ baseline' = S /\ inbox' = Baselined(w)
      /\ S \cap Spoofed = {} /\ S \subseteq Items
      /\ Finishes(w) /\ UNCHANGED <<feed, recorded, decided, paid, unanswered, lost, bounds>>
  BY <1>0 DEF Bootstraps, Sorted, Shape, Places, bill
<1>2. OnlyMoves(w) /\ watcher'[w].pc \in {"off", "idle"} /\ lock' = None
  BY <1>0, <1>1, FinishesTo DEF Released
<1>3. /\ inbox' \in [Items -> Statuses]
      /\ \A i \in Items : inbox'[i] = IF i \in S /\ inbox[i] = "none" THEN "baseline" ELSE inbox[i]
  BY <1>0, <1>1 DEF Baselined, Shape, Statuses
<1>4. /\ recorded = {} /\ decided = {}
      /\ \A i \in Items : inbox[i] \in {"none", "quarantined"} /\ paid[i] = 0
                          /\ (inbox[i] = "quarantined" => i \in Spoofed)
  BY <1>0, <1>1 DEF HistoryIsOut, StoresAgree, Shape
<1>5. Shape'
  BY <1>0, <1>1, <1>2, <1>3 DEF Shape, OnlyMoves, bounds
<1>6. StoresAgree'
  BY <1>0, <1>1, <1>3, <1>4 DEF StoresAgree
<1>7. HistoryIsOut'
  BY <1>0, <1>1, <1>3, <1>4 DEF HistoryIsOut
<1>8. BillIsRight'
  <2>1. ASSUME NEW i \in Items
        PROVE  /\ paid[i] = 0 /\ 0 <= lost[i] + unanswered[i] /\ 0 <= 1 + lost[i] + unanswered[i]
               /\ 0 <= Allowed(lost[i]) /\ 0 <= Allowed(1 + lost[i])
    <3>1. lost[i] \in Nat /\ unanswered[i] \in Nat /\ 1 + lost[i] \in Nat
      BY <1>0 DEF Shape
    <3>2. Allowed(lost[i]) \in Nat /\ Allowed(1 + lost[i]) \in Nat
      BY <3>1, AllowedGrows
    <3> QED
      BY <1>4, <3>1, <3>2
  <2> QED
    BY <1>1, <2>1 DEF BillIsRight, PaidBefore
<1>9. WatcherFits(w)'
  BY <1>2, IdleFits
<1> QED
  BY <1>0, <1>2, <1>5, <1>6, <1>7, <1>8, <1>9, HolderSteps DEF At

\* A statement is recorded.
LEMMA InvRecords ==
    ASSUME Inv, NEW w \in Watchers, Records(w)
    PROVE  Inv'
<1>0. Shape /\ StoresAgree /\ HistoryIsOut /\ BillIsRight /\ WatcherFits(w) /\ At(w, "record") /\ lock = w
  BY DEF Inv, Records, WatcherFits, At
<1>1. PICK i \in Items \ Spoofed : i = Item(w) /\ inbox[i] = "none" /\ ready
  BY <1>0 DEF WatcherFits, At, Hands
<1>2. UNCHANGED <<feed, inbox, ready, decided, paid, unanswered, lost, baseline, lock, bounds>>
  BY DEF Records, bill
<1>3. \/ i \in recorded /\ Goes(w, "reject") /\ recorded' = recorded
      \/ Goes(w, "mark") /\ recorded' = recorded \cup {i}
  BY <1>1 DEF Records
<1>4. /\ OnlyMoves(w) /\ watcher'[w].pc \in {"reject", "mark"}
      /\ watcher'[w].todo = watcher[w].todo /\ watcher'[w].item = watcher[w].item
      /\ watcher'[w].pc = "mark" => i \in recorded'
      /\ recorded' \in {recorded, recorded \cup {i}}
  BY <1>0, <1>3, GoesTo DEF Pcs, Hands
<1>5. Shape'
  BY <1>0, <1>2, <1>4 DEF Shape, OnlyMoves, bounds
<1>6. StoresAgree'
  BY <1>0, <1>1, <1>2, <1>4 DEF StoresAgree
<1>7. HistoryIsOut'
  BY <1>0, <1>1, <1>2, <1>4 DEF HistoryIsOut
<1>8. BillIsRight'
  <2>1. \A j : ~InHand(j)
    BY <1>0 DEF InHand, Item, Billed, At
  <2> QED
    BY <1>0, <1>2, <2>1 DEF BillIsRight, PaidBefore
<1>9. WatcherFits(w)'
  BY <1>0, <1>1, <1>2, <1>4 DEF WatcherFits, At, Hands, Item
<1> QED
  BY <1>0, <1>4, <1>5, <1>6, <1>7, <1>8, <1>9, HolderSteps DEF At

\* The row of the item in hand is marked, which is not yet settled.
LEMMA InvMarks ==
    ASSUME Inv, NEW w \in Watchers, Marks(w)
    PROVE  Inv'
<1>0. Shape /\ StoresAgree /\ HistoryIsOut /\ BillIsRight /\ WatcherFits(w) /\ lock = w
      /\ watcher[w].pc \in {"mark", "reject", "done", "bad"}
  BY DEF Inv, Marks, WatcherFits, At
<1>1. UNCHANGED <<feed, ready, recorded, decided, paid, unanswered, lost, baseline, lock, bounds>>
  BY DEF Marks, bill
<1>2. PICK i \in Items : i = Item(w)
  BY <1>0 DEF WatcherFits, At, Hands, Waiting
<1>3. PICK status \in {"pending", "quarantined", "processed"}, pc \in {"items", "reason"} :
        /\ Marked(i, status) /\ Goes(w, pc)
        /\ \/ At(w, "mark") /\ status = "pending" /\ pc = "items"
           \/ At(w, "reject") /\ status = "quarantined" /\ pc = "items"
           \/ At(w, "done") /\ status = "processed" /\ pc = "reason"
           \/ At(w, "bad") /\ status = "quarantined" /\ pc = "reason"
  BY <1>2 DEF Marks
<1>4. OnlyMoves(w) /\ watcher'[w].pc = pc /\ watcher'[w].todo = watcher[w].todo
  BY <1>0, <1>3, GoesTo DEF Pcs
<1>5. /\ inbox' \in [Items -> Statuses] /\ inbox'[i] = status
      /\ \A j \in Items : j # i => inbox'[j] = inbox[j]
      /\ ready /\ i \notin Spoofed /\ inbox[i] \in {"none", "pending"} /\ i \notin baseline
      /\ status = "pending" => i \in recorded
      /\ status = "processed" => i \in decided
      /\ i \in decided => status = "processed"
  <2>1. inbox' \in [Items -> Statuses] /\ inbox'[i] = status /\ \A j \in Items : j # i => inbox'[j] = inbox[j]
    BY <1>0, <1>3 DEF Marked, Shape, Statuses
  <2>2. ready /\ inbox[i] \in {"none", "pending"}
    BY <1>0, <1>2 DEF WatcherFits, At, Hands, Waiting
  <2>3. i \notin Spoofed
    BY <1>0, <1>2 DEF WatcherFits, At, Hands, Waiting, StoresAgree
  <2>4. i \notin baseline
    BY <1>0, <2>2 DEF HistoryIsOut
  <2>5. /\ status = "pending" => i \in recorded
        /\ status = "processed" => i \in decided
        /\ i \in decided => status = "processed"
    BY <1>0, <1>2, <1>3 DEF WatcherFits, At, Hands, StoresAgree
  <2> QED
    BY <2>1, <2>2, <2>3, <2>4, <2>5
<1>6. Shape'
  BY <1>0, <1>1, <1>4, <1>5 DEF Shape, OnlyMoves, bounds
<1>7. StoresAgree'
  BY <1>0, <1>1, <1>5 DEF StoresAgree
<1>8. HistoryIsOut'
  <2>1. \A j \in baseline : j \in Items /\ inbox'[j] = inbox[j]
    BY <1>0, <1>5 DEF Shape
  <2> QED
    BY <1>0, <1>1, <1>5, <2>1 DEF HistoryIsOut
<1>9. BillIsRight'
  <2>1. \A j \in Items : j # i => ~InHand(j)
    BY <1>0, <1>2 DEF InHand, At, Billed, Item
  <2>2. InHand(i) => status = "quarantined"
    BY <1>0, <1>3 DEF InHand, Item, Billed, At
  <2>3. inbox[i] # "quarantined"
    BY <1>5
  <2> QED
    BY <1>0, <1>1, <1>5, <2>1, <2>2, <2>3 DEF BillIsRight, PaidBefore
<1>10. WatcherFits(w)'
  <2>1. pc = "items" => watcher[w].todo \cap Spoofed = {}
    BY <1>0, <1>3 DEF WatcherFits, At, Hands
  <2>2. pc = "reason" => watcher[w].todo \subseteq Waiting \ {i}
    BY <1>0, <1>2, <1>3 DEF WatcherFits, At
  <2>3. pc = "reason" => watcher'[w].todo \subseteq Waiting'
    BY <1>4, <1>5, <2>2 DEF Waiting
  <2> QED
    BY <1>0, <1>1, <1>4, <1>5, <2>1, <2>3 DEF WatcherFits, At, Hands
<1> QED
  BY <1>0, <1>4, <1>6, <1>7, <1>8, <1>9, <1>10, HolderSteps

\* A request is posted: what the call of w for its item i made of the bill.
PostsFor(w, i) ==
    /\ i = Item(w) /\ inbox[i] = "pending" /\ i \notin decided /\ ready
    /\ paid[i] \in Nat /\ lost[i] \in Nat /\ unanswered[i] \in Nat
    /\ paid' \in [Items -> Nat] /\ paid'[i] = paid[i] + 1
    /\ \A j \in Items : j # i => paid'[j] = paid[j] /\ ~InHand(j)
    /\ i \notin baseline

LEMMA CallPosts ==
    ASSUME Inv, NEW w \in Watchers, At(w, "call"), Charged(Item(w))
    PROVE  \E i \in Items : PostsFor(w, i)
<1>0. Shape /\ HistoryIsOut /\ WatcherFits(w) /\ lock = w
  BY DEF Inv, WatcherFits, At
<1>1. PICK i \in Items : i = Item(w) /\ inbox[i] = "pending" /\ i \notin decided /\ ready
  BY <1>0 DEF WatcherFits, At, Hands, Waiting
<1>2. paid' = [paid EXCEPT ![i] = @ + 1]
  BY <1>1 DEF Charged
<1>3. paid[i] \in Nat /\ lost[i] \in Nat /\ unanswered[i] \in Nat
  BY <1>0 DEF Shape
<1>4. paid' \in [Items -> Nat] /\ paid'[i] = paid[i] + 1 /\ \A j \in Items : j # i => paid'[j] = paid[j]
  BY <1>0, <1>2, <1>3 DEF Shape
<1>5. \A j \in Items : j # i => ~InHand(j)
  BY <1>0, <1>1 DEF InHand
<1>6. i \notin baseline
  BY <1>0, <1>1 DEF HistoryIsOut
<1> QED
  BY <1>1, <1>3, <1>4, <1>5, <1>6 DEF PostsFor

\* A request is answered or refused: none before it is left to be used.
LEMMA InvCalls ==
    ASSUME Inv, NEW w \in Watchers, Calls(w)
    PROVE  Inv'
<1>0. Shape /\ StoresAgree /\ HistoryIsOut /\ BillIsRight /\ WatcherFits(w) /\ At(w, "call") /\ lock = w
      /\ w # None
  BY InboxAssumption DEF Inv, Calls, WatcherFits, At
<1>1. PICK i \in Items : PostsFor(w, i)
  BY <1>0, CallPosts DEF Calls
<1>2. UNCHANGED <<feed, inbox, ready, recorded, decided, unanswered, lost, baseline, lock, bounds>>
  BY DEF Calls
<1>3. PICK pc \in {"answered", "bad"} : Goes(w, pc)
  BY DEF Calls
<1>4. OnlyMoves(w) /\ watcher'[w].pc = pc /\ watcher'[w].todo = watcher[w].todo /\ watcher'[w].item = i
  BY <1>0, <1>1, <1>3, GoesTo DEF Pcs, Item, PostsFor
<1>5. Shape'
  BY <1>0, <1>1, <1>2, <1>4 DEF Shape, OnlyMoves, bounds, PostsFor
<1>6. StoresAgree'
  BY <1>0, <1>2 DEF StoresAgree
<1>7. HistoryIsOut'
  <2>1. \A j \in baseline : j \in Items /\ j # i
    BY <1>0, <1>1 DEF PostsFor, Shape
  <2> QED
    BY <1>0, <1>1, <1>2, <2>1 DEF HistoryIsOut, PostsFor
<1>8. BillIsRight'
  <2>1. InHand(i)'
    BY <1>0, <1>2, <1>4 DEF InHand, Billed, At, Item
  <2>2. CallFits(w) /\ i = Item(w) /\ watcher[w].posted \in Nat
    BY <1>0, <1>1 DEF WatcherFits, PostsFor, Shape, Places
  <2>3. paid'[i] <= 1 + lost[i] + unanswered[i]
    BY <1>1, <2>2 DEF CallFits, PostsFor
  <2>4. paid'[i] <= Allowed(1 + lost[i])
    <3>1. Allowed(lost[i]) \in Nat /\ Allowed(1 + lost[i]) = Allowed(lost[i]) + 1 + ClientRetries
      BY <1>1, AllowedGrows DEF PostsFor
    <3>2. paid[i] <= Allowed(lost[i]) + watcher[w].posted /\ watcher[w].posted <= ClientRetries
      BY <2>2 DEF CallFits
    <3>3. ClientRetries \in Nat
      BY InboxAssumption
    <3> QED
      BY <1>1, <2>2, <3>1, <3>2, <3>3 DEF PostsFor
  <2> QED
    BY <1>0, <1>1, <1>2, <2>1, <2>3, <2>4 DEF BillIsRight, PaidBefore, PostsFor
<1>9. WatcherFits(w)'
  <2>1. watcher[w].todo \subseteq Waiting \ {i} /\ i \in Waiting /\ i \notin decided /\ ready
    BY <1>0, <1>1 DEF WatcherFits, At, PostsFor
  <2> QED
    BY <1>0, <1>2, <1>4, <2>1 DEF WatcherFits, At, Hands, Item, Waiting
<1> QED
  BY <1>0, <1>4, <1>5, <1>6, <1>7, <1>8, <1>9, HolderSteps DEF At

\* A request is not answered: the call goes on while it may, and is over when not.
LEMMA InvNoAnswer ==
    ASSUME Inv, NEW w \in Watchers, NoAnswer(w)
    PROVE  Inv'
<1>0. Shape /\ StoresAgree /\ HistoryIsOut /\ BillIsRight /\ WatcherFits(w) /\ At(w, "call") /\ lock = w
      /\ w # None
  BY InboxAssumption DEF Inv, NoAnswer, WatcherFits, At
<1>1. PICK i \in Items : PostsFor(w, i)
  BY <1>0, CallPosts DEF NoAnswer
<1>2. /\ UNCHANGED <<feed, inbox, ready, recorded, decided, lost, baseline, lock, starts, crashes>>
      /\ faults' = faults + 1
      /\ unanswered' = [unanswered EXCEPT ![i] = @ + 1]
  BY <1>1 DEF NoAnswer, Fault, PostsFor
<1>3. /\ unanswered' \in [Items -> Nat] /\ unanswered'[i] = unanswered[i] + 1
      /\ \A j \in Items : j # i => unanswered'[j] = unanswered[j]
  BY <1>0, <1>1, <1>2 DEF Shape, PostsFor
<1> DEFINE n == watcher[w].posted
           pc == IF PostsAgain(w) THEN "call" ELSE "bad"
<1>4. n \in Nat /\ watcher[w] \in Places
  BY <1>0 DEF Shape, Places
<1>5. /\ OnlyMoves(w) /\ watcher'[w].pc = pc /\ watcher'[w].todo = watcher[w].todo
      /\ watcher'[w].item = i /\ watcher'[w].posted = n + 1
  <2> DEFINE p1 == [watcher[w] EXCEPT !.pc = pc]
             p2 == [p1 EXCEPT !.posted = @ + 1]
  <2>1. watcher' = [watcher EXCEPT ![w] = p2]
    BY <1>0 DEF NoAnswer, Shape
  <2>2. p1 \in Places /\ p1.pc = pc /\ p1.todo = watcher[w].todo /\ p1.item = watcher[w].item /\ p1.posted = n
    BY <1>4 DEF Places, Pcs
  <2> HIDE DEF p1
  <2>3. p2 \in Places /\ p2.pc = pc /\ p2.todo = watcher[w].todo /\ p2.item = watcher[w].item
        /\ p2.posted = n + 1
    BY <1>4, <2>2 DEF Places
  <2> HIDE DEF p2
  <2> QED
    BY <1>0, <1>1, <2>1, <2>3 DEF Shape, OnlyMoves, Item, PostsFor
<1> HIDE DEF n
<1>6. PostsAgain(w) => n < ClientRetries
  BY DEF PostsAgain, n
<1>7. Shape'
  BY <1>0, <1>1, <1>2, <1>3, <1>5 DEF Shape, OnlyMoves, PostsFor
<1>8. StoresAgree'
  BY <1>0, <1>2 DEF StoresAgree
<1>9. HistoryIsOut'
  <2>1. \A j \in baseline : j \in Items /\ j # i
    BY <1>0, <1>1 DEF PostsFor, Shape
  <2> QED
    BY <1>0, <1>1, <1>2, <2>1 DEF HistoryIsOut, PostsFor
<1>10. /\ paid[i] \in Nat /\ lost[i] \in Nat /\ unanswered[i] \in Nat /\ paid'[i] = paid[i] + 1
       /\ paid[i] <= lost[i] + unanswered[i] /\ paid[i] <= Allowed(lost[i]) + n /\ n <= ClientRetries
       /\ Allowed(lost[i]) \in Nat /\ Allowed(1 + lost[i]) = Allowed(lost[i]) + 1 + ClientRetries
       /\ ClientRetries \in Nat
  BY <1>0, <1>1, AllowedGrows, InboxAssumption DEF WatcherFits, CallFits, PostsFor, n
<1>11. BillIsRight'
  <2>1. InHand(i)'
    BY <1>0, <1>2, <1>4, <1>5 DEF InHand, Billed, At, Item
  <2>2. paid'[i] <= 1 + lost[i] + unanswered'[i] /\ paid'[i] <= Allowed(1 + lost[i])
    BY <1>3, <1>4, <1>10
  <2> QED
    BY <1>0, <1>1, <1>2, <1>3, <2>1, <2>2 DEF BillIsRight, PaidBefore, PostsFor
<1>12. WatcherFits(w)'
  <2>1. watcher[w].todo \subseteq Waiting \ {i} /\ i \in Waiting /\ i \notin decided /\ ready
    BY <1>0, <1>1 DEF WatcherFits, At, PostsFor
  <2>2. paid'[i] <= lost[i] + unanswered'[i] /\ paid'[i] <= Allowed(lost[i]) + (n + 1)
        /\ (PostsAgain(w) => n + 1 <= ClientRetries)
    BY <1>3, <1>4, <1>6, <1>10
  <2>3. pc = "call" => CallFits(w)'
    BY <1>2, <1>5, <2>2 DEF CallFits, Item
  <2> QED
    BY <1>0, <1>2, <1>5, <2>1, <2>3 DEF WatcherFits, At, Hands, Item, Waiting
<1> QED
  BY <1>0, <1>5, <1>7, <1>8, <1>9, <1>11, <1>12, HolderSteps DEF At

\* The decision is committed.
LEMMA InvCommits ==
    ASSUME Inv, NEW w \in Watchers, Commits(w)
    PROVE  Inv'
<1>0. Shape /\ StoresAgree /\ HistoryIsOut /\ BillIsRight /\ WatcherFits(w) /\ At(w, "answered") /\ lock = w
  BY DEF Inv, Commits, WatcherFits, At
<1>1. PICK i \in Items : i = Item(w) /\ inbox[i] = "pending" /\ i \notin decided /\ ready
  BY <1>0 DEF WatcherFits, At, Hands, Waiting
<1>2. /\ UNCHANGED <<feed, inbox, ready, recorded, paid, unanswered, lost, baseline, lock, bounds>>
      /\ Goes(w, "done") /\ decided' = decided \cup {i}
  BY <1>1 DEF Commits, bill
<1>3. OnlyMoves(w) /\ watcher'[w].pc = "done" /\ watcher'[w].todo = watcher[w].todo /\ watcher'[w].item = i
  BY <1>0, <1>1, <1>2, GoesTo DEF Pcs, Item
<1>4. Shape'
  BY <1>0, <1>2, <1>3 DEF Shape, OnlyMoves, bounds
<1>5. StoresAgree'
  BY <1>0, <1>1, <1>2 DEF StoresAgree
<1>6. HistoryIsOut'
  BY <1>0, <1>2 DEF HistoryIsOut
<1>7. BillIsRight'
  <2>1. \A j \in Items : InHand(j) => j = i
    BY <1>0, <1>1 DEF InHand, At, Billed, Item
  <2> QED
    BY <1>0, <1>2, <2>1 DEF BillIsRight, PaidBefore
<1>8. WatcherFits(w)'
  BY <1>0, <1>1, <1>2, <1>3 DEF WatcherFits, At, Hands, Item, Waiting
<1> QED
  BY <1>0, <1>3, <1>4, <1>5, <1>6, <1>7, <1>8, HolderSteps DEF At

\* A process is gone, and its unused answer is lost with it.
LEMMA InvEnds ==
    ASSUME Inv, NEW w \in Watchers, ~At(w, "off"), Ends(w),
           starts' \in Nat, crashes' \in Nat, faults' \in Nat
    PROVE  Inv'
<1>0. Shape /\ StoresAgree /\ HistoryIsOut /\ BillIsRight /\ WatcherFits(w)
  BY DEF Inv
<1>1. /\ watcher' = [watcher EXCEPT ![w] = Off] /\ lock' = Released(w)
      /\ lost' = IF Billed(w) THEN [lost EXCEPT ![Item(w)] = @ + 1] ELSE lost
      /\ UNCHANGED <<feed, inbox, ready, recorded, decided, paid, unanswered, baseline>>
  BY DEF Ends, bill
<1>2. OnlyMoves(w) /\ watcher'[w].pc = "off"
  BY <1>0, <1>1, OffIsPlace DEF Shape, OnlyMoves
<1>3. WatcherFits(w)'
  BY <1>2, IdleFits
<1>4. lock' \in Watchers \cup {None} /\ (lock # None /\ lock # w => lock' = lock)
  BY <1>0, <1>1 DEF Released, Shape
<1>5. CASE ~Billed(w)
  BY <1>0, <1>1, <1>2, <1>3, <1>4, <1>5, PlainSteps DEF data, bill, Shape
<1>6. CASE Billed(w)
  <2>1. PICK i \in Items : i = Item(w) /\ lock = w /\ inbox[i] = "pending"
    BY <1>0, <1>6 DEF Billed, WatcherFits, At, Waiting
  <2>2. /\ lost' \in [Items -> Nat] /\ lost'[i] = lost[i] + 1
        /\ \A j \in Items : j # i => lost'[j] = lost[j]
    BY <1>0, <1>1, <1>6, <2>1 DEF Shape
  <2>3. Shape'
    BY <1>0, <1>1, <1>2, <1>4, <2>2 DEF Shape, OnlyMoves
  <2>4. StoresAgree' /\ HistoryIsOut'
    BY <1>0, <1>1 DEF StoresAgree, HistoryIsOut
  <2>5. BillIsRight'
    <3>1. \A j \in Items : InHand(j) => j = i
      BY <2>1 DEF InHand, At, Billed, Item
    <3>2. ASSUME NEW j \in Items, j # i
          PROVE  paid[j] <= 1 + lost[j] + unanswered[j] /\ paid[j] <= Allowed(1 + lost[j])
                 /\ (PaidBefore(j) \/ j \in decided \/ inbox[j] = "quarantined")
      BY <1>0, <3>1, <3>2 DEF BillIsRight
    <3>3. /\ paid[i] <= lost'[i] + unanswered[i] /\ paid[i] <= Allowed(lost'[i])
          /\ paid[i] <= 1 + lost'[i] + unanswered[i] /\ paid[i] <= Allowed(1 + lost'[i])
      <4>1. paid[i] \in Nat /\ lost[i] \in Nat /\ unanswered[i] \in Nat /\ ClientRetries \in Nat
            /\ lost'[i] = 1 + lost[i]
        BY <1>0, <2>2, InboxAssumption DEF Shape
      <4>2. paid[i] <= 1 + lost[i] + unanswered[i] /\ paid[i] <= Allowed(1 + lost[i])
        BY <1>0 DEF BillIsRight
      <4>3. Allowed(1 + lost'[i]) = Allowed(lost'[i]) + 1 + ClientRetries /\ Allowed(lost'[i]) \in Nat
        BY <4>1, AllowedGrows
      <4> QED
        BY <4>1, <4>2, <4>3
    <3> QED
      BY <1>1, <2>2, <3>2, <3>3 DEF BillIsRight, PaidBefore
  <2> QED
    BY <1>2, <1>3, <1>6, <2>3, <2>4, <2>5, HolderSteps DEF Billed, At
<1> QED
  BY <1>5, <1>6
-----------------------------------------------------------------------------
(***************************************************************************)
(* The theorems                                                            *)
(***************************************************************************)
LEMMA InvInit == Init => Inv
<1> SUFFICES ASSUME Init PROVE Inv
  OBVIOUS
<1>1. Shape
  BY OffIsPlace DEF Init, Shape, Statuses
<1>2. StoresAgree /\ HistoryIsOut
  BY DEF Init, StoresAgree, HistoryIsOut
<1>3. BillIsRight
  BY AllowedGrows, InboxAssumption DEF Init, BillIsRight, PaidBefore
<1>4. \A w \in Watchers : WatcherFits(w)
  BY OffIsPlace DEF Init, WatcherFits, At, Hands
<1> QED
  BY <1>1, <1>2, <1>3, <1>4 DEF Inv

LEMMA InvNext ==
    ASSUME Inv, [Next]_vars
    PROVE  Inv'
<1>0. Shape /\ starts \in Nat /\ crashes \in Nat /\ faults \in Nat
  BY DEF Inv, Shape
<1>1. CASE UNCHANGED vars
  <2>1. UNCHANGED <<feed, data, lock, watcher, bounds>>
    BY <1>1 DEF vars
  <2>2. Shape' /\ StoresAgree' /\ HistoryIsOut' /\ BillIsRight'
    BY <2>1 DEF Inv, Shape, StoresAgree, HistoryIsOut, BillIsRight, PaidBefore, InHand, Item, At, Billed, data, bill, bounds
  <2>3. \A v \in Watchers : WatcherFits(v)'
    BY <2>1 DEF Inv, WatcherFits, CallFits, At, Item, Waiting, data, bill
  <2> QED
    BY <2>2, <2>3 DEF Inv
<1>2. CASE Announces
  BY <1>2, InvAnnounces
<1>3. ASSUME NEW w \in Watchers, Step(w) \/ Start(w) \/ ArticleFails(w) \/ NoAnswer(w)
      PROVE  Inv'
  <2>1. CASE Start(w) \/ Poll(w) \/ FetchFeed(w) \/ TakesIn(w) \/ FetchArticle(w) \/ ArticleFails(w)
    BY <2>1, InvReads
  <2>2. CASE Looks(w) \/ Asks(w) \/ AllTaken(w)
    BY <2>2, InvTakesUp
  <2>3. CASE AllReasoned(w)
    BY <1>0, <2>3, InvFinishes DEF AllReasoned, At, bounds
  <2>4. CASE Rejects(w) \/ Bootstraps(w) \/ Records(w) \/ Marks(w) \/ Calls(w) \/ NoAnswer(w)
          \/ Commits(w)
    BY <2>4, InvRejects, InvBootstraps, InvRecords, InvMarks, InvCalls, InvNoAnswer, InvCommits
  <2> QED
    BY <1>3, <2>1, <2>2, <2>3, <2>4 DEF Step
<1>4. ASSUME NEW w \in Watchers, FetchFails(w)
      PROVE  Inv'
  BY <1>0, <1>4, InvFinishes DEF FetchFails, Fault, At
<1>5. ASSUME NEW w \in Watchers, CommitFails(w) \/ Crash(w)
      PROVE  Inv'
  <2>1. Ends(w) /\ ~At(w, "off") /\ starts' \in Nat /\ crashes' \in Nat /\ faults' \in Nat
    BY <1>0, <1>5 DEF CommitFails, Crash, Fault, At
  <2> QED
    BY <2>1, InvEnds
<1> QED
  BY <1>1, <1>2, <1>3, <1>4, <1>5 DEF Next

\* What the watcher's feed held when its inbox was set up is never paid for, and every
\* other item once, but for requests that were not answered and for those of a process
\* that ended, and no call makes more of them than the client's retries allow:
\* FedWatcher.poll_once, FedInbox and DeepSeekClient.complete_json, whoever crashes,
\* whatever fails, and whatever the feed repeats.
THEOREM WatcherPaysOnce == Spec => []InboxPaysOnce
<1>1. Init => Inv
  BY InvInit
<1>2. Inv /\ [Next]_vars => Inv'
  BY InvNext
<1>3. Inv => InboxPaysOnce
  <2> SUFFICES ASSUME Inv PROVE InboxPaysOnce
    OBVIOUS
  <2>1. TypeOK
    BY DEF Inv, Shape, Statuses, StoresAgree, WatcherFits, TypeOK
  <2>2. HistoryIsFree /\ PaidOnce
    BY DEF Inv, HistoryIsOut, BillIsRight, Allowed, HistoryIsFree, PaidOnce
  <2> QED
    BY <2>1, <2>2 DEF InboxPaysOnce
<1> QED
  BY <1>1, <1>2, <1>3, PTL DEF Spec

\* A step marks only what is not settled.
LEMMA StepKeepsSettled ==
    ASSUME Inv, [Next]_vars, NEW i \in Items, inbox[i] \in {"baseline", "processed", "quarantined"}
    PROVE  inbox'[i] = inbox[i]
<1>1. Shape /\ StoresAgree
  BY DEF Inv
<1>2. ASSUME NEW w \in Watchers, Rejects(w)
      PROVE  inbox'[i] = inbox[i]
  BY <1>1, <1>2, InboxAssumption DEF Rejects, Marked, Shape, StoresAgree
<1>3. ASSUME NEW w \in Watchers, Bootstraps(w)
      PROVE  inbox'[i] = inbox[i]
  BY <1>3 DEF Bootstraps, Baselined
<1>4. ASSUME NEW w \in Watchers, Marks(w)
      PROVE  inbox'[i] = inbox[i]
  <2>1. watcher[w].pc \in {"mark", "reject", "done", "bad"} /\ WatcherFits(w)
    BY <1>4 DEF Marks, At, Inv
  <2>2. inbox[Item(w)] \in {"none", "pending"}
    BY <2>1 DEF WatcherFits, At, Hands, Waiting
  <2>3. i # Item(w)
    BY <2>2
  <2> QED
    BY <1>1, <1>4, <2>3 DEF Marks, Marked, Shape
<1>5. (\E w \in Watchers : Rejects(w) \/ Bootstraps(w) \/ Marks(w)) \/ inbox' = inbox
  <2>1. ASSUME NEW w \in Watchers, Step(w) \/ Start(w) \/ FetchFails(w) \/ ArticleFails(w) \/ NoAnswer(w)
                                   \/ CommitFails(w) \/ Crash(w)
        PROVE  Rejects(w) \/ Bootstraps(w) \/ Marks(w) \/ inbox' = inbox
    BY <2>1 DEF Step, Start, FetchFails, ArticleFails, CommitFails, Crash, Ends, Poll, FetchFeed, TakesIn,
          Looks, FetchArticle, Records, AllTaken, Asks, Calls, NoAnswer, Commits, AllReasoned, data, bill
  <2> QED
    BY <2>1 DEF Next, Announces, vars, data, bill
<1> QED
  BY <1>2, <1>3, <1>4, <1>5

\* What is settled stays so, though mark would overwrite any status.
THEOREM SettledStaysSettled == Spec => SettledIsFinal
<1>1. Init => Inv
  BY InvInit
<1>2. Inv /\ [Next]_vars => Inv'
  BY InvNext
<1>3. Inv /\ [Next]_vars
      => [\A i \in Items : inbox[i] \in {"baseline", "processed", "quarantined"} => inbox'[i] = inbox[i]]_vars
  BY StepKeepsSettled
<1> QED
  BY <1>1, <1>2, <1>3, PTL DEF Spec, SettledIsFinal
-----------------------------------------------------------------------------
(***************************************************************************)
(* The series of episodes.  The inductive invariant has two parts.  The    *)
(* registry's is about the episodes and the journal alone; a runner's      *)
(* tells what it may take as read at each of its steps.  Whoever is not    *)
(* off holds the lock, so a step of one runner finds all others off, and   *)
(* only the registry's part and the runner's own are to be shown.          *)
(***************************************************************************)
\* The shape of the variables.
Rows == [episode : 1 .. Episodes, stage : {"memory", "portfolio"}, state : {"pending", "finished"}]
Entries == [state : {"pending", "running", "completed"},
            status : {"none", "data_unavailable", "call_limit_reached", "result", "interrupted_unknown"}]
RunnerPlaces == [pc : {"off", "select", "call", "send", "wait", "result"}, at : Nat \ {0}, left : Int,
           stage : {1, 2}, attempt : Nat \ {0}, memory : SUBSET (1 .. Episodes), generated : BOOLEAN]

SeriesShape ==
    /\ episodes \in [1 .. Episodes -> Entries]
    /\ calls \in Seq(Rows)
    /\ revisions \subseteq 1 .. Episodes
    /\ registryLock \in Runners \cup {Nobody}
    /\ runner \in [Runners -> RunnerPlaces]
    /\ sent \in [1 .. Episodes -> Nat]
    /\ runs \in Nat

\* The episodes are begun in their order, and have a status when they are over.
EpisodesFit ==
    /\ \A e \in 1 .. Episodes : episodes[e].status # "none" <=> episodes[e].state = "completed"
    /\ revisions \subseteq {e \in 1 .. Episodes : episodes[e].status = "result"}
    /\ \A e \in 1 .. Episodes :
         episodes[e].state # "pending" => \A f \in 1 .. e - 1 : episodes[f].state = "completed"

\* Only what was begun has calls.
CallsAreOfBegun == \A c \in DOMAIN calls : episodes[calls[c].episode].state # "pending"

OfStage(e, s) == {c \in CallsOf(e) : calls[c].stage = s}

StagesAreBounded ==
    \A e \in 1 .. Episodes : \A s \in {"memory", "portfolio"} : Cardinality(OfStage(e, s)) <= 1 + MaxRetries

CallsFit ==
    /\ CallsAreOfBegun
    /\ SpendIsCapped
    /\ UnknownIsLast
    /\ UnknownLeavesNoMemory
    /\ StagesAreBounded

\* A runner goes by the episodes that are over.
GoesInOrder(w) ==
    ~RunnerAt(w, "off") =>
      /\ registryLock = w
      /\ \A f \in 1 .. Episodes : f < E(w) => episodes[f].state = "completed"

\* It works on an episode it has begun, with the memory as it was and is.
WorksOnItsOwn(w) ==
    Working(w) => /\ E(w) <= Episodes
                  /\ State(w) = "running"
                  /\ runner[w].memory = revisions

\* An attempt is one call at most: before it is reserved there are fewer calls of its
\* stage than it counts attempts, and the next stage has none.
AttemptsCount(w) ==
    Working(w) =>
      /\ runner[w].attempt <= 1 + MaxRetries
      /\ Cardinality(OfStage(E(w), Stages[runner[w].stage])) <= runner[w].attempt
      /\ RunnerAt(w, "call") => Cardinality(OfStage(E(w), Stages[runner[w].stage])) < runner[w].attempt
      /\ runner[w].stage = 1 => OfStage(E(w), "portfolio") = {}

\* What it is about to send is in the journal and not yet counted.
RequestIsReserved(w) == RunnerAt(w, "send") => sent[E(w)] < Cardinality(CallsOf(E(w)))

RunnerFits(w) == GoesInOrder(w) /\ WorksOnItsOwn(w) /\ AttemptsCount(w) /\ RequestIsReserved(w)

\* The inductive invariant.
SeriesInv == SeriesShape /\ EpisodesFit /\ CallsFit /\ \A w \in Runners : RunnerFits(w)
-----------------------------------------------------------------------------
(***************************************************************************)
(* The journal                                                             *)
(***************************************************************************)
\* A new element counts for one.
LEMMA OneMore ==
    ASSUME NEW S, IsFiniteSet(S), NEW n, n \notin S, NEW T, T = S \cup {n}
    PROVE  Cardinality(T) = Cardinality(S) + 1
BY FS_AddElement, FS_CardinalityType

\* The calls of an episode, and those of one of its stages, are finitely many.
LEMMA CallsAreFinite ==
    ASSUME SeriesShape, NEW e, NEW s
    PROVE  /\ IsFiniteSet(CallsOf(e)) /\ Cardinality(CallsOf(e)) \in Nat
           /\ IsFiniteSet(OfStage(e, s)) /\ Cardinality(OfStage(e, s)) \in Nat
<1>1. Len(calls) \in Nat /\ DOMAIN calls = 1 .. Len(calls)
  BY DEF SeriesShape
<1>2. IsFiniteSet(DOMAIN calls)
  BY <1>1, FS_Interval
<1>3. CallsOf(e) \subseteq DOMAIN calls /\ OfStage(e, s) \subseteq DOMAIN calls
  BY DEF CallsOf, OfStage
<1> QED
  BY <1>2, <1>3, FS_Subset, FS_CardinalityType

\* Reserving a call adds it to those of its episode and its stage.
LEMMA AppendAdds ==
    ASSUME SeriesShape, NEW row \in Rows, calls' = Append(calls, row), NEW e, NEW s
    PROVE  /\ calls' \in Seq(Rows) /\ Len(calls') = Len(calls) + 1
           /\ \A c \in 1 .. Len(calls) : calls'[c] = calls[c]
           /\ calls'[Len(calls) + 1] = row
           /\ CallsOf(e)' = CallsOf(e) \cup (IF row.episode = e THEN {Len(calls) + 1} ELSE {})
           /\ OfStage(e, s)' = OfStage(e, s) \cup (IF row.episode = e /\ row.stage = s
                                                   THEN {Len(calls) + 1} ELSE {})
           /\ Cardinality(CallsOf(e)') = Cardinality(CallsOf(e)) + (IF row.episode = e THEN 1 ELSE 0)
           /\ Cardinality(OfStage(e, s)') = Cardinality(OfStage(e, s))
                                            + (IF row.episode = e /\ row.stage = s THEN 1 ELSE 0)
<1> DEFINE n == Len(calls) + 1
<1>1. /\ calls \in Seq(Rows) /\ Len(calls) \in Nat /\ DOMAIN calls = 1 .. Len(calls)
      /\ calls' \in Seq(Rows) /\ Len(calls') = n /\ DOMAIN calls' = 1 .. n
      /\ \A c \in 1 .. Len(calls) : calls'[c] = calls[c]
      /\ calls'[n] = row
  BY DEF SeriesShape
<1>2. CallsOf(e)' = CallsOf(e) \cup (IF row.episode = e THEN {n} ELSE {})
  BY <1>1 DEF CallsOf
<1>3. OfStage(e, s)' = OfStage(e, s) \cup (IF row.episode = e /\ row.stage = s THEN {n} ELSE {})
  BY <1>1, <1>2 DEF OfStage, CallsOf
<1>4. n \notin CallsOf(e) /\ n \notin OfStage(e, s)
  BY <1>1 DEF CallsOf, OfStage
<1>5. Cardinality(CallsOf(e)') = Cardinality(CallsOf(e)) + (IF row.episode = e THEN 1 ELSE 0)
  <2>1. CASE row.episode = e
    <3>1. CallsOf(e)' = CallsOf(e) \cup {n}
      BY <1>2, <2>1
    <3>2. IsFiniteSet(CallsOf(e))
      BY CallsAreFinite
    <3>3. Cardinality(CallsOf(e)') = Cardinality(CallsOf(e)) + 1
      BY <3>1, <3>2, <1>4, OneMore
    <3> QED
      BY <3>3, <2>1
  <2>2. CASE row.episode # e
    BY <2>2, <1>2, CallsAreFinite
  <2> QED
    BY <2>1, <2>2
<1>6. Cardinality(OfStage(e, s)') = Cardinality(OfStage(e, s))
                                    + (IF row.episode = e /\ row.stage = s THEN 1 ELSE 0)
  <2>1. CASE row.episode = e /\ row.stage = s
    <3>1. OfStage(e, s)' = OfStage(e, s) \cup {n}
      BY <1>3, <2>1
    <3>2. IsFiniteSet(OfStage(e, s))
      BY CallsAreFinite
    <3>3. Cardinality(OfStage(e, s)') = Cardinality(OfStage(e, s)) + 1
      BY <3>1, <3>2, <1>4, OneMore
    <3> QED
      BY <3>3, <2>1
  <2>2. CASE ~(row.episode = e /\ row.stage = s)
    <3>1. OfStage(e, s)' = OfStage(e, s)
      BY <1>3, <2>2
    <3>2. Cardinality(OfStage(e, s)) \in Nat
      BY CallsAreFinite
    <3> QED
      BY <3>1, <3>2, <2>2
  <2> QED
    BY <2>1, <2>2
<1> QED
  BY <1>1, <1>2, <1>3, <1>5, <1>6

\* Finishing a call leaves the journal as it is, but for the state of its last row.
LEMMA FinishKeepsRows ==
    ASSUME SeriesShape, calls' = Finished
    PROVE  /\ calls' \in Seq(Rows) /\ Len(calls') = Len(calls) /\ DOMAIN calls' = DOMAIN calls
           /\ \A c \in DOMAIN calls : /\ calls'[c].episode = calls[c].episode
                                      /\ calls'[c].stage = calls[c].stage
                                      /\ calls'[c].state \in {calls[c].state, "finished"}
           /\ \A e : CallsOf(e)' = CallsOf(e)
           /\ \A e, s : OfStage(e, s)' = OfStage(e, s)
<1>1. calls \in Seq(Rows) /\ Len(calls) \in Nat /\ DOMAIN calls = 1 .. Len(calls)
  BY DEF SeriesShape
<1>2. /\ DOMAIN calls' = DOMAIN calls
      /\ \A c \in DOMAIN calls : calls'[c] = IF c = Len(calls) THEN [calls[c] EXCEPT !.state = "finished"]
                                             ELSE calls[c]
  BY <1>1 DEF Finished
<1>3. \A c \in DOMAIN calls : calls[c] \in Rows
  BY <1>1
<1>4. \A c \in DOMAIN calls : /\ calls'[c] \in Rows
                              /\ calls'[c].episode = calls[c].episode
                              /\ calls'[c].stage = calls[c].stage
                              /\ calls'[c].state \in {calls[c].state, "finished"}
  BY <1>2, <1>3 DEF Rows
<1>5. calls' \in Seq(Rows) /\ Len(calls') = Len(calls)
  <2>1. calls' = [c \in 1 .. Len(calls) |-> calls'[c]]
    BY <1>1, <1>2 DEF Finished
  <2> QED
    BY <2>1, <1>1, <1>4
<1>6. \A e : CallsOf(e)' = CallsOf(e)
  BY <1>2, <1>4 DEF CallsOf
<1>7. \A e, s : OfStage(e, s)' = OfStage(e, s)
  BY <1>4, <1>6 DEF OfStage, CallsOf
<1> QED
  BY <1>2, <1>4, <1>5, <1>6, <1>7
-----------------------------------------------------------------------------
(***************************************************************************)
(* Who is at work                                                          *)
(***************************************************************************)
\* The bounds are numbers.
LEMMA Bounds ==
    /\ Episodes \in Nat /\ MaxCalls \in Nat /\ MaxRetries \in Nat
    /\ Nobody \notin Runners
BY JournalAssumption DEF JournalAssumption

\* Nobody is at work beside the holder of the lock, and nobody at all when it is free.
LEMMA RunnerIsAlone ==
    ASSUME SeriesInv
    PROVE  /\ \A v, w \in Runners : ~RunnerAt(w, "off") /\ v # w => RunnerAt(v, "off")
           /\ RegistryFree => \A w \in Runners : RunnerAt(w, "off")
BY JournalAssumption DEF JournalAssumption, SeriesInv, RunnerFits, GoesInOrder, RegistryFree

\* Whoever is off has nothing to keep to.
LEMMA OffFits ==
    ASSUME NEW w, RunnerAt(w, "off")
    PROVE  RunnerFits(w)
BY DEF RunnerFits, GoesInOrder, WorksOnItsOwn, AttemptsCount, RequestIsReserved, Working, RunnerAt

\* After a step of one runner, the invariant is that of the registry and its own.
LEMMA OneStep ==
    ASSUME SeriesInv, NEW w \in Runners,
           ~RunnerAt(w, "off") \/ RegistryFree,
           \A v \in Runners : v # w => runner'[v] = runner[v],
           SeriesShape', EpisodesFit', CallsFit', RunnerFits(w)'
    PROVE  SeriesInv'
<1>1. \A v \in Runners : v # w => RunnerAt(v, "off")
  BY RunnerIsAlone
<1>2. \A v \in Runners : v # w => RunnerAt(v, "off")'
  BY <1>1 DEF RunnerAt
<1>3. \A v \in Runners : v # w => RunnerFits(v)'
  <2> SUFFICES ASSUME NEW v \in Runners, v # w PROVE RunnerFits(v)'
    OBVIOUS
  <2>1. RunnerAt(v, "off")'
    BY <1>2
  <2> QED
    BY <2>1 DEF RunnerFits, GoesInOrder, WorksOnItsOwn, AttemptsCount, RequestIsReserved, Working, RunnerAt
<1> QED
  BY <1>3 DEF SeriesInv

\* What leaves the registry and the requests alone keeps all that is said of them.
LEMMA RegistryStays ==
    ASSUME SeriesInv, UNCHANGED <<registry, sent>>
    PROVE  EpisodesFit' /\ CallsFit' /\ \A e, s : CallsOf(e)' = CallsOf(e) /\ OfStage(e, s)' = OfStage(e, s)
<1>1. \A e, s : CallsOf(e)' = CallsOf(e) /\ OfStage(e, s)' = OfStage(e, s)
  BY DEF registry, CallsOf, OfStage
<1>2. EpisodesFit'
  BY DEF SeriesInv, EpisodesFit, registry
<1>3. CallsAreOfBegun' /\ SpendIsCapped' /\ UnknownIsLast' /\ UnknownLeavesNoMemory'
  BY <1>1 DEF SeriesInv, CallsFit, CallsAreOfBegun, SpendIsCapped, UnknownIsLast, UnknownLeavesNoMemory,
        Unknown, registry
<1>4. StagesAreBounded'
  BY <1>1 DEF SeriesInv, CallsFit, StagesAreBounded
<1> QED
  BY <1>1, <1>2, <1>3, <1>4 DEF CallsFit
-----------------------------------------------------------------------------
(***************************************************************************)
(* The steps that leave the registry alone                                 *)
(***************************************************************************)
\* A runner starts, passes over what is done, gives up, has its call cut off, or is gone.
LEMMA RunnerOnly ==
    ASSUME SeriesInv, NEW w \in Runners,
           StartsRun(w) \/ Skips(w) \/ Stops(w) \/ GivesUp(w) \/ TimesOut(w) \/ LeavesOpen(w) \/ RunnerDies(w)
    PROVE  SeriesInv'
<1>0. SeriesShape /\ RunnerFits(w) /\ runner[w] \in RunnerPlaces
  BY DEF SeriesInv, SeriesShape
<1>1. UNCHANGED <<registry, sent>>
  BY DEF StartsRun, Skips, Stops, GivesUp, TimesOut, LeavesOpen, RunnerDies
<1>2. EpisodesFit' /\ CallsFit' /\ \A e, s : CallsOf(e)' = CallsOf(e) /\ OfStage(e, s)' = OfStage(e, s)
  BY <1>1, RegistryStays
<1>3. \A v \in Runners : v # w => runner'[v] = runner[v]
  BY <1>0 DEF SeriesShape, StartsRun, Skips, Stops, GivesUp, TimesOut, LeavesOpen, RunnerDies, Leaves, RunnerGoes, Passes, Retries
<1>4. ~RunnerAt(w, "off") \/ RegistryFree
  BY DEF StartsRun, Skips, Stops, GivesUp, TimesOut, LeavesOpen, RunnerDies, InOrderLeft, RunnerAt
<1>5. CASE Stops(w) \/ LeavesOpen(w) \/ RunnerDies(w)
  <2>1. Leaves(w) /\ runs' = runs
    BY <1>5 DEF Stops, LeavesOpen, RunnerDies
  <2>2. NoRun \in RunnerPlaces
    BY DEF NoRun, RunnerPlaces
  <2>3. SeriesShape'
    BY <1>0, <1>1, <2>1, <2>2 DEF SeriesShape, Leaves, registry
  <2>4. RunnerAt(w, "off")'
    BY <1>0, <2>1 DEF Leaves, RunnerAt, NoRun, SeriesShape
  <2>5. RunnerFits(w)'
    BY <2>4 DEF RunnerFits, GoesInOrder, WorksOnItsOwn, AttemptsCount, RequestIsReserved, Working, RunnerAt
  <2> QED
    BY <1>2, <1>3, <1>4, <2>3, <2>5, OneStep
<1>6. CASE StartsRun(w)
  <2>1. PICK n \in 1 .. Episodes : runner' = [runner EXCEPT ![w] = [NoRun EXCEPT !.pc = "select", !.left = n]]
    BY <1>6 DEF StartsRun
  <2> DEFINE place == [NoRun EXCEPT !.pc = "select", !.left = n]
  <2>2. place \in RunnerPlaces /\ place.pc = "select" /\ place.at = 1
    <3>1. n \in Int /\ NoRun \in RunnerPlaces
      BY Bounds DEF NoRun, RunnerPlaces
    <3>2. place \in RunnerPlaces
      BY <3>1 DEF RunnerPlaces
    <3> QED
      BY <3>2 DEF NoRun
  <2> HIDE DEF place
  <2>3. runner' = [runner EXCEPT ![w] = place] /\ registryLock' = w /\ runs' = runs + 1
    BY <1>6, <2>1 DEF StartsRun, place
  <2>4. SeriesShape'
    BY <1>0, <1>1, <2>2, <2>3 DEF SeriesShape, registry
  <2>5. RunnerFits(w)'
    BY <1>0, <2>2, <2>3 DEF SeriesShape, RunnerFits, GoesInOrder, WorksOnItsOwn, AttemptsCount,
          RequestIsReserved, Working, RunnerAt, E
  <2> QED
    BY <1>2, <1>3, <1>4, <2>4, <2>5, OneStep
<1>7. CASE Skips(w)
  <2>1. runner'[w] = [runner[w] EXCEPT !.at = @ + 1] /\ registryLock' = registryLock /\ runs' = runs
    BY <1>0, <1>7 DEF Skips, Passes, SeriesShape
  <2>2. runner'[w] \in RunnerPlaces
    BY <1>0, <2>1 DEF RunnerPlaces
  <2>3. SeriesShape'
    BY <1>0, <1>1, <1>7, <2>1, <2>2 DEF SeriesShape, Skips, Passes, registry
  <2>4. GoesInOrder(w)'
    BY <1>0, <1>1, <1>7, <2>1 DEF Skips, InOrderLeft, Over, State, RunnerFits, GoesInOrder, RunnerAt, E, RunnerPlaces,
          registry, SeriesShape
  <2>5. RunnerFits(w)'
    BY <1>0, <1>7, <2>1, <2>4 DEF Skips, InOrderLeft, RunnerFits, WorksOnItsOwn, AttemptsCount,
          RequestIsReserved, Working, RunnerAt, RunnerPlaces
  <2> QED
    BY <1>2, <1>3, <1>4, <2>3, <2>5, OneStep
<1>8. CASE GivesUp(w) \/ TimesOut(w)
  <2>1. /\ registryLock' = registryLock /\ runs' = runs
        /\ RunnerAt(w, "call") \/ RunnerAt(w, "wait")
        /\ \/ runner' = [runner EXCEPT ![w].pc = "result"]
           \/ RunnerAt(w, "wait") /\ runner[w].attempt <= MaxRetries
              /\ runner' = [runner EXCEPT ![w].pc = "call", ![w].attempt = @ + 1]
    BY <1>8 DEF GivesUp, TimesOut, Retries, NextAttempt, RunnerGoes
  <2>2. \/ runner'[w] = [runner[w] EXCEPT !.pc = "result"]
        \/ /\ RunnerAt(w, "wait") /\ runner[w].attempt <= MaxRetries
           /\ runner'[w] = [runner[w] EXCEPT !.pc = "call", !.attempt = @ + 1]
    BY <1>0, <2>1 DEF SeriesShape
  <2>3. runner'[w] \in RunnerPlaces
    <3>1. runner[w].attempt + 1 \in Nat \ {0}
      BY <1>0 DEF RunnerPlaces
    <3> QED
      BY <1>0, <2>2, <3>1 DEF RunnerPlaces
  <2>4. SeriesShape'
    BY <1>0, <1>1, <2>1, <2>3 DEF SeriesShape, registry
  <2>5. E(w)' = E(w) /\ State(w)' = State(w) /\ runner'[w].stage = runner[w].stage
        /\ runner'[w].memory = runner[w].memory /\ Working(w) /\ ~RunnerAt(w, "off") /\ ~RunnerAt(w, "send")'
    BY <1>0, <1>1, <2>1, <2>2 DEF E, State, RunnerPlaces, Working, RunnerAt, registry
  <2>6. GoesInOrder(w)' /\ WorksOnItsOwn(w)' /\ RequestIsReserved(w)'
    BY <1>0, <1>1, <2>1, <2>5 DEF RunnerFits, GoesInOrder, WorksOnItsOwn, RequestIsReserved, registry
  <2>7. AttemptsCount(w)'
    <3> DEFINE n == Cardinality(OfStage(E(w), Stages[runner[w].stage]))
    <3>1. Cardinality(OfStage(E(w), Stages[runner[w].stage]))' = n /\ n \in Nat
      BY <1>0, <1>2, <2>5, CallsAreFinite
    <3>2. OfStage(E(w), "portfolio")' = OfStage(E(w), "portfolio")
      BY <1>2, <2>5
    <3>3. /\ runner[w].attempt <= 1 + MaxRetries /\ n <= runner[w].attempt
          /\ runner[w].stage = 1 => OfStage(E(w), "portfolio") = {}
      BY <1>0, <2>5 DEF RunnerFits, AttemptsCount
    <3> HIDE DEF n
    <3>4. /\ runner'[w].attempt <= 1 + MaxRetries /\ n <= runner'[w].attempt
          /\ RunnerAt(w, "call")' => n < runner'[w].attempt
      <4>1. runner[w].attempt \in Nat /\ MaxRetries \in Nat
        BY <1>0, Bounds DEF RunnerPlaces
      <4>2. CASE runner'[w] = [runner[w] EXCEPT !.pc = "result"]
        BY <1>0, <3>3, <4>2 DEF RunnerPlaces, RunnerAt
      <4>3. CASE /\ runner[w].attempt <= MaxRetries
                 /\ runner'[w] = [runner[w] EXCEPT !.pc = "call", !.attempt = @ + 1]
        <5>1. runner'[w].attempt = runner[w].attempt + 1
          BY <1>0, <4>3 DEF RunnerPlaces
        <5> QED
          BY <3>1, <3>3, <4>1, <4>3, <5>1
      <4> QED
        BY <2>2, <4>2, <4>3
    <3> QED
      BY <2>5, <3>1, <3>2, <3>3, <3>4 DEF AttemptsCount
  <2>8. RunnerFits(w)'
    BY <2>6, <2>7 DEF RunnerFits
  <2> QED
    BY <1>2, <1>3, <1>4, <2>4, <2>8, OneStep
<1> QED
  BY <1>5, <1>6, <1>7, <1>8
-----------------------------------------------------------------------------
(***************************************************************************)
(* The steps of an episode's state                                         *)
(***************************************************************************)
\* An episode that is not over is over now, with its revision or without one.
LEMMA EpisodeIsOver ==
    ASSUME SeriesInv, NEW e \in 1 .. Episodes,
           NEW status \in {"data_unavailable", "call_limit_reached", "result", "interrupted_unknown"},
           episodes[e].state # "completed",
           \A f \in 1 .. Episodes : f < e => episodes[f].state = "completed",
           episodes' = Completed(e, status), UNCHANGED <<calls, sent>>,
           \/ revisions' = revisions
           \/ revisions' = revisions \cup {e} /\ status = "result" /\ ~Unknown(e)
    PROVE  /\ episodes' \in [1 .. Episodes -> Entries] /\ revisions' \subseteq 1 .. Episodes
           /\ EpisodesFit' /\ CallsFit'
           /\ \A f \in 1 .. Episodes : episodes[f].state = "completed" => episodes'[f].state = "completed"
           /\ episodes'[e].state = "completed"
           /\ \A f \in 1 .. Episodes : f # e => episodes'[f] = episodes[f]
<1>0. SeriesShape /\ EpisodesFit /\ CallsFit
  BY DEF SeriesInv
<1>1. [state |-> "completed", status |-> status] \in Entries
  BY DEF Entries
<1>2. /\ episodes' \in [1 .. Episodes -> Entries]
      /\ episodes'[e] = [state |-> "completed", status |-> status]
      /\ \A f \in 1 .. Episodes : f # e => episodes'[f] = episodes[f]
  BY <1>0, <1>1 DEF SeriesShape, Completed
<1>3. e \notin revisions /\ episodes'[e].state = "completed" /\ episodes'[e].status = status
  BY <1>0, <1>2 DEF EpisodesFit
<1>4. revisions' \subseteq {f \in 1 .. Episodes : episodes'[f].status = "result"}
  <2>1. \A f \in revisions : f \in 1 .. Episodes /\ f # e /\ episodes'[f].status = "result"
    BY <1>0, <1>2, <1>3 DEF EpisodesFit
  <2>2. CASE revisions' = revisions
    BY <2>1, <2>2
  <2>3. CASE revisions' = revisions \cup {e} /\ status = "result"
    BY <1>3, <2>1, <2>3
  <2> QED
    BY <2>2, <2>3
<1>5. EpisodesFit'
  <2>1. \A f \in 1 .. Episodes : episodes'[f].status # "none" <=> episodes'[f].state = "completed"
    BY <1>0, <1>2, <1>3 DEF EpisodesFit
  <2>2. ASSUME NEW f \in 1 .. Episodes, episodes'[f].state # "pending", NEW g \in 1 .. f - 1
        PROVE  episodes'[g].state = "completed"
    <3>1. g \in 1 .. Episodes /\ g < f
      BY Bounds
    <3>2. episodes[g].state = "completed"  \/ g = e
      <4>1. CASE f = e
        BY <3>1, <4>1
      <4>2. CASE f # e
        BY <1>0, <1>2, <2>2, <4>2 DEF EpisodesFit
      <4> QED
        BY <4>1, <4>2
    <3> QED
      BY <1>2, <1>3, <3>1, <3>2
  <2> QED
    BY <1>4, <2>1, <2>2 DEF EpisodesFit
<1>6. CallsFit'
  <2>1. \A f : CallsOf(f)' = CallsOf(f) /\ Unknown(f)' = Unknown(f)
    BY DEF CallsOf, Unknown
  <2>2. CallsAreOfBegun'
    <3>1. \A c \in DOMAIN calls : calls[c] \in Rows
      BY <1>0 DEF SeriesShape
    <3>2. \A c \in DOMAIN calls : calls[c].episode \in 1 .. Episodes
      BY <3>1 DEF Rows
    <3> QED
      BY <1>0, <1>2, <1>3, <3>2 DEF CallsFit, CallsAreOfBegun
  <2>3. SpendIsCapped' /\ UnknownIsLast'
    BY <1>0, <2>1 DEF CallsFit, SpendIsCapped, UnknownIsLast
  <2>4. UnknownLeavesNoMemory'
    BY <1>0, <2>1 DEF CallsFit, UnknownLeavesNoMemory
  <2>5. StagesAreBounded'
    <3>1. \A f, s : OfStage(f, s)' = OfStage(f, s)
      BY <2>1 DEF OfStage
    <3> QED
      BY <1>0, <3>1 DEF CallsFit, StagesAreBounded
  <2> QED
    BY <2>2, <2>3, <2>4, <2>5 DEF CallsFit
<1>7. revisions' \subseteq 1 .. Episodes
  BY <1>4
<1> QED
  BY <1>2, <1>3, <1>5, <1>6, <1>7

\* An episode that cannot be had, or paid for, is over without a call.
LEMMA SeriesInvPutsOff ==
    ASSUME SeriesInv, NEW w \in Runners, PutsOff(w)
    PROVE  SeriesInv'
<1>0. SeriesShape /\ RunnerFits(w) /\ runner[w] \in RunnerPlaces /\ RunnerAt(w, "select") /\ E(w) <= Episodes
  BY DEF SeriesInv, SeriesShape, PutsOff, TakesUp, InOrderLeft
<1>1. E(w) \in 1 .. Episodes
  BY <1>0, Bounds DEF E, RunnerPlaces
<1>2. PICK status \in {"data_unavailable", "call_limit_reached"} : episodes' = Completed(E(w), status)
  BY DEF PutsOff
<1>3. episodes[E(w)].state # "completed" /\ UNCHANGED <<calls, revisions, registryLock, sent, runs>>
  BY DEF PutsOff, TakesUp, Over, State
<1>4. \A f \in 1 .. Episodes : f < E(w) => episodes[f].state = "completed"
  BY <1>0 DEF RunnerFits, GoesInOrder, RunnerAt
<1>5. /\ episodes' \in [1 .. Episodes -> Entries] /\ revisions' \subseteq 1 .. Episodes
      /\ EpisodesFit' /\ CallsFit'
      /\ \A f \in 1 .. Episodes : f <= E(w) => episodes'[f].state = "completed"
  BY <1>1, <1>2, <1>3, <1>4, <1>0, EpisodeIsOver DEF E, RunnerPlaces
<1>6. runner' = [runner EXCEPT ![w].at = @ + 1, ![w].left = @ - 1]
  BY DEF PutsOff
<1>7. /\ runner'[w] = [runner[w] EXCEPT !.at = @ + 1, !.left = @ - 1]
      /\ \A v \in Runners : v # w => runner'[v] = runner[v]
      /\ runner' \in [Runners -> RunnerPlaces]
  <2>1. runner[w].at + 1 \in Nat \ {0} /\ runner[w].left - 1 \in Int
    BY <1>0 DEF RunnerPlaces
  <2>2. [runner[w] EXCEPT !.at = @ + 1, !.left = @ - 1] \in RunnerPlaces
    BY <1>0, <2>1 DEF RunnerPlaces
  <2> QED
    BY <1>0, <1>6, <2>2 DEF SeriesShape
<1>8. SeriesShape'
  BY <1>0, <1>3, <1>5, <1>7 DEF SeriesShape
<1>9. RunnerFits(w)'
  <2>1. E(w)' = E(w) + 1 /\ runner'[w].pc = "select" /\ E(w) \in Nat
    BY <1>0, <1>7 DEF E, RunnerAt, RunnerPlaces
  <2>2. GoesInOrder(w)'
    BY <1>0, <1>3, <1>5, <2>1 DEF RunnerFits, GoesInOrder, RunnerAt
  <2> QED
    BY <2>1, <2>2 DEF RunnerFits, WorksOnItsOwn, AttemptsCount, RequestIsReserved, Working, RunnerAt
<1> QED
  BY <1>0, <1>5, <1>7, <1>8, <1>9, OneStep DEF RunnerAt

\* An interrupted episode is put aside by the operator, when no runner is at work.
LEMMA SeriesInvAbandon ==
    ASSUME SeriesInv, NEW e \in 1 .. Episodes, Abandon(e)
    PROVE  SeriesInv'
<1>0. SeriesShape /\ EpisodesFit
  BY DEF SeriesInv
<1>1. /\ RegistryFree /\ episodes[e].state = "running" /\ episodes' = Completed(e, "interrupted_unknown")
      /\ UNCHANGED <<calls, revisions, registryLock, runner, sent, runs>>
  BY DEF Abandon
<1>2. \A f \in 1 .. Episodes : f < e => episodes[f].state = "completed"
  <2>1. \A f \in 1 .. e - 1 : episodes[f].state = "completed"
    BY <1>0, <1>1 DEF EpisodesFit
  <2> QED
    BY <2>1
<1>3. /\ episodes' \in [1 .. Episodes -> Entries] /\ revisions' \subseteq 1 .. Episodes
      /\ EpisodesFit' /\ CallsFit'
  BY <1>1, <1>2, EpisodeIsOver
<1>4. SeriesShape'
  BY <1>0, <1>1, <1>3 DEF SeriesShape
<1>5. \A v \in Runners : RunnerFits(v)'
  <2>1. \A v \in Runners : RunnerAt(v, "off")'
    BY <1>1, RunnerIsAlone DEF RunnerAt
  <2> QED
    BY <2>1 DEF RunnerFits, GoesInOrder, WorksOnItsOwn, AttemptsCount, RequestIsReserved, Working, RunnerAt
<1> QED
  BY <1>3, <1>4, <1>5 DEF SeriesInv

\* The place of a runner at its first call, and at the first call of a stage.
LEMMA StageStarts ==
    ASSUME NEW p \in RunnerPlaces, NEW n \in {1, 2}
    PROVE  [p EXCEPT !.pc = "call", !.stage = n, !.attempt = 1] \in RunnerPlaces
<1> DEFINE p1 == [p EXCEPT !.pc = "call"]
           p2 == [p1 EXCEPT !.stage = n]
<1>1. p1 \in RunnerPlaces
  BY DEF RunnerPlaces
<1> HIDE DEF p1
<1>2. p2 \in RunnerPlaces
  BY <1>1 DEF RunnerPlaces
<1> HIDE DEF p2
<1>3. [p2 EXCEPT !.attempt = 1] \in RunnerPlaces
  BY <1>2 DEF RunnerPlaces
<1> QED
  BY <1>3 DEF p1, p2

LEMMA EpisodeStarts ==
    ASSUME NEW p \in RunnerPlaces, NEW memory \in SUBSET (1 .. Episodes)
    PROVE  [p EXCEPT !.pc = "call", !.stage = 1, !.attempt = 1, !.memory = memory, !.generated = FALSE]
             \in RunnerPlaces
<1> DEFINE p1 == [p EXCEPT !.pc = "call", !.stage = 1, !.attempt = 1]
           p2 == [p1 EXCEPT !.memory = memory]
<1>1. p1 \in RunnerPlaces
  BY StageStarts
<1> HIDE DEF p1
<1>2. p2 \in RunnerPlaces
  BY <1>1 DEF RunnerPlaces
<1> HIDE DEF p2
<1>3. [p2 EXCEPT !.generated = FALSE] \in RunnerPlaces
  BY <1>2 DEF RunnerPlaces
<1> QED
  BY <1>3, SMTT(25) DEF p1, p2

\* An episode is begun: all before it are over, and no call of it is in the journal.
LEMMA SeriesInvBegins ==
    ASSUME SeriesInv, NEW w \in Runners, Begins(w)
    PROVE  SeriesInv'
<1>0. SeriesShape /\ EpisodesFit /\ CallsFit /\ RunnerFits(w) /\ runner[w] \in RunnerPlaces
      /\ RunnerAt(w, "select") /\ E(w) <= Episodes
  BY DEF SeriesInv, SeriesShape, Begins, TakesUp, InOrderLeft
<1>1. PICK e \in 1 .. Episodes : e = E(w)
         /\ episodes[e].state = "pending" 
         /\ UNCHANGED <<calls, revisions, registryLock, sent, runs>>
  BY <1>0, Bounds DEF E, RunnerPlaces, Begins, State
<1>2. \A f \in 1 .. Episodes : f < e => episodes[f].state = "completed"
  BY <1>0, <1>1 DEF RunnerFits, GoesInOrder, RunnerAt
<1>3. \A x, s : CallsOf(x)' = CallsOf(x) /\ OfStage(x, s)' = OfStage(x, s)
  BY <1>1 DEF CallsOf, OfStage
<1>4. /\ episodes' \in [1 .. Episodes -> Entries]
      /\ episodes'[e].state = "running" /\ episodes'[e].status = episodes[e].status
      /\ \A f \in 1 .. Episodes : f # e => episodes'[f] = episodes[f]
  <2>1. episodes' = [episodes EXCEPT ![e].state = "running"]
    BY <1>1 DEF Begins
  <2>2. episodes[e] \in Entries
    BY <1>0, <1>1 DEF SeriesShape
  <2>3. [episodes[e] EXCEPT !.state = "running"] \in Entries
    BY <2>2 DEF Entries
  <2> QED
    BY <1>0, <1>1, <2>1, <2>2, <2>3 DEF SeriesShape, Entries
<1>5. EpisodesFit'
  <2>1. \A f \in 1 .. Episodes : episodes'[f].status # "none" <=> episodes'[f].state = "completed"
    BY <1>0, <1>1, <1>4 DEF EpisodesFit
  <2>2. \A f \in revisions : f \in 1 .. Episodes /\ episodes'[f].status = "result"
    BY <1>0, <1>4 DEF EpisodesFit
  <2>3. ASSUME NEW f \in 1 .. Episodes, episodes'[f].state # "pending", NEW g \in 1 .. f - 1
        PROVE  episodes'[g].state = "completed"
    <3>1. g \in 1 .. Episodes /\ g < f
      BY Bounds
    <3>2. episodes[g].state = "completed"
      <4>1. CASE f = e
        BY <1>2, <3>1, <4>1
      <4>2. CASE f # e
        BY <1>0, <1>4, <2>3, <4>2 DEF EpisodesFit
      <4> QED
        BY <4>1, <4>2
    <3> QED
      BY <1>1, <1>4, <3>1, <3>2
  <2> QED
    BY <1>1, <2>1, <2>2, <2>3 DEF EpisodesFit
<1>6. CallsFit'
  <2>1. \A c \in DOMAIN calls : calls[c] \in Rows
    BY <1>0 DEF SeriesShape
  <2>2. CallsAreOfBegun'
    BY <1>0, <1>1, <1>4, <2>1 DEF CallsFit, CallsAreOfBegun, Rows
  <2>3. SpendIsCapped' /\ UnknownIsLast' /\ UnknownLeavesNoMemory' /\ StagesAreBounded'
    BY <1>0, <1>1, <1>3 DEF CallsFit, SpendIsCapped, UnknownIsLast, UnknownLeavesNoMemory, Unknown,
          StagesAreBounded
  <2> QED
    BY <2>2, <2>3 DEF CallsFit
<1> DEFINE place == [runner[w] EXCEPT !.pc = "call", !.stage = 1, !.attempt = 1,
                                      !.memory = revisions, !.generated = FALSE]
<1>7. place \in RunnerPlaces /\ place.at = e /\ place.pc = "call" /\ place.stage = 1 /\ place.attempt = 1
      /\ place.memory = revisions
  <2>1. place.at = e
    BY <1>0, <1>1 DEF RunnerPlaces, E
  <2>2. revisions \in SUBSET (1 .. Episodes)
    BY <1>0 DEF SeriesShape
  <2>3. /\ place.pc = "call" /\ place.stage = 1 /\ place.attempt = 1 /\ place.memory = revisions
        /\ place.generated = FALSE /\ place.left = runner[w].left
    BY <1>0 DEF RunnerPlaces
  <2>4. place \in RunnerPlaces
    BY <1>0, <2>2, EpisodeStarts
  <2> QED
    BY <2>1, <2>3, <2>4
<1>8. runner' = [runner EXCEPT ![w] = place]
  BY DEF Begins
<1> HIDE DEF place
<1>9. SeriesShape' /\ runner'[w] = place /\ \A v \in Runners : v # w => runner'[v] = runner[v]
  BY <1>0, <1>1, <1>4, <1>7, <1>8 DEF SeriesShape
<1>10. E(w)' = e /\ registryLock' = registryLock /\ registryLock = w
  BY <1>0, <1>1, <1>7, <1>9 DEF E, RunnerFits, GoesInOrder, RunnerAt
<1>11. GoesInOrder(w)' /\ WorksOnItsOwn(w)'
  BY <1>0, <1>1, <1>2, <1>4, <1>7, <1>9, <1>10 DEF GoesInOrder, WorksOnItsOwn, State
<1>12. AttemptsCount(w)'
  <2>1. \A s : OfStage(e, s) = {}
    BY <1>0, <1>1 DEF CallsFit, CallsAreOfBegun, OfStage, CallsOf
  <2>2. \A s : Cardinality(OfStage(e, s)') = 0 /\ OfStage(e, s)' = {}
    BY <1>3, <2>1, FS_EmptySet
  <2>3. \A s : Cardinality(OfStage(E(w), s))' = 0 /\ OfStage(E(w), s)' = {}
    BY <1>10, <2>2
  <2> QED
    BY <1>7, <1>9, <2>3, Bounds DEF AttemptsCount
<1>13. RunnerFits(w)'
  BY <1>7, <1>9, <1>11, <1>12 DEF RunnerFits, RequestIsReserved, RunnerAt
<1> QED
  BY <1>0, <1>5, <1>6, <1>9, <1>13, OneStep DEF RunnerAt

\* An episode concludes: its memory is the registry's if no call of it is unknown.
LEMMA SeriesInvConcludes ==
    ASSUME SeriesInv, NEW w \in Runners, Concludes(w)
    PROVE  SeriesInv'
<1>0. SeriesShape /\ RunnerFits(w) /\ runner[w] \in RunnerPlaces /\ RunnerAt(w, "result")
  BY DEF SeriesInv, SeriesShape, Concludes
<1>1. E(w) \in 1 .. Episodes /\ E(w) \in Nat /\ episodes[E(w)].state = "running"
  BY <1>0, Bounds DEF RunnerFits, WorksOnItsOwn, Working, RunnerAt, E, RunnerPlaces, State
<1>2. /\ episodes' = Completed(E(w), "result") /\ UNCHANGED <<calls, registryLock, sent, runs>>
      /\ ~Unknown(E(w)) /\ (revisions' = revisions \/ revisions' = revisions \cup {E(w)})
      /\ runner' = [runner EXCEPT ![w].pc = "select", ![w].at = @ + 1, ![w].left = @ - 1]
  BY DEF Concludes, MayConclude
<1>3. \A f \in 1 .. Episodes : f < E(w) => episodes[f].state = "completed"
  BY <1>0 DEF RunnerFits, GoesInOrder, RunnerAt
<1>4. /\ episodes' \in [1 .. Episodes -> Entries] /\ revisions' \subseteq 1 .. Episodes
      /\ EpisodesFit' /\ CallsFit'
      /\ \A f \in 1 .. Episodes : f <= E(w) => episodes'[f].state = "completed"
  BY <1>1, <1>2, <1>3, EpisodeIsOver
<1>5. /\ runner'[w] = [runner[w] EXCEPT !.pc = "select", !.at = @ + 1, !.left = @ - 1]
      /\ \A v \in Runners : v # w => runner'[v] = runner[v]
      /\ runner' \in [Runners -> RunnerPlaces]
  <2>1. runner[w].at + 1 \in Nat \ {0} /\ runner[w].left - 1 \in Int
    BY <1>0 DEF RunnerPlaces
  <2>2. [runner[w] EXCEPT !.pc = "select", !.at = @ + 1, !.left = @ - 1] \in RunnerPlaces
    BY <1>0, <2>1 DEF RunnerPlaces
  <2> QED
    BY <1>0, <1>2, <2>2 DEF SeriesShape
<1>6. SeriesShape'
  BY <1>0, <1>2, <1>4, <1>5 DEF SeriesShape
<1>7. RunnerFits(w)'
  <2>1. E(w)' = E(w) + 1 /\ runner'[w].pc = "select"
    BY <1>0, <1>5 DEF E, RunnerPlaces
  <2>2. GoesInOrder(w)'
    BY <1>0, <1>1, <1>2, <1>4, <2>1 DEF RunnerFits, GoesInOrder, RunnerAt
  <2> QED
    BY <2>1, <2>2 DEF RunnerFits, WorksOnItsOwn, AttemptsCount, RequestIsReserved, Working, RunnerAt
<1> QED
  BY <1>0, <1>4, <1>5, <1>6, <1>7, OneStep DEF RunnerAt
-----------------------------------------------------------------------------
(***************************************************************************)
(* The steps of a call                                                     *)
(***************************************************************************)
\* A runner at work is at an episode of the plan.
LEMMA EpisodeAtWork ==
    ASSUME SeriesInv, NEW w \in Runners, Working(w)
    PROVE  /\ E(w) \in 1 .. Episodes /\ episodes[E(w)].state = "running"
           /\ ~RunnerAt(w, "off") /\ runner[w] \in RunnerPlaces
<1>1. RunnerFits(w) /\ runner[w] \in RunnerPlaces
  BY DEF SeriesInv, SeriesShape
<1>2. E(w) <= Episodes /\ State(w) = "running" /\ E(w) \in Nat \ {0}
  BY <1>1 DEF RunnerFits, WorksOnItsOwn, E, RunnerPlaces
<1> QED
  BY <1>1, <1>2, Bounds DEF State, Working, RunnerAt

\* A request is sent: the journal showed one more than was made.
LEMMA SeriesInvSends ==
    ASSUME SeriesInv, NEW w \in Runners, Sends(w)
    PROVE  SeriesInv'
<1>0. SeriesShape /\ EpisodesFit /\ CallsFit /\ RunnerFits(w) /\ runner[w] \in RunnerPlaces /\ RunnerAt(w, "send")
  BY DEF SeriesInv, SeriesShape, Sends
<1>1. PICK e \in 1 .. Episodes : e = E(w) /\ sent' = [sent EXCEPT ![e] = @ + 1]
  BY <1>0, EpisodeAtWork DEF Working, RunnerAt, Sends
<1>2. UNCHANGED <<episodes, calls, revisions, registryLock, runs>> /\ runner' = [runner EXCEPT ![w].pc = "wait"]
  BY DEF Sends, registry, RunnerGoes
<1>3. \A x, s : CallsOf(x)' = CallsOf(x) /\ OfStage(x, s)' = OfStage(x, s)
  BY <1>2 DEF CallsOf, OfStage
<1>4. runner'[w] = [runner[w] EXCEPT !.pc = "wait"] /\ \A v \in Runners : v # w => runner'[v] = runner[v]
  BY <1>0, <1>2 DEF SeriesShape
<1>5. SeriesShape'
  <2>1. runner'[w] \in RunnerPlaces
    BY <1>0, <1>4 DEF RunnerPlaces
  <2>2. sent' \in [1 .. Episodes -> Nat] /\ sent'[e] = sent[e] + 1
        /\ \A x \in 1 .. Episodes : x # e => sent'[x] = sent[x]
    BY <1>0, <1>1 DEF SeriesShape
  <2> QED
    BY <1>0, <1>2, <2>1, <2>2 DEF SeriesShape
<1>6. EpisodesFit'
  BY <1>0, <1>2 DEF EpisodesFit
<1>7. CallsFit'
  <2>1. CallsAreOfBegun' /\ UnknownIsLast' /\ UnknownLeavesNoMemory' /\ StagesAreBounded'
    BY <1>0, <1>2, <1>3 DEF CallsFit, CallsAreOfBegun, UnknownIsLast, UnknownLeavesNoMemory, Unknown,
          StagesAreBounded
  <2>2. \A x \in 1 .. Episodes : sent'[x] <= Cardinality(CallsOf(x))
    <3>1. sent[e] < Cardinality(CallsOf(e)) /\ Cardinality(CallsOf(e)) \in Nat /\ sent[e] \in Nat
      BY <1>0, <1>1, CallsAreFinite DEF RunnerFits, RequestIsReserved, SeriesShape
    <3>2. sent'[e] = sent[e] + 1 /\ \A x \in 1 .. Episodes : x # e => sent'[x] = sent[x]
      BY <1>0, <1>1 DEF SeriesShape
    <3> QED
      BY <1>0, <3>1, <3>2 DEF CallsFit, SpendIsCapped
  <2>3. SpendIsCapped'
    BY <1>0, <1>2, <1>3, <2>2 DEF CallsFit, SpendIsCapped
  <2> QED
    BY <2>1, <2>3 DEF CallsFit
<1>8. RunnerFits(w)'
  <2>1. E(w)' = E(w) /\ State(w)' = State(w) /\ runner'[w].stage = runner[w].stage
        /\ runner'[w].memory = runner[w].memory /\ runner'[w].attempt = runner[w].attempt
        /\ runner'[w].pc = "wait" /\ Working(w) /\ ~RunnerAt(w, "off")
    BY <1>0, <1>2, <1>4 DEF E, State, RunnerPlaces, Working, RunnerAt
  <2>2. GoesInOrder(w)' /\ WorksOnItsOwn(w)' /\ RequestIsReserved(w)'
    BY <1>0, <1>2, <2>1 DEF RunnerFits, GoesInOrder, WorksOnItsOwn, RequestIsReserved, RunnerAt
  <2>3. AttemptsCount(w)'
    BY <1>0, <1>3, <2>1 DEF RunnerFits, AttemptsCount, RunnerAt
  <2> QED
    BY <2>2, <2>3 DEF RunnerFits
<1> QED
  BY <1>0, <1>4, <1>5, <1>6, <1>7, <1>8, OneStep DEF RunnerAt

\* A call is reserved: all calls of its episode before it are finished.
LEMMA SeriesInvReserves ==
    ASSUME SeriesInv, NEW w \in Runners, Reserves(w)
    PROVE  SeriesInv'
<1>0. SeriesShape /\ EpisodesFit /\ CallsFit /\ RunnerFits(w) /\ runner[w] \in RunnerPlaces /\ RunnerAt(w, "call") /\ Working(w)
  BY DEF SeriesInv, SeriesShape, Reserves, Working, RunnerAt
<1>1. CASE ~MayCall(E(w))
  BY <1>1, RunnerOnly DEF Reserves, GivesUp, registry
<1>2. CASE MayCall(E(w))
  <2>1. PICK e \in 1 .. Episodes, s \in {"memory", "portfolio"} :
          e = E(w) /\ s = Stages[runner[w].stage] /\ episodes[e].state = "running"
    BY <1>0, EpisodeAtWork DEF Stages, RunnerPlaces
  <2> DEFINE row == [episode |-> e, stage |-> s, state |-> "pending"]
             n == Len(calls)
  <2>2. /\ calls' = Append(calls, row) /\ runner' = [runner EXCEPT ![w].pc = "send"]
        /\ UNCHANGED <<episodes, revisions, registryLock, sent, runs>>
        /\ n < MaxCalls /\ ~Unknown(e)
    BY <1>2, <2>1 DEF Reserves, RunnerGoes, MayCall, CallCount
  <2>3. row \in Rows /\ n \in Nat /\ DOMAIN calls = 1 .. n
    BY <1>0 DEF Rows, SeriesShape
  <2> HIDE DEF row
  <2>4. /\ calls' \in Seq(Rows) /\ Len(calls') = n + 1 /\ DOMAIN calls' = 1 .. n + 1
        /\ \A c \in 1 .. n : calls'[c] = calls[c]
        /\ calls'[n + 1] = row
    BY <1>0, <2>2, <2>3, AppendAdds
  <2>5. \A x, t : /\ CallsOf(x)' = CallsOf(x) \cup (IF x = e THEN {n + 1} ELSE {})
                  /\ OfStage(x, t)' = OfStage(x, t) \cup (IF x = e /\ t = s THEN {n + 1} ELSE {})
                  /\ Cardinality(CallsOf(x)') = Cardinality(CallsOf(x)) + (IF x = e THEN 1 ELSE 0)
                  /\ Cardinality(OfStage(x, t)') = Cardinality(OfStage(x, t))
                                                   + (IF x = e /\ t = s THEN 1 ELSE 0)
                  /\ Cardinality(CallsOf(x)) \in Nat /\ Cardinality(OfStage(x, t)) \in Nat
    <3> SUFFICES ASSUME NEW x, NEW t
                 PROVE  /\ CallsOf(x)' = CallsOf(x) \cup (IF x = e THEN {n + 1} ELSE {})
                        /\ OfStage(x, t)' = OfStage(x, t) \cup (IF x = e /\ t = s THEN {n + 1} ELSE {})
                        /\ Cardinality(CallsOf(x)') = Cardinality(CallsOf(x)) + (IF x = e THEN 1 ELSE 0)
                        /\ Cardinality(OfStage(x, t)') = Cardinality(OfStage(x, t))
                                                         + (IF x = e /\ t = s THEN 1 ELSE 0)
                        /\ Cardinality(CallsOf(x)) \in Nat /\ Cardinality(OfStage(x, t)) \in Nat
      OBVIOUS
    <3>1. row.episode = e /\ row.stage = s
      BY DEF row
    <3>2. Cardinality(CallsOf(x)) \in Nat /\ Cardinality(OfStage(x, t)) \in Nat
      BY <1>0, CallsAreFinite
    <3>3. /\ CallsOf(x)' = CallsOf(x) \cup (IF row.episode = x THEN {n + 1} ELSE {})
          /\ OfStage(x, t)' = OfStage(x, t) \cup (IF row.episode = x /\ row.stage = t THEN {n + 1} ELSE {})
          /\ Cardinality(CallsOf(x)') = Cardinality(CallsOf(x)) + (IF row.episode = x THEN 1 ELSE 0)
          /\ Cardinality(OfStage(x, t)') = Cardinality(OfStage(x, t))
                                           + (IF row.episode = x /\ row.stage = t THEN 1 ELSE 0)
      <4>1. SeriesShape /\ row \in Rows /\ calls' = Append(calls, row)
        BY <1>0, <2>2, <2>3
      <4>2. CallsOf(x)' = CallsOf(x) \cup (IF row.episode = x THEN {n + 1} ELSE {})
        BY <4>1, AppendAdds
      <4>3. OfStage(x, t)' = OfStage(x, t) \cup (IF row.episode = x /\ row.stage = t THEN {n + 1} ELSE {})
        BY <4>1, AppendAdds
      <4>4. Cardinality(CallsOf(x)') = Cardinality(CallsOf(x)) + (IF row.episode = x THEN 1 ELSE 0)
        BY <4>1, AppendAdds
      <4>5. Cardinality(OfStage(x, t)') = Cardinality(OfStage(x, t))
                                           + (IF row.episode = x /\ row.stage = t THEN 1 ELSE 0)
        BY <4>1, AppendAdds
      <4> QED
        BY <4>2, <4>3, <4>4, <4>5
    <3> QED
      BY <3>1, <3>2, <3>3
  <2>6. runner'[w] = [runner[w] EXCEPT !.pc = "send"] /\ \A v \in Runners : v # w => runner'[v] = runner[v]
    BY <1>0, <2>2 DEF SeriesShape
  <2>7. SeriesShape'
    <3>1. runner'[w] \in RunnerPlaces
      BY <1>0, <2>6 DEF RunnerPlaces
    <3> QED
      BY <1>0, <2>2, <2>4, <3>1 DEF SeriesShape
  <2>8. EpisodesFit'
    BY <1>0, <2>2 DEF EpisodesFit
  <2>9. RunnerFits(w)'
    <3>1. E(w)' = E(w) /\ State(w)' = State(w) /\ runner'[w].stage = runner[w].stage
          /\ runner'[w].memory = runner[w].memory /\ runner'[w].attempt = runner[w].attempt
          /\ runner'[w].pc = "send" /\ ~RunnerAt(w, "off")
      BY <1>0, <2>2, <2>6 DEF E, State, RunnerPlaces, RunnerAt
    <3>2. GoesInOrder(w)' /\ WorksOnItsOwn(w)'
      BY <1>0, <2>2, <3>1 DEF RunnerFits, GoesInOrder, WorksOnItsOwn, RunnerAt
    <3>3. AttemptsCount(w)'
      <4> DEFINE k == Cardinality(OfStage(e, s))
      <4>1. /\ runner[w].attempt <= 1 + MaxRetries /\ k < runner[w].attempt
            /\ runner[w].stage = 1 => OfStage(e, "portfolio") = {}
        BY <1>0, <2>1 DEF RunnerFits, AttemptsCount
      <4>2. Cardinality(OfStage(e, s)') = k + 1 /\ k \in Nat
        BY <2>5
      <4>3. OfStage(e, "portfolio")' = OfStage(e, "portfolio") \/ s = "portfolio"
        BY <2>5
      <4>4. runner[w].stage = 1 => s = "memory"
        BY <2>1 DEF Stages
      <4>5. runner[w].attempt \in Nat
        BY <1>0 DEF RunnerPlaces
      <4>6. E(w)' = e /\ Stages[runner'[w].stage] = s
        BY <2>1, <3>1
      <4> HIDE DEF k
      <4>7. Cardinality(OfStage(E(w), Stages[runner[w].stage]))' <= runner'[w].attempt
        BY <3>1, <4>1, <4>2, <4>5, <4>6
      <4>8. runner'[w].stage = 1 => OfStage(E(w), "portfolio")' = {}
        BY <3>1, <4>1, <4>3, <4>4, <4>6
      <4> QED
        BY <3>1, <4>1, <4>7, <4>8 DEF AttemptsCount, RunnerAt
    <3>4. RequestIsReserved(w)'
      <4>1. sent[e] <= Cardinality(CallsOf(e)) /\ sent[e] \in Nat
        BY <1>0 DEF CallsFit, SpendIsCapped, SeriesShape
      <4>2. Cardinality(CallsOf(e)') = Cardinality(CallsOf(e)) + 1 /\ Cardinality(CallsOf(e)) \in Nat
        BY <2>5
      <4>3. E(w)' = e /\ sent' = sent
        BY <2>1, <2>2, <3>1
      <4>4. sent[e] < Cardinality(CallsOf(e)')
        BY <4>1, <4>2
      <4> QED
        BY <4>3, <4>4 DEF RequestIsReserved
    <3> QED
      BY <3>2, <3>3, <3>4 DEF RunnerFits
  <2>10. CallsFit'
    <3>1. CallsAreOfBegun'
      BY <1>0, <2>1, <2>2, <2>3, <2>4 DEF CallsFit, CallsAreOfBegun, row
    <3>2. SpendIsCapped'
      <4>1. \A x \in 1 .. Episodes : sent[x] <= Cardinality(CallsOf(x)) /\ sent[x] \in Nat
        BY <1>0 DEF CallsFit, SpendIsCapped, SeriesShape
      <4>2. \A x \in 1 .. Episodes : sent'[x] <= Cardinality(CallsOf(x)')
        <5> SUFFICES ASSUME NEW x \in 1 .. Episodes PROVE sent'[x] <= Cardinality(CallsOf(x)')
          OBVIOUS
        <5>1. Cardinality(CallsOf(x)) \in Nat /\ sent' = sent
              /\ Cardinality(CallsOf(x)') \in {Cardinality(CallsOf(x)), Cardinality(CallsOf(x)) + 1}
          BY <2>2, <2>5
        <5> QED
          BY <4>1, <5>1
      <4>3. Len(calls') <= MaxCalls
        BY <2>2, <2>3, <2>4, Bounds
      <4> QED
        BY <4>2, <4>3 DEF SpendIsCapped
    <3>3. UnknownIsLast'
      <4> SUFFICES ASSUME NEW x \in 1 .. Episodes, NEW c \in CallsOf(x)', NEW d \in CallsOf(x)', c < d
                   PROVE  calls'[c].state = "finished"
        BY DEF UnknownIsLast
      <4>1. c \in 1 .. n /\ c \in CallsOf(x) /\ calls'[c] = calls[c]
        BY <2>3, <2>4, <2>5 DEF CallsOf
      <4>2. CASE d = n + 1 /\ x = e
        <5>1. calls[c] \in Rows /\ calls[c].state # "pending"
          BY <1>0, <2>2, <2>3, <4>1, <4>2 DEF Unknown, SeriesShape
        <5> QED
          BY <4>1, <5>1 DEF Rows
      <4>3. CASE d \in CallsOf(x)
        BY <1>0, <4>1, <4>3 DEF CallsFit, UnknownIsLast
      <4> QED
        BY <2>5, <4>2, <4>3
    <3>4. UnknownLeavesNoMemory'
      <4>1. e \notin revisions
        BY <1>0, <2>1 DEF EpisodesFit
      <4>2. ASSUME NEW x \in revisions PROVE ~Unknown(x)'
        <5>1. CallsOf(x)' = CallsOf(x)
          BY <2>5, <4>1
        <5>2. \A c \in CallsOf(x) : calls'[c] = calls[c]
          BY <2>3, <2>4 DEF CallsOf
        <5> QED
          BY <1>0, <5>1, <5>2 DEF CallsFit, UnknownLeavesNoMemory, Unknown
      <4> QED
        BY <2>2, <4>2 DEF UnknownLeavesNoMemory
    <3>5. StagesAreBounded'
      <4>1. Cardinality(OfStage(e, s)) < runner[w].attempt /\ runner[w].attempt <= 1 + MaxRetries
            /\ runner[w].attempt \in Nat
        BY <1>0, <2>1 DEF RunnerFits, AttemptsCount, RunnerPlaces
      <4>2. ASSUME NEW x \in 1 .. Episodes, NEW t \in {"memory", "portfolio"}
            PROVE  Cardinality(OfStage(x, t)') <= 1 + MaxRetries
        <5>1. CASE x = e /\ t = s
          <6>1. Cardinality(OfStage(e, s)') = Cardinality(OfStage(e, s)) + 1 /\ Cardinality(OfStage(e, s)) \in Nat
            BY <2>5
          <6> QED
            BY <4>1, <5>1, <6>1, Bounds
        <5>2. CASE ~(x = e /\ t = s)
          BY <1>0, <2>5, <5>2 DEF CallsFit, StagesAreBounded
        <5> QED
          BY <5>1, <5>2
      <4> QED
        BY <4>2 DEF StagesAreBounded
    <3> QED
      BY <3>1, <3>2, <3>3, <3>4, <3>5 DEF CallsFit
  <2> QED
    BY <1>0, <2>6, <2>7, <2>8, <2>9, <2>10, OneStep DEF RunnerAt
<1> QED
  BY <1>1, <1>2

\* A call is finished, with a reply or an error.
LEMMA SeriesInvFinishes ==
    ASSUME SeriesInv, NEW w \in Runners, Answered(w) \/ Fails(w)
    PROVE  SeriesInv'
<1>0. SeriesShape /\ EpisodesFit /\ CallsFit /\ RunnerFits(w) /\ runner[w] \in RunnerPlaces /\ RunnerAt(w, "wait") /\ Working(w)
  BY DEF SeriesInv, SeriesShape, Answered, Fails, Working, RunnerAt
<1>1. calls' = Finished /\ UNCHANGED <<episodes, revisions, registryLock, sent, runs>>
  BY DEF Answered, Fails
<1>2. /\ calls' \in Seq(Rows) /\ Len(calls') = Len(calls) /\ DOMAIN calls' = DOMAIN calls
      /\ \A c \in DOMAIN calls : /\ calls'[c].episode = calls[c].episode
                                 /\ calls'[c].stage = calls[c].stage
                                 /\ calls'[c].state \in {calls[c].state, "finished"}
      /\ \A x : CallsOf(x)' = CallsOf(x)
      /\ \A x, s : OfStage(x, s)' = OfStage(x, s)
  BY <1>0, <1>1, FinishKeepsRows
<1>3. \/ runner' = [runner EXCEPT ![w].pc = "result"]
      \/ /\ runner[w].attempt <= MaxRetries
         /\ runner' = [runner EXCEPT ![w].pc = "call", ![w].attempt = @ + 1]
      \/ /\ runner[w].stage = 1
         /\ \E changed \in BOOLEAN :
              runner' = [runner EXCEPT ![w] = [@ EXCEPT !.pc = "call", !.stage = 2, !.attempt = 1,
                                                        !.generated = changed]]
  BY DEF Answered, Fails, Retries, NextAttempt, RunnerGoes
<1>4. EpisodesFit'
  BY <1>0, <1>1 DEF EpisodesFit
<1>5. CallsFit'
  <2>1. CallsAreOfBegun'
    BY <1>0, <1>1, <1>2 DEF CallsFit, CallsAreOfBegun
  <2>2. SpendIsCapped' /\ StagesAreBounded'
    BY <1>0, <1>1, <1>2 DEF CallsFit, SpendIsCapped, StagesAreBounded
  <2>3. \A x : CallsOf(x) \subseteq DOMAIN calls
    BY DEF CallsOf
  <2>4. UnknownIsLast'
    <3> SUFFICES ASSUME NEW x \in 1 .. Episodes, NEW c \in CallsOf(x), NEW d \in CallsOf(x), c < d
                 PROVE  calls'[c].state = "finished"
      BY <1>2 DEF UnknownIsLast
    <3> QED
      BY <1>0, <1>2, <2>3 DEF CallsFit, UnknownIsLast
  <2>5. UnknownLeavesNoMemory'
    BY <1>0, <1>1, <1>2, <2>3 DEF CallsFit, UnknownLeavesNoMemory, Unknown
  <2> QED
    BY <2>1, <2>2, <2>4, <2>5 DEF CallsFit
<1> DEFINE n(s) == Cardinality(OfStage(E(w), Stages[s]))
<1>6. /\ runner[w].attempt \in Nat \ {0} /\ runner[w].stage \in {1, 2} /\ MaxRetries \in Nat
      /\ runner[w].attempt <= 1 + MaxRetries
      /\ n(runner[w].stage) <= runner[w].attempt /\ n(runner[w].stage) \in Nat
      /\ runner[w].stage = 1 => OfStage(E(w), "portfolio") = {}
  BY <1>0, CallsAreFinite, Bounds DEF RunnerFits, AttemptsCount, RunnerPlaces
\* where the runner goes keeps what is said of it
<1>7. ASSUME NEW p \in RunnerPlaces, runner' = [runner EXCEPT ![w] = p],
             p.at = runner[w].at, p.memory = runner[w].memory, p.pc \in {"call", "result"},
             p.attempt <= 1 + MaxRetries, n(p.stage) <= p.attempt,
             p.pc = "call" => n(p.stage) < p.attempt,
             p.stage = 1 => OfStage(E(w), "portfolio") = {}
      PROVE  SeriesInv'
  <2>1. runner'[w] = p /\ \A v \in Runners : v # w => runner'[v] = runner[v]
    BY <1>0, <1>7 DEF SeriesShape
  <2>2. SeriesShape'
    BY <1>0, <1>1, <1>2, <1>7 DEF SeriesShape
  <2>3. E(w)' = E(w) /\ State(w)' = State(w) /\ ~RunnerAt(w, "off") /\ ~RunnerAt(w, "send")'
    BY <1>0, <1>1, <1>7, <2>1 DEF E, State, RunnerAt
  <2>4. GoesInOrder(w)' /\ WorksOnItsOwn(w)' /\ RequestIsReserved(w)'
    BY <1>0, <1>1, <1>7, <2>1, <2>3 DEF RunnerFits, GoesInOrder, WorksOnItsOwn, RequestIsReserved
  <2>5. Cardinality(OfStage(E(w), Stages[runner[w].stage]))' = n(p.stage)
        /\ OfStage(E(w), "portfolio")' = OfStage(E(w), "portfolio")
    BY <1>2, <2>1, <2>3
  <2>6. AttemptsCount(w)'
    BY <1>7, <2>1, <2>5 DEF AttemptsCount, RunnerAt
  <2> QED
    BY <1>4, <1>5, <2>1, <2>2, <2>3, <2>4, <2>6, OneStep DEF RunnerFits
<1>8. CASE runner' = [runner EXCEPT ![w].pc = "result"]
  <2> DEFINE p == [runner[w] EXCEPT !.pc = "result"]
  <2>1. p \in RunnerPlaces /\ p.pc = "result" /\ p.at = runner[w].at /\ p.memory = runner[w].memory
        /\ p.stage = runner[w].stage /\ p.attempt = runner[w].attempt
    BY <1>0 DEF RunnerPlaces
  <2>2. runner' = [runner EXCEPT ![w] = p]
    BY <1>8
  <2> HIDE DEF p, n
  <2> QED
    BY <1>6, <1>7, <2>1, <2>2
<1>9. CASE /\ runner[w].attempt <= MaxRetries
           /\ runner' = [runner EXCEPT ![w].pc = "call", ![w].attempt = @ + 1]
  <2> DEFINE p == [runner[w] EXCEPT !.pc = "call", !.attempt = @ + 1]
  <2>1. p \in RunnerPlaces /\ p.pc = "call" /\ p.at = runner[w].at /\ p.memory = runner[w].memory
        /\ p.stage = runner[w].stage /\ p.attempt = runner[w].attempt + 1
    <3>1. runner[w].attempt + 1 \in Nat \ {0}
      BY <1>6
    <3> QED
      BY <1>0, <3>1 DEF RunnerPlaces
  <2>2. runner' = [runner EXCEPT ![w] = p]
    BY <1>0, <1>9 DEF SeriesShape
  <2> HIDE DEF p, n
  <2>3. p.attempt <= 1 + MaxRetries /\ n(p.stage) < p.attempt
    BY <1>6, <1>9, <2>1
  <2> QED
    <3>1. n(p.stage) <= p.attempt
      BY <1>6, <2>1, <2>3
    <3> QED
      BY <1>6, <1>7, <2>1, <2>2, <2>3, <3>1
<1>10. ASSUME NEW changed \in BOOLEAN, runner[w].stage = 1,
              runner' = [runner EXCEPT ![w] = [@ EXCEPT !.pc = "call", !.stage = 2, !.attempt = 1,
                                                        !.generated = changed]]
       PROVE  SeriesInv'
  <2> DEFINE q == [runner[w] EXCEPT !.pc = "call", !.stage = 2, !.attempt = 1]
             p == [q EXCEPT !.generated = changed]
  <2>1. q \in RunnerPlaces /\ q.pc = "call" /\ q.at = runner[w].at /\ q.memory = runner[w].memory
        /\ q.stage = 2 /\ q.attempt = 1
    BY <1>0, StageStarts DEF RunnerPlaces
  <2> HIDE DEF q
  <2>2. p \in RunnerPlaces /\ p.pc = "call" /\ p.at = runner[w].at /\ p.memory = runner[w].memory
        /\ p.stage = 2 /\ p.attempt = 1
    BY <2>1 DEF RunnerPlaces
  <2>3. runner' = [runner EXCEPT ![w] = p]
    BY <1>10 DEF q
  <2>4. n(2) = 0
    BY <1>6, <1>10, FS_EmptySet DEF Stages
  <2> HIDE DEF p, n
  <2> QED
    <3>1. p.attempt <= 1 + MaxRetries /\ n(p.stage) < p.attempt /\ n(p.stage) <= p.attempt /\ p.stage # 1
      BY <1>6, <2>2, <2>4
    <3> QED
      BY <1>7, <2>2, <2>3, <3>1
<1> QED
  BY <1>3, <1>8, <1>9, <1>10
-----------------------------------------------------------------------------
(***************************************************************************)
(* The theorem                                                             *)
(***************************************************************************)
LEMMA SeriesInvInit ==
    ASSUME SeriesInit
    PROVE  SeriesInv
<1>1. calls = <<>> /\ DOMAIN calls = {} /\ Len(calls) = 0 /\ revisions = {} /\ registryLock = Nobody
  BY DEF SeriesInit
<1>2. NoRun \in RunnerPlaces
  BY DEF NoRun, RunnerPlaces
<1>3. SeriesShape
  BY <1>1, <1>2, Bounds DEF SeriesInit, SeriesShape, Entries
<1>4. \A e, s : CallsOf(e) = {} /\ OfStage(e, s) = {}
  BY <1>1 DEF CallsOf, OfStage
<1>5. EpisodesFit
  BY <1>1 DEF SeriesInit, EpisodesFit
<1>6. CallsFit
  <2>1. CallsAreOfBegun /\ UnknownIsLast /\ UnknownLeavesNoMemory
    BY <1>1, <1>4 DEF CallsAreOfBegun, UnknownIsLast, UnknownLeavesNoMemory
  <2>2. SpendIsCapped /\ StagesAreBounded
    <3>1. \A e, s : Cardinality(CallsOf(e)) = 0 /\ Cardinality(OfStage(e, s)) = 0
      BY <1>4, FS_EmptySet
    <3>2. \A e \in 1 .. Episodes : sent[e] = 0
      BY DEF SeriesInit
    <3> QED
      BY <1>1, <3>1, <3>2, Bounds DEF SpendIsCapped, StagesAreBounded
  <2> QED
    BY <2>1, <2>2 DEF CallsFit
<1>7. \A w \in Runners : RunnerFits(w)
  <2>1. \A w \in Runners : RunnerAt(w, "off")
    BY DEF SeriesInit, RunnerAt, NoRun
  <2> QED
    BY <2>1, OffFits
<1> QED
  BY <1>3, <1>5, <1>6, <1>7 DEF SeriesInv

LEMMA SeriesInvNext ==
    ASSUME SeriesInv, [SeriesNext]_seriesVars
    PROVE  SeriesInv'
<1>1. CASE UNCHANGED seriesVars
  <2>1. UNCHANGED <<registry, sent, registryLock, runner, runs>>
    BY <1>1 DEF seriesVars
  <2>2. EpisodesFit' /\ CallsFit' /\ \A e, s : CallsOf(e)' = CallsOf(e) /\ OfStage(e, s)' = OfStage(e, s)
    BY <2>1, RegistryStays
  <2>3. SeriesShape'
    BY <2>1 DEF SeriesInv, SeriesShape, registry
  <2>4. ASSUME NEW w \in Runners PROVE RunnerFits(w)'
    <3>1. RunnerFits(w) /\ runner' = runner /\ episodes' = episodes /\ revisions' = revisions
          /\ registryLock' = registryLock /\ sent' = sent
      BY <2>1 DEF SeriesInv, registry
    <3>2. E(w)' = E(w) /\ State(w)' = State(w) /\ \A pc : RunnerAt(w, pc)' = RunnerAt(w, pc)
      BY <3>1 DEF E, State, RunnerAt
    <3>3. GoesInOrder(w)' /\ WorksOnItsOwn(w)' /\ RequestIsReserved(w)'
      BY <2>2, <3>1, <3>2 DEF RunnerFits, GoesInOrder, WorksOnItsOwn, RequestIsReserved, Working
    <3>4. AttemptsCount(w)'
      BY <2>2, <3>1, <3>2 DEF RunnerFits, AttemptsCount, Working
    <3> QED
      BY <3>3, <3>4 DEF RunnerFits
  <2> QED
    BY <2>2, <2>3, <2>4 DEF SeriesInv
<1>2. ASSUME NEW w \in Runners,
             StartsRun(w) \/ Skips(w) \/ Stops(w) \/ PutsOff(w) \/ Begins(w) \/ Episode(w) \/ RunnerDies(w)
      PROVE  SeriesInv'
  BY <1>2, RunnerOnly, SeriesInvPutsOff, SeriesInvBegins, SeriesInvReserves, SeriesInvSends, SeriesInvFinishes, SeriesInvConcludes DEF Episode
<1>3. ASSUME NEW e \in 1 .. Episodes, Abandon(e)
      PROVE  SeriesInv'
  BY <1>3, SeriesInvAbandon
<1> QED
  BY <1>1, <1>2, <1>3 DEF SeriesNext

\* What the invariant says of a journal is what the run checks.
LEMMA SeriesInvSuffices ==
    ASSUME SeriesInv
    PROVE  JournalAddsUp
<1>1. JournalTypeOK
  <2>1. \A e \in 1 .. Episodes : episodes[e].state \in {"pending", "running", "completed"}
    BY DEF SeriesInv, SeriesShape, Entries
  <2>2. \A w \in Runners : Working(w) => ~RunnerAt(w, "off")
    BY DEF Working, RunnerAt
  <2> QED
    BY <2>1, <2>2 DEF SeriesInv, EpisodesFit, RunnerFits, GoesInOrder, WorksOnItsOwn, JournalTypeOK
<1>2. EpisodesAreInOrder
  BY DEF SeriesInv, EpisodesFit, RunnerFits, WorksOnItsOwn, EpisodesAreInOrder
<1>3. CallsPerEpisode
  BY DEF SeriesInv, CallsFit, StagesAreBounded, OfStage, CallsPerEpisode
<1> QED
  BY <1>1, <1>2, <1>3 DEF SeriesInv, CallsFit, JournalAddsUp

\* The journal adds up whatever is cut off, killed, retried or abandoned: requests are
\* those it shows, in the order of the episodes and within their limits, and what an
\* unknown one touched is not built on (SeriesRunner, JournaledClient, SeriesStore).
THEOREM JournalAlwaysAddsUp == SeriesSpec => []JournalAddsUp
<1>1. SeriesInv /\ [SeriesNext]_seriesVars => SeriesInv'
  BY SeriesInvNext
<1>2. SeriesInv => JournalAddsUp
  BY SeriesInvSuffices
<1> QED
  BY SeriesInvInit, <1>1, <1>2, PTL DEF SeriesSpec
=============================================================================
