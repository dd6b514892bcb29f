------------------------------ MODULE FedInbox ------------------------------
(***************************************************************************)
(* Intake of the Fed's feed (sources/fed.py: FedWatcher.poll_once with its *)
(* FedInbox, and fed_cli.py around it).                                    *)
(*                                                                         *)
(* A poll takes the lock of the database, reads the feed, takes in what is *)
(* new and, if told to, reasons about what waits.  The inbox and the       *)
(* thesis memory are written in transactions of their own, with network    *)
(* calls in between, and a process may die between any two of them.        *)
(* Which of several items comes first is left open.  Of the memory only    *)
(* the events and the events with a decision are kept; an answer that does *)
(* not fit, or meets a memory that has moved on, is one outcome.           *)
(***************************************************************************)
EXTENDS Naturals, FiniteSets

CONSTANTS
    Watchers,     \* processes
    Items,        \* announcements of statements
    Spoofed,      \* those that validate_item rejects
    None,         \* no process, no item
    ClientRetries, \* max_retries of the client: 2
    MaxStarts,    \* bound: processes started
    MaxCrashes,   \* bound: processes killed
    MaxFaults     \* bound: failures of the network and of the database

ASSUME InboxAssumption ==
    /\ IsFiniteSet(Watchers) /\ IsFiniteSet(Items) /\ Spoofed \subseteq Items
    /\ None \notin Watchers \cup Items
    /\ {ClientRetries, MaxStarts, MaxCrashes, MaxFaults} \subseteq Nat

VARIABLES
    feed,       \* what the feed announces
    inbox,      \* fed_feed_items: the status of each item
    ready,      \* fed_feed_state: initialized
    recorded,   \* the events in the memory
    decided,    \* the events with a decision
    lock,       \* who holds the lock of the database
    watcher,    \* where each process is, what it has left to do, and how it was started
    paid,       \* requests posted to the model for each item: each may be billed
    unanswered, \* history: those of them that timed out or got no usable status
    lost,       \* history: processes that ended with a call for the item not used
    baseline,   \* history: what the feed announced when the inbox was set up
    starts, crashes, faults

bill == <<paid, unanswered>>
data == <<inbox, ready, recorded, decided, bill, lost, baseline>>
bounds == <<starts, crashes, faults>>
vars == <<feed, data, lock, watcher, bounds>>

Off == [pc |-> "off", todo |-> {}, item |-> None, posted |-> 0, reason |-> FALSE, watch |-> FALSE]

Init ==
    /\ feed \in SUBSET Items
    /\ inbox = [i \in Items |-> "none"] /\ ready = FALSE
    /\ recorded = {} /\ decided = {} /\ lock = None
    /\ watcher = [w \in Watchers |-> Off]
    /\ paid = [i \in Items |-> 0] /\ unanswered = paid
    /\ lost = [i \in Items |-> 0] /\ baseline = {}
    /\ starts = 0 /\ crashes = 0 /\ faults = 0

At(w, pc) == watcher[w].pc = pc
Goes(w, pc) == watcher' = [watcher EXCEPT ![w].pc = pc]
Takes(w, i, pc) ==
    watcher' = [watcher EXCEPT ![w].pc = pc, ![w].item = i, ![w].posted = 0, ![w].todo = @ \ {i}]
Item(w) == watcher[w].item

\* mark: whatever the row says already.
Marked(i, status) == inbox' = [inbox EXCEPT ![i] = status]

Fault == faults < MaxFaults /\ faults' = faults + 1 /\ UNCHANGED <<starts, crashes>>

Released(w) == IF lock = w THEN None ELSE lock

\* The poll is over: the lock is free, and the process waits or is done.
Finishes(w) ==
    /\ lock' = Released(w)
    /\ watcher' = [watcher EXCEPT ![w] =
           IF @.watch THEN [@ EXCEPT !.pc = "idle", !.todo = {}, !.item = None] ELSE Off]
-----------------------------------------------------------------------------
Announces ==
    /\ \E i \in Items : feed' = feed \cup {i} \/ feed' = feed \ {i}
    /\ feed' # feed
    /\ UNCHANGED <<data, lock, watcher, bounds>>

Start(w) ==
    /\ At(w, "off") /\ starts < MaxStarts /\ starts' = starts + 1
    /\ \E reason, watch \in BOOLEAN :
         watcher' = [watcher EXCEPT ![w] = [Off EXCEPT !.pc = "idle", !.reason = reason, !.watch = watch]]
    /\ UNCHANGED <<feed, data, lock, crashes, faults>>

LockFree == lock = None

\* exclusive
Poll(w) ==
    /\ At(w, "idle")
    /\ IF LockFree THEN lock' = w /\ Goes(w, "fetch")
       ELSE watcher' = [watcher EXCEPT ![w] = Off] /\ UNCHANGED lock
    /\ UNCHANGED <<feed, data, bounds>>

FetchFeed(w) ==
    /\ At(w, "fetch")
    /\ watcher' = [watcher EXCEPT ![w].pc = "sort", ![w].todo = feed]
    /\ UNCHANGED <<feed, data, lock, bounds>>

FetchFails(w) ==
    /\ At(w, "fetch") /\ Fault /\ Finishes(w)
    /\ UNCHANGED <<feed, data>>

Rejects(w) ==
    /\ At(w, "sort")
    /\ \E i \in watcher[w].todo \cap Spoofed : Takes(w, i, "sort") /\ Marked(i, "quarantined")
    /\ UNCHANGED <<feed, ready, recorded, decided, bill, lost, baseline, lock, bounds>>

Sorted(w) == At(w, "sort") /\ watcher[w].todo \cap Spoofed = {}

Baselined(w) ==
    [i \in Items |-> IF i \in watcher[w].todo /\ inbox[i] = "none" THEN "baseline" ELSE inbox[i]]

\* bootstrap
Bootstraps(w) ==
    /\ Sorted(w) /\ ~ready
    /\ ready' = TRUE /\ baseline' = watcher[w].todo
    /\ inbox' = Baselined(w)
    /\ Finishes(w)
    /\ UNCHANGED <<feed, recorded, decided, bill, lost, bounds>>

TakesIn(w) ==
    /\ Sorted(w) /\ ready /\ Goes(w, "items")
    /\ UNCHANGED <<feed, data, lock, bounds>>
-----------------------------------------------------------------------------
(***************************************************************************)
(* Taking in                                                               *)
(***************************************************************************)
Seen(i) == inbox[i] # "none"

\* What a crash between the memory and the inbox has left is marked, not fetched again.
WayOf(i) == IF i \in recorded THEN "mark" ELSE "article"

Looks(w) ==
    /\ At(w, "items")
    /\ \E i \in watcher[w].todo :
         Takes(w, i, IF Seen(i) THEN "items" ELSE WayOf(i))
    /\ UNCHANGED <<feed, data, lock, bounds>>

\* fetch_article: the statement, a failure to be retried by the next poll, or a
\* page that is not one.
FetchArticle(w) ==
    /\ At(w, "article") /\ \E pc \in {"record", "reject"} : Goes(w, pc)
    /\ UNCHANGED <<feed, data, lock, bounds>>

ArticleFails(w) ==
    /\ At(w, "article") /\ Fault /\ Goes(w, "items")
    /\ UNCHANGED <<feed, data, lock>>

\* record_event: an event with another time of receipt is a conflict.
Records(w) ==
    /\ At(w, "record")
    /\ IF Item(w) \in recorded THEN Goes(w, "reject") /\ UNCHANGED recorded
       ELSE Goes(w, "mark") /\ recorded' = recorded \cup {Item(w)}
    /\ UNCHANGED <<feed, inbox, ready, decided, bill, lost, baseline, lock, bounds>>

Marks(w) ==
    /\ \/ At(w, "mark") /\ Marked(Item(w), "pending") /\ Goes(w, "items")
       \/ At(w, "reject") /\ Marked(Item(w), "quarantined") /\ Goes(w, "items")
       \/ At(w, "done") /\ Marked(Item(w), "processed") /\ Goes(w, "reason")
       \/ At(w, "bad") /\ Marked(Item(w), "quarantined") /\ Goes(w, "reason")
    /\ UNCHANGED <<feed, ready, recorded, decided, bill, lost, baseline, lock, bounds>>

\* Mutant: what the feed does not announce any more is left out.
Waiting_Announced == {i \in feed : inbox[i] = "pending"}

\* pending_ids
Waiting == {i \in Items : inbox[i] = "pending"}

AllTaken(w) ==
    /\ At(w, "items") /\ watcher[w].todo = {}
    /\ IF watcher[w].reason
       THEN /\ watcher' = [watcher EXCEPT ![w].pc = "reason", ![w].todo = Waiting]
            /\ UNCHANGED lock
       ELSE Finishes(w)
    /\ UNCHANGED <<feed, data, bounds>>
-----------------------------------------------------------------------------
(***************************************************************************)
(* Reasoning                                                               *)
(***************************************************************************)
\* Mutant: a decision made before is not looked for.
Known_Never(i) == FALSE

Known(i) == i \in decided

Asks(w) ==
    /\ At(w, "reason")
    /\ \E i \in watcher[w].todo : Takes(w, i, IF Known(i) THEN "done" ELSE "call")
    /\ UNCHANGED <<feed, data, lock, bounds>>

Charged(i) == paid' = [paid EXCEPT ![i] = @ + 1]

\* complete_json: a request is answered, or refused for good.
Calls(w) ==
    /\ At(w, "call") /\ Charged(Item(w))
    /\ \E pc \in {"answered", "bad"} : Goes(w, pc)
    /\ UNCHANGED <<feed, inbox, ready, recorded, decided, unanswered, lost, baseline, lock, bounds>>

PostsAgain(w) == watcher[w].posted < ClientRetries

\* It is not, though it may have been worked on and billed: the client posts another.
NoAnswer(w) ==
    /\ At(w, "call") /\ Fault /\ Charged(Item(w))
    /\ unanswered' = [unanswered EXCEPT ![Item(w)] = @ + 1]
    /\ watcher' = [watcher EXCEPT ![w].pc = IF PostsAgain(w) THEN "call" ELSE "bad", ![w].posted = @ + 1]
    /\ UNCHANGED <<feed, inbox, ready, recorded, decided, lost, baseline, lock>>

Commits(w) ==
    /\ At(w, "answered")
    /\ IF Item(w) \in decided THEN Goes(w, "bad") /\ UNCHANGED decided
       ELSE Goes(w, "done") /\ decided' = decided \cup {Item(w)}
    /\ UNCHANGED <<feed, inbox, ready, recorded, bill, lost, baseline, lock, bounds>>

AllReasoned(w) ==
    /\ At(w, "reason") /\ watcher[w].todo = {} /\ Finishes(w)
    /\ UNCHANGED <<feed, data, bounds>>

Billed(w) == At(w, "answered") \/ At(w, "bad") \/ (At(w, "call") /\ watcher[w].posted > 0)

\* The process is gone, and a call that was not used with it.
Ends(w) ==
    /\ watcher' = [watcher EXCEPT ![w] = Off]
    /\ lock' = Released(w)
    /\ lost' = IF Billed(w) THEN [lost EXCEPT ![Item(w)] = @ + 1] ELSE lost
    /\ UNCHANGED <<feed, inbox, ready, recorded, decided, bill, baseline>>

\* An error of the database is none of those that are caught.
CommitFails(w) == At(w, "answered") /\ Fault /\ Ends(w)

Crash(w) ==
    /\ ~At(w, "off") /\ crashes < MaxCrashes /\ crashes' = crashes + 1
    /\ Ends(w) /\ UNCHANGED <<starts, faults>>

Step(w) ==
    \/ Poll(w) \/ FetchFeed(w) \/ Rejects(w) \/ Bootstraps(w) \/ TakesIn(w)
    \/ Looks(w) \/ FetchArticle(w) \/ Records(w) \/ Marks(w) \/ AllTaken(w)
    \/ Asks(w) \/ Calls(w) \/ Commits(w) \/ AllReasoned(w)

Next ==
    \/ Announces
    \/ \E w \in Watchers :
         Step(w) \/ Start(w) \/ FetchFails(w) \/ ArticleFails(w) \/ NoAnswer(w) \/ CommitFails(w) \/ Crash(w)

Spec == Init /\ [][Next]_vars

\* A process that has been started goes on; nothing starts one.
FairSpec == Spec /\ \A w \in Watchers : WF_vars(Step(w))
-----------------------------------------------------------------------------
(***************************************************************************)
(* Properties                                                              *)
(***************************************************************************)
\* The state keeps its shape, and the inbox and the memory agree: what waits has
\* its event, and what is processed its decision.
TypeOK ==
    /\ feed \subseteq Items /\ decided \subseteq recorded /\ recorded \subseteq Items
    /\ inbox \in [Items -> {"none", "baseline", "pending", "processed", "quarantined"}]
    /\ \A w \in Watchers : ~At(w, "off") /\ ~At(w, "idle") => lock = w
    /\ \A i \in Items :
         /\ inbox[i] = "pending" => i \in recorded
         /\ inbox[i] = "processed" => i \in decided

\* "historical feed items are baselined before inference" (sources/fed.py): what
\* was there when the inbox was set up is never fetched and never paid for,
\* whoever crashes and whenever the feed announces it again.
HistoryIsFree == \A i \in baseline : i \notin recorded /\ paid[i] = 0

\* "a second risks paid duplicates" (sources/fed.py): a request is repeated only
\* where it was not answered or a process ended before it could use the answer,
\* and a call makes no more of them than the client's retries allow.
PaidOnce ==
    \A i \in Items :
        /\ paid[i] <= 1 + lost[i] + unanswered[i]
        /\ paid[i] <= (1 + lost[i]) * (1 + ClientRetries)

\* The watcher pays for an item of its time once, and for history never.
InboxPaysOnce == TypeOK /\ HistoryIsFree /\ PaidOnce

\* What has been settled stays so: an item that the feed still announces does not
\* wait again, though mark would overwrite its status.
SettledIsFinal ==
    [][\A i \in Items :
          inbox[i] \in {"baseline", "processed", "quarantined"} => inbox'[i] = inbox[i]]_vars

\* An announced item is taken in, as long as someone watches.
Unseen(i) ==
    /\ ready /\ i \in feed /\ inbox[i] = "none"
    /\ \E w \in Watchers : watcher[w].watch
ItemsAreSeen == []<>(\A i \in Items : ~Unseen(i))

\* What waits is settled, after a crash or another failure too, as long as
\* someone watches and reasons.
Unsettled(i) ==
    /\ inbox[i] = "pending"
    /\ \E w \in Watchers : watcher[w].watch /\ watcher[w].reason
PendingIsSettled == []<>(\A i \in Items : ~Unsettled(i))

\* Items are settled, and for good.
ItemsSettleForGood == SettledIsFinal /\ ItemsAreSeen /\ PendingIsSettled
=============================================================================
