# EventLens: specification, model checking and proofs

EventLens watches news and price feeds, puts each relevant event to a language
model, keeps the model's theses in a versioned memory, and trades one EUR/USD
position on a *shadow* ledger: an account that exists only in SQLite and fills
at observed quotes. These modules specify the parts of it whose correctness
depends on order, time and failure, in TLA+ translated from `src/src/eventlens`
(paths below are relative to that directory).

1. [Components](#1-components) - the inventory
2. [Plan](#2-plan) - modules, what composes what, what is done
3. [The modules](#3-the-modules) - how state and actions correspond to the code
4. [Runs](#4-runs) - what each shows, and why its bounds suffice
5. [Fairness](#5-fairness)
6. [Proofs](#6-proofs)
7. [Disagreements between code and documentation](#7-disagreements-between-code-and-documentation)
8. [Not modelled](#8-not-modelled)

## 1. Components

| Component | State it keeps | Operations | What makes it correct |
|---|---|---|---|
| **Shadow ledger** `trading/execution.py` | SQLite: account (cash, quantity, entry, peak mark, exit due), orders (`shadow_receipts`), daily loss rows, fills | `snapshot`, `record`, `expire_pending_orders`, `fill_pending`, `evaluate_protective_exits`, cancellation on a stop, exits on shutdown | one pending order, of the current portfolio; nothing blocked adds risk; loss limits survive outages and midnight; exits stay due; positions get closed; cash reconciles |
| **Sizing and classification** `trading/portfolio.py`, `trading/risk.py` | none | `quantize_target_quantity_eur`, `classify_exposure_change` | nearest permitted size; never above a cap; what counts as reducing risk does reduce it |
| **Hard risk gate** `trading/risk.py` | none (reads the ledger and the clock) | `assess` | approves nothing the policy forbids at that moment |
| **Event runtime** `runtime.py` (`IntradayEventRuntime`) | a lock; the cycle's local state across its awaits | `run_cycle`, `recover_incomplete` | one decision and at most one order for each event across time-outs and crashes; calls bounded; every event concludes |
| **Runtime store** `runtime.py` (`SQLiteRuntimeStore`) | event rows, bundles, reviews, audit log, runner state | upserts, fill and cancellation marks, bundle binding and finalizing, review records, stop flag | rows agree with ledger and memory; terminal states are final; a stop request is not lost |
| **Shadow runner** `runtime.py` (`ShadowRunner`) | stop and drain events, poll tasks, protection statistics | four workers (news, events, quotes, protection), `stop`, two-phase shutdown, reviews | no new risk while stopping or near the end of a run; the drain ends |
| **Thesis memory** `sqlite_memory.py` | SQLite: raw events, thesis revisions, decisions, one version | `record_event`, `snapshot`, `commit` | optimistic: a commit is made on the current version, once for each event; snapshots are causal |
| **Memory reasoner** `reasoning.py` | none | snapshot, model call, commit | never commits what was reasoned on an old version |
| **Trading agent** `trading/agent.py` | none | `decide` | a decision names the snapshot it was made on; no usable quote, no call |
| **Quotes** `quotes.py` | SQLite: sessions, numbered quotes, rejects | start, quote, stop; `validate_market_quote` | quotes in order, in live sessions; stale or future quotes are unusable |
| **Observer store** `observer.py` | SQLite: captures, item revisions, sightings, anchors, pages, failures | record a capture, query by availability, judge health | what a query has shown stays true; old items are not news; a fault closes the gate and its end opens it |
| **News sources** `sources/*.py` | none between polls but the observer store | fetch a feed and the pages of live arrivals, bundle | full texts do not regress; the archive is not fetched; simultaneous items speak once |
| **Fed intake** `sources/fed.py` | SQLite: feed state, items; a lock file | poll, intake, inference | history is free; an item is asked about again only where a request went unanswered or a process ended |
| **cTrader bridge collector** `sources/ctrader_demo.py` | file offsets, sessions | poll | no line skipped or read twice |
| **Open API streamer** `ctrader_openapi.py` | connection, sequence, pending requests | connect, reconnect, stream, demo orders | sequences continue across reconnects |
| **Series replay, replay inference** `research/series_replay.py`, `research/replay_inference.py` | journal files, budgets | step, resume, two-call pipeline | a paid call is never repeated; causality |
| **Offline research** `research/*` | none | labels, costs, provenance | pure calculations |
| **Model client** `deepseek.py` | none | an HTTP request, posted again up to `max_retries` times (2 unless set otherwise) after a time-out or a temporary status | a call posts a bounded number of requests |
| **Contracts** `contracts.py`, `latency.py` | immutable records | validators | - |
| **Command lines, cBots, deployment** | none of their own | wiring | - |

How they interact: sources write captures to the *observer store*; the *event
worker* scans its revisions, runs each event through the *event runtime* (row in
the *runtime store*, snapshot of *memory* and *ledger*, model call, commit to
*memory*, *risk gate*, `record` in the *ledger*, row again); the *quote worker*
and the *protection worker* call the ledger with the latest *quote* and tell the
runtime store of fills. Memory, ledger, runtime store, quotes and observer are
separate SQLite databases or sets of tables, each written by transactions of its own,
one after the other. There is one exception. The runtime store usually lives in the
ledger's file (`SQLiteRuntimeStore(shadow_executor.path)`, `runtime.py:1172`;
`shadow_cli.py:1019`), and when the ledger cancels an order for a stop it then
updates `runtime_events` in its own transaction (`execution.py:588-611`), which
`RequestStop` of `EventRuntime` does in one step too. Everything else that relates the
two is written in turn, though they share a file.

The behaviours that are hard:

- **Time read before a lock.** Every ledger operation reads the clock, and its
  caller the quote, before it waits for the ledger's lock.
- **Four workers and a stop** interleave at every await and every lock.
- **Three databases written in turn.** A crash may fall between any two writes.
- **Cancelled awaits whose threads go on.** `asyncio.wait_for` abandons a cycle,
  but the thread that commits to memory or records in the ledger finishes.
- **Retries of paid calls**, bounded by attempts that are themselves a write
  that can fail to happen.
- **Loss accounting across midnight and outages**, when equity is unknown.
- **Rounding** of quantities at lot, minimum, maximum and equity boundaries.
- **Two transactions for one fact.** A quote and a capture are written first and
  made available second, with the clock read in between.
- **Files that other processes write**, and streams that break: sessions that end
  without a word, half lines, ticks with one side of a price.
- **Overlapping polls** of the same provider, recorded in another order than they
  were answered, over articles that change meanwhile.

`PROJECT.json` lists each of these hazards at its line, with the properties
that guard against it.

## 2. Plan

In order of what matters most to the system:

| # | Module | Status | Composes, or is composed by | Abstract specification |
|---|---|---|---|---|
| 1 | `Sizing`, `Retargeting` | checked, proved | used by `ShadowLedger` | `SizeIsNearestPermitted`, a declarative definition of a permitted size: proved to be met |
| 2 | `ShadowLedger` | checked, proved but for its liveness | - | `OrderLifecycle`: proved to be refined |
| 3 | `EventRuntime` | checked, proved but for its liveness | instantiates `OrderLifecycle` as its ledger | - |
| 4 | `ThesisMemory` | checked, proved | two clients, event cycles and belief keeping | `ThesisLog`: proved to be refined |
| 5 | `EventBundles` | checked, proved but for its liveness | member binding and marking over the row states of `EventRuntime` | an item is put to the model in one event only (`OneVoice`) |
| 6 | `RunnerControl` | checked, proved but for its liveness | start, stop, drain, shutdown of `ShadowRunner.run`, over a reduced ledger | - |
| 7 | `Reviews` | checked, proved but for its liveness | reviews and what recovery does to them | - |
| 8 | `QuoteStore`, `QuoteFeed`, `QuoteStream` | checked, proved but for the liveness of the last | the store's operations, extended by both of its writers | - |
| 9 | `Observer`, `Enrichment`, `SourceHealth` | checked, proved but for their liveness | one provider's streams, seen for their revisions, for one article's text, for their health | - |
| 10 | `FedInbox`, `SeriesJournal` | checked, proved but for the liveness of the first | each on its own | - |
| 11 | trading-day windows, replay cost accounting | not begun | pure operators against a reference definition | - |

Every safety property that a passing run checks is stated by a theorem. A run that
checks several components under one name of its own (`MCEventWorker`, `MCQuotes`,
`MCPaidInference`, `MCSources`) extends them, so that theorem and run are about the same
definition. What is left are row 11 and the parts of section 8.

## 3. The modules

### Sizing, Retargeting

`Sizing` is `quantize_target_quantity_eur` (`LotSize`, `LegacySize`, `HardCap`)
and `classify_exposure_change`. The code computes with exact decimals; here a
quantity is compared or divided by cross-multiplication, with prices doubled (a
mid price is half a sum) and weights as counts of `scale`-ths, so that rounding
happens where the code rounds and nowhere else. `Retargeting` puts the two
functions under one account: price and equity move (`Move`), a fill takes the
position to the quantity a weight asks for (`Retarget`).

### ShadowLedger, OrderLifecycle

| Variable | In the code |
|---|---|
| `acct` | row of `shadow_account`: cash, quantity, average entry, opened at, peak mark, last valid equity, exit reason and time, snapshot number |
| `daily` | rows of `shadow_daily_state`: absent, provisional or confirmed baseline, limit hit |
| `orders` | `shadow_receipts` joined with the decision and the assessment they contain; before `record`, the decision on its way |
| `fills` | `shadow_fills` |
| `quote`, `call` | the latest market quote, and the one each worker has read and not yet used |
| `stop`, `killSwitch` | the runner's row, `RiskPolicy.kill_switch_active` |

Each ledger method is one SQLite transaction under an `RLock`, and one action,
with its prologue (expiry, cancellation on a stop, the day's row) and its
epilogue (snapshot number, daily valuation) inside: `Decide` (snapshot and
decision), `Assess`, `Record`, `ExpireOrders`, `Evaluate`, `FillPending`,
`CancelOnStop`, `RequestExit`. An operation runs at a time
`t \in ReadTimes(since)`: no earlier than its worker's reading of the clock and
at most `MaxLag` behind the present. Since at most one order can be pending
(`PendingOrderIsCurrent`), `fill_pending`'s loop is one step. The decision's
snapshot is taken with its completion: an older one can only make `record`
refuse.

Money is counted in units of which a cent has `Cent`, so that what the code rounds
to 0.01 USD is rounded here (`ToCents`, half away from zero): realized profit
(`execution.py:1484-1486`), unrealized profit (`execution.py:875-877`, `:1151-1153`,
`:1327-1329`, `:1510-1512`) and the fee, a rate of the notional and a fixed amount
(`execution.py:136-138`; the larger of the two rates there may be, the same for all
quotes). The average entry is rounded to a price unit.

Two checks of the code are there and can never fail, and are left out of the
fill guard for that reason: `daily_baseline_unconfirmed_at_fill` (the same
transaction has just confirmed the baseline from a valid quote) and
`stale_portfolio_snapshot_at_fill` (by `PendingOrderIsCurrent`, which is
proved). Columns that are only reported (`min_equity_seen`, fault rows,
`terminal_at`) are left out.

`OrderLifecycle` is what the ledger promises of its orders, whatever prices and
limits do: submitted at most once while no other is outstanding, ended at most
once, and the position moves only with a fill of the outstanding order or with
an outright close, which drops it.

### EventRuntime

| Variable | In the code |
|---|---|
| `rows` | `runtime_events`: state, attempts, whether `execution_id` is set, whether the saved context shows a pending order, order of `first_seen_at` |
| `version`, `committed` | `decisions` of the thesis memory |
| `orders`, `refused`, `position`, `snapshot` | the ledger as `OrderLifecycle`, the receipts with status rejected, the portfolio snapshot |
| `cycle` | the coroutine in progress: where it stands, its decision and what it has read; cycles are serialized by the event worker and the runtime's lock |
| `late` | `asyncio.to_thread` calls to `commit` or `record` whose cycle was cancelled |
| `recovering`, `unmarked` | the rows `recover_incomplete` has yet to visit; fills not yet passed to `mark_fill_completed` |
| `audits` | rows that `count_llm_calls_since` counts |
| `calls`, `lost`, `struck`, `overdue` | history, for the properties only |

A cycle is cut at its suspension points: everything between two awaits that can
suspend is one action (audit appends do not suspend: the only sink is in
memory). The steps are named for where the cycle stands: `Look*` (committed
decision, receipt of the event, filter, wait expired), `Context*` (context,
budget, quote), `Answer*` (the model's outcomes), `Commit*`, `AfterCommit`,
`RecoverReceipt`, `RecoverDecision` (`_recover_committed_decision_locked`),
`LacksTarget`, `Refresh`, `Post*` and `Assess*`
(`_evaluate_and_record_post_commit_locked`), `Record*`, `AfterRecord`. `Timeout` is
`wait_for` of the scan and of recovery, `GiveUp` the worker cancelled or recovery
broken off at a stop, or a time-out that cannot itself be written, `Restart` the end of
the process anywhere, with what it lost.

A database that stays locked for longer than its time-out raises (`Errs`), wherever the
cycle reads or writes next: instead of the whole step (`CycleErrs`), also after the
model's reply, when the call is paid and neither its audit record
(`runtime.py:1263`, `:1564`) nor the failed attempt (`:1544`) is written; in the audit
of a failed attempt that the row has already (`AuditFailure`); after the cycle's last
row, in what follows it (`Concludes`); in recovery between two cycles
(`RecoveryErrs`). Recovery visits rows in the order they were first seen, and any of
these ends it.

`calls` counts calls of `decide`. One call may post up to three requests
(`deepseek.py:104-123`; `shadow_cli.py:1078` takes the client's defaults), which the
runtime's limits do not see; requests are counted in `FedInbox` only.

Abstractions: what a filter, a model, a quote or the risk engine answers is a
choice; the side and size of a position do not matter to rows, so it is 0 or 1;
memory version and portfolio are read in one step (a version read earlier only
makes `commit` refuse); all of a behaviour is one day, so the call budget is
never renewed; bundles and reviews are out.

`record` judges its times by a clock read before the lock, so acceptance is
possible for any decision whose snapshot still stands, and refusal whenever one
of its reasons may hold by the present.

### RunnerControl

`main` says how far `run()` has come: it waits, sweeps (the news and event tasks
end, orders are cancelled), passes once over the exits, drains, accounts for what
is open, marks it and closes. What the operator chose (to drain or not, to have
positions closed at the stop, to take them over) is a record of `Settings`, chosen at
`Start`. `quoter`, `protector` and `eventer` are the workers;
`late` are threads whose task was cancelled while they waited for the ledger. A
stop comes from `Signal` (`runner.stop`, which sets the event and then cancels
orders in a thread), from another process through the `row`, or from the
duration. `row.status`, `row.asked` and its run's start and duration are what
`active_stop_reason` reads. The ledger is one order, one position and whether its
exit is due.

### ThesisMemory, ThesisLog

`decisions[v]` is the decision of version `v` with the revisions it made;
`ThesisAt`, `VersionAt` are the queries as of a time. A reasoner's steps are those
of `process`: `Record`, `Look` (for a decision already made), `Snapshot` (as of a time
taken before), `Call`, `Answer`, `Commit`, or `GiveUp`. A commit whose caller gave up
stays in `commits`. `ThesisLog` is the promise: each event decided once, a
decision adds its event to the evidence of what it changes, no revision is lost.

### EventBundles

An event is the set of items it speaks for. `runner.pc` is where `step_events` or
`recover_incomplete` stands between two writes: adding evidence, writing the
row, binding, running the cycle, finalizing, marking members one by one. The
inside of a cycle is `EventRuntime`'s; here it has its outcomes. What raises (`BreaksOff`)
ends the scan, or the recovery with the rest of its list and its reconciliation of
members (`runtime.py:2253`, `:2303-2315`), and `_event_worker` (`:3484`) goes on with
the next scan; `left` remembers the events whose members were then unmarked. Items are
numbered, and a bundle's members are marked in that order. `EveryItemConcludes` is about the items
that the scan still sees, since one that has fallen out of its window is left.

### Reviews

`step_reviews` goes through the theses of one snapshot (`step.theses`); a trigger
is recorded in `reviews` under its de-duplication key before the model is asked.
A thesis is active or not when a behaviour begins, and may become the one or the other.
The record carries the row of its review event, since both have the same life.
Times are ages, capped where nothing distinguishes them any more; what is due is judged
by the ages of the snapshot's revisions as they pass (`aged`), not by those of later ones.

### QuoteStore, QuoteFeed, QuoteStream

`QuoteStore` has the store's operations as operators on its content: what `start`,
`accept` and `stop` refuse and what they write. Both feeds write through it and may be
used side by side, each with names of its own.

`QuoteFeed` adds the bridge (a process that writes lines, and may leave one half written
or be killed), `DirectoryTail` and `DemoQuoteCollector` (`tail`) and the runner, which
takes up a running session when it starts (`RunnerStarts`) and may end anywhere
(`RunnerDies`). A poll is as many steps as it has lines: it goes through the files by
name, and each line it read is accepted or dropped in its turn. `tail.storing` is the row
between its two transactions.

`QuoteStream` adds the Open API streamer: `pc` is where its loop stands, `connection` what
was sent on the connection it has, `stream` the session it writes (in `database`, at the
time `instant`), `sides` the connection each remembered side came on. `token` says
whether the access token is still accepted and what the configuration has: a token
file, where a refreshed one is kept for the next client (`ctrader_openapi.py:407`), and
a refresh token (`:748`). What can go wrong
outside the loop is counted by `troubles`; `CutShort` is the cancellation that skips the
end of `run()`.

### FedInbox, SeriesJournal

Both are processes around a database with a lock: `watcher[w].pc` and
`runner[w].pc` are their places between two transactions or network calls.
`paid` counts the requests that were posted for an item, `unanswered` those of them that
brought no usable answer, after which the client posts again up to `ClientRetries` times.
`lost`, `unanswered`, `sent`, `baseline` are history. A call of `SeriesJournal` is reserved,
sent, and finished or left pending; abandoning is the operator's.

### Observer, Enrichment, SourceHealth

Three views of one provider. In `Observer` a capture is fetched (`fetch`), written
under the lock (`write`, first transaction), stamped by the clock and published
(second transaction); `views` remembers what queries returned. `Enrichment`
follows one article through the polls of the streams (`Feeds`) that list it: `version` is
what the site shows, `edition` where each version is found (the address) and whether its
page is asked for (`_is_enrichable_live_record`), `latest` the last revision, `sighted` and `enriched` what the first
sighting and the last page say, `based` the streams that have been captured; a poll is
what it knew when it began and what it has put together since. Without a new page it uses
the text on file again, but after an edit only if the address is the same
(`english_tier1.py:1065`). `SourceHealth` has the
streams that are `Polled`, those of them whose polls are recorded by the day (`Dated`)
and those that one task at a time polls (`Deduplicated`). It keeps of each recorded name
the last answer and whether a failure came at its time of receipt or later, which is all
that the report looks at; `answered` keeps the order of receipt of what is not recorded
yet.

### The instances

A run with one component has an MC module that gives its constants. Where `TLC`
cannot follow every combination, a named `CONSTRAINT` says which it follows: `Focus`
of `MCShadowLedger` (one order with everything, or with a second worker; one order
with a pause or the kill switch; two orders decided in the first tick), `Focus` of
`MCEventRuntime` (one event through every fault, or two through time-outs and one
restart), `OneCommit` of `MCThesisMemory` (one commit at a time waits for its thread).

Four MC modules each hold several components that share no state in the program
either. Their `part`, chosen at the start, says which of them a behaviour is about and
in which instance; the variables of the others stand still. Their fairness is that of
the components, restricted to the part.

| Module | Parts |
|---|---|
| `MCEventWorker` | `EventBundles`: "retried" (two simultaneous items, every fault), "crowded" (a third that pushes items out of the window, with one restart or one exception). `Reviews`: "one" thesis, or "two" that share the total |
| `MCQuotes` | `QuoteFeed`: "one" run with kills, half lines and errors; "two" runs in either order of their names, with a quote each; "many", more than are followed. `QuoteStream`: "order" (one connection, a trouble, sessions that may outlive their duration), "back" (three connections, two troubles, nothing held back; the token file or the refresh token may be missing) |
| `MCPaidInference` | `FedInbox`: two "genuine" statements (two things go wrong), or a statement and a "spoofed" one (one does). `SeriesJournal`: "series" |
| `MCSources` | `Observer`: an article that is "edited", one "shared" by two streams, a list that moves on ("listed"), the "backlog" of a second stream, "failing" captures, each with its row of `Limit`. `Enrichment`: "one" stream (later versions may be moved, or without a page to ask for), or "two" (all versions at one address). `SourceHealth`: "gate" (one poll of a stream at a time), "overlap" |

## 4. Runs

| Run | Question | Bounds, and why they are enough |
|---|---|---|
| `ledger_safety` | the tables agree with each other and with the fills; nothing blocked adds risk; no loss is forgotten; `OrderLifecycle` is implemented | 2 orders with weights that open, enlarge, reduce and reverse, 2 workers, 3 bids that reach every trigger, a lag of one tick, days of 2 ticks so that a midnight falls into it, a pause that comes and goes, a kill switch set at a restart; cents of two price units and a commission of a tenth, so that profits, averages and fees are all rounded |
| `ledger_live` | pending orders end; positions close | 1 order with a life of 3 ticks, opened before a daily close, a runner's stop or a restart on the way, one day beyond the close |
| `retargeting` | sizing and classification | 7 policies at the boundaries (unit mode, steps, minimum above the step, caps that bite), 17 weights, 15 equities, 6 prices, all positions reachable by trading |
| `runtime_safety` | rows, ledger and memory agree; calls are bounded; decisions and ends are final | 2 events that compete for memory version, portfolio and a budget of 3 calls; 2 attempts, time-outs anywhere, 2 restarts, one exception of a locked database anywhere |
| `runtime_live` | every event concludes | 1 event, a wait of 1 tick for quotes, one restart, one error |
| `runtime_stale` | a documented claim that fails, see section 7 | 2 events, one restart, one error |
| `runner` | a stop ends a run, and nothing gets past it; what a run leaves is marked | 2 runs, bounded by 2 ticks or open-ended, in either order, each with one of three settings; a weekend; one fault: the second run meets the row, the order and the threads of the first |
| `memory` | decisions can be explained and rest on no later knowledge; `ThesisLog` is implemented | 2 events, a trading agent and a belief keeper, 2 calls (one decision built on another), the clock steps back once |
| `worker` | an item speaks in one event; reviews are bounded; every item concludes, a due review happens | 3 items in a window of 2, 2 attempts, a restart, 2 faults (time-outs, waits for a quote, exceptions); 2 theses, limits of 2 and 3 that collide, a restart, all triggers |
| `quotes` | the feed moves forward; what the stream stores adds up; the stream carries on | 3 runs of the bridge, 2 files followed, 2 quotes, 3 ticks, the runner started twice, one kill or error; 3 connections, 2 quotes of a session, 4 ticks with rotation after 2, which is also the session's duration, 2 troubles, a token that expires with and without a file or a refresh token; the steps of the parts leave out what tells nothing new (789,773 states) |
| `paid` | items are paid for once and settled for good; the journal adds up | 2 watchers, 2 items, two mishaps of which one may be a crash, a client that posts again once (702,465 states); 3 episodes, the second without data, 5 calls where up to 8 could be wanted, 3 starts of 2 runners |
| `sources` | what was shown stays true; coverage and news; texts; the gate | the table of `Limit`; 3 versions at two addresses, with pages or without, and 3 pages that fail, or two streams with captures cut off; of 4 streams two that are polled by one task at a time, two that 2 tasks share, one of these by the day; 3 faults, a restart, a change of day |

Every bound is a constant named in its module (`MaxClock`, `MaxCrashes`, `MaxErrors`,
`MaxStarts`, `MaxFailures`, ...) and a guard of the action that would exceed it.
`MaxLag`, the time an operation may wait for the ledger's lock, is one tick; the
theorem on blocked risk covers every lag up to the close window. Deadlock checking is
off where a process may be down with its starts used up, or time at its bound; the
ledger always has a step. The symmetries of orders and events are used by runs
without liveness.

A component's properties are stated one by one, and those of one theme are checked
under one name, as a conjunction of named parts (`RowsAreSound`, `MemoryIsCausal`,
`JournalAddsUp`, ...), with its type invariant where it has one. What the parts say,
beyond their comments:

- `NoNewRiskWhileBlocked` is about the state at the *fill*, not at the approval:
  the kill switch, the stop, a due exit and the day's limit may each have changed
  since.
- `BaselineNeverMasksLoss`: when the day's baseline becomes known with a position
  carried into it, it is no lower than the last known equity and the last
  baseline, so the loss of an outage counts.
- `CashReconciles` (in `BooksReconcile`) says that the cash is what the fills paid and
  received, and that nothing but rounding comes between: at most half a price unit for
  each unit held where a fill averages an entry, and half a cent where it realizes a
  profit. So the cash of the code does drift with every closing fill, but by no more.
- `RowTellsOrder` (in `RowsAreSound`) relates two tables that are written in turn, but for
  the ledger's cancellations on a stop. It excepts events with a write that outlived its cycle (`struck`):
  after a time-out *within* `record`, the retry may find no receipt, then see its own
  order in the portfolio, and mark the event rejected while the order lives. The
  ledger still expires or fills it safely; only the row is wrong.
- `RetriesAreBounded` (in `CallsAreBounded`) counts apart the calls that left no
  attempt (`lost`). A commit that raises is one: it lies outside the `try` that counts
  attempts (`runtime.py:1609`). So is a call after whose reply the audit or the failed
  attempt cannot be written (`runtime.py:1263`, `:1544`, `:1564`): the next scan takes the
  event again. Only the daily budget bounds retries of the first kind, and it does not
  count those of the second.
- `BudgetHolds` allows one uncounted call for each restart, the one in flight, and one
  for each exception of a locked database, the one whose audit is not written. Calls are
  those of `decide`, not the requests that the client may post for one.
- `EventsConclude` takes exhausted attempts for an end, as the scan does. A
  time-out after a commit counts twice and can exhaust the attempts of an event
  whose decision is committed; the scan then passes it over
  (`runtime.py:2787`) and the decision waits for the next restart.
- `SweepIsFinal` (in `StopIsFinal`) is about three ways around a stop: a worker that
  read it before, a thread that outlived its task, and the row's status 'draining',
  which the ledger does not take for a stop.
- `HistoryIsReproducible` (in `MemoryIsCausal`) asks of the store what an auditor
  would: was the memory as of the moment the reasoning began the one it names. With a
  clock that steps back this is not the same as the check of the version at commit.
- `OneVoice` (in `ItemsSpeakOnce`) quotes `docs/architecture.md`; it fails as soon as
  binding and row are written in the other order, or a scan regroups what is bound.
- `MembersFollow` (in `ItemsSpeakOnce`) excepts members of an event that is over which an
  exception left unmarked (`left`), until a scan or a recovery gets to them: recovery does
  not come back before the next restart, and the scan no longer reaches members that have
  fallen out of its window.
- `QuotesNeverGoBack` (in `FeedMovesForward`) excepts behaviours in which runs of the
  bridge were taken up out of order: files are polled by name and names are random, so
  that of two runs that are both fresh the later may come first, and the earlier one's
  last quotes are then stored after it.
- `OnlyUnpublishedBlocks` (in `StreamAddsUp`) excepts sessions with a quote whose
  second transaction did not happen: the store then refuses all that follow, and only
  the rotation ends it. The other exception are sessions that outlived their duration,
  when the task that rotates them has ended or is late (`Outlived`).
- `PaidOnce` (in `InboxPaysOnce`) counts requests. One is repeated only if it went
  unanswered (`unanswered`: a time-out, which the provider may have billed, or a temporary
  status) or a process ended with the answer unused (`lost`), and a call posts no more of
  them than the client's retries allow. The documented form, that nothing is paid for
  twice, does not hold (section 7).
- `OverlapMeansNothingLost` (in `CapturesTellTruth`) compares what the code concludes
  from two lists with what was pushed out of the list in between.
- `ViewsAreFinal`: for a reader in the collector's process nothing changes for a cutoff
  once queried, as long as the clock does not step back: after that a capture is published
  in the past of a query. For a reader in another process more may appear (section 7).
  Nothing ever disappears, for either.
- `NeverRegresses` and `RevisionsAreGenuine` (in `TextIsKept`) hold while one stream only
  has shown the article and no capture was cut off between its two transactions (`Alone`).
  If it was, the full text is stored and not known, and a failing page puts the summary in
  front of it; a second stream may do so too (section 7). An edit that moves the article to
  another address does the same when its page fails, and `NeverRegresses` leaves that step
  out (`Stays`). `FullTextArrives` shows that the text comes back, as long as the page of
  the last version is one that is asked for (`Enrichable`).
- `FailureClosesGate` (in `GateFollowsHealth`) holds although polls overlap, because a
  failure is compared with the *receipt* of the last answer. For an answer that cannot
  be parsed there is no such comparison, so `BadAnswerClosesGate` is about `Deduplicated`
  streams, which one task at a time polls; WallStreetCN's are not among them. Of a stream
  that is recorded by the day an old name may stay bad, so `ClosedForAReason` leaves out
  the `Dated` ones.

## 5. Fairness

`TimerSpec` (for `PendingOrdersEnd`) assumes only that time passes and that the
protection worker's timer calls `expire_pending_orders`: `_protection_worker`
loops on a time-out and catches what a step raises.

`PositionsClose` has its further assumption in its statement, `MarketFairness => ...`:
the quote worker's loop, and a market that shows a usable quote again and again while
the worker is idle and lets the worker evaluate it before it is stale (strong
fairness). Without quotes no position can be closed, and the code says so
(`unclosed_risk`).

`FairSpec` of the runtime (for `EventsConclude`) assumes that time passes; that a
cycle takes steps (`run_cycle` runs under `wait_for`, so its time-out ends it at
the latest); that recovery goes on; and that each event the scan may take is
taken if it is eligible again and again (every scan goes through all the
revisions it reads). Nothing is assumed of quotes, model answers, restarts or
stops, and a late write need never land.

`RunnerControl` (`StopIsHeeded`): the workers' timers, threads that finish, the
loop of `run()` and the drain's deadline. Nothing of signals or the market.

`EventBundles` and `Reviews` (`EveryItemConcludes`, `DueReviewHappens`): the event
worker's loop, and `WF(Start)`, since the service is restarted by its manager
(`deploy/gcp/eventlens-shadow.service`, `Restart=always`). For reviews time goes
on; prices and news owe nothing.

`QuoteStream` (`SessionsRotate`, `StreamComesBack`, checked as `BackCarriesOn` in the part
"back"): the event loop's tasks, and time. The broker owes no tick, and troubles are
bounded. Where a rotation found no next session the stream does not come back before the
connection is lost (`GivenUp`, section 7), and where an expired token cannot be refreshed,
or not be kept, it does not come back at all (`LockedOut`, section 7).

`FedInbox` (`ItemsAreSeen`, `PendingIsSettled`): a watcher that was started goes
on. Nothing starts one, which is why both end in "or nobody watches".

`Observer`, `Enrichment`, `SourceHealth` (`RecordedBecomesVisible`,
`FullTextArrives`, and `GateReopens`, checked as `GateOpensAgain` in the part "gate"): the poll loops, whose requests have time-outs.
Recording a capture is strongly fair in `Observer`, since the object's lock is
free again and again between other streams' captures; so is the beginning of a
stream's poll in `SourceHealth`, where tasks are shared.

## 6. Proofs

TLAPS checks the theorems below for every value of the constants: any number of workers,
orders, events, items, runs and restarts, any prices and limits. What they assume of the
constants is the named assumption of each module (`LedgerAssumption`,
`RetargetingAssumption`, `RuntimeAssumption`, `MemoryAssumption`, `BundleAssumption`,
`ReviewAssumption`, `RunnerAssumption`, `InboxAssumption`, `JournalAssumption`,
`ObserverAssumption`, `EnrichmentAssumption`, `SourceHealthAssumption`,
`DurationAssumption`, `FeedAssumption`, `StreamAssumption`), which TLC evaluates in the runs. They say little more than the kind
of each constant. What they say beyond that:

- in `RetargetingAssumption`, volume limits are whole lots: so they are in both policies
  that `risk.py` defines, though the record does not require it;
- in `LedgerAssumption`, bids lie above the slippage, and no order is called "exit", the
  name under which `fills` keeps what an exit closed;
- where things are counted or summed up, their sets are finite;
- what stands for "nothing" is not one of the things (`Unknown`, `Bare`), and a clock that
  begins at 1 may get there.

An invariant is seldom inductive as it stands, and most of the work is in what has to be
added. The modules of proofs follow one plan: what each place of a process may rely on is
a named part of the invariant (`CycleFits`, `WatcherFits`, `StepFits`, ...), lemmas say
what a step leaves alone, and each action has a lemma of its own.

### `ArithmeticProofs`

Lemmas only: rounding, caps and monotony of `Sizing` (products of variables are beyond the
solver, so each is bounded by a lemma), and sums over finite sets. A sum is a fold of the
community modules and so a recursive function; that it can take any of its elements first
(`SumTakesAny`) is shown by the smallest set for which it could not, without an induction
principle. `BooksReconcile` and `BudgetHolds` rest on it.

### `TradingProofs`: `ShadowLedger`, `Retargeting`

| Theorem | Argument |
|---|---|
| `TypeCorrect` | `TypeOK` is inductive; one lemma for each effect (`EnsureDailyType`, `ApplyDeltaType`, `EvaluationTypes`, ...) and for each action. The position stays within the volume limit by `DesiredQuantityBounds` |
| `PendingOrderStaysCurrent` | each step either keeps the snapshot number and retires orders only, or retires every pending one |
| `NoNewRisk` | a step that enlarges the position is a fill; its guard ran unless the change was judged not to increase risk, and then the position shrinks; the guard ran with a time that may be late, and a late time is in the close window or of the same day (`LateTimesAreInTheWindow`). Needs `MaxLag <= CloseLength`: an operation waits for SQLite at most 10 s (`execution.py:340`), the close window lasts 5 minutes |
| `ExitStaysDueAlways` | from the same lemmas on what moves the account |
| `ImplementsOrderLifecycle` | refinement: each action maps to `Drop`, `Submit`, `FillOrder`, `Close` or a stutter; `PendingOrderIsCurrent` tells that the order that fills is the only one outstanding |
| `PeakHoldsGround` | strengthening: the peak of a held position is no worse than its entry (`PeakIsFavourable`) |
| `BaselineHoldsLoss` | strengthening: a day without a row has no baseline and no limit hit (`AbsentIsBlank`) |
| `BooksStayReconciled` | `BooksBalance` takes the fills apart one by one: the position after each, what it paid, what averaging an entry and rounding a realized profit may have lost (`ToCentsRounds`). A fill adds one term (`FillBalances`); a step that leaves the position alone fills no order; everything else only values the account |
| `FillsUseLaterQuotesAlways` | an order is filled by an attempt to fill it and by nothing else (`OnlyFillsFill`), and only a worker that may fill goes on to do so (`FillersFill`); the quote it has read was then shown after the decision and the record, or the guard refuses |
| `PositionStaysInLimits`, `UncheckedChangesStaySafe`, `SizeAlwaysFollowsWeight`, `UnitsStayAffordable` | the lemmas on sizing, over the positions that trading reaches |
| `SizesStayRight` | half-up rounding of the request, cut to the range of lots that the limits and the cap leave, is the nearest lot of that range; a whole number of lots is a multiple of the step, and the lots below the cap are those its rounding down counts |

### `EventRuntimeProofs`: `EventRuntime`

`Inv` says of each event how its row, decision, order and calls fit together
(`EventFits`), what the cycle in progress knows of its event at each point (`CycleFits`),
and that a write that outlived its cycle is of an event that is struck (`WriteFits`). A
step of a cycle can break only what is said of its own event (`OthersStay`).

| Theorem | Argument |
|---|---|
| `RowsStaySound` | `RowTellsOrder` is a part of `EventFits` |
| `CallsStayBounded` | a call of an event is on record as an attempt, lost or pending, and none is made when the attempts are used up. For the day's budget: every call is audited, waits for its answer, was in flight when its cycle was stopped, and then no cycle begins before the next restart, which is counted, or was not audited because of an exception, which is counted too (`BudgetFits`) |
| `HistoryStaysFinal` | a row that has ended, and a decision, are changed by no step of an event that is not struck (`EndStays`, `DecisionStays`) |

### `ThesisMemoryProofs`: `ThesisMemory`, `ThesisLog`

What the store holds as of a version is the last revision among the first decisions. The
lemmas are about any sequence of decisions: appending one leaves what earlier versions
hold and adds what it changes.

| Theorem | Argument |
|---|---|
| `MemoryStaysCausal` | decisions are ordered in time, each begun after all before it were committed (`TimesAreOrdered`, which the checks of `commit` keep although the clock steps back); an answer on its way changes theses of the memory it was based on, and adds its event to what they rest on (`AnswerFits`) |
| `MemoryImplementsLog` | refinement: a commit that is accepted appends a decision of a new event, everything else is a stutter |

### `EventWorkerProofs`: `EventBundles`, `Reviews`

| Theorem | Argument |
|---|---|
| `ItemsSpeakInOneEvent` | an event speaks for its items if it is their bundle, or the own event of one that is in none (`Speaks`). Rows, bindings and marks fit together (`StoresFit`), what the worker has in hand and has yet to go on with speaks for its items, and what it has yet to group is in no bundle (`WorkFits`); an event that is over with a member unmarked is one that a crash left so and that recovery has yet to visit, one that an exception left (`left`), or the one being marked (`LooseFits`) |
| `ReviewsStayBounded` | the revisions in a pass's snapshot have been, and what recovery has left to do is not over and has attempts left (`StepFits`); a call is an attempt, lost, or waits for its answer (`CallsFit`); the caps follow from the counting at the record, since revisions only grow and records stay |

### `PaidInferenceProofs`: `FedInbox`, `SeriesJournal`

| Theorem | Argument |
|---|---|
| `WatcherPaysOnce`, `SettledStaysSettled` | one part of the invariant is about what is stored: inbox, memory and bill go together, and history stays out. The other is what a process relies on about the item in its hands and those it has left, which nobody else writes while it has the lock (`WatcherFits`). Each request posted for the item is the call's last, unanswered, or of a process that ended (`CallFits`), and calls times `1 + ClientRetries` bound them (`Allowed`) |
| `JournalAlwaysAddsUp` | the registry says which episodes are over and what each has used; the runner that holds the lock works on the first that is not, with the memory as those before it left it (`WorksOnItsOwn`), makes one call for each attempt (`AttemptsCount`) and has it in the journal before it sends it (`RequestIsReserved`) |

### `RunnerProofs`: `RunnerControl`, `QuoteFeed`, `QuoteStream`

| Theorem | Argument |
|---|---|
| `RunsStayAccountedFor` | while a run waits the row is its own (`OwnRow`); only an end in order shows the row as stopped (`EndsInOrder`); what a run reports holds from the moment it knows how it ended (`Reported`), since from then on no step adds risk |
| `StopStaysFinal` | a run that shuts down has its reason set (`HasReason`), so the ledger refuses what adds risk whoever asks; a worker that read before, or a thread that outlived its task, can only ease the account (`Eases`) |
| `FeedAlwaysMovesForward` | lines are written as time goes on, in a file and from one run to the next (`LinesFit`); what was read of a file lies before what is unread, and in its order (`ChunkFits`, `TailFits`); what is still to come of the session that is followed was written since the runner watches, but for the end of a line that was half there, which is not understood (`SinceFits`); so the row being recorded is a line of that kind (`StoringFits`). If runs were taken up in order, the session followed began after those of all other rows, and nothing still to come of it is older than a row (`OrderFits`); what becomes visible is then no older than what was. The file a poll takes next is the least of a set of numbers, which has one by the well-foundedness of their order |
| `StreamAlwaysAddsUp` | the stream knows number and times of the last quote of the session it writes, unless one was left unpublished, which then has the next number (`SessionFits`); a tick held back is no older than it (`TickFits`). So a quote is refused for no other reason than those two, and a session is closed with the count of its rows. Both sides come from the connection because nothing is subscribed before the session is open and the first tick sets both (`LinkFits`) |

### `SourcesProofs`: `Observer`, `Enrichment`, `SourceHealth`

| Theorem | Argument |
|---|---|
| `CapturesAlwaysTellTruth` | the tables of an article grow together (`TablesFit`); a capture in hand lists the newest articles of the site as it was (`BatchFits`); a stream's anchors lie within what it has covered, and what its first capture listed is stored unless it was rejected (`StreamFits`). Two lists that share an article then leave nothing out between them |
| `ViewsStayFinal` | markers only move to earlier times, which takes nothing back; a new one is no earlier than its capture, and a query of this process lies before the capture being written, since it waits for the lock and reads the clock before (`ViewsFit`) |
| `TextAlwaysKept` | nothing is known that the site does not show (`KnownFits`), and a poll knows no less than what was known when it began (`PollFits`). While one stream shows the article its poll has what is on file, and only a live arrival has a page (`OneFits`); if no capture was cut off, the latest text is the one on file, and what a poll has put together is not older, unless its address is another (`FileText`, `AloneFits`; no edition is changed, `EditionsStay`). Each revision then has its reason |
| `GateAlwaysFollowsHealth` | answers wait once each in the order of receipt, and what was overtaken is late with everything of its stream before it (`AnswersWait`). A failure that is the newest end of a stream is on record, and every late answer under its name has missed it, so that its record does not clear it (`FailureStays`). Where polls do not overlap none is late (`OneAtATime`), and the last answer recorded is the newest (`BadStays`, `GoodClears`) |

### Only model-checked

Liveness (all properties of section 5) stays with the runs: fairness and ENABLED are out
of the prover's reach. Every safety property of the passing runs is proved. The finding of
section 7 is a counterexample, of which there is nothing to prove.

## 7. Disagreements between code and documentation

The first is a run (`runtime_stale`) whose only property states what the document says,
and whose counterexample shows what the code does. The others were met while modelling:
the modules do what the code does, and the properties are stated so as to say what is
left of the claim.

| What is said | What happens |
|---|---|
| recovery "enforces staleness" on pre-commit events (`docs/shadow-acceptance.md:38`) | `cycle_task.result()` (`runtime.py:2253`) re-raises what a recovered cycle raised, the rest of the list is never visited, and the scan, which has no check of age, puts an event to the model that was too old at the restart |
| "automatically pauses news polling during FX weekend" (`docs/cloud-24x5-deployment.md:17`) | the news worker's loop never asks for the weekend (`runtime.py:3449`); only new risk is kept out |
| review calls "per ShadowRunner session" (`shadow_cli.py:1539`) | the count includes earlier processes (`runtime.py:812`) |
| "review calls per thesis ID" (`shadow_cli.py:1533`) | a failed review is asked about again by recovery without a row (`runtime.py:2240`) |
| a "complete new JSONL line is read" (`docs/live-quotes.md:78`) | attaching keeps the beginning of an unfinished line *and* the offset before it, so the line is read with its beginning doubled (`runtime.py:2473`) |
| "restart with a new bridge run" (`sources/ctrader_demo.py:30`) | a collector whose bridge was killed refuses every later start (`sources/ctrader_demo.py:82`) |
| "seamless QuoteStore session rotation" (`tests/test_cloud_24x5_ctrader_openapi.py:6`) | if the next session cannot be opened the flush task ends, and ticks are discarded until the connection breaks (`ctrader_openapi.py:879`) |
| all sessions are closed after a stop (`tests/test_cloud_24x5_ctrader_openapi.py:532`) | the runner's cancellation may reach the streamer in its `finally` clause and skip the closing (`runtime.py:3656`) |
| a failed memory update "does not generate repeated paid calls" (`docs/fed-intake.md:19`) | database errors are not among those after which an item is quarantined (`sources/fed.py:442`) |
| the same claim, and a second watcher "risks paid duplicates" (`sources/fed.py:43`) | the watcher's client posts a request again after a time-out that the provider may have billed (`fed_cli.py:28`, `deepseek.py:104-123`; documented in `docs/reasoning.md:3`). The series runner passes `max_retries=0` (`series_cli.py:59`), as `docs/research/chronological-replay.md:44` demands |
| "persists refreshed OAuth2 tokens" (`docs/cloud-24x5-deployment.md:10`) | only where a token file is configured (`ctrader_openapi.py:407`), as the deployment does. The default is none (`ctrader_openapi.py:166`): the new token is then lost with the client that asked for it, and the old one refreshed for ever |
| `available_at` is "conservative" (`docs/observer.md:101`) | it is earlier than the commit that publishes it; a reader in another process sees the history change for a cutoff in between (`observer.py:429`) |
| "A clock rollback stops publication rather than backdating it" (`docs/observer.md:121`) | only within one capture (`observer.py:430`) |
| "full bodies without regression across polls" (`sources/english_tier1.py:1042`) | a second stream's first capture, or a poll begun before, records the bare summary again (`sources/english_tier1.py:1276`); so does an edit that gives the article another address and whose page fails (`sources/english_tier1.py:1065`) |
| no "bogus revisions" (`docs/observer.md:29`) | an article dated ahead of its receipt gets a second revision when its time has come (`sources/english_tier1.py:787`) |
| a quiet market is separated from a fault (`docs/observer.md:113`) | a failure recorded under a name no poll has is a fault for good (`runtime.py:3442`) |
| stale sources block new risk (`docs/shadow-acceptance.md:350`) | not for bundles, whose id does not begin with the provider's (`runtime.py:3011`) |

## 8. Not modelled

- Parsing, prompting, formatting, HTTP and the wire protocol of the Open API:
  inputs, from small sets.
- The demo account mirror: it repeats shadow fills to a broker and nothing
  modelled depends on it.
- Reports, fault rows, protection statistics and lag statistics: nothing reads
  them back.
- In `QuoteStream`, a failure report that fails itself, and the delays between
  attempts; in `QuoteFeed` and `QuoteStream`, a clock that steps back between the
  two transactions of a quote, which leaves it unpublished like a crash does, and
  an error of the database in the midst of a chunk of lines.
- In `QuoteFeed`, `source_at` and `bridge_at` of a line are one time (`Row`). The code asks
  only that the first is not after the second and within the skew; the bridge writes a
  line at most 1.5 s after its tick and its ticks' times strictly increase, over its runs
  too (`EventLensQuoteBridge.cs`, `FlushPendingIfDue`, `_lastTickTime`), so that the order
  of the lines, which is what the properties are about, is the same by either.
- In `QuoteStream`, a token file that another process writes.
- The requests that the model client posts for one call of the runner's agent: bounded by
  `1 + max_retries`, and counted nowhere in the code.
- In `Reviews`, a stop requested during a pass: it leaves the loop where a crash
  does and writes nothing.
- In `FedInbox`, branches that no state reaches (a pending item without its
  event).
- In `SeriesJournal`, what a plan is bound to (its digest, models and prompts) and
  the selection of an episode's context.
- In `Observer`, lists are newest first, and the site neither deletes articles nor
  inserts one among the old: coverage is meant for such lists.
- In `SourceHealth`, the present is the time of the report, and the thresholds of
  age and skew are in the choice of an answer.
- Offline research tools: pure calculations over files, for which their unit
  tests are the better tool. Cost accounting and the trading-day windows remain
  on the plan.
