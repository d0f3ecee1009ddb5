# A formal model of the QuantGambit trading runtime

TLA+ modules for the Python runtime under `src/quantgambit-python/quantgambit/`
(all paths below are relative to it unless they start with `src/`), TLC
configurations that check them on small instances, and TLAPS proofs of what
matters most for instances of every size.

Contents: [1 inventory](#1-inventory), [2 modules](#2-modules),
[3 runs](#3-runs-and-bounds), [4 fairness](#4-fairness),
[5 proofs](#5-proofs), [6 findings](#6-where-code-and-documents-disagree),
[7 what is not modelled](#7-what-is-not-modelled), [8 plan](#8-plan).

## 1 Inventory

A bot is one Python process with one asyncio event loop. Its workers are
coroutines that share objects in memory and meet at every `await`. Other
processes (the HTTP API, the config service, the launcher, other bots) reach it
through Redis keys and streams and through Postgres. The exchange is reached
over REST and WebSocket. The interesting behaviour is therefore of three kinds:
state read before an `await` and used after it, messages that are late, lost or
repeated, and processes that stop and start again with empty memory.

### 1.1 Components that decide something

| component | state it keeps | operations | interacts with | hard behaviour | correct when |
|---|---|---|---|---|---|
| order lifecycle (`core/lifecycle.py`) | orders with state, filled quantity, ids; two indexes | register, send, request cancel, process ack / fill / reject / cancel, cleanup | a caller; reports of the exchange | duplicate and out-of-order reports, cancel against fill, cleanup against old acks | terminal states stay and mean dead at the exchange, fills are real, indexes agree |
| persistent kill switch (`core/risk/kill_switch_store.py`) | a cached state; one Redis key | initialize, trigger, refresh, is_active, reset | risk worker, position guard, shutdown, start-up check, refresh loop, two HTTP endpoints | three awaits around one key, two writers, failing Redis, restarts | stored triggers are not lost, the cache follows the key |
| control plane (`execution/actions.py`, `control/`, `execution/router.py`) | trading_paused, execution_ready, failover state, targets, active exchange | PAUSE, RESUME, HALT, FAILOVER/RECOVER ARM/EXEC, readiness probe | command stream, snapshot loop, order book health, kill switch, execution manager | a probe in flight while commands run, a command refused by one part and executed by another | HALT is final, unreadiness is learned |
| configuration rollout (`config/`, `runtime/config_apply.py`) | table of versions; per bot last version, pending list, applied config | update, rollback, publish; watch, apply, wait, flush | Postgres, a stream with a shared consumer group, the position store, the pause | handlers racing for a version, unsafe moments, restarts | only stored rows travel, accepted configs are not forgotten, waiting ends |
| order store and fill recording (`execution/order_store.py`, `order_update_consumer.py`, `order_reconciler_worker.py`, `execution_worker.py`, `manager.py`) | order records; the local position; marks and miss counts | execute, poll, cancel, record, apply, close, reconcile, sync | exchange, position guard, position sync, sync of executions | six tasks and the exchange around one fill | recorded fills are applied, final statuses stay, record and position converge |
| position guard (`execution/position_guard_worker.py`) | symbols being closed | evaluate, claim, mark, close | position store, exchange | its orders have no local record | positions it closed stay closed |
| execution intake (`execution/idempotency_store.py`, `guards.py`, `_handle_message` and `_execute_with_retry` of `execution_worker.py`) | claims in Redis, their audit table, rows of order_intents, throttle times, token bucket, breaker | read, gate, look up, claim, record, send, retry, poll, replay claims, recover | decision stream, Redis, Postgres, exchange, the loops that expire and sync intents | the same event twice, lost answers, stores that fail, a crash at any await | a decision is executed once, its order placed once, rows tell the truth |
| maker entry (`execution/execution_worker.py`, `_execute_maker_entry`) | the attempt, its polls, the rows of root and fallback | post, watch, cancel, confirm, repost, fall back, recover | exchange, order_intents, recovery at start-up | cancel against fill, late requests, partial fills, a crash between attempts | one order at a time, a row that ends is over |
| live order book (`ingest/orderbook_ws.py`, `orderbook_feed.py`, `orderbook_worker.py`, `market/orderbooks.py`) | sequence numbers of provider and feed, queue, stream, the book in the cache | receive, fetch, forward, check gaps, resync, apply | venue socket and REST, Redis stream, all readers of the cache | a snapshot overtaken by deltas, lost messages, a restart over a stream that stays | a book with nothing missing that catches up |
| reconciliation (`execution/reconciliation.py`, adapters in `runtime/quant_integration.py`) | what a cycle has read, tasks that write heals | compare orders, heal, compare positions, heal | order store, state manager, exchange | reads before an await, heals after it, by tasks of their own | closes no order that is open, undoes no end, heals converge |
| side channel and back pressure (`io/`) | bounded queue, tiers | publish, flush, drop | hot path, Redis | queue at its limit | what may not be dropped is not |
| hot path and its books (`runtime/hot_path.py`, `core/book/`, `core/reconciliation/`), not started by the runtime | book, positions, pending intents | on tick, on execution report | book guardian, execution | reports for intents already removed | no second intent while one is pending |
| core kill switch (`core/risk/kill_switch.py`) | ARMED, TRIGGERED, RECOVERING, DISABLED | trigger, reset, recover | hot path | order of operator steps | a latch |

### 1.2 Components that compute or move data

Signals, strategies and profiles, market data ingest, risk models, backtesting,
replay and simulation, AI and copilot, storage, telemetry, the HTTP API, the
dashboard (`src/deeptrader-dashhboard`), its backend (`src/deeptrader-backend`),
the market-data service, deployment files. They compute numbers, format data or
do I/O; `PROJECT.json` lists each with the reason it is left out.

### 1.3 How the parts interact

```
 config service --row--> Postgres            dashboard ---> Redis key kill_switch
       |                                          |                 ^   |
       +--event--> events:config                  |                 |   | refresh
                        |                         v                 |   v
                    ConfigWatcher          commands stream     PersistentKillSwitch
                        |                         |                 ^     |
                 SafeConfigApplier         CommandConsumer     risk |     | is_active
                        |                         |           worker|     v
                 runtime settings         ExecutionActionHandler ---+--> readiness
                                                  |
                                           ExchangeRouter
 decisions --> ExecutionWorker --> execute_intent --> exchange --> order updates
                 |    |  ^              |                               |
  claims, intents+    |  |         order store <-- record_order_status <-- consumer
                _poll_status            |   ^              ^-- sync of executions
                      |            local position      reconcilers     position guard
             order book cache           ^----------------- position sync ----^
                      ^
   venue --> provider --> queue --> feed --> stream --> OrderbookWorker
```

## 2 Modules

Each component has a module with its state, one action per step between two
awaits, and its properties; a module `MC...` that names model values for TLC;
and a module `...Proofs`. Definitions keep the source's names where they can.
Operators marked "Mutant" in a comment are not used by any specification: each
is a plausible bug that must break the property it is listed with.

### OrderRecord

What a store of orders promises to whoever reads it: of each order a `truth` and a
`record`. Orders start and end; a record is opened only for an order the exchange
has, may presume an end only while it says none, and once it says one it changes
only to the true one. `Presumed` are the ends some writer takes on trust. Four
modules implement it, each with `truth` and `record` defined from its variables and
the property `RecordContract` (`LedgerContract` in ExecutionIntake):

| module | the record | Presumed |
|---|---|---|
| OrderLifecycle | the manager's orders | none: only reports end an order |
| FillRecording | the order store | "canceled": cancel_order records it of orders it found filled, too |
| Reconciliation | the order store, by order id | "canceled" of ghosts that are healed, "filled" of orders with a trade (sync of executions) |
| ExecutionIntake | the order store, by order id | the same two |

The store files a record by the order id, or by the client order id where there is
none. A lost answer, which the guard makes a rejection, names no order: its record
is one of its own (`apart` in Reconciliation, `presumed` in ExecutionIntake) and is
no part of the contract, because nothing but the same rejection is written to it
again.

### OrderLifecycle

`OrderState`, `VALID_TRANSITIONS` and the `process_*` operations of
`core/lifecycle.py`, one action each, between a caller and an exchange whose
reports travel on a set `wire` that reorders, repeats and loses them. A report
names the order by client id, exchange id or both (`KeySets`), because
`Find` prefers one and falls back to the other. `CleanupTerminal` removes any
set of terminal orders, at any time. `ExchangeSizes` are the sizes the exchange
may book for an order: less than `Qty` when it rounds to a lot step.

### KillSwitch

`store` is the Redis key, `cache` what `PersistentKillSwitch._state` holds.
A load is three steps (`Ask`, `Answer`, and what the caller does with it), a
save is two (the JSON is made, it lands), because pool connections may be
served in any order. `Started`, `SanityReset` and `Stop` are the runtime's life,
`Refresh`/`Refreshed` its loop, `Endpoint...` the dashboard. The ghost `owed` says
what should be remembered: the triggers stored since the last stored reset. Names that
ControlPlane has too start with `Switch`, because one module proves theorems of both.

### ControlPlane

The consumer and the snapshot loop are two tasks that meet in the readiness
probe, the only command path with an await between reading and writing the
shared flags; PAUSE and HALT are one step because their check fails before the
first await. `Moves` is the failover table, `Switch` the router including the
exception for an exchange without an adapter, which ends the process
(`up' = FALSE`). The client orders are placed with never changes after
construction (section 6) and is no variable.

### ConfigRollout

API handlers read, insert (`upsert` with the primary key) and publish in three
steps. `Read` hands all new entries of the shared consumer group to whichever
watcher asks. `Handle` is the version check with its three outcomes: ignore,
apply, wait. `Flush` applies what waits. Applying never yields between its
check and its effect, so it is one step. `taken` is history: the configs a
watcher accepted since it was started.

### FillRecording

One symbol, several orders, six tasks and the exchange. `stage[c]` says at
which await a caller of `execute_intent` or `record_order_status` is; between
two stages everything else may happen. Entries and exits of the worker run one
after another (`WorkerFree`), the guard's closes likewise. `Accepts` is
`_should_accept_update`; time is reduced to what that comparison sees: the
exchange's moments 2 (accepted) and 4 (finished) and the local moments before,
between and after them. `Apply` and `Close` are the tail of
`record_order_status`, `Settle` the tail of `execute_intent`, `Sync` the
replacement and debounced removal of `_sync_positions_from_exchange`, with its
tolerance (`SameSize`). `SyncExecutions` is `_sync_executions_once`: it records a
fill and leaves the position alone, and what the consumer and the reconciler hear
of that fill afterwards is no news to them. `source` is the source on record, by
which the consumer and the poll tell whose record it is.
`listed` is the list of open records the reconciler works through, which is as
old as the first poll of its cycle. `counted` is history: orders whose fill some
task has taken to the local position.

### DecisionExecution and ExecutionIntake

`DecisionExecution` is the promise: a decision waits, is executed, has ended; its
order is placed at most once; while claims are kept nothing is executed twice.
`ExecutionIntake` is the worker's handler, one step per await: `Gate` (age,
throttle, position), `Lookup` (the intent's row), `Claim`/`Claimed` (the Redis
key, then the audit row, whose failure lets even a refused decision through),
`Record` (the row), `Send`, `Answered`, `Poll`. Around it are the stream that may
deliver copies, the exchange, which serves requests late and refuses a client
order id it knows, `LoseReply` (the guard turns what is raised into a
rejection, so a lost answer is retried), the writers of the rows (`WsReport`,
`ReconcileOrder`, `SyncTrade`, `HealGhost`, `ExpireIntent`: all but the last write
what they record of the order to its intent's row as well, an "open" included),
`Crash`, and the start-up that replays claims from the audit table and recovers
pending intents. With `Parts` an order can be executed in part. A decision stands for its client order id. The module shows
that it implements the abstract one by `INSTANCE DecisionExecution WITH` the `fate`
and `placed` defined from its variables (`ExecutesOnce`).

### MakerEntry

`_execute_maker_entry` and the fallback it ends in: `Post`, `WindowPoll`,
`Cancel`, `ConfirmPoll`, `Leave`. Requests (`wire`) and cancels (`cancels`) arrive
late, orders fill lot by lot, answers are lost, the process stops and its start-up
asks for the order whose id the row holds (`known`), which from the second
attempt on may be an earlier one. An attempt whose answer was lost is asked for by
its client order id, and what the client makes of no answer there is a rejection
(`EndTold`). No answer carries a filled size, so the branch that accepts a part is
never taken and is no step. On the row of the fallback write, besides the worker,
reports and polls (`FallReport`), the sync of executions and the heals. The ghost
`assured` says that every order left behind was seen to be over: the code goes on
without that, on a made-up rejection (`Seen`) or after its polls (`Unconfirmed`), and
then nothing can be promised (section 6).

### Reconciliation

One cycle of the worker the runtime starts: read the open orders of the store,
await the exchange's, heal; read the position, await the exchange's, heal. Order
heals are tasks (`heals`) that write later, through the store's own acceptance
rule; position heals write at once. Answers, reports, polls, fills, the sync of
executions and the position sync (`Fetch`, `Sync`) go on between all of these. A
heal looks up its record by client order id and finds the older of two (`apart`). `sized` says whether
the exchange's rows have the key "size" the adapter reads: rows of perpetuals do
not, rows made of spot balances do.

### OrderBook

One symbol of Binance. `Change` and `Emit` are the venue; `Connect`, `Fetch`,
`Recv`, `RecvFails` and `ReturnSnapshot` are the provider's `next_update` with its
pending snapshot, its tolerance for small gaps and its reconnects; the feed checks `_binance_last_seq`
and asks for a snapshot when a delta leaves a hole; the worker applies snapshots
and deltas, and takes the first delta for a snapshot when its book is not valid.
A book is the set of update ids that are in it, so that "a level is missing" is a
hole in the set. A restart empties everything but the stream. Two variables of
the code (`_binance_pending_seq`, `_pending_snapshot_seq`) always equal the last
sequence number where they are set and need no variable.

## 3 Runs and bounds

`tlc -config <cfg> <module>`; `PROJECT.json` has the list. "States" are distinct
states.

| run | property | states | bounds and why they are enough |
|---|---|---|---|
| lifecycle | TypeOK, FilledIsReal, IndexesAgree, TerminalAndFillsStay, RecordContract | 241081 | two orders of one intent, two lots, reports by either id: the second order makes index mix-ups visible, the second lot partial fills |
| lifecycle_lossless | ClosedIsLearned | small | one order of up to three lots, so that two partial fills and the last can swap |
| killswitch | StoreRemembers, CacheConverges | 86570 | two triggers (the drawdown of the risk worker, the manual one of dashboard and shutdown), failures and restarts; one save per caller in flight, as in the code |
| control | TypeOK, HaltIsFinal, UnreadinessIsLearned | 48528 | three exchanges, one without adapter, three pairs of targets (the usual, one with the unregistered exchange, none) |
| config | TypeOK, PublishedIsStored, NothingForgotten, PendingIsApplied | 12792 | one bot, two handlers, versions up to 3, two competing updates of version 2: enough for a lost race and for an older config behind a newer one |
| fills | TypeOK, FillNotForgotten, RecordContract | 4471808 | a maker entry and a close of the guard, with all six tasks; RemoveAfter = 2 (the code's default is 3): one miss that does not remove and one that does |
| fills_live | PositionConverges, RecordCatchesUp | 835619 | a market entry and an exit signal; a lot of 0.02 coin, so that a fill counted twice is within the tolerance of the sync and one counted three times is not |
| fills_phantom | NoPhantom (violated) | - | an entry and a guard close |
| intake | TypeOK, IntentOnRecord, FilledIsTraded, ExecutesOnce, LedgerContract, ComesBack | 2426543 | one decision published twice, partial executions and heals, a clock of three instants: a copy passes the age limit in the instant of its publication and is handled for up to one more, a claim lasts two (the code: 60 s against 300 s); two sends, one poll, one crash at any await, every store failing. A copy can meet the claim held, lapsed or lost, before and after the restart. Several decisions and larger limits are in the proofs |
| maker | TypeOK, OneAtATime, EndedIsOver, FilledIsFilled, Ends | 648784 | one repost and the fallback, so that an attempt follows another and a market order follows that; three lots: untouched, a part, more of it, whole |
| reconcile | TypeOK, HealedIsOver, RecordContract, GhostsEnd, PositionComesBack | 1450656 | one order (orders do not influence one another's records), a position of up to two lots with a tolerance of one, rows with and without size, two misses to remove, one failed fetch: what the sync takes for equal, what it corrects, a miss that removes and one that does not. The position alone also held with four lots, three misses and two failed fetches (178200 states) |
| orderbook | TypeOK, Whole, BlindStartOnly, CatchesUp | 694353 | four updates, two entries in socket, queue and stream, one restart, tolerance 0 so that any hole is a gap: a snapshot, an overtaking delta, a gap and a leftover of the stream fit. It also held with five updates and tolerance 1 (3256958 states), where the provider passes on a gap that the feed must detect |

What the passing runs show, and what would break:

* **FilledIsReal, IndexesAgree, TerminalAndFillsStay.** The
  manager's defences (terminal states have no successors, cumulative quantities
  only grow, cancels are only final when reported) are enough against any
  order, repetition or loss of reports, also around cleanup.
* **RecordContract** (lifecycle). Whatever crosses on the wire, an order held as
  ended ended in just that way at the exchange, with nothing presumed.
* **ClosedIsLearned.** The same defences never refuse the report that matters.
* **StoreRemembers.** Every writer of the key starts from a state that it
  activates, so overlapping read-modify-writes lose names, never the activation.
* **CacheConverges.** When the key stops changing, the refresh loop gets the
  cache there, although answers and saves overtake one another, calls fail and
  the bot may have come up without its first load.
* **HaltIsFinal.** No mix of commands, refused switches and probes ends a halt.
* **UnreadinessIsLearned.** A probe that sets `execution_ready` after a PAUSE is
  corrected by the next one.
* **PublishedIsStored.** The primary key decides the race for a version before
  anything is published.
* **NothingForgotten, PendingIsApplied.** The pending list loses nothing when
  positions open again, and is worked through once a bot stays paused and flat.
* **FillNotForgotten.** Recording before applying, with awaits between, leaves
  no recorded fill without a task that will apply it, even if the position it
  belonged to is gone meanwhile. A fill that the sync of executions recorded first is
  the one exception: nobody applies it (section 6).
* **RecordContract** (fills). Six sources with two clocks never reopen a record nor
  move it away from the final status the exchange gave the order; the one
  correction is towards it.
* **PositionConverges.** Double counting and phantoms do occur on the way (run
  fills_phantom), and fills that nobody applies; the sync repairs them once trading
  stops, up to its tolerance of 2 % of the size, or of 0.02 coin if that is more.
* **RecordCatchesUp.** An order whose updates were all lost does not stay open
  in the store, because polled answers are stamped when they are there and are
  therefore not older than what is recorded.

* **ExecutesOnce.** The age limit and the claim together stop every copy: a claim
  outlives the last moment at which a copy could pass the limit
  (`ClaimOutlivesDecision`). It holds as long as Redis keeps its keys and no
  refusal is passed over because its audit row could not be written; then the
  row of the intent still stops most copies, but not all.
* **IntentOnRecord.** The row comes before the request on every path, so a
  restart can find whatever may be at the exchange.
* **FilledIsTraded.** Lost answers make rows say "failed" or "rejected" of orders that
  live, and the sync of executions makes them say "filled" of orders that are only
  filled in part; they never say it of an order that did not trade at all.
* **LedgerContract.** Among the answers, the polls, the reports, the reconcilers, the
  sync of executions and the recovery, with crashes between, the record by order id
  is never wrong about an end but for a "filled" of a traded order and a "canceled"
  of a healed one, and such a record gives way only to the truth.
* **ComesBack, Ends.** Tries, polls, windows and recoveries are bounded: the next
  decision is not kept waiting for ever.
* **OneAtATime.** With each order left behind seen to be over, late requests,
  late cancels and partial fills do not let two orders of an entry work together, nor
  another order follow one that was filled. What an attempt left behind executed in
  part stays on top of what the next one executes (section 6).
* **EndedIsOver, FilledIsFilled.** The root's row, written by worker or
  recovery, does not call an entry over whose orders may still execute, unless an
  answer was lost; nor is it filled without an attempt that was, nor the fallback's
  row without an execution, whatever was lost.
* **HealedIsOver.** An order recorded, placed or answered around the worker's await
  is not taken for a ghost; a record is only closed when its order is over. A
  list that could not be fetched is the exception (section 6).
* **RecordContract** (reconcile). A heal written late does not replace the end a
  report told: it is a presumption, and only taken where no end was on record.
* **GhostsEnd.** Without any report the worker alone closes the record, if the first
  answer was not lost: then it may write to the wrong record (section 6).
* **PositionComesBack.** The worker's position heals undo what the sync did and
  the other way round; once trading has ended they agree again and again, and for
  good where the rows have a size.
* **Whole.** A book that began with a snapshot has no hole, whatever was lost,
  overtaken or left over in the stream.
* **BlindStartOnly.** The worker's start from a bare delta only happens when the
  feed has had no snapshot at all, or the next one is already in the stream: no
  later gap reaches it.
* **CatchesUp.** When the venue rests, the bot's book is the venue's.

Deadlock is not checked for OrderLifecycle, FillRecording, ExecutionIntake and
MakerEntry: every order or decision there is handled a bounded number of times,
and the system really stops when all are done.

## 4 Fairness

* `OrderLifecycle!LosslessSpec`: every report on the wire is delivered (weak
  fairness of `Deliver`). The caller and the exchange may stop at any time.
* `KillSwitch!SwitchLiveSpec`: the runtime comes up, the refresh loop turns
  (`while` with a sleep that survives exceptions, `runtime/app.py:2845`). Any call
  to Redis may fail and the bot may crash, but not every refresh and every save
  fails for ever (strong fairness of a refresh that is answered and of a save that
  lands). No fairness for triggers, resets or endpoints.
* `ControlPlane!LiveSpec`: the snapshot loop turns and its Redis reads are
  answered. No command is ever bound to come.
* `ConfigRollout!LiveSpec`: watcher and flush loop of every bot run
  (`runtime/app.py:3682`). The operator, the API and trading are free.
* `FillRecording!LiveSpec`: the sync loop and the reconciler survive any error
  and run on. The reconciler polls each open order again and again: strong
  fairness per order, because between two polls it is busy with others. Nothing
  is assumed of the worker, the guard, the consumer or the exchange.
* `ExecutionIntake!FairSpec`, `MakerEntry!FairSpec`: the handler's task runs on, a
  call to the exchange ends by its timeout if not by an answer (`LoseReply`), a
  process that stopped is started again. The exchange may never answer, serve or
  fill anything.
* `Reconciliation!LiveSpec`: the worker's cycle, the tasks it creates and the
  position sync run on; they are loops that survive exceptions. Reports and polls
  may never come.
* `OrderBook!LiveSpec`: the drain task, the feed and the worker run on (each a
  `while True` around an await), and snapshot requests, of which any may fail or
  come late, succeed now and then while the book rests (strong fairness of a fetch
  that returns the venue's last update; the periodic snapshot every 30 seconds asks
  for ever). Nothing is assumed of the venue's messages or of resync requests.

## 5 Proofs

Checked by tlapm with Z3, Zenon and LS4; no step is assumed. The theorems hold
under the named assumptions of each module, which TLC evaluates in every run:
`ConstantsAssumption` (`SwitchAssumption` in KillSwitch) says what kind of thing each
constant is, `ClaimOutlivesDecision` of ExecutionIntake that claims live longer than
decisions are taken and handled.

Every proof has the same shape: an inductive invariant `IInv`, a lemma per
action (or per group of actions that change the same variables) that the action
preserves it, and one temporal step. Invariants were first checked by TLC.

* **OrderLifecycleProofs**: TypeCorrect, FillsAreReal, TerminalOrdersAreDead,
  IndexesAlwaysAgree, TerminalAndFillsNeverRevert, ManagerKeepsContract,
  NothingIsSwallowed. The properties are not
  inductive alone: what is still on the wire must be true as well. The
  strengthening says that every report in flight describes the exchange (a fill's
  cumulative quantity was executed, a complete one closed the order, a cancel or
  reject found it closed), that ids are the ones the exchange gave, and that an
  order nobody sent is unknown at the exchange. The refinement of OrderRecord
  needs in addition (`Known`) that a cancel in flight is of an order that was not
  filled (`CancelsAreTrue`) and that only orders that are over were cleaned up.
  NothingIsSwallowed is the part of ClosedIsLearned without fairness: what an order
  has not learned is on the wire (`ToCome`), and a report leaves the wire only when
  its order has learned it (`LeavesLearned`). It assumes what the run assumes, a
  wire that loses nothing and reports with the client order id
  (`ReportsNameOrders`); it holds because an order that was booked cannot be
  rejected and one that is not sent is unknown (`Booked`).
* **SupervisionProofs**, about KillSwitch and ControlPlane: KillSwitchTypeCorrect,
  StoreRemembersTriggers, ControlPlaneTypeCorrect, HaltStaysFinal. For the kill
  switch the strengthening is about saves in flight: each one that is not the
  start-up reset carries an active state. For the control plane it adds that a
  halted runtime is paused and that no RESUME that passed the static check is
  waiting while paused, so none can end the pause.
* **ConfigRolloutProofs**: ConfigRolloutTypeCorrect, OnlyStoredConfigsTravel,
  AcceptedConfigsAreKept. Stored rows are never removed, so each place a config
  travels through inherits membership from the place before it.
* **FillRecordingProofs**: FillRecordingTypeCorrect, RecordedFillsAreApplied,
  StoreKeepsContract with its corollary FinalStatusesStay. RecordedFillsAreApplied
  is of the fills that a task recorded, not of those of the sync of executions.
  The strengthening says what a caller knows at each stage:
  the answer it holds is the exchange's status or an "open" from before the
  order was finished, only orders the exchange took have records or are listed
  by the reconciler, and the stages between recording and applying hold a fill.
  A lemma about one caller's step (`CallerStep`) carries most cases. That the store
  implements OrderRecord follows from the same knowledge and from what
  `_should_accept_update` lets through (`Accepts`).
* **ExecutionIntakeProofs**: TypeCorrect, Exactness (the refinement of
  DecisionExecution), AlwaysOnRecord, NeverFalselyFilled. `Protocol` says why a
  second execution cannot begin: a decision's stamp is as old as its first copy
  (`Published`, `StampPast`), whoever is between gate and claim was fresh when it
  was read (`Fresh`, `Begun`), and while claims are reliable an executed decision's
  claim, or the audit row a restart replays it from, lasts beyond that
  (`Granted`, `Kept`, from `ClaimOutlivesDecision`). The lemma `Refines` maps each
  step to a step of DecisionExecution or to none. NeverFalselyFilled
  needs that an answer "filled" is true (`ReplyTrue`) and that a filled order has
  traded (`FilledTraded`); LedgerKeepsContract that an answer of an open order is of
  one the exchange has (`ReplyKnown`). HandlingIsBounded is the part of ComesBack without fairness: every
  step of the handler and of the start-up lowers a lexicographic measure of natural
  numbers, `<<Stage, todo, Rest>>`, and no step of anyone else raises it.
* **MakerEntryProofs**: TypeCorrect, OneOrderAtATime, EndedRowsAreOver,
  FilledRowsAreFilled, for any number of reposts, polls and lots. The
  strengthening: an attempt that was not sent left no trace, a maker attempt is
  sent once, answers "filled" are true, the root's row is open as long as a maker
  attempt is worked, and only a crash in the first attempt leaves the entry assured.
  A step that takes a made-up rejection for an end can keep the entry assured only if
  the request never left (`AssuranceFalls`, `Confirmation`).
  EntryIsBounded is the part of Ends without fairness: every step of the worker, the
  crash and the recovery lowers `<<Fall - at, Stage, Rest>>`.
* **ReconciliationProofs**: TypeCorrect, HealedOrdersAreOver, StoreKeepsContract with
  its corollary TrueEndsAlwaysStay, for any number of orders. The strengthening follows a ghost through the cycle:
  what was read is known to the exchange, what is then missing from its list is
  over, and so is what a task is about to close.

* **OrderBookProofs**: OrderBookTypeCorrect, BooksAreWhole, BlindBooksEnd, for queues
  of any length, any tolerance and any number of updates, reconnects and restarts.
  Queues hold updates from before the venue's last one (`QueuesTyped`), and a
  book stays whole because the worker applies only what continues it and drops the
  book at a gap. BlindStartOnly needs to
  know what is still in the stream (`FedFromSnapshot`): once the feed has published a
  snapshot, there is a base, a snapshot in the stream or the worker's book where that
  is of one, after which every entry continues what comes before it (`Anchored`), up
  to the feed's own number (`FedIsLast`).

Every invariant and every action property of the passing runs is a theorem here, and
so is every refinement. The other way round TerminalOrdersAreDead,
KillSwitchTypeCorrect and the corollaries are proved and checked in no run: they
follow from, or are weaker forms of, what the runs check.

Only model-checked: the liveness properties (ClosedIsLearned, CacheConverges,
UnreadinessIsLearned, PendingIsApplied, PositionConverges, RecordCatchesUp, ComesBack,
Ends, GhostsEnd, PositionComesBack, CatchesUp), because fairness and ENABLED are beyond
the prover; of ClosedIsLearned, ComesBack and Ends the part without fairness is
proved. And the disagreement with a run in section 6, which is a counterexample.

## 6 Where code and documents disagree

One disagreement has a run that is expected to end in a violation, `fills_phantom`.
A comment of the manager says that its guard keeps the close fill of a position the
guard has already finalized from opening a phantom position; the intent the order
update consumer builds does not say that it is a close, and the position is opened.

Others were met while modelling. The models contain their steps (but where
nothing moves), and no run is kept for them. Where no document is quoted, the second
column is what the names and the rest of the code lead one to expect.

| code | said or expected | the code does |
|---|---|---|
| `core/risk/kill_switch_store.py:285` | a latch until an operator resets it (`core/risk/kill_switch.py:19`) | a refresh in flight undoes a trigger in the cache |
| `execution/actions.py:121` | failover is arm + execute (`docs/CONTROL_PLANE.md:16`) | execute switches without arm |
| `config/safety.py:46` | older versions are ignored (`test_config_hot_reload.py:114`) | a flush applies one after a newer one |
| `execution/execution_worker.py:837` | "Mark symbol as in-flight to prevent concurrent orders" | the poll gives up with the order open, and the next decision of the symbol is sent |
| `execution/execution_worker.py:858` | a client order id is executed once | the write of the audit row raises, and a refused claim is taken as granted |
| `execution/execution_worker.py:1309` | a rejection | a lost answer is one: the retry is refused as a duplicate and the row says "failed" while the order lives |
| `runtime/app.py:2180` | executions are reconciled | an order with any trade is recorded as filled, in the store and on the intent's row, the rest of it may be open or canceled; the position is not touched, and later reports of the fill are dropped as duplicates (`order_update_consumer.py:85`), so that only the position sync brings it |
| `execution/adapters.py:526` | the status of the order | a question by client order id that finds nothing is answered "rejected" (the bundled client finds nothing where ccxt has no such call, `execution/ccxt_clients.py:406`): the row of a maker entry, or a pending intent at start-up, ends as rejected while the order may live |
| `execution/execution_worker.py:1436` | "require terminal confirmation after cancel" (line 1434) | after a lost answer that rejection passes for the confirmation, and two rounds without any terminal status lead on as well: the next attempt is posted while the first may still fill |
| `execution/execution_worker.py:1449` | a partial fill worth taking ends the entry (`_partial_fill_accepted`) | no answer of the client carries a filled size (`execution/adapters.py:337`): the part is never accepted, and the next attempt is posted for the whole size |
| `execution/order_store.py:125` | one record per order | a lost answer and a later report give two, by client order id and by order id |
| `runtime/quant_integration.py:303` | "Heal: mark as cancelled/expired" (`execution/reconciliation.py:371`) | the record is looked up by client order id: after a lost answer it is the "rejected" one, which refuses the heal, and the ghost stays open and is found again in every cycle |
| `runtime/quant_integration.py:400` | a heal of a ghost | "canceled" is written to the intent's row although the store may have refused it of a filled order |
| `api/quant_endpoints.py:766` | both triggers are kept | the endpoint and the runtime save whole values: the later one drops the other's `triggered_by` entry |
| `runtime/app.py:3573` | pending intents are recovered after a restart (`tests/integration/test_runtime_order_recovery_restart.py`) | recovery claims the id itself and skips the intent while the interrupted execution's claim lives |
| `runtime/app.py:3607` | recovery asks for the intent's order | in a maker entry the row may hold an earlier attempt's id, and that order's end is recorded for the entry |
| `runtime/quant_integration.py:711` | "Heal: cancel orphan order (safety measure)" (`execution/reconciliation.py:401`) | the adapter calls cancel_order without an argument the guard needs and takes the TypeError for a refusal: no orphan is ever canceled |
| `runtime/quant_integration.py:547` | open orders of the exchange | a failed fetch is an empty list, and open records are marked canceled |
| `execution/reconciliation.py:496` | positions of the exchange | ccxt's rows of perpetuals have no "size": each cycle clears the local position, the sync brings it back ("reconciliation churn", `runtime/app.py:3355`) |
| `execution/reconciliation.py:342` | filled orders end as filled | an order that fills during the await is marked canceled, and the report of its fill is refused |
| `ingest/orderbook_worker.py:166` | "Binance requires the first delta to bracket snapshot_seq + 1 before we go live." | the book goes to the cache on the bare snapshot; a snapshot that deltas have overtaken takes it back, and the feed drops the deltas after it until the next snapshot |
| `core/lifecycle.py:568` | FILLED implies filled_qty == qty (line 18) | FILLED when the exchange says complete, also with less than qty after lot rounding |
| `runtime/app.py:1559` | reset only a drawdown trigger (line 1522) | the reset also erases a manual trigger that came during its awaits |
| `execution/actions.py:97` | RESUME resumes (`docs/api_contract.md:26`) | RESUME of a paused bot fails because of the pause |
| `execution/manager.py:376` | FAILOVER_EXEC swaps adapters (`docs/CONTROL_PLANE.md:21`) | orders keep going to the client the manager was built with |
| `config/watcher.py:51` | applied to the running bot (line 21) | whichever bot reads the event applies it |
| `runtime/config_apply.py:40` | applied to the subsystems (line 11) | the execution worker keeps the old exchange's manager (`worker` of ConfigRollout) |
| `execution/execution_worker.py:1441` | the cancel/fill race is handled (line 1434) | a fill confirmed after the cancel is not recorded |

## 7 What is not modelled

Abstractions inside the modelled parts: prices, fees, profit, reasons, audit and
telemetry everywhere; spot markets, exits smaller than the position and retries
in FillRecording; partial fills there too, which occur in OrderLifecycle, MakerEntry,
ExecutionIntake and Reconciliation; a market order whose very answer is "canceled";
the rows of order_intents that reports and polls write under the client order ids of
maker attempts, which the entry does not read; Redis and Postgres mirrors of the order store; the history list of
the kill switch; everything of a config but bot, version and exchange; exits,
replacements and the inside of the guard (token bucket, circuit breaker) in
ExecutionIntake, where the guard may refuse any call; filled quantities and sides
in Reconciliation; levels, timestamps and quality scores in OrderBook.

FillRecording and Reconciliation are separate models of the same stores.
PositionConverges of FillRecording therefore holds without the reconciliation
worker; with it, it is PositionComesBack that holds. The order heals of that worker
are not in FillRecording either: there a heal would be one more writer of
"canceled", which RecordContract already presumes.

OrderBook is the Binance path. Deltas of OKX and Bybit carry a mark that makes
every check pass (`seq_tolerant`), so no property of this kind holds of them.

The hot path with `core/book/`, `core/reconciliation/worker.py`, the core kill
switch and the side channel are not started by the runtime. The components of
section 1.2 are left out as a whole: pure I/O, numerical code whose mistakes are
not interleavings, or other programs. They are most of the repository: the HTTP
endpoints, backtesting, signal filters over floats and data import make up the bulk
of its lines, so the share of lines these modules stand for stays small however
completely the components that decide something are modelled.

## 8 Plan

Order of work: what can lose money by interleaving first, then what feeds it.

1. Done: OrderLifecycle, KillSwitch, ControlPlane, ConfigRollout, FillRecording,
   each with runs and proofs.
2. Done: ExecutionIntake over DecisionExecution, MakerEntry, Reconciliation, OrderBook
   with runs and proofs.
3. Done: OrderRecord, implemented by the four modules that keep orders. The parts of
   ClosedIsLearned, ComesBack and Ends that need no fairness; left are the same parts
   of GhostsEnd, PendingIsApplied and CatchesUp.
4. Partial fills, exit sizes and the reconciliation worker in FillRecording.
5. `Guards`: token bucket and circuit breaker, with half-open probes that overlap.
6. `SideChannel` and `HotPath`, if the runtime comes to use them: bounded queue with
   coalescing; pending intents; the book guardian; the core kill switch as a latch.
7. The tenant guardian, a second process that closes positions, composed with
   FillRecording.
