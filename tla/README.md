# Verification of the one-lot scalping engine

TLA+ modules, TLC configurations and TLAPS proofs about the engine under
`src/src/` (Node.js, MongoDB, the Kite Connect broker API). Every definition is
translated from that code; `PROJECT.json` ("map") names its lines. Paths below
are relative to `src/src/` (`README.md` and `docs/` to `src/`); `tradeManager.js`
and `tradeStore.js` are in `trading/`.

## 1. The system

A ticker delivers ticks and broker postbacks. `pipeline.js` puts them, with
candle timers and reconciliations, on one serial queue. Strategies turn candles
into signals; `tradeManager.js` turns an admitted signal into an entry order, a
stop order and a target order, moves the stop, exits, and books the result. The
rows of trades, the links from orders to trades, orphaned order updates and the
risk of the day are in MongoDB. The timers of `tradeManager.js` (watchdogs, exit
watches, the timeout of a panic exit, the debounced reconciliation) run beside
the queue. At most one trade is active; it is one lot.

| Component | State | Operations | Talks to |
|---|---|---|---|
| Execution coordinator (`trading/executionCoordinator.js`) | `_queues`, `_active`, an async-local store | `run(key, handler)` | every command of the trade manager |
| Trade status machine (`trading/tradeStateMachine.js`) | none | `canTransition` | `updateTrade` |
| Trade row (`tradeStore.js`, `_runTradeCommand`, `_updateTrade`) | the row with its version; the contexts of commands | insert, load, validated and versioned update | MongoDB |
| Order updates (`onOrderUpdate`, orphan store) | links, orphans, two memories of signatures, last known orders | postback, poll, replay, square-off, booking | pipeline, broker, trade row |
| Trade entry (`tradeManager.js`) | the row of a new trade; watches, ladders and fallback timers of its entry order; open positions of the risk engine | signal, entry order, watch, cancel, recovery, MARKET replacement, reconcile, adoption, restart | broker, order updates, risk |
| Trade lifecycle (`tradeManager.js`) | the row; timers, locks and markers in memory; the orders at the broker | entry, exits, guard, panic exit, watchdogs, OCO tick, reconcile, forced flatten, close | broker, trade row, risk, halt |
| Pipeline (`pipeline.js`) | the serial queue, subscribed tokens, timers | enqueue a tick, a postback, a reconcile, a tick of OCO | ticker, trade manager |
| Engine lifecycle and sessions (`runtime/engineLifecycle.js`, `tokenWatcher.js`, `kite/`) | the engine state, the token, the control document, the ticker | start, stop, cooldown, token change, takeover | index, pipeline |
| Daily risk and halts (`risk/`, `runtime/halt.js`, `tradeManager.js`) | the document of the day (profit, state, kill switch, orders), the risk engine with its own switch and its snapshots, the halt | check of the daily loss, forced flatten, booking, gate of a signal, administrator, restart | every handler of the trade manager, MongoDB, `/admin/kill` |
| Order rate limiter (`trading/orderRateLimiter.js`) | the count of the day, windows of order times | check, record, hydrate | the placing of an order, the document of the day |
| MongoDB degradation (`runtime/mongo*.js`) | connection state, permits of background work | degrade, recover, acquire, release | buffer, notifications |
| Candles (`market/candleBuilder.js`, `candleStore.js`) | the candle that takes ticks | tick, timer | write buffer, strategies |
| Candle write buffer (`market/candleWriteBuffer.js`) | buffered candles, a flush in flight | enqueue, flush, retry, overflow | MongoDB, work gate |
| Notifications (`alerts/notification*.js`) | jobs, a ledger, in-flight claims | enqueue, claim, send, retry, requeue | MongoDB, Telegram |
| Strategies and signals (`strategy/`) | market state, signal lifecycle, retry counters | evaluate, accept, expire | pipeline |
| Exit engines (`trading/proExitLayers.js`, `adaptiveLoserCompression.js`, `_maybeDynamicAdjustExits`) | the peak, the ladder and its floors, the compression request, the pending target, the shadow stop, the count of modifications | evaluate, modify, retry, cancel and replace, watch the price | broker, order updates, trade row |

`PROJECT.json` ("components") also lists what is pure arithmetic on prices, I/O
or output: indicators, plans and sizing, costs, market calendar, option chains,
broker client, servers, telemetry, backtest, configuration.

**What is hard here.** One thread, but every `await` is a point where another
handler may run; the queue orders only what goes through it. The async-local
store of a command is inherited by timers that the command arms, and a call made
by such a timer is then taken for an inner call and does not wait. The broker
delivers postbacks late, twice, out of order, before the order has a link, or
never; cancellations race fills; calls to the broker and to MongoDB fail before
or after they took effect. A trade is touched by handlers that do not know of
each other: the update of a leg, the guard, two reconcilers, the forced flatten,
the SLA of the stop, the timeout of a panic exit. `PROJECT.json` ("hazards")
lists these at their lines with the properties that look for them.

**What makes each modelled part correct.** Coordinator: commands of one trade run
one at a time in call order, none is forgotten, the maps do not leak. Row: the
status moves along the table whatever copy the writer holds, the entry facts of
a closed trade and the strategy stop do not change, a result is true of the row.
Updates: each is applied or superseded, and the profit of the trade
is booked once. Lifecycle: one stop and one panic exit work at most, a trade is
closed only when it holds nothing, a held position does not stay unprotected, a
position that was turned over is noticed. Trailing: the row never claims a
tighter stop than the broker has, two stops never work, a position without a
stop does not stay so. Entry: the orders and the position of
a trade never exceed its lot, a position without a trade gets one, an adopted
position has one trade only. Session: the ticker with a socket is the one the
engine knows, new trades are allowed in mode LIVE only, a stored token is tried,
a cooldown ends, a connected engine reconciles. Database: an accepted candle is
written in its newest version, the buffer keeps its limit, reconciliation is let
in whatever the state, and the state recovers. Day: what the trades made is
booked, a switch that is set lets one entry through at most, across restarts too,
trades and orders stay below their limits, and a loss beyond the cap, or a
position that is held when the day ends, is acted on.

## 2. The modules

| Module | Models | Used by |
|---|---|---|
| `SerialCommands` | abstract specification: a serial queue per trade | refined by `ExecutionCoordinator` |
| `ExecutionCoordinator` | `executionCoordinator.js` whole | `MCExecutionCoordinator`, `QueueProofs` |
| `TradeStateMachine` | `tradeStateMachine.js` and the status classes of `tradeStore.js` | `TradeStore`, `TradeEntry`, `TradeLifecycle` |
| `TradeStore` | one row and the commands that read and write it | `MCTradeStore`, `TradeStoreProofs` |
| `OrderUpdates` | the way of the postbacks of one exit order to its trade | `MCOrderUpdates`, `OrderUpdatesProofs` |
| `TradeEntry` | a trade from the signal to a filled or given-up entry, with crash and restart | `MCEntry`, `TradeEntryProofs` |
| `TradeLifecycle` | a filled trade from its protection to its close | `MCTradeLifecycle`, `TradeLifecycleProofs` |
| `StopTrailing` | the stop of a live trade that follows the price: plan, authority, modification, replacement, shadow stop, loser compression | `MCStopTrailing`, `StopTrailingProofs` |
| `DayRisk` | one trading day: profit, limits, kill switch, check of the daily loss, forced flatten, restart | `MCDayRisk`, `DayRiskProofs` |
| `EngineSession` | token watcher, engine lifecycle, session control, login, ticker | `MCEngineSession`, `EngineSessionProofs` |
| `MongoWork` | degradation and recovery of the database, the gate of background work, candles on their way to the database | `MCMongoWork`, `QueueProofs` |

The modules compose by what each promises to the next. `ExecutionCoordinator`
shows (refinement of `SerialCommands` with its fairness) that queued commands run
one at a time, in call order, each to its end; only a call from a timer left
behind by a command escapes it.
`TradeStore` uses exactly that: queued commands exclude each other, a *detached*
one does not. `OrderUpdates` and `TradeLifecycle` use the same two kinds of
handler (the queue, and timers beside it). `TradeLifecycle` takes from
`TradeStore` what an update does to the row (`Written`), from the status machine
the table, and from `OrderUpdates` the fence and the memory of orders; so does
`TradeEntry`, which hands over at `ENTRY_FILLED` (its `Protect` stands for all
that `TradeLifecycle` does next). `StopTrailing` is a close view of the time in
which `TradeLifecycle` leaves the stop where it was placed; what it calls a panic
exit (`row.end`) is where `TradeLifecycle` goes on. `DayRisk` looks at a day of
several trades: of each it keeps the few steps of `TradeEntry` and
`TradeLifecycle` that read or write the day, and it asks of the booking, whose
steps within one trade are in `OrderUpdates`, what several trades and other
writers of the document make of it. `EngineSession` decides whether there is a
pipeline and whether new trades are allowed; the pipeline queue of the other
modules is the one it creates.

### ExecutionCoordinator
A call of `run` is an element of `Calls`; `pc` says where it is. `run` compares
the caller's store with the key (line 17): equal, and the handler runs at once
(`inline`), otherwise it is chained behind the last promise of the key. `Start`,
`Return` and `Settle` are the handler, the `finally` of `_active` and the
`finally` of the tracked promise. A handler may await an inner call
(`RunAwaited`); a callback it armed may call at any later time (`RunDetached`).

### TradeStore
`row` is the document, `contexts`/`context` are `_tradeCommandContexts` and its
trade objects, `local` the trade object of a handler. A write goes through
`_updateTrade`, `ReadCurrent`, `CheckStop`, `Save`/`SaveMisses`/`SaveFails`,
`Reread`: one action per await of `updateTrade`. `SaveFails` covers an answer
that is lost after the write landed and the one transient retry. A patch has a
status, an entry fact (any of `ENTRY_RELATED_PATCH_KEYS`) and a strategy stop.
Abstracted: all other fields; `normalizeTradeStatus`.

### OrderUpdates
One exit order and its distinct updates. `call[s]` is the `onOrderUpdate` in
progress for the pipeline, the exit watch and the replay; the actions are its
awaits in order. The placer links the order as a stop or a panic exit, pops the
orphans (`FindOrphans`, `DeleteOrphans`) and replays them. The fence compares the
broker's stamp of an update with our time of the close; `setup.ahead` lets an
update pass it, and `FillCloses` says what each role then does. The branch of an unlinked fill that is matched
as a square-off is included, as is the booking of the profit in two calls.

### TradeLifecycle
`orders`, `pos` and `news` are the broker: a unit of a working order may trade at
any time, the broker may end an order, a postback may be lost. `row` has the
status, the three order numbers, the exit order, `ocoCleanupAt` and the count of
replaced targets. `mem` has what the trade manager keeps: kill switch and halt,
the active trade, the lock of exit placement, the marker of a panic exit, the
expected cancellations, the last known orders, both timers, the retry count. `h`
holds, for the queue and for the timers, a stack of frames: each frame is a call
in progress, each action one stretch of code between two awaits.

| Actions | Code |
|---|---|
| `FinalizeEntryFill`, `Recheck`, `MarkBreach` | `_finalizeEntryFillImpl`, `_postFillRiskRecheckAndAdjust` |
| `PlaceExits`, `PlaceStop`, `StopRow`, `ConsiderTarget`, `PlaceTarget`, `TargetRow`, `MarkLive`, `Unlock` | `_placeExitsIfMissingImpl`, `_placeTargetOnly` |
| `Deliver`, `Link`, `Replay` | `onOrderUpdate`, `linkOrder`, `_replayOrphanUpdates` |
| `UpdateOfLeg`, `CancelOther`, `LegFilledRow`, `HandleDeadTarget`, `UpdateOfPanicExit` | the command of the update by role; `_onSlFilled`, `_onTargetFilled`, `_handleDeadTargetImpl`, `_handleOcoDoubleFill` |
| `GuardChecks`, `GuardMarks`, `GuardCancels` | `_guardFail` |
| `PanicIsInFlight` ... `PanicRow` | `_panicExitImpl` |
| `SlaFires`, `SlaChecks`, `Confirm` | `_armStopLossSla` |
| `PanicTimeout`, `TimeoutCancels`, `TimeoutPlaces`, `TimeoutRow` | `_panicExitTimeoutCheckImpl` |
| `OcoTick`, `OcoCompares`, `CancelRemaining`, `OcoFlat` | `positionFirstReconcile`, `_cancelRemainingExitsOnce` |
| `Reconcile`, `ReadPositions`, `Heal`, `ReconcileFlat` ... `ReconcileLive` | `reconcile`, `_reconcileTradeImpl` |
| `ForceFlatten`, `FinalizeClosed`, `Halt` | `_forceFlattenIfNeeded`, `_finalizeClosedImpl`, `halt` |

A `setup` variable that never changes holds the circumstances of a behaviour, so
that one run covers several: the units of the lot as the broker fills them (two
make partial fills), whether targets are placed, whether the entry slipped or
breached the risk limit, which timers may fire, and how many faults of which kinds may occur.
The trade is a long one; the code treats a short one symmetrically.

Left out of `TradeLifecycle`, on purpose: entry orders (`TradeEntry`),
scale-out (TP1), trailing and re-pricing, virtual targets and the watchdogs that
poll a fill, changes of quantity (`_ensureExitQty`), time-stop variants of the
panic exit, a `placeOrder` whose answer is lost
(`TradeEntry` has that of the entry), and failures of the database (those are in `TradeStore`). The grace
period of `_isFlatStateLikelyExitInProgress` is a free choice while an exit order
works. `panicExitPending` of the row is represented by the marker in memory: the
two are set and dropped together but for one write.

### TradeEntry
The broker and the database are variables of their own (`orders`, `pos`, `news`;
`row`, `linked`, `orphans`, `kill`), because a crash keeps them and loses `mem`
and `h`. `mem` has the active trade, the open positions of the risk engine
(`booked`, under a trade or an instrument key), expected cancellations, seen
updates, last known orders and armed MARKET replacements. The processes are the
pipeline queue and, per trade, the watch, the ladder and the timer; a frame with
`cmd` runs in a command of its trade, and `Free` is what the coordinator
guarantees of such frames.

| Actions | Code |
|---|---|
| `Signal`, `Declines`, `Admits`, `InsertTrade`, `PlaceEntry`, `EntryRow`, `Link` | `onSignal`, `_onSignalImpl` |
| `Replay`, `Deliver`, `UpdateOfEntry` | `onOrderUpdate`, `_replayOrphanUpdates` |
| `WatchReadsRow`, `WatchReadsOrder`, `Ladder` | `_watchEntryUntilDone`, `_startEntryLadder` |
| `CancelEntry`, `CancelLate`, `CancelDone` | `_cancelOpenEntryOrder` |
| `RecoverBegins` ... `RecoverUnresolved` | `_recoverAmbiguousEntryState` |
| `FallbackFires` ... `FallbackRow` | `_entryLimitFallbackFireImpl` |
| `ReconcileBegins`, `ReadPositions`, `ReadRows`, `DiffOf*`, `DiffsDone` | `reconcile`, `_syncRiskFromPositions`, `_reconcileTradeImpl` |
| `Tick`, `TickOf` | `positionFirstReconcile` |
| `Close`, `Dead`, `FinalizeEntryFill`, `Protect`, `Crash`, `Restart` | `_finalizeClosedImpl`, `_finalizeEntryFillImpl`, `init` |

Left out: sizing, spread and slippage gates, scale-in, failures of the database,
short trades (symmetric), and what protects a filled trade. The gate on recovered
facts (11072), which ends a reconcile while a trade lacks its planned price or
quantity, holds nothing back here: every row is inserted with both.

### StopTrailing
`orders` and `news` are the broker, `ltp` the last price; `row` has the stop, the
peak with its tier and retained floor, what the plan last showed, the pending
target, the shadow flag and the compression request; `mem` what the trade manager
keeps (last known orders, ended orders, modifications per order, expected
cancellations, failures in a row). `cmd` is the command of the exit loop, one
action per stretch between two awaits; postbacks wait in `queue` for their own
command, but reach the order memory at once, as in `onOrderUpdate`.

| Actions and operators | Code |
|---|---|
| `Readings`, `Tier`, `Floor`, `Desired`, `Authorized`, `Forced`, `MovesStop`, `Final` | `enrichDynamicExitPlan` and its helpers |
| `AlcTarget`, `AlcActive`, `Supersedes`, `AlcConfirmed` | `evaluateAdaptiveLoserCompression` |
| `Protected` | `_applyProtectionStatePatch`, `mergeProtectionPatchAgainstTrade` |
| `MayModify`, `DuplicatePending`, `Dominated`, `Evaluate`, `ShadowExit`, `ExitNow` | `evaluateDynamicSlModifyAuthority`, `_maybeDynamicAdjustExitsImpl` |
| `SendSkips`, `Attempt`, `Retry` | `_safeModifyOrder` |
| `CapHit`, `CapCancel`, `CapPlace`, `CapLink` | `_handleModifyCapHit` |
| `Cancel*` | `_safeCancelOrder` |
| `Done`, `FailedInRace`, `FailedSoftly`, `TrailFailsSoftly`, `FailedHard` | what `_maybeDynamicAdjustExitsImpl` does after the call |
| `ReplaceCancels`, `ReplacePlaces` | `_replaceDynamicSlOrder`, `_placeExitsIfMissingImpl` |
| `Hear`, `HandleUpdate`, `Learns`, `ReconcileReads`, `ReconcileTrade` | `onOrderUpdate`, `reconcile`, `_reconcileTradeImpl` |

A price is a number of ticks. The winner floors (green lock, ladder, early winner,
post-1R) are one function of the peak, since all of them keep what the peak has
earned; scores, spreads and ages are free inputs (`Readings`). Back-offs between
two modifications are a free choice of when the loop evaluates. Left out:
break-even, scale-out, the target, short trades, and a placed order whose answer
is lost (`TradeEntry` has that).

### EngineSession
Four processes (`proc`): the token watcher, the cooldown poll, session control
and a login; `conn` holds the handlers of "connect" in progress. `life` is
`engineLifecycle.js` with its serial chain (`failed`: the chain is a rejected
promise), `watch` the token watcher, `track` session control, `kite` the globals
of `tickerManager.js`, `wired` and `up` the tickers with listeners and with an
open socket.

| Actions | Code |
|---|---|
| `PollFires`, `ChangeArrives`, `ReadDeferred`, `ReadFails`, `Finds*`, `BlocksOldToken`, `PreflightBlocks`, `Finish` | `tokenWatcher.js` |
| `SetToken`, `SetTokenRejects`, `StartsDirectly`, `StopsForRefresh`, `Refreshed` | `onToken` of `index.js`, `setToken` |
| `AppliesIdle`, `AppliesSchedule`, `EntersMode`, `StartsCooldownPolling`, `CooldownPoll`, `HoldsCooldown`, `StopsIntoIdle`, `IntoIdle` | `engineLifecycle.js` |
| `ControlTick`, `Invalidates`, `InvalidationFails` | `sessionControl.js` |
| `Login`, `AppliesLogin` | `kiteLogin.js` |
| `SetSession`, `SessionStarts`, `SessionFails`, `Cleanup`, `PipelineStops`, `SessionStopped`, `Connects`, `Disconnects`, `Bootstraps`, `Initializes`, `InitializationFails`, `StartsReconcileLoop` | `tickerManager.js` |

The wall clock is a phase of four per day (idle, warm-up, live, cooldown); it
may move while a step waits (`clock.late`). A handler of "connect" whose
initialisation fails, or finds nothing to subscribe, ends without a reconcile loop
and nothing tries again (section 4); that it failed stands until the next
connection, and is what `ConnectedIsReconciled` excludes. Left out: ticks and
subscriptions, shutdown.

### MongoWork
`health` is the part of the state in `mongoRuntimeState.js` that decides: the
state, both streaks, whether the quiet time after the last failure has passed
(`calm`) and whether an old status was reported (`stale`). `Noted` is
`refreshDerivedSeverity`, which every note about a subsystem calls, so it is part
of nearly every action. `job` says which permit a job of `Jobs` holds.

| Actions | Code |
|---|---|
| `Granted`, `Deferred`, `Succeeds`, `Fails`, `FailsOtherwise` | `evaluateMongoWorkGate`, `noteMongoWorkSuccess`, `deferMongoWorkForError`, as called by `reconcile`, `runRefresh`, `buildStatusSnapshot`, `processOutboxOnce` |
| `DriverFails` | the listeners of `db.js` |
| `CalmComes`, `CacheAges` | time: `recoveryNoFailureWindowMs`, the age of the cached status |
| `NextBucket`, `Tick`, `LateTick` | the clock, `onTicks` and `finalizeDue` of `candleBuilder.js`, with `enqueue` |
| `FlushIdle`, `FlushGranted`, `FlushDeferred`, `FlushBegins`, `FlushWrites`, `FlushFails`, `FlushFailsOtherwise` | `flush` and `_deferMongoFlush` |

A back-off is a name in `backoff` whose time may have passed: who holds one may
be let in or sent away. Left out: connecting, pool metrics, the classification of
errors (both outcomes are taken), several intervals (each has a queue of its own),
the forced flush at stop, prices and volumes.

### DayRisk
`day` is the document `daily_risk` and `saved` the switch in `risk_state`; `snaps`
holds the writes of `risk_state` nobody waits for, which land in any order (they
are tracked only where a process may end, since nothing else reads them). `mem`
is the process: the switch of the risk engine, the halt, the counts of trades and
orders, the active trade. `h` says where each handler is between its awaits, and
what it has read. A close and a signal are handlers of the queue; the check, the
flatten, the administrator, the sale of a part by the entry watch and whoever
places or cancels a stop or a target (`other`) are not. Placing an order, counting
it in memory and writing the count are one call with one `try` (9448-9513):
without the answer of the broker, or without the write, the caller takes a live
order for one that failed.

| Actions | Code |
|---|---|
| `SignalReads`, `SignalGate`, `SignalInserts`, `SignalPlaces`, `SignalFails`, `SignalLoses`, `Answered`, `SignalCounted`, `SignalLinks` | `_onSignalImpl`, `canTrade`, `_safePlaceOrder`, `_recordOrdersPlaced` |
| `OtherPlaces`, `Answered`, `OtherCounted`, `OtherFails` | `_safePlaceOrder` and `_safeCancelOrder` for stops and targets, as far as the count sees them |
| `Protects`, `SlaConfirms`, `Recovers` | the status of the row after a fill, the watchdog of the stop, the recovery of a row without its order |
| `CheckBegins`, `CheckReadsDay`, `CheckWritesState` | `_checkDailyLoss`, `_updateDailyPnlState` |
| `FlattenBegins`, `WritesKill` | `_forceFlattenIfNeeded`, `setKillSwitch` |
| `Exits`, `ExitIsRefused`, `ExitFindsNothing`, `Answered`, `ExitFails`, `ExitCounted` | `_panicExitImpl`, as far as the day sees it |
| `CloseBegins`, `BookReads`, `BookWrites`, `BookFails`, `Finalize` | `_onSlFilled`, `_bookRealizedPnl`, `_finalizeClosedImpl` |
| `UpdateIsDropped`, `DoubleExit`, `DoubleExitHalts`, `DoubleExitThrows` | the exit of a row that is closed already: the fence of late updates, the second exit that sets the switch and halts |
| `PartialBegins`, `PartialWritesState`, `PartialWritesQty` | `_reducePositionToTargetQty`, `_bookPartialPnlLeg` |
| `AdminSets`, `AdminWrites` | `setKillSwitch` for `/admin/kill` |
| `Halts`, `HaltPersists`, `ExitsAfterHalt`, `Crash`, `Restart` | the handler of uncaught errors in `index.js`, `init`, `_hydrateRiskFromDb` |
| `SnapshotLands`, `KillsInMemory` | `_persistRiskState`, `_recordSlippageFeedback` |

Abstracted: a unit of profit is a small number, the same for every unit of a
trade. One trade is open at a time; an order that works, or a position that is
held, when its row is given up leaves the module (`hist.missed` and
`hist.uncounted` remember it), since `TradeEntry` tells what becomes of it. Left
out: cooldowns and failure scopes of the risk engine, exposure, the windows of a
second and a minute, a panic exit that the broker refuses (`TradeLifecycle` has
it). `hist` also tells the orders that no count has any more (`forgotten`) and how
many waited for their answer when another was placed (`waiting`).

## 3. The runs

| Run | Question | Bounds |
|---|---|---|
| `MCExecutionCoordinator` | Does the coordinator implement a serial queue, and do commands interleave through callbacks only? Does every queued call settle? | 4 calls, 3 on one trade, one detached: a queue of two behind a running command, an inner call, a late callback |
| `MCTradeStoreSerial` | Under the serial queue: writes on what was read, the strategy stop changed by no checked write | two commands of two writes and a lone write; calls and answers of the database are lost; 2.7M states |
| `MCTradeStoreTimers` | With a command beside the queue and a database that loses calls and answers: status moves, frozen facts, truth of results, snapshots | a command of two writes and a timer of one; statuses around fill and close |
| `MCOrderUpdates` | Booked once, applied or superseded, booked in the end | 3 updates of one order, memory of 2 signatures, up to 3 deliveries, 8 circumstances; 66k states |
| `MCTradeLifecycle` | One stop, one panic exit and none kept away by its marker, closed only when flat, exposure ends, a flip is noticed | 11 circumstances with up to two faults; 137k states |
| `MCStopTrailing` | The row claims no tighter stop than the broker has, one stop works, a naked position is noticed | 8 prices, 3 stop orders, 2 modifications per order, 7 circumstances of up to three faults and two moves of the price; 223k states |
| `MCEngineSession` | No leaked ticker but by two starts, a stored token is tried, a cooldown ends, a connected engine reconciles unless its initialisation failed | 9 circumstances: up to 2 logins, one fault of each kind, a clock from one phase to the next or through a day, 4 sessions; 153k states |
| `MCEntry` | One lot per trade, an adopted position is alone, positions without a trade are noticed | 6 circumstances: two trades or one, MARKET, LIMIT, ladder, replacement, a lot of two units, one fault of the kinds that meet it; 214k states |
| `MCEntryRestart` (violation) | Is one trade exposed at a time across a crash? | two MARKET trades, one crash |
| `MCMongoWork` | Candles kept, limit of the buffer, recovery from few failures, reconciliation served | 3 circumstances: all jobs with three failures; two jobs, two failures and three candles; four candles with a late tick and three failures; batches of 2, limit 3; 191k states |
| `MCDayRisk` | The profit of the day is what its trades made, the limits hold across restarts, a loss or a late position is acted on | 10 circumstances: one unit or two, a partial sale on or beside the queue, calls of the administrator before or at the flatten, the orders of stops, one fault of the kinds that meet it (two of lost answers and failing writes), 2 trades, 3 orders; 304k states |
| `MCDayLoss` (violation) | Does a loss beyond the cap always set the kill switch? | one trade of two units, one move of the price |

*Why the bounds are enough.* Three calls on a key are the least with which one
is chained behind a queued one; two writers are the least that conflict, and the
writes beyond the first show the use of a refreshed copy; three updates overflow
a memory of two signatures; two units are the least with a partial fill. The
exit orders of a trade are bounded by the counters of the code: `MaxOrders` is
never reached (`TypeOK` states it), so it hides no behaviour. One replacement of
a target and of a panic exit is the default of the code
(`PANIC_EXIT_MAX_RETRIES`, `TARGET_REPLACE_MAX`). Faults are counted per
behaviour (`setup.faults`): the circumstances pair each kind of fault with the
handlers that meet it. Deadlock is checked except in `TradeStore`,
`OrderUpdates`, `StopTrailing`, `EngineSession` and `DayRisk`, whose commands,
updates, trade, clock and day come to an end.

`MCEntry` pairs each kind of fault with the circumstances that handle it; the
one pair it leaves out (an unreadable order with the MARKET replacement) breaks
`OneEntryWorks` (`MCUnread`); section 4 tells how. Three entry orders are a LIMIT order, its replacement and
one of a second trade. `MCEngineSession` lets the clock, logins and faults vary
in turn; two logins are the least where a token replaces one, and `SessionTypeOK`
states that the bound on sessions is never the reason that none starts.

`MCMongoWork`: three failures are the threshold of the code, a limit of three
with batches of two is the least in which a batch in flight, its newer version
and an overflow meet. `CandlesAreKept` speaks of one late tick at most
(`setup.late <= 1`), which gives two versions of a candle. With two late ticks and
three versions its second part is false: a batch that is put back before a queued
version gets its entry replaced by the newest one (`enqueue` takes the first index
of the key), and the version in between is written last.

`MCStopTrailing`: a limit of two modifications is reached by one that is
confirmed and one that is refused; three stop orders are the first, one placed at
the limit and one placed by a replacement, and `Evaluates` stops where a fourth
could be needed, which ends a behaviour instead of cutting off a command. Two
tiers with a floor each, two levels of compression and a price below each of them
are the least in which a winner's floor, a compression and a retry compete. The
price moves twice: up to a tier, and back below the candidate.

`MCDayRisk`: a cap of two is reached by one trade of two units or by two trades of
one, a goal of two by the same gains; three is the largest sum the guard of sanity
accepts, so that the fourth, which it skips, can occur. A limit of two trades with
three rows has a signal that is refused; three orders are two entries and one
exit, so that an exit can meet the limit. The administrator calls twice, since a
switch that is taken back is the least that races a late write. Two faults let an
entry and an exit be lost, or a lost entry be followed by one that is counted; the
orders of stops are told in a circumstance of their own, since they touch the
count only.

*Fairness.* A handler that has begun goes on (`WF` of its steps), because every
await is on a call of the broker client or the driver, which time out. The
timers of `setTimeout` fire (`WF`). The tick of five seconds, the reconcile and
a postback that was sent get their turn (`SF`): the queue is first in first out,
so a handler that is enqueued again and again is served although the queue is
not free all the time. No fairness is assumed of the market, of the broker's
faults, or of the forced flatten. In `TradeEntry` the steps of the queue, of
each watch, ladder and timer, and the restart are weakly fair (a supervisor
restarts the process); the beginning of a reconcile and the tick are strongly
fair. In `EngineSession` timers, stops, starts, position checks and connect
handlers are weakly fair; a step of the watcher is strongly fair, because a
refresh that is deferred while another transition runs is tried again by the
next poll. In `MongoWork` permits are given back and the quiet time passes (`WF`),
and a job that finds a free permit again and again gets it (`SF`): permits are
held for milliseconds, attempts are seconds apart, back-offs have a jitter.
Logins, the clock and the invalidation timer are not fair. In `StopTrailing` the
command of the exit loop goes on and postbacks are heard (`WF`), the commands of a
postback and of the reconcile get their turn (`SF`); that the loop evaluates, or
that the price moves, is not assumed. In `DayRisk` the ticks start the check and
the flatten, their handlers and the signal go on, and the supervisor restarts the
process (`WF`); fills, prices, the clock, the watchdog of the stop and the
administrator are not fair.

## 4. Findings

* `MCEntryRestart`: a crash between `placeOrder` and the write of its number
  leaves a row without one; reconcile fails the trade while its order works, and
  the next signal is admitted.
* `MCDayLoss`: the daily cap stops being checked. `_checkDailyLoss` returns for
  every status but `ENTRY_OPEN`, `ENTRY_FILLED` and `LIVE` (8561). Three seconds
  after a stop was placed its timer makes the trade `SL_CONFIRMED`
  (`_armStopLossSla`, 14873), and nothing makes it `LIVE` again: no state, no kill
  switch, no exit, whatever it loses. `README.md:281` names "Daily loss caps and
  auto-exit"; the forced flatten lists `SL_CONFIRMED` (8856).

Met while modelling, and visible in the exceptions the properties name: a
reconcile whose `getPositions` failed takes every position for flat and closes a
held trade (`ClosesOnlyFlat`); a panic exit that the broker ended is left to the
operator although nothing set the kill switch in the slippage case
(`ExposureEnds`).

Met while modelling, not stated by a run:

* Two panic exits: `_panicExitImpl` tests its marker (10487) before an await and
  sets it after (10513), so the SLA watchdog and the guard both pass when a stop is
  rejected, or filled in part and cancelled by the guard, while its SLA fires. The second sale opens a position on the other side,
  which `positionFirstReconcile` then finds. `MCTradeLifecycle` leaves these
  circumstances out (faults or two units beside the watchdog), since
  `OnePanicExit` is false in them.
* Three failures make the database SEVERELY_DEGRADED for good. The streak of
  failures is reset by the return to HEALTHY only, and `refreshDerivedSeverity`
  (466) makes every RECOVERING severe again while it is three or more; it runs at
  each gate and each change of the candle buffer, so three successes never add
  up and background work is deferred until a restart. The test of the coordinator
  makes three successes in a row and calls no gate between them
  (`RecoversFromFew` is about fewer failures).
* Day:
  * A kill switch, whoever set it, ends the check of the loss and the flatten
    (8556, 8835; `README.md:287` promises the flatten without that condition). Both
    set the switch first and then write and exit (8682, 8878): if the write fails
    the position stays, and nothing tries again. `FlatAtClose` excludes this.
  * The gate asks for the switch (16583), and neither the order (18405) nor the
    MARKET replacement asks again; an entry that slipped by is not flattened either.
  * A loss that is realised by a close changes no state; only a check with an open
    trade, or a partial sale, makes a state from it. The next entry is admitted.
  * A crash between the writes of HARD_STOP and of the switch, or a snapshot that
    lands late, can forget a switch; a switch the administrator took back comes
    again after a restart when that write failed. With RESET_FAILURES_ON_START the
    log says that the switch was cleared, and the document sets it again.
  * At the limit of orders a panic exit is refused as an entry is. The branch that
    stops the day there (9439) is not reached: the limiter has the same limit and
    throws before.
  * A count that cannot be written (9455) or an answer that is lost is taken for an
    order that failed: `ENTRY_FAILED` is written (18330), `tradesToday` is not
    incremented (18424), and the order lives. Each such entry lets one more trade
    of the day through, and without the answer one more order
    (`hist.uncounted` and `hist.forgotten` in `LimitsHold`).
  * The guard of sanity skips the check for a very large loss (8630).
  * An order is counted when the broker has answered (9453), so one that waits for
    its answer is not in the count: handlers beside each other (an exit and a stop,
    or an entry after the administrator took the switch back) pass the limit of
    orders by as many as wait. Found by the proof of `LimitsHold`, which names them
    (`hist.waiting`).
  * A panic exit that finds nothing at the broker closes the row (10648). When the
    stop had sold it and its update comes later, the update is fenced (2970, 18600)
    or taken for a second exit, which sets the switch and halts the engine (19763);
    the profit is booked in neither case (`hist.missed`).
  * A booking that fails or is cut by a crash is never made good (`hist.missed`),
    nor is what an entry made that was given up while the broker had it; a manual
    close books nothing, and a sale that the entry watch books beside a
    close loses one of both profits: `RealizedIsSum` excludes these.
* An order update that arrives between the placing of an order by a timer and its
  link can be stored after the only replay, or be deleted unread by
  `popOrphanOrderUpdates` (`OnlyLateOrphansAreMissed` excepts these, `missed`, and
  says that no other update is lost).
* The fence for late updates lets pass what is stamped later than the close
  (`tradeManager.js:3009`), and the branch of a panic exit that is filled (18630)
  does not look at the status of the trade: with a clock of the broker ahead of
  ours, a fill that the watch and a postback report is booked twice.
  `OwnExitBookedOnce` excludes it; stops and targets look again (19762).
* An exit that a timer placed and that is also watched (the target watchdog, the
  timers of the virtual target) is booked twice by one fill, delivered once: the
  pipeline takes the unlinked fill for a square-off by the broker while the watch
  polls the same fill and books it by its link. Found by the proof of
  `OwnExitBookedOnce`, which covers timers whose exit is not watched.
* After the cancellation of a LIMIT order its status decides whether a MARKET
  order replaces it; when that read fails, no branch applies and the MARKET order
  is placed beside an order that may be filled (`tradeManager.js:14658`).
* Database: an open dashboard alone keeps a single failure severe (the cached
  status is 30 s old before the quiet time of 30 s ends, and `stale` is reset by
  HEALTHY only); so does a critical backlog while degraded, since the severe state
  defers the flush. The urgent flush can never be granted: the gate before it has
  just set the back-off, and `defaultSubsystemPolicy` makes the writer important
  whatever it asks for. A flush that finds nothing to write counts as a success of
  the database. A late tick makes a closed candle anew out of that one tick, and
  its upsert replaces the full one (`candleBuilder.js:120`). Two late ticks
  and a failing insert can leave the middle one of its three versions in the
  database (`candleWriteBuffer.js:521`; section 3).
* A timer armed by a command keeps its async-local store, so its command does
  not queue (`executionCoordinator.js:17`); `ImplementsSerial`
  speaks of the calls that queue, and `TradeStore` allows for the others.
* `updateTrade` skips the check of `strategyStopLoss` when the read before it
  fails (`tradeStore.js:474`), though `docs/STOP_RISK_SEMANTICS.md:5` calls it
  immutable: `StrategyStopFixed` excepts exactly such a write (`unchecked`).
* Entry: the watch closes a trade on the cancellation that the replacement itself
  asked for; a replacement that fires before the row has the number of the LIMIT
  order is overwritten by it; a partial fill and then a timeout can end in
  `ENTRY_CANCELLED` with units held; a cancellation accepted but slow closes the
  trade while the order works; positions that cannot be read count as flat; a
  fill between two reads of a reconcile can leave two open trades without any
  fault (the snapshot of positions is older than the rows); `markTradeOpened`
  books under the instrument where others use the key of the trade.
* Trailing of the stop:
  * While the shadow stop is active, a price at or below `finalStopLoss` exits
    (`_isShadowStopBreached`, 5912), but the plan has just clamped that stop to a
    tick below the same last price (`proExitLayers.js:2452`, `2610`): the last
    price can never breach it, only an executable price below it can.
    `docs/pro-exit-refactor.md:86` says that a breach of the shadow stop exits.
  * At the limit of modifications the old order is cancelled without being an
    expected cancellation (9801): its postback runs the guard, `SL_CANCELLED`, and
    a healthy trade is sold.
  * The retry below the fresh price (10156) is compared with the stop of the row.
    When an earlier modification landed and its answer was lost, the retry lowers
    the stop of the broker ("Final stop is tighten-only",
    `docs/pro-exit-refactor.md:69`); `RowPromisesNoMore` excludes a stop that was
    lowered.
  * A candidate is dropped when the row shows a better one (13133), and the row
    shows proposals that were never authorised or sent.
  * After a soft failure without compression the target stays pending
    (13513), so the same target is not sent again.
  * A cancellation that the broker still processes counts as done in a
    replacement (5971), so two stops may work; `OneStopWorks` excludes that fault.
  * The move to a higher tier forces one modification; if that fails, the next
    evaluation has no force. The confirmation of level 2 of the compression by a
    postback is not recorded once level 1 was (19693). The order placed at the
    limit is remembered as OPEN over a postback that said TRIGGER PENDING, and is
    not modified until the next reconcile.
* Session: `setToken` on a chain that once failed is rejected for good
  (`engineLifecycle.js`); a token counts as tried before `onToken` succeeded; a
  read error that is not transient ends the polling (`tokenWatcher.js:456`,
  `README.md:671` says that it keeps polling); a forced logout in cooldown holds
  for ever; the retry of a failed runtime initialisation is never scheduled, as
  the flag it looks at (`tickerManager.js:681`) is still set where it is asked for
  (784), and an error that is not transient is only logged (924), so that the
  engine stays connected without a reconcile loop until the next connection
  (`InitializationFails`); a login beside the watcher leaks a ticker.

## 5. The proofs

The provers are SMT, Zenon and, for temporal steps, PTL. Every theorem follows the
same course: an inductive invariant `IInv` (types included), `InitIInv`, `NextIInv`
with one step per action, and from it the property.

### TradeStoreProofs
About `TradeStore`, for any
number of commands, any patches, statuses and write bounds, and any overlap of
commands:

| Theorem | Says |
|---|---|
| `TypeCorrect` | `Spec => []TypeOK` |
| `CopiesStaySnapshots` | a cached trade is one the row once was |
| `ResultsStayTrue` | APPLIED means landed once |
| `StatusesMoveLegally` | `Spec => LegalTransitions` |
| `EntryFactsFrozen` | `Spec => TerminalFactsFrozen` |
| `StrategyStopStays` | `Spec => StrategyStopFixed` |
| `WritesAreOnWhatWasRead` | `Detached = {} => (Spec => WritesWhatItRead)` |

From `StoreAssumption` alone (the null values are distinct from real ones, the
bounds are numbers, a lone write is one write).

*The argument.* A write is validated against a copy and saved against a version.
`LegalTransitions` is therefore not inductive: nothing in it speaks of the copy.
`IInv` adds what a write in progress may still rely on. `CopiesAreSnapshots`: a
copy with the row's version *is* the row, and none is ahead of it. `GuardIsOld`:
the version a write is guarded with is not ahead either. `PendingIsValid`: if the
save would find its version, what was validated on the copy is valid for the row.
`LandsOnce`: a landed write cannot land again, since the version has moved on.
`InitIInv` and `NextIInv` show that it is inductive (one step per action, one
lemma for what an unrelated save does to a write in progress: it moves the
version past the guard); each theorem is then a few lines. Its parts
that say something by themselves are checked in `MCTradeStoreTimers`. `StrategyStopStays` holds with failing
calls too: a write that was checked reaches the row only while the row is the copy
it was checked on, so only one whose guard read failed can change a stop.
`WritesAreOnWhatWasRead` needs the one that the circumstances name, no detached
command: with one, TLC shows the write between. Its invariant, `SerialInv`: one
command at most is in progress, it owns the write context, and the version that
guards its write is that of a trade it holds; a call that failed and is tried
again still finds the row as it left it.

### QueueProofs: ExecutionCoordinator
`QueueProofs` holds the theorems about the two queues that nothing may drop out
of. The first is that of the commands: for any trades and calls, awaited and late ones included, from
`CoordinatorAssumption` (the null call is no call; a call has a trade):

| Theorem | Says |
|---|---|
| `CoordinatorTypeCorrect` | `Spec => []TypeOK` |
| `ImplementsQueue` | `Spec => Serial!Spec`: each step of the coordinator is a step of the serial queue or a stutter |

*The argument.* The code has no queue, only the last promise of each key and, for
each call, the promise it was chained to; both are deleted when the last one
settles. `QueueInv` recovers the queue from these: of the calls of a key in the
order of their chaining (a history), a prefix has settled, at most one after it
runs or has returned, the rest wait, each chained to its predecessor
(`Served`, `IsLinked`), and the map of the key names the last one unless that has
settled. `Start` needs the settled predecessor and is therefore a step of the
serial queue on its head; `ReturnInline` and the inner call change nothing the
queue sees. That every call is served and ends is fairness and stays with
`MCExecutionCoordinator`.

### OrderUpdatesProofs
For any updates, statuses, sizes of the memory, deliveries and circumstances, from
`OrderAssumption` (a limit is positive, an update has a status) and `FillAssumption`: one of the updates of an
order is its COMPLETE state, as the broker ends an order once.

| Theorem | Says |
|---|---|
| `UpdatesTypeCorrect` | `Spec => []TypeOK` |
| `OwnExitIsBookedOnce` | `Spec => []OwnExitBookedOnce` |
| `OnlyLateOrphansAreLost` | `Spec => []OnlyLateOrphansAreMissed` |

*The argument.* Booking once is not inductive: it rests on who may still book. For
an order the queue placed (`QueuedInv`), nothing arrives before the link, so no
orphan is stored and nothing is replayed or taken for a square-off; the calls that
hold the command of the trade are at most one, and each of their steps tells how
far the booking is. For an order a timer placed (`OnceInv`), the fill is in *one*
place: in one call, in the orphans that are still to be popped, or in the payloads
that are still to be replayed (`InOnePlace`), and while it travels nothing was
booked. `HandledInv` follows every update of an order of ours, queue or timer: a
call looks it up, or it is kept (in a call past the lookup, among the orphans until
they are read, among the payloads to be replayed), and what the memory of orphans
would drop before the link exists is the copy of one that is kept.

### DayRiskProofs
For any cap, goal, limits, prices, numbers of trades, moves, faults and restarts,
from `DayAssumption` (the limits are positive, the prices integers):

| Theorem | Says |
|---|---|
| `DayTypeCorrect` | `Spec => []DayTypeOK` |
| `LimitsAreKept` | `Spec => []LimitsHold` |
| `ProfitIsBooked` | `Spec => []RealizedIsSum` |

*The argument.* The handlers read, wait and write; each part of `IInv` says what
may be relied on between the two.

* `RowInv`: what runs beside a signal (no close, no sale of a part, no exit of the
  new row) and beside the sale of a part.
* `KillInv`: who is about to write the switch into the document has set it in
  memory; once an entry slipped by, no signal stands behind the gate and the gate
  is shut. Hence one such entry at most.
* `EntriesInv`: an entry the broker took is counted in memory, or failed to its
  signal (`uncounted`), or the signal that placed it still runs; the gate was passed
  below the limit and only one signal runs. A restart counts the rows, which are
  never fewer than the entries.
* `OrdersInv`: every order the broker took is in the count of memory, waits for its
  answer, or is forgotten. An order is placed only when memory is below the limit,
  so the excess is at most the forgotten ones and those that waited then. The
  document is never above memory; a write that lands late leaves it below, and an
  end of the process forgets the difference.
* `BookInv`: the profit made is the booked one, plus what a booking in progress
  holds in its hands, plus what an exit brought that nobody handles yet. A write of
  the sum is one that was read when nothing else was being booked.

### QueueProofs: MongoWork
The second is that of the candles: for any limits of the backlog and the batch, and any numbers of candles and
failures, from `WorkAssumption` (the limits of the queue and of a batch are
positive):

| Theorem | Says |
|---|---|
| `WorkTypeCorrect` | `SpecWork => []WorkTypeOK`, the limit of the buffer included |
| `AcceptedCandlesAreKept` | `SpecWork => []CandlesAreKept` |

*The argument.* What waits is one line, the batch and then the queue (`Line`), and
it is written from its front. `CandlesAreKept` says that the newest version of a
candle is stored or in the line, which is not inductive: an older version further
back would be written over it. `LineInv` adds that versions of one candle come in
their order and that none is newer than the accepted one, so the newest is the
last of its candle. Then a batch that is written leaves either a newer version
behind or the newest in the database (`WrittenLine`), a batch that is put back is
where it was (`PutBackKeepsLine`), the oldest duplicate that makes room is not the
newest (`OldestDuplicateIsOld`), and a version that replaces one in the queue comes
after the one in the batch. The last needs that the version replaced is the last
of its candle, which `ClockInv` gives: a candle is closed once, and once more for a
late tick. `HealthInv` and `BufferInv` carry the types: each failure makes the
streak longer by one at most, and the permits bound the flushes.

### EngineSessionProofs
For any circumstances, clock and number of sessions, from `SessionAssumption` (a
run's clock starts no later than it ends):

| Theorem | Says |
|---|---|
| `SessionTypeCorrect` | `SpecSession => []SessionTypes`: the types of `SessionTypeOK` |
| `NoLeakWithoutTwoStarts` | `SpecSession => []LeakNeedsTwoStarts` |

*The argument.* `setSession` sets its globals after it awaited the stop of the
old session, so what it relies on must survive the wait. `LeakInv` says that it
does unless two starts overlapped (`overlap`): a process that waits for the end of
a stop stops the session that the engine knows, one that is about to create a
ticker finds none known, and no other process is starting. The hard step is the
end of `pipeline.stop`, one promise for all who wait for it: they resume together
(`PipelineStep`), so no stop of an old session is left behind that would forget
the new one. `overlap` is set by a start that begins while another process is
starting (`StartStepKeeps`), which is what a login beside the watcher does.

`SessionTypeOK` has two conjuncts more, which the run shows. That the bound on
sessions hides none is about the run. That trades are allowed in mode LIVE only
depends on the circumstances: with a clock that starts in COOLDOWN and runs on
into the next day TLC finds a poll that stopped the session, a token change that
enters LIVE meanwhile, and then the IDLE of the poll. In the code only microtasks
lie between the two assignments of the poll, which the model does not tell from
longer waits.

### StopTrailingProofs
For any prices, ladder of tiers and floors, limits and circumstances, from
`TrailingAssumption` (the tables of tiers and floors are monotone, the stops of the
loser compression lie between the first stop and the entry):

| Theorem | Says |
|---|---|
| `TrailTypeCorrect` | `Spec => []TypeOK` |
| `RowNeverPromisesMore` | `Spec => []RowPromisesNoMore` |
| `OneStopAtMost` | `Spec => []OneStopWorks` |

*The argument.* Three parties know the stop: the broker, the engine's memory of
orders, which late postbacks feed, and the row.

* `BrokerInv`: an order never ends twice, nor works again; unless a stop was
  lowered (`eased`), a later trigger is not below an earlier one, over all orders
  of the lot, and a postback on its way tells no more than its order has. A step
  moves the broker only forward (`Grown`).
* `HeardInv`: what memory or the queue holds is true or old, and nothing is known
  of an order not placed. Hence "the broker has this price already" and a late
  report never raise the row above the broker.
* `RowInv`: the row names the last order, but between the placing of a replacement
  and its link, and while none is placed.
* `CmdInv`: the one command of the exit loop places one order at most, what it
  calls done the broker has, and it modifies one order at most once above the cap.
* `SoleInv`: the order that works is the last, and none works when a new one is
  placed: a cancellation that was neither refused nor left in processing ended it.

`RowPromisesNoMore` and `OneStopWorks` are not inductive by themselves: the first
needs that every copy of a trigger is an old one, the second that a command that
stands before a placement knows how its cancellation ended.

### TradeEntryProofs
For any circumstances and numbers of trades and orders, every fault and a crash at
any step included, from `EntryAssumption` (there is a trade, the bounds are
numbers, the circumstances are of their type):

| Theorem | Says |
|---|---|
| `EntryTypeCorrect` | `Spec => []TypeOK` |
| `OneEntryAtMost` | `Spec => [](Readable => OneEntryWorks)` |
| `AdoptedStandsAlone` | `Spec => []AdoptedIsAlone` |

*The argument.* Handlers are stacks of frames in up to three processes per trade
beside the queue, so the invariant says which frame may stand where and what it
may rely on.

* `TallyInv`: a trade has two orders at most, its position is what they bought,
  and the second was placed after the first had ended unfilled.
* `FramesInv`: a frame speaks of a trade that a signal began and of an order of
  that trade. Only the queue enters, with no order before it; only the timer of the
  trade replaces, standing alone in its process, with the LIMIT order the sole one
  and its timer not armed again (`mem.fallbacks`). In front of the placement
  it has read that the order is dead and bought nothing.
* `RowsInv`: a row that was adopted has no order, is the last, and is never
  written; the others are terminal; while the process is up it is the active trade.
  No signal is between its admission and its order when the row is made
  (`NoneAdopted`), for both run on the queue.
* `OrdersInv`, `MemInv`: what an order may still buy and what it bought are the
  lots of the trade; what is remembered as partial or complete has bought some.

`OneEntryWorks` needs all of them: a fill must not come between the reading and
the MARKET order (the order is dead), a timer must not fire twice for an order
(only the placing of the LIMIT order arms it), and no
cancellation or recovery places anything. `Readable` is the hypothesis that the
state of a LIMIT order with a replacement can be read; it is the only one. Without
it the property is false: TLC finds two entries from the circumstances `MCUnread`
of `MCEntry` (section 4).

### TradeLifecycleProofs
For any circumstances (units of the lot, targets, entry slippage and breach, timers
that may fire, kinds and number of faults) and bounds on orders and replacements,
from `LifecycleAssumption` (the bounds are numbers, the circumstances of their
type):

| Theorem | Says |
|---|---|
| `LifecycleInvariant` | `Spec => []IInv` |
| `LifecycleTypeCorrect` | `Spec => [](Len(orders) < MaxOrders => TypeOK)` |
| `OneStopIsPlaced` | `Spec => []OneStopLoss` |
| `OnePanicExitWorks` | `Spec /\ NoSla => []OnePanicExit` |
| `TradesCloseFlat` | `Spec /\ NoSla => ClosesOnlyFlat` |

*The argument.* A handler is a stack of frames, in the queue or beside it in a
timer, and any of its awaits may last while the broker trades, ends or reports an
order. `IInv` has three parts.

* `World`: what broker, row and memory say of each other. An order is complete when
  nothing of it is left (`OrdersInv`); a postback, the row and the memory name
  orders that were placed, and a COMPLETE that is on its way or remembered is true
  (`NewsInv`, `RowInv`, `MemOK`). `SoleInv` has the heart of it: one stop is ever
  placed, of the panic exits none but the last may still work, and what is held is
  never more than each sale may still sell. So whichever exit ends first, the
  trade is flat when it does.
* `FramesInv`: what each frame on a stack may rely on. It speaks of placed orders
  (`Refers`) of the right role (`Role`); in front of a placement it knows that there
  is no stop, or no panic exit, or that the one it replaces is the last (`Places`);
  in front of a close it knows that nothing is held or that the positions were not
  read (`Closes`). All of these survive what the others do meanwhile, but for a
  placement, and a stack has a frame of its kind only where handlers wait for
  one another (`Nested`).
* `Claims`: who makes good what the row does not show yet. A stop is in the row, or
  the trade is closed, or the frame that writes it is on top (`StopHeld`); so is a
  panic exit (`PanicHeld`), and the marker of one (`MarkerHeld`).

`OneStopLoss`, `OnePanicExit` and `ClosesOnlyFlat` are not inductive: between an
order that was placed and the write of its number, the row says that there is none.
That no other handler places one in that time follows from `Claims`, since
placements are of the queue and the frame that holds the claim is on its top.

Most steps place nothing and trade nothing: they cancel, write, remember or go on
(`Calm`, or `Mild` when they count a replacement). One lemma says that such a step
keeps the invariant when its process goes on with frames that are right; then each
action has a lemma that it is calm and where it goes. Placements, trades, faults of the broker and
postbacks have lemmas of their own.

*The hypothesis.* `NoSla` says that the watchdog of the stop does not fire in
this behaviour, as in all but one of the circumstances of `MCTradeLifecycle`. It
is the one handler that sells what is held beside the queue: it
takes the marker of a panic exit after an await, and a call that finds another in
flight drops that one's marker, so that with it neither what a frame of the queue
has read nor its claim lasts. With the guard in the same circumstances
`OnePanicExit` is false (section 4), and `MCTradeLifecycle` shows both with the
watchdog in circumstances where the guard is quiet. The one stop needs no
such hypothesis: the watchdog places no stop.

`TypeOK` has as a conjunct that the bound on orders is not reached. That is about
the instance, and the run shows it; the theorem has the other conjuncts.

*Model-checked only.* Liveness under fairness, which is beyond the prover (with it
the fairness in `ImplementsSerial`, `FillIsBooked`, `ExposureEnds`, `FlipIsNoticed`,
`PositionsAreNoticed`, `NakedIsNoticed`, `ExposureIsCut`, `TokenIsTried`,
`CooldownEnds`, `ConnectedIsReconciled`, `RecoversFromFew`, `ReconcileIsServed`); the two
conjuncts of `SessionTypeOK` named above; `OnePanicExit` and `ClosesOnlyFlat` where
the watchdog of the stop fires and no guard does; that no behaviour of
`MCTradeLifecycle` meets its bound on orders.

## 6. Not modelled, and why

Indicators, scores, plans, sizing and costs are floating-point functions of
prices. The calendar is a function of the clock. Servers, formatting, telemetry
and reports decide nothing. Notifications: a job is claimed with
`findOneAndUpdate` and read from `claim.value` (`notificationOutbox.js:158`), which
the locked driver (mongodb 6) does not return, so no job is ever sent; a model of
retries and replacement would describe code that does not run. Its gate is a job
of `MongoWork`. The parts named in section 1 but not in section 2 are
planned below; `PROJECT.json` ("components") has a note on each.

## 7. The plan

In the order of what can hurt a position most:

1. Done: coordinator, row, updates, entry and restart, lifecycle of a filled
   trade, the stop that follows the price, the risk of the day, engine session,
   MongoDB work gate with the candle write buffer.
2. Management of a live trade: virtual targets, scale-out, break-even. A first
   model of virtual targets beside the exits of `TradeLifecycle` had too many
   states for a run; it needs a module with the exits shrunk as in `DayRisk`.
3. Market state machine and retry governor as small modules.
4. Proofs. Done: every module, in its safety. Left: `OnePanicExit` and
   `ClosesOnlyFlat` where the watchdog of the stop fires but no guard does.
