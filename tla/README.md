# A TLA+ model of QuantumTrader (`aditrader`)

QuantumTrader is a paper-trading workstation for Indian index derivatives. It
replays or streams market data, runs strategies on it, executes their orders in
a simulated broker, and seals a dossier of each session. No real order is ever
sent. This directory models the part where a mistake would silently falsify a
session: orders, matching, margin, positions and cash, the trailing stop, the
bars made of live ticks, the two kinds of forward session that drive them, the
live feed, the background runs of the web workstation, and the backtest. The
specification was written from the code under `src/aditrader`. `PaperBroker`,
`CostSchedule` and `TickAggregator` count in paise; the modules of the strategy
runners (`Account` and up) count in whole units of money.

## 1. Inventory

| Part | State it keeps | Operations | What makes it correct |
|---|---|---|---|
| Paper broker `core/broker.py`, `core/state_machine.py`, `core/models` | orders by id, positions, trade tape, last prices, cash | `create_order`, `submit_order`, `cancel_order`, `fill_order`, `on_tick`, `on_signal` | book, tape, positions and cash agree; limits are kept; closing is always possible; status follows the order state machine |
| Charges and slippage `core/costs.py` | none | `calculate`, `calculate_fill_price` | rates per instrument, rounding to paise |
| Premium trailing stop `options/trailing_stop.py` | level, peak, last price and time, state | `update`, `close` | never loosens, triggers exactly on a breach, ignores late ticks |
| Option position group `options/position_group.py` | legs, their stops, open or closed | `update_tick`, `close_all` | closed once, over all legs |
| Options forward session `data/forward_options_runner.py` | tick queue, latest ticks, active group, trades, clock | wait, entry, drain, exit, square-off, seal | group and broker agree; a breach exits; the session ends flat |
| Tick aggregator `data/feeds/aggregator.py` | running bar, last tick, last session volume, ring buffers | `process_tick`, `flush` | one bar per interval, in order; volume counted once |
| Forward-testing session `data/forward_runner.py` | status, history, pending signal, recorder, SIGINT handler | `start`, `process_tick`, `_on_bar_closed`, `stop`, SIGINT, the loops of `run` | flag and position agree; a concluded session has a complete, true dossier; whoever stops it gets it stopped |
| Risk engine `core/risk/engine.py` | session peak, breaker flag | `validate_order`, `update_equity`, `on_session_start` | the breaker latches, and then only closing orders pass |
| Executable strategy `strategy/compiler/engine.py` | position flag | `on_bar`, `notify_order_rejected`, `sync_position_state` | the flag agrees with the position |
| Kotak Neo adapter `data/adapters/kotak_neo.py` | status, worker thread, events, lock, socket, callbacks | authenticate, subscribe, wait, disconnect; connect, stream, back off | one stream that serves every symbol; readiness is told the truth; retries and `disconnect` end |
| Run manager `web/services.py` | run status, stop flag, worker thread | start, stop, poll | each run ends in one final status; a stop is heeded |
| Backtest runner `backtesting/runner.py` | pending signal, broker, risk engine, ledger | `run`, `_process_signal_execution`, `_build_roundtrip_trades` | no look-ahead; sessions are separate; ledger and broker reconcile |
| The rest | files, tables, views | see `PROJECT.json` | pure functions, I/O or presentation |

**How they interact.** A feed thread (adapter, or the runner's mock feed) calls
`on_tick_received`, which puts a tick into a bounded queue. The runner's main
thread drains it (`process_incoming_ticks`), keeps each contract's latest tick
and passes it to the group, and the group to its leg's stop; the broker sees no
ticks, only the orders of entry and exit, priced at the latest tick, which a stop
event makes the main thread send. Broker, stop and group are used by that thread
only. The forward
tester composes broker, aggregator, strategy, risk engine, recorder and ledger by
callbacks (tick, closed bar, signal, risk check, order, trade), on whatever
thread the tick came: its own, the adapter's, or the mock feeder's; SIGINT runs
`stop()` on top of the main thread. The run manager starts one forward tester
over a file per request, on a thread per run, and shares its state with the
requests that stop and poll it. The backtest is one thread and composes the same
broker, strategy and risk engine bar by bar.

**What is hard.** The broker's four records of one fill (tape, position, cash,
order) are updated one by one, in rounded amounts, through reversals from long
to short. Ticks arrive late, out of order or with price zero. A refusal, an
exception or a Ctrl+C may come between the two orders of a two-legged position,
inside a half-processed bar, or inside `start()`. The strategy moves its flag
before anybody has accepted its order. `disconnect` gives up on a worker after
three seconds, and the worker may wake up in the middle of the next stream.
Stop requests race with a run's end. Costs of a fill are shared out among lots by
rounding. `PROJECT.json` lists every hazard at its line, with the property that
would catch it.

## 2. Modules

| Module | Models | Correspondence |
|---|---|---|
| `Money` | rounding | `RoundHalfEven` is `round(x, 2)` on a decimal; `Nearest` is the *set* of the paise a rounded binary float average can become |
| `CostSchedule` | `core/costs.py` | `TotalCharges` sums each levy rounded on its own, as the code does |
| `OrderStates` | `core/state_machine.py` | `CanTransition` is the table `_ALLOWED_TRANSITIONS` |
| `OrderLifecycle` | nothing: the abstract specification | what any execution venue promises: an order fills monotonically up to its quantity, statuses follow the table, each unit of a fill moves the position by one |
| `PaperBroker` | `core/broker.py` | one action per public method; `ExecuteFill` is `_execute_fill` with all it calls |
| `TrailingStop` | `options/trailing_stop.py` | `update` is `Trigger`, `Hold` or `Ignore`, by its early returns |
| `OptionsForwardRunner` | `run()` and what it calls, with `position_group.py` | `pc` names the place of the main thread; it instantiates `TrailingStop` for the stop of the short leg |
| `TickAggregator` | `data/feeds/aggregator.py` | `process_tick` is `Drop`, `Start`, `Continue`, `Rollover` or `FailToRoll`, by its branches; the callback is `HandOver` |
| `Account` | `core/broker.py` as the strategy runners use it | a record of cash, signed quantity and last price; market orders fill whole or are refused (`Filled`, `BrokerRefuses`) |
| `RiskEngine` | `core/risk/engine.py` | a record of session peak and breaker; `RiskRefuses` is `validate_order`, gate by gate |
| `ForwardTestRunner` | `data/forward_runner.py`, with the flag of `strategy/compiler/engine.py` | three frames (main, worker, SIGINT handler), each a `pc`; extends `RiskEngine` |
| `KotakStream` | `data/adapters/kotak_neo.py` | the client's calls and a `pc` per start of the worker thread |
| `RunManager` | `ActiveRunManager` of `web/services.py` | a `pc` per run's worker; requests are actions without a `pc` |
| `RoundtripLedger` | `_build_roundtrip_trades` | `LedgerOf` is a fold over the fills (`Booked`), each of which is a fold over the opposite lots (`Matched`) |
| `BacktestRunner` | `BacktestRunner.run` and `_process_signal_execution` | `phase` names the numbered parts of the loop body; extends `RiskEngine` and `RoundtripLedger` |
| `MC*` | | small instances for TLC |
| `*Proofs` | | theorems and proofs |

**PaperBroker.** Orders are a sequence in order of creation, which is how the
code's dict iterates. `on_tick` first records the price, marks the position and
collects the orders it will fill (`OnTick`); each turn of its loop is a step
(`MatchNext`), and no other method runs until the loop ends, since the broker is
used by one thread. `flow` and `slack` are history variables: the cash flow of
each symbol, and how much rounding its averages may hide. Two assumptions come
from the callers: a created order is submitted once, and quotes passed with it
satisfy `Tick`'s validator (bid not above ask).

**TrailingStop.** The code divides and compares binary floats. At an exact tie
the outcome depends on representation (`64.02 - 59.02 >= 5.0` is false in
Python), so the number of steps at a tie is a choice between n-1 and n.

**OptionsForwardRunner.** The broker is its net position per contract in lots;
`EntryOrder` and `ExitOrder` take from it only that an order fills or is
refused. A refusal of a closing order is possible only when the last tick has
price 0 or the position is not there: that is `CloseNeverRefused`, checked of
`PaperBroker`. `Unwind` is an exception or Ctrl+C at any step of the `try`
block; `Abandon` is one inside `finally`. `torn` records that this happened
between two orders, or that an exit was refused.

**TickAggregator.** `process_tick` and `flush` hold the aggregator's lock, so
each is one step; the callback runs after the lock is released, so it is a step
of its own and a `Flush` of another thread may come before it. A tick of price 0
is legal, a bar of price 0 is not: `FailToRoll` is the branch in which building
the bar raises, after the session's volume has been moved. `taken` is a history
variable, the ticks of the running bar, against which the accumulated fields are
checked; `regular` records that volumes have not fallen. `flush` leaves the
accumulator's fields as they are and forgets the bucket; nothing reads them
before the next tick sets them, so the model clears them. Duplicates compare
time, price and volume, which is all a tick of the model has.

**Account and RiskEngine.** The runners only send market orders for one symbol,
so their broker needs no book: an order is one step. The statutory charge of a
fill is the constant `Fee` and rounding is left to `PaperBroker`. Of the risk
engine's gates the one on naked short options is left out, because neither
runner tells the engine that an order is one; so is the all-time peak, which no
gate reads. Percentages are multiplied out and compared as integers.

**ForwardTestRunner.** A frame's `pc` is the step its thread is about to take,
its `ret` the place its call of `stop()` returns to. Python runs a signal handler
on the main thread between two instructions, so `Interrupt` starts the frame
"handler", which must finish before "main" goes on (`Runs`), and which passes the
runner's reentrant lock that its own thread holds (`MayLock`). The locks
of the recorder (`data/forward.py:154`), the aggregator and the adapter are plain
ones. Each is taken and given back inside one step of a frame (`LocksOf` says
which step takes which), so that two threads never keep each other waiting for
one. But the handler runs on its own thread's stack: `Interrupt(lock)` is Ctrl+C
at a step while that step holds `lock`, or none; `held` remembers it, and each
step of the handler's `stop()` that takes the same lock is never enabled (`Free`).
The event `wait_until_ready` waits for counts as the adapter's: its lock is plain
too, and `disconnect` sets it. `InterruptAgain` is a second Ctrl+C inside a lock
the handler itself holds. `start` is `Start`, `Subscribe` (log in, subscribe),
`Ready` or `NotReady` and `Unready` (the runner's status, then the recorder's),
and `Running`; `stop` is `Stop`, `Restore` (the old SIGINT handler is back),
`Release` (the adapter disconnects), `Flush` and `Seal`. The status is final
before the dossier is saved, and the save may raise (`unsaved`): a later `stop()`
then returns at once, and there is no dossier. `Raise` follows an exception to where the code catches
it: `on_tick` swallows it on the worker's thread, `run` turns it into a failed
session over a feed, everywhere else it leaves `run`. A bar is none, good or bad:
bad means that a price of 0 is in it, and `Bar`'s validators will raise. The
history variables `estranged`, `lost`, `unsaved` and `cut` remember that an order
was refused or never made, how many trades were not recorded, that saving raised,
and at which steps and in which locks Ctrl+C came. The properties are conditional
on them exactly where the code falls short: `FlagIsPositionUnlessRefused` speaks
of sessions without refused orders (`phantom_position` shows one with them),
`DossierIsTrue` of dossiers that could be saved and were not sealed on top of a
half-done tick, minus the trades the ledger broke off, and `StopConcludes` and
`InterruptEndsRun` of a Ctrl+C outside the plain locks (`interrupt_concludes`
shows one inside).

**KotakStream.** Each start of `_stream_worker` is a worker of its own, since
`disconnect` may abandon one that does not end in time: `Outlasts` says where a
worker can be for longer than the join's three seconds. Workers share the
adapter's one socket reference and one loop, which `Finally` and `Ends` clear
whoever they belong to. `orphans` remembers the abandoned ones. A request
scheduled on a worker's loop (`run_coroutine_threadsafe`) is a pair of worker and
the list of symbols of one call, and runs at one of the worker's awaits. It
resolves the whole list first: a symbol without a token raises there, nobody sees
the exception, and the good symbols of the list are not asked for. `spoiled`
remembers them until they are asked for alone or by a new connect.

**RunManager.** `ForwardTestRunner` is present as its contract: over a feed its
`run()` turns an error into a failed session and does not raise, and `stop()`
from the bar callback ends the replay. The test of the stop flag and the count of
the bar are two steps, as a request may come between them. `Save` may raise before
there is a file, or half-way through `json.dump`, which leaves a torn one.

**BacktestRunner.** A bar is its prices, the quantity its volume allows, whether
it is past 15:15 and whether it starts a date. `Execute` is
`_process_signal_execution`, refusals first, in the code's order; `SquareOff` is
the sweep, which submits to the broker past all gates. Each trade carries how
many bars and dates lie between its signal and its fill. The roundtrip ledger is
computed once, in `Finish`, from the broker's trades.

## 3. Runs

| Run | Result | Shows |
|---|---|---|
| `paper_broker` | passes, 262,922 states | two orders of 1 or 3 units in every order of create, submit, cancel, partial fill and tick: books, limits, liquidation, and the refinement of `OrderLifecycle` |
| `trailing_stop` | passes, 4,492 states | both sides, ratcheting or not, prices 0 to 18 and two timestamps in any order |
| `options_session` | passes, 483,163 states | a session from before the open to after 16:30, two ticks of any kind, an interrupt anywhere; safety and liveness |
| `sealed_flat` | violated | a dossier can be sealed over an open position |
| `tick_aggregator` | passes, 3,005,740 states | four ticks of two or three buckets in any order, zero prices, falling volumes, every mode and policy, a flush at any moment |
| `forward_session` | passes, 536,345 states | five ticks from a feed, a live or a mock adapter, refused orders, a ledger that raises, a save that fails, Ctrl+C twice at any step, inside a plain lock or not: position flag, dossier and verdict, breaker, and that stop and Ctrl+C conclude unless Ctrl+C came inside such a lock |
| `phantom_position` | violated | after a refused order the strategy believes in a position that does not exist |
| `interrupt_concludes` | violated | Ctrl+C inside a lock of recorder, aggregator or adapter waits for itself; with a bad bar the dossier is not saved |
| `kotak_stream` | passes, 386,936 states | five calls of a client, two starts of the worker, a list of one good symbol and one of a good and a bad: one stream, truthful status, retries and `disconnect` end |
| `background_run` | passes, 63,504 states | two runs of four rows, stopped at any moment, errors at any stage |
| `backtest` | passes, 1,546,531 states | five bars under 18 configurations, with thin, tight, rallying and slumping bars, dates and cutoffs in any order |
| `net_profit_accretion` | violated | the ledger's net P&L pays for slippage twice |

**Bounds, and why they are enough.** Two orders are the fewest that compete for
margin and for one position; quantities 1 and 3 give a partial fill, a full one,
an exact close, a reversal in either direction and an averaging whose result is
not a whole number of paise. Ticks of 0, 9990 and 10003 lie below and above the
limit of 10000, and 0 is legal for `Tick.ltp`; with an explicit fill price of
10050 the clamp matters. The capital pays for four units, so the second order
may be refused. The positions of different symbols meet only in the margin, so
one symbol suffices for every property of the run; the theorems hold for any
number of them. In the stop's run the step (4) is wider than the gap (2), the
entry 1 is below the gap so that a long stop is floored at zero, and prices
0 to 18 give several ratchets. In the session two ticks are enough for one that
ratchets followed by one that triggers, for one out of order, and for a last
price of zero; the clock's four readings stand for the phases of the day.
In the aggregator's run times 0, 1, 2 and 4 with an interval of 2 give ticks of
the same bucket, of the next and of the one after; four ticks fill a bar, close
it, and bring a late and a retrograde one; prices 100 and 103 with volumes 1 and
3 give a mean that is not a whole paisa.
In the forward session the capital of 100 buys five units at 9 and not at 13, so
that the broker refuses some entries and a rally between signal and order makes
others too dear; a spread of 1 on five units is a drawdown of 5 percent and trips
the breaker at once; 0 makes a bar bad; three bars give an entry, an exit and one
more; two presses of Ctrl+C are the fewest for one on top of a session already
stopping, or inside a lock of a handler. In the feed's run two starts of the worker are the fewest for an
abandoned worker to meet its successor, one attempt lets a failure be retried and
a second one end the worker, and five calls suffice for authenticate, subscribe,
disconnect, authenticate, subscribe. The two lists are one that resolves and one
that does not although a symbol of it would: subscribed in either order before,
during or after a stream they lose a good symbol, keep the other, or keep the
worker from connecting. Two background runs let one request's stop
meet the other's worker, and four rows give a first bar, bars in the middle and
one that is only flushed. In the backtest orders of two units can be cut to one,
a price of 35 cannot be paid for, the slump trips the breaker, and five bars give
an entry, an exit, a second entry and its square-off with a bar to spare.

`Spec` of `PaperBroker` cannot deadlock: a cancelled or filled book still
accepts ticks. Sessions, runs and backtests end, and the aggregator's ticks and
the client's calls are bounded, so the other runs switch the deadlock check off.

**Fairness.** `WF(Main)`: the main thread is a runnable thread and the queue's
`get` does not wait for ever; time passes: `WF(ClockAdvances)`. Nothing obliges
the feed to send, or anybody to interrupt. `SessionEnds` needs both, and needs
the feed to be finite (`MaxTicks`): the drain loop at
`forward_options_runner.py:780` runs until the queue is empty, so a feed that
is always faster would keep the loop from looking at the clock.

In `ForwardTestRunner` each of the three frames is a thread (or on top of one)
that the operating system runs when it can: `WF(Main)`, `WF(Worker)`,
`WF(Handler)`; a frame that waits for a lock is not enabled, so that a wait for
itself shows as a counterexample and not as unfairness. Ticks, limits and Ctrl+C
need not come. In `KotakStream` only what ends by itself is fair
(`Progress`: an attempt to connect succeeds or fails, a sleep ends, a callback
returns, a closed socket ends its stream, a `join` times out); nothing obliges
the network to deliver or to break. In `RunManager` each worker is a runnable
thread.

## 4. Proofs

TLAPS proves, for all values of the constants under the stated assumptions:

* **PaperBrokerProofs.** `IInv` is the conjunction of `TypeOK`, bounds on each
  order's filled quantity (`OrderInv`), a statement about `on_tick`'s loop
  (`MatchingInv`: what `matching` holds are open limit orders with a
  remainder), the reference of each trade to an order (`TapeInv`), the equation
  between stored mark and last price (`MarkInv`), `LimitNeverWorse` and
  `LedgerReconciles`. `MatchingInv` is needed because `MatchNext` fills an order
  without looking at its status again; `MarkedPnLReconciles` is not inductive
  alone and follows from the ledger and `MarkInv`. `BuyStep` and `SellStep`
  carry the arithmetic: one lemma per side, by cases on the sign of the
  position before and after. From `IInv` follow `TypeOK`, `LimitNeverWorse`,
  `LedgerReconciles` and `MarkedPnLReconciles`. On top of it three more results.
  `TapeReplays` (`FilledInv` and `TotalsInv`): the filled quantity of every order,
  every position and the cash are the sums over the trade tape, and the status of
  an order fits what is filled; a sum grows by its last term, so each fill moves
  both sides of each equation alike. From it follow `FillsMatchTrades` and
  `CashReconciles`. `ClosesAdmitted` proves the action property
  `CloseNeverRefused`: `ClosingAdmitted` shows that the margin gate never asks
  anything of an order that closes. `LifecycleImplemented` is the refinement of
  `OrderLifecycle`: `View` maps an order to its abstract one, and each of the
  broker's actions is shown to be a step of it or a stutter. It assumes
  `BrokerAssumption` (natural prices and quantities, limits and quantities
  positive).
* **TrailingStopProofs.** `IInv` adds `EntryInv` to the invariants of the run:
  the peak is never worse than the entry and the stop never further from the
  entry than the gap, without which a gain below one step could leave the stop
  too far behind. The division is dealt with once, in `StepsBound`; the action
  property `NeverLoosens` follows from the steps themselves. It assumes
  `StopAssumption` (gap, step and entries positive).
* **OptionsForwardRunnerProofs.** `IInv` says, for each place of the main
  thread, which orders have been filled and which round trips recorded. From it
  follow `BooksAgree`, `SealedFlatUnlessTorn` and `NoTriggeredPosition`, for
  every clock, feed and stop. `TypeOK` bounds what is held in torn sessions too,
  and needs `NetInv`: a leg is open, flat or left once too often, and only the pass
  over the legs that follows an unwound one (`caller = "seal"`) can leave one
  again. It assumes `RunnerAssumption` (positive gap, step and entries, natural
  prices, minutes of one day).
* **TickAggregatorProofs.** `IInv` adds three facts to the invariants of the run.
  `ValueBound`: the price-volume sum lies between low and high times volume,
  which `ExtendedValue` carries through a new extreme and `NearestWithin` through
  the division. `Envelope`: open and close lie between low and high, so that a
  bar with a positive low passes `Bar`'s validators. `PendingLast`: the bar whose
  callback is due is the last one emitted. From it follow `TypeOK`,
  `BarIsItsTicks`, `VwapWithinBar` and `BarsAdvance`, for every interval, mode
  and order of ticks. `CountInv` adds to `VolumeCountedOnce` that an absent bar has
  no volume; with it, each tick adds to the running bar what the session's volume
  grew by, and each rollover moves that amount to the sum over the sealed bars. It
  assumes `AggregatorAssumption` (a positive interval, natural prices, volumes and
  times).
* **RunManagerProofs.** `IInv` says which status and counters each step of a
  worker goes with (`StatusFitsStep`, `BarsFitRows`), that no bar but the one
  already past the test is counted after a stop (`CountFitsStop`), and what a
  verdict rests on (`VerdictFits`). From it follow `StopHeeded` and the action
  property `VerdictStands`, for any set of runs and any number of rows
  (`RunAssumption`: one row at least).
* **ForwardTestRunnerProofs.** The largest invariant of the project, since three
  frames interleave and an exception or Ctrl+C may come at any step. `Control` says
  where each frame can be: the places `stop()` returns to (`RetInv`), that two
  threads never hold the runner's lock (`LockInv`), which thread processes ticks in
  which mode (`ModeInv`), and that the handler is on top of a main frame that
  Ctrl+C came upon (`HandlerInv`). `EarlyInv`, `StartInv` and `StopInv` relate
  status and dossier to the step of `start()` and of `stop()`, and `QuietInv` says
  that a sealed session trades no more. On these rest the four data invariants:
  `FlagInv` (between signal and fill the flag is ahead of the position, otherwise
  they agree), `TradesInv` (the recorder is behind the broker by the trade in hand
  and those the ledger broke off), `FailInv` (who says FAILED has seen it) and `BreakerInv` (what the risk
  engine let through under the breaker still closes when the broker fills it, as
  the lock keeps the other thread from trading between). There is one lemma per
  action and in it one step per conjunct. From it follow `TypeOK`,
  `FlagIsPositionUnlessRefused`, `DossierIsTrue` and the action property
  `BreakerOnlyCloses`, for any prices, limits, number of ticks and presses of
  Ctrl+C. It assumes `ForwardAssumption` and `AccountAssumption` (natural prices, a
  positive quantity).
* **BacktestRunnerProofs.** `IInv` adds `PendingFits` (a signal that waits is of
  the side the account asks for, of this bar, or of the one before when it is
  due, and of this date when the run is intraday) and `FlagFits` (past the cutoff
  the strategy has just been told of the position). `Executed` deals once with
  what an order does to account and tape; `SquaredOff` with the sweep. From it
  follow `LongUnlessTruncated` and `SessionsSeparate`, for every configuration,
  quantity, candle, fee and limit, which is to say whatever broker and risk
  engine refuse. `LedgerReconciles` relates two books that are kept apart, and is
  proved from both ends. `LedgerTallies`: the ledger of *any* tape of fills holds
  lots on one side only, and its open units, its cash flow and each component of
  its costs are the sums over the tape. That goes lot by lot (`Matched`) and fill
  by fill (`Booked`), and needs nothing of `Share` but that it is whole, because
  every last share is a remainder: however shares are rounded, no paisa is lost.
  `Books`: quantity and cash of the broker are the same sums. `Reconciled` puts the
  two together. It assumes `BacktestAssumption` and `AccountAssumption` (natural
  prices, a positive quantity).
* **KotakStreamProofs.** `IInv` adds to `TypeOK`: a worker that no disconnect
  gave up is the adapter's thread (`OneThread`); while there are no others,
  socket and loop are its own (`Owns`) and every symbol is served, in a list that is
  requested or being subscribed, or spoiled, also while a callback runs
  (`ServesAll`); the stop event
  implies the ready event and, once `disconnect` has returned, a status that is
  not connected (`StopFits`); whoever heard a tick will still report the loss
  (`HeardFits`); a worker that leaves has set the ready event (`LeavingFits`).
  From it follow `TypeOK`, `OneStreamServesAll` and `TruthfulStatus`, for any
  number of workers, symbols, lists, attempts and calls: with three workers and seven
  calls TLC already does not finish in reasonable time. It assumes
  `StreamAssumption` (names do not clash, lists are of symbols, limits are natural).

**Sums and folds.** The community modules define folds by recursion over sets.
The library's induction theorems take the induction predicate as an operator,
which cannot be instantiated here, so the proofs go by least counterexample:
`LeastNat` (from `WFMin`, on the naturals) picks the first index at which a
statement fails, and contradicts it with the one before. For a sum this gives
`Partial` sums, which grow by one term each; for the two folds of the ledger,
whose accumulators are records, it gives the function of intermediate results
(`Traced`): `Comes` says that a fold is the last of them, and an accounting
equation is carried along it. What rounding does is stated by `NearestWithin`,
which keeps a rounded quotient between any whole bounds of the exact one.

**Model-checked only.** Every invariant and every action property of a passing
run is proved. What stays with TLC is liveness under fairness, which the prover
does not do: `TriggerClosesGroup`, `SessionEnds`, `StopConcludes`,
`InterruptEndsRun`, `RetriesEnd`, `DisconnectConcludes` and `RunConcludes`. The
four refuted properties are counterexamples, found by TLC. Proof modules and what
they use declare no `RECURSIVE` operator.

## 5. Findings

Where the code and its documents disagree, a run that TLC refutes shows it; each
is in `PROJECT.json` with the quoted line:

* `sealed_flat`, `forward_options_runner.py:1146`: a dossier sealed over an open
  position, after a refused hedge or an interrupt between two exit orders.
* `phantom_position`, `forward_runner.py:625`: the forward runner never calls
  `notify_order_rejected`. The strategy that was refused its entry later signals
  an exit, and the runner sells short.
* `interrupt_concludes`, `forward_runner.py:498`: the SIGINT handler's `stop()`
  waits for ever when Ctrl+C came while the main thread held the recorder's lock
  (`:694`), the aggregator's (`:716`) or the adapter's (`:713`), and raises before
  the dossier is saved when the running bar holds a price of 0.
* `net_profit_accretion`, `backtesting/runner.py:1156`: a roundtrip's net P&L
  subtracts slippage that is in its prices already.

**Divergences seen while modelling.** These are smaller, and the passing runs are
stated so that they allow for them:

* `ARCHITECTURE.md:53` promises a margin check at fill time; `on_tick`
  (`broker.py:345`) fills resting limit orders without one.
* `DECISIONS.md:349` gives the ratchet as following the mark at the gap; the
  code (`trailing_stop.py:245`) moves the stop by whole steps.
* The comment above `forward_options_runner.py:1110` says that the session ends
  at the close, 15:30; hour and minute are compared apart, so a loop that gets
  past 15:59 goes on until 16:30.
* A tick that is discarded as late is stored as the latest one first
  (`forward_options_runner.py:787`) and can price an exit.
* After `flush` (`aggregator.py:319`) the bucket that was closed can open again:
  two bars with one timestamp, in strict mode too.
* A price of 0 that is in a bar when it closes makes building the bar raise
  before anything is reset (`aggregator.py:224`): no later tick of a new bucket
  gets past it, and `stop()` cannot flush (`forward_runner.py:716`).
* The feed may raise after `max_ticks` has sealed a session COMPLETED
  (`forward_runner.py:817`): the recorder then says FAILED, the dossier does not.
* One symbol without a token makes every attempt to connect raise
  (`kotak_neo.py:731`); in the middle of a stream it loses the good symbols of the
  call it came in (`:773`), and nobody is told. An abandoned worker that ends
  clears the loop its successor has stored (`:810`).
* The status of a session is final before its dossier is saved
  (`forward_runner.py:725`): if saving raises, a later `stop()` returns without a
  dossier, and the session looks concluded.
* `sync_position_state(True)` follows a fill of either side
  (`backtesting/runner.py:1073`): after an exit the flag is wrong until the next
  close.
* An order cut to its bar's volume is followed by an exit of the full size
  (`backtesting/runner.py:915`), which leaves the account short.
* The verdict of a background run ignores the session's own: a replay that
  failed is reported COMPLETED (`services.py:2294`).

## 6. Not modelled

Most of the repository's lines are not state machines. The web server and the
rest of `services.py`, the command line and the terminal UI turn requests into
views; feeds, discovery, option chain, translators and the inspector parse
documents and replies; validation and verification are batch reports; the ledger
repository is one SQL transaction per method; option mathematics and performance
metrics are real-valued functions, and TLC has no real numbers; AI calls keep no
state of the trading core. A TLA+ module of any of these would restate its text
and have nothing to check, which is why the mapped lines are a small part of the
whole. Within the modelled parts: timestamps other than those a decision reads,
the text of rejections and logs, the content of dossiers beyond what the
properties name, snapshots and the freshness monitor, the adapter's mock mode and
message parsing, the backtest's guards before the loop, its event stream, hashes
and report, and `resolve_instrument_class`. `PROJECT.json` gives the reason part
by part.

## 7. What could follow

1. A proof that the account of `Account` is what `PaperBroker` keeps for one
   symbol and market orders only, up to rounding, so that the results on the
   runners rest on the broker they use.
2. The deterministic contract selection of `options/chain_replay.py` as a pure
   module, and the selection before the entry of the options session.
3. Liveness of the composition: an adapter that gives up, under a forward session
   that waits for it.
