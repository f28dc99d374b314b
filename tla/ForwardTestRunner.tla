-------------------------- MODULE ForwardTestRunner --------------------------
(***************************************************************************)
(* A forward-testing session of one strategy, data/forward_runner.py: ticks*)
(* mark the paper account and fill bars, a closed bar may make the strategy*)
(* signal, the signal becomes an order the risk engine and the broker may  *)
(* refuse, and stop() seals a dossier.                                     *)
(*                                                                         *)
(* Three frames run: "main" (run()), "worker" (the adapter's thread, or the*)
(* mock feeder's) and "handler" (the SIGINT handler, which Python runs on  *)
(* top of whatever the main thread is doing, the main frame waiting until  *)
(* it returns).  A frame is a sequence of steps named by `pc`; `ret` is    *)
(* where its call of stop() returns to.  The runner's lock is reentrant,   *)
(* per thread.  The locks of the recorder, the aggregator and the adapter  *)
(* are plain: each is taken and given back within a step, so that threads  *)
(* never keep each other waiting for one, but a handler waits for ever if  *)
(* Ctrl+C came while its own thread held a lock its stop() takes.          *)
(*                                                                         *)
(* Ticks come from a feed the main thread iterates ("feed"), from a live   *)
(* adapter or from a mock one.  Bars are modelled by TickAggregator; here  *)
(* the running bar is absent, good, or bad: it holds a zero price and Bar  *)
(* will refuse it.  The ledger database is only the exception it may raise.*)
(***************************************************************************)
EXTENDS RiskEngine

CONSTANTS
  Modes,      \* of the sessions looked at: "feed", "live", "mock"
  Qty,        \* trade_qty
  Prices,     \* Tick.ltp; 0 is legal
  Spread,     \* distance of a fill from the last price: quote and slippage
  Strict,     \* strict_quality_checks
  Timed,      \* duration_seconds is set
  MaxTicks,   \* max_ticks
  MaxBars,    \* max_bars
  FeedLength, \* bound: ticks there are to come
  Interrupts  \* bound: Ctrl+C is pressed this often

ASSUME ForwardAssumption ==
  /\ Modes \subseteq {"feed", "live", "mock"}
  /\ Qty \in Nat \ {0} /\ Prices \subseteq Nat /\ Spread \in Nat
  /\ Strict \in BOOLEAN /\ Timed \in BOOLEAN
  /\ {MaxTicks, MaxBars, FeedLength, Interrupts} \subseteq Nat

VARIABLES
  mode,       \* where the ticks come from
  pc, ret,    \* the frames
  status,     \* _status
  running,    \* _is_running
  failed,     \* the recorder's status is FAILED
  wasFailed,  \* was_failed, local to each frame's stop()
  handler,    \* the installed SIGINT handler
  prevKnown,  \* _prev_sigint_handler is not None
  feeding,    \* the adapter is subscribed and delivering
  bar,        \* the aggregator's running bar
  ticks,      \* _ticks_processed
  bars,       \* len(_history)
  dated,      \* _current_session_date is not None
  flag,       \* the strategy's _position_active
  account,    \* the broker; its mark is also the price of _latest_tick
  risk,       \* the risk engine
  trades,     \* trades of the broker
  recorded,   \* trades of the recorder
  dossier,    \* the file saved by stop(): its trades, position and verdict
  held,       \* the plain lock that the handler's thread held when it was called
  (* History, for the properties and the bound. *)
  estranged,  \* an order was refused, or its bar raised before the fill
  lost,       \* trades whose bar raised before they were recorded
  unsaved,    \* the last attempt to save the dossier raised
  cut,        \* the steps of the main frame Ctrl+C came upon, the locks it held
  presses     \* how often Ctrl+C was pressed

Frames   == <<pc, ret, wasFailed>>
Signals  == <<handler, prevKnown, held, cut, presses>>
Session  == <<status, running, failed>>
Market   == <<bar, ticks, bars, dated>>
Trading  == <<flag, account, risk, trades, estranged>>
Records  == <<recorded, dossier, lost, unsaved>>
vars == <<mode, feeding, Frames, Signals, Session, Market, Trading, Records>>

Frame == {"main", "worker", "handler"}
Thread(f) == IF f = "worker" THEN "worker" ELSE "main"

TickSteps == {"aggregate", "bar", "decide", "submit", "record", "snapshot", "limits", "abort"}
StopSteps == {"restore", "release", "flush", "seal"}
StartSteps == {"subscribe", "connect", "unready", "ready"}
PC == {"new", "loop", "tick", "stop", "returned", "raised", "off", "idle"}
        \cup TickSteps \cup StopSteps \cup StartSteps
PlainLocks == {"recorder", "aggregator", "adapter"}
Final == {"COMPLETED", "FAILED"}
NoFile == [trades |-> -1, qty |-> 0, verdict |-> "none"]

(* Where a call of stop() returns to when it is not inside process_tick. *)
(* Mutant: stop() always returns as if run() had called it. *)
MutOutside(f) == "returned"

Outside(f) == IF f = "main" THEN "returned" ELSE "idle"
Nested(f) == ret[f] # Outside(f)
Holds(f) ==
  \/ pc[f] \in TickSteps \cup StopSteps \cup StartSteps
  \/ pc[f] = "stop" /\ Nested(f)
  \/ f = "main" /\ pc["handler"] # "idle" /\ held # "none"

(* Mutants: a plain Lock, which its holder waits for as well; no lock. *)
MutMayLock(f) == \A g \in Frame : ~Holds(g)
MutNoLock(f) == TRUE

MayLock(f) == \A g \in Frame : Thread(g) # Thread(f) => ~Holds(g)
Runs(f) == f = "main" => pc["handler"] = "idle"

(* The plain locks a step takes: the adapter's to subscribe, to wait for   *)
(* its event and to disconnect, the aggregator's to take a tick and to     *)
(* flush, the recorder's wherever something is recorded, a feed's error    *)
(* included.                                                               *)
LocksOf(step) ==
  CASE step \in {"subscribe", "connect"} -> IF mode = "live" THEN {"adapter"} ELSE {}
    [] step = "release" -> IF mode # "feed" THEN {"adapter"} ELSE {}
    [] step = "loop" -> IF mode = "feed" THEN {"recorder"} ELSE {}
    [] step \in {"aggregate", "flush"} -> {"aggregator", "recorder"}
    [] step \in {"restore", "limits"} -> {}
    [] OTHER -> {"recorder"}

(* A handler waits for the lock that its own thread held. *)
Free(f) == f = "handler" => held \notin LocksOf(pc[f])
Goto(f, step) == pc' = [pc EXCEPT ![f] = step]
CallStop(f, back) ==
  /\ pc'  = [pc EXCEPT ![f] = "stop"]
  /\ ret' = [ret EXCEPT ![f] = back]
(* stop() returns, and its local variables are gone. *)
Return(f) ==
  /\ pc'  = [pc EXCEPT ![f] = ret[f]]
  /\ ret' = [ret EXCEPT ![f] = Outside(f)]
  /\ wasFailed' = [wasFailed EXCEPT ![f] = FALSE]
Back(f) == IF f = "main" THEN "loop" ELSE "idle"

Init ==
  /\ mode \in Modes
  /\ pc = [f \in Frame |-> CASE f = "main"    -> "new"
                             [] f = "worker"  -> "off"
                             [] f = "handler" -> "idle"]
  /\ ret = [f \in Frame |-> Outside(f)]
  /\ wasFailed = [f \in Frame |-> FALSE]
  /\ handler = "original" /\ prevKnown = FALSE /\ held = "none" /\ cut = {} /\ presses = 0
  /\ status = "STARTING" /\ running = FALSE /\ failed = FALSE
  /\ feeding = FALSE
  /\ bar = "none" /\ ticks = 0 /\ bars = 0 /\ dated = FALSE
  /\ flag = FALSE /\ account = Opening /\ risk = Fresh /\ trades = 0 /\ estranged = FALSE
  /\ recorded = 0 /\ dossier = NoFile /\ lost = 0 /\ unsaved = FALSE

-----------------------------------------------------------------------------
(* An exception leaves frame f: on_tick swallows the worker's; run() turns *)
(* one inside its loop over a feed into a fatal error and stop(); any other*)
(* leaves run().  One in the handler surfaces in the main frame.           *)
InTry ==
  /\ mode = "feed"
  /\ \/ pc["main"] \in {"loop", "tick"} \cup TickSteps
     \/ pc["main"] \in StopSteps \cup {"stop"} /\ Nested("main")

Raise(f) ==
  IF f = "worker"
  THEN /\ Goto(f, "idle")
       /\ ret' = [ret EXCEPT ![f] = "idle"]
       /\ wasFailed' = [wasFailed EXCEPT ![f] = FALSE]
       /\ UNCHANGED failed
  ELSE /\ pc' = [pc EXCEPT !["handler"] = "idle",
                          !["main"] = IF InTry THEN "stop" ELSE "raised"]
       /\ ret' = [ret EXCEPT !["main"] = "returned"]
       /\ wasFailed' = [wasFailed EXCEPT ![f] = FALSE, !["main"] = FALSE]
       /\ failed' = (failed \/ InTry)

-----------------------------------------------------------------------------
(* start()                                                                 *)

(* The lock is taken and the SIGINT handler installed ... *)
Start ==
  /\ pc["main"] = "new"
  /\ handler' = "session" /\ prevKnown' = TRUE
  /\ flag' = FALSE
  /\ Goto("main", "subscribe")
  /\ UNCHANGED <<mode, ret, wasFailed, feeding, held, cut, presses, Session, Market,
                 account, risk, trades, estranged, Records>>

(* ... and the adapter is logged in and subscribed, which starts a live    *)
(* one's worker, or raises: a live login may fail, and after the login     *)
(* Ctrl+C may have disconnected the adapter.                               *)
Subscribe ==
  /\ pc["main"] = "subscribe" /\ Runs("main")
  /\ \/ /\ pc' = [pc EXCEPT !["main"] = "connect",
                            !["worker"] = IF mode = "live" THEN "idle" ELSE @]
        /\ feeding' = (mode = "live")
     \/ /\ mode # "feed" /\ (mode = "live" \/ "subscribe" \in cut)
        /\ Goto("main", "raised")
        /\ UNCHANGED feeding
  /\ UNCHANGED <<mode, ret, wasFailed, Signals, Session, Market, Trading, Records>>

(* wait_until_ready, with the lock held all along: the worker marks the    *)
(* feed ready before it hands a tick to the runner.                        *)
Ready ==
  /\ pc["main"] = "connect" /\ Runs("main")
  /\ mode = "live" => feeding
  /\ Goto("main", "ready")
  /\ UNCHANGED <<mode, ret, wasFailed, feeding, Signals, Session, Market, Trading, Records>>

(* It times out, or the feed failed or was disconnected. *)
NotReady ==
  /\ pc["main"] = "connect" /\ Runs("main")
  /\ mode = "live"
  /\ status' = "FAILED"
  /\ Goto("main", "unready")
  /\ UNCHANGED <<mode, ret, wasFailed, feeding, Signals, running, failed, Market, Trading,
                 Records>>

(* The recorder is told of it, and start() raises. *)
Unready ==
  /\ pc["main"] = "unready" /\ Runs("main")
  /\ failed' = TRUE
  /\ Goto("main", "raised")
  /\ UNCHANGED <<mode, ret, wasFailed, feeding, Signals, status, running, Market, Trading,
                 Records>>

(* The end of start(); run() then starts the mock feeder. *)
Running ==
  /\ pc["main"] = "ready" /\ Runs("main")
  /\ running' = TRUE /\ status' = "RUNNING"
  /\ pc' = [pc EXCEPT !["main"] = "loop", !["worker"] = IF mode = "mock" THEN "idle" ELSE @]
  /\ feeding' = (feeding \/ mode = "mock")
  /\ UNCHANGED <<mode, ret, wasFailed, Signals, failed, Market, Trading, Records>>

-----------------------------------------------------------------------------
(* The loops that bring ticks.                                             *)

(* for tick in tick_iter: is_running, then process_tick. *)
NextTick ==
  /\ pc["main"] = "loop" /\ Runs("main") /\ MayLock("main")
  /\ mode = "feed" /\ running /\ ticks < FeedLength
  /\ Goto("main", "tick")
  /\ UNCHANGED <<mode, ret, wasFailed, feeding, Signals, Session, Market, Trading, Records>>

(* The session is over: stopped, at the end of the feed, of its time. *)
(* Mutant: the wait for an adapter does not look at is_running. *)
MutOver == mode = "feed" \/ Timed

Over == ~running \/ mode = "feed" \/ Timed

LeaveLoop ==
  /\ pc["main"] = "loop" /\ Runs("main") /\ MayLock("main")
  /\ Over
  /\ CallStop("main", "returned")
  /\ UNCHANGED <<mode, wasFailed, feeding, Signals, Session, Market, Trading, Records>>

FeedError ==
  /\ pc["main"] = "loop" /\ Runs("main")
  /\ mode = "feed"
  /\ Raise("main")
  /\ UNCHANGED <<mode, feeding, Signals, status, running, Market, Trading, Records>>

(* The adapter's thread calls on_tick. *)
Deliver ==
  /\ pc["worker"] = "idle" /\ feeding /\ ticks < FeedLength
  /\ Goto("worker", "tick")
  /\ UNCHANGED <<mode, ret, wasFailed, feeding, Signals, Session, Market, Trading, Records>>

-----------------------------------------------------------------------------
(* process_tick(), whole under the lock.                                   *)

Accepts == running \/ status = "STARTING"

(* A tick that is poor fails the strict quality checks, which end the      *)
(* session; any other marks the account.  No order rests with the broker,  *)
(* so on_market_tick fills nothing.                                        *)
ProcessTick(f, price, poor) ==
  /\ pc[f] = "tick" /\ Runs(f) /\ MayLock(f)
  /\ IF ~Accepts
     THEN /\ Goto(f, Back(f))
          /\ UNCHANGED <<ret, failed, ticks, account>>
     ELSE /\ ticks' = ticks + 1
          /\ IF Strict /\ poor
             THEN /\ failed' = TRUE
                  /\ CallStop(f, "abort")
                  /\ UNCHANGED account
             ELSE /\ account' = Marked(account, price)
                  /\ Goto(f, "aggregate")
                  /\ UNCHANGED <<ret, failed>>
  /\ UNCHANGED <<mode, wasFailed, feeding, Signals, status, running, bar, bars, dated,
                 flag, risk, trades, estranged, Records>>

(* DataQualityError, after stop(). *)
Abort(f) ==
  /\ pc[f] = "abort" /\ Runs(f)
  /\ Raise(f)
  /\ UNCHANGED <<mode, feeding, Signals, status, running, Market, Trading, Records>>

BarOf(price) == IF price = 0 THEN "bad" ELSE "good"

(* The aggregator drops the tick, takes it into the running bar, or closes *)
(* that bar, which raises when it is bad, and starts the next.             *)
Aggregate(f) ==
  /\ pc[f] = "aggregate" /\ Runs(f)
  /\ \/ /\ UNCHANGED <<bar, ret, wasFailed, failed>>
        /\ Goto(f, "limits")
     \/ /\ bar' = IF bar = "bad" THEN bar ELSE BarOf(account.mark)
        /\ Goto(f, "limits")
        /\ UNCHANGED <<ret, wasFailed, failed>>
     \/ /\ bar = "good"
        /\ bar' = BarOf(account.mark)
        /\ Goto(f, "bar")
        /\ UNCHANGED <<ret, wasFailed, failed>>
     \/ /\ bar = "bad"
        /\ Raise(f)
        /\ UNCHANGED bar
  /\ UNCHANGED <<mode, feeding, Signals, status, running, ticks, bars, dated,
                 Trading, Records>>

-----------------------------------------------------------------------------
(* _process_closed_bar(), called by the aggregator out of its lock.        *)

(* Mutant: the side is read off the flag as it was before the signal. *)
MutSide == IF flag THEN "SELL" ELSE "BUY"

Side == IF flag THEN "BUY" ELSE "SELL"

(* The first bar of a date starts a session of the risk engine.  The       *)
(* strategy evaluates its entry or its exit rule by its own flag and moves *)
(* the flag as it signals.                                                 *)
CloseBar(f, newDate, signals) ==
  /\ pc[f] = "bar" /\ Runs(f)
  /\ bars' = bars + 1 /\ dated' = TRUE
  /\ risk' = IF newDate \/ ~dated THEN SessionStarted(TotalCapital(account)) ELSE risk
  /\ flag' = IF signals THEN ~flag ELSE flag
  /\ Goto(f, IF signals THEN "decide" ELSE "snapshot")
  /\ UNCHANGED <<mode, ret, wasFailed, feeding, Signals, Session, bar, ticks, account,
                 trades, estranged, Records>>

(* Order refuses a zero price; an order the risk engine refuses is filed as*)
(* REJECTED, and the strategy is not told.                                 *)
Decide(f) ==
  /\ pc[f] = "decide" /\ Runs(f)
  /\ \/ /\ account.mark = 0
        /\ Raise(f)
        /\ estranged' = TRUE
     \/ /\ account.mark # 0
        /\ LET refused == RiskRefuses(risk, account, Side, Qty, account.mark)
           IN  /\ Goto(f, IF refused THEN "snapshot" ELSE "submit")
               /\ estranged' = (estranged \/ refused)
        /\ UNCHANGED <<ret, wasFailed, failed>>
  /\ UNCHANGED <<mode, feeding, Signals, status, running, Market, flag,
                 account, risk, trades, Records>>

(* The broker refuses too, or fills at the quote with slippage. *)
Submit(f) ==
  /\ pc[f] = "submit" /\ Runs(f)
  /\ \/ /\ BrokerRefuses(account, Side, Qty, account.mark)
        /\ estranged' = TRUE
        /\ Goto(f, "snapshot")
        /\ UNCHANGED <<account, trades>>
     \/ /\ ~BrokerRefuses(account, Side, Qty, account.mark)
        /\ account' = Filled(account, Side, Qty, account.mark + Sign(Side) * Spread)
        /\ trades' = trades + 1
        /\ Goto(f, "record")
        /\ UNCHANGED estranged
  /\ UNCHANGED <<mode, ret, wasFailed, feeding, Signals, Session, Market, flag, risk, Records>>

Record(f) ==
  /\ pc[f] = "record" /\ Runs(f)
  /\ recorded' = recorded + 1
  /\ Goto(f, "snapshot")
  /\ UNCHANGED <<mode, ret, wasFailed, feeding, Signals, Session, Market, Trading,
                 dossier, lost, unsaved>>

(* The ledger raises when the order is saved, before the recorder has the  *)
(* trade, or when the trade is saved, after.                               *)
LedgerRaises(f, before) ==
  /\ pc[f] = "record" /\ Runs(f)
  /\ recorded' = IF before THEN recorded ELSE recorded + 1
  /\ lost' = IF before THEN lost + 1 ELSE lost
  /\ Raise(f)
  /\ UNCHANGED <<mode, feeding, Signals, status, running, Market, Trading, dossier, unsaved>>

Snapshot(f) ==
  /\ pc[f] = "snapshot" /\ Runs(f)
  /\ risk' = EquityUpdated(risk, TotalCapital(account))
  /\ IF bars >= MaxBars
     THEN CallStop(f, "limits")
     ELSE Goto(f, "limits") /\ UNCHANGED ret
  /\ UNCHANGED <<mode, wasFailed, feeding, Signals, Session, Market, flag, account,
                 trades, estranged, Records>>

(* max_ticks and duration_seconds; the lock is released. *)
Limits(f) ==
  /\ pc[f] = "limits" /\ Runs(f)
  /\ \/ /\ ticks >= MaxTicks \/ Timed
        /\ CallStop(f, Back(f))
     \/ /\ ticks < MaxTicks
        /\ Goto(f, Back(f))
        /\ UNCHANGED ret
  /\ UNCHANGED <<mode, wasFailed, feeding, Signals, Session, Market, Trading, Records>>

-----------------------------------------------------------------------------
(* stop(), whole under the lock.                                           *)

Concluded == ~running /\ status \in Final

WasFailed == failed \/ status = "FAILED"

Stop(f) ==
  /\ pc[f] = "stop" /\ Runs(f) /\ MayLock(f) /\ Free(f)
  /\ IF Concluded
     THEN /\ Return(f)
          /\ UNCHANGED <<running, status>>
     ELSE /\ wasFailed' = [wasFailed EXCEPT ![f] = WasFailed]
          /\ running' = FALSE
          /\ status' = IF WasFailed THEN status ELSE "STOPPING"
          /\ Goto(f, "restore") /\ UNCHANGED ret
  /\ UNCHANGED <<mode, feeding, Signals, failed, Market, Trading, Records>>

Restored(f) == IF prevKnown /\ Thread(f) = "main" THEN "original" ELSE handler

(* The SIGINT handler is restored, which Python allows the main thread only. *)
Restore(f) ==
  /\ pc[f] = "restore" /\ Runs(f)
  /\ handler' = Restored(f)
  /\ prevKnown' = FALSE
  /\ Goto(f, "release")
  /\ UNCHANGED <<mode, ret, wasFailed, feeding, held, cut, presses, Session, Market,
                 Trading, Records>>

(* The adapter is disconnected, waiting a while for its worker. *)
Release(f) ==
  /\ pc[f] = "release" /\ Runs(f) /\ Free(f)
  /\ feeding' = (feeding /\ mode = "feed")
  /\ Goto(f, "flush")
  /\ UNCHANGED <<mode, ret, wasFailed, Signals, Session, Market, Trading, Records>>

Flush(f) ==
  /\ pc[f] = "flush" /\ Runs(f) /\ Free(f)
  /\ \/ /\ bar = "bad"
        /\ Raise(f)
        /\ UNCHANGED bar
     \/ /\ bar # "bad"
        /\ bar' = "none"
        /\ Goto(f, "seal")
        /\ UNCHANGED <<ret, wasFailed, failed>>
  /\ UNCHANGED <<mode, feeding, Signals, status, running, ticks, bars, dated,
                 Trading, Records>>

Verdict(f) == IF wasFailed[f] THEN "FAILED" ELSE "COMPLETED"

(* The status is final before the dossier is saved, which may raise: a     *)
(* later stop() then finds nothing left to do.                             *)
Seal(f) ==
  /\ pc[f] = "seal" /\ Runs(f) /\ Free(f)
  /\ status' = Verdict(f)
  /\ \/ /\ dossier' = [trades |-> recorded, qty |-> account.qty, verdict |-> status']
        /\ unsaved' = FALSE
        /\ Return(f)
        /\ UNCHANGED failed
     \/ /\ unsaved' = TRUE
        /\ Raise(f)
        /\ UNCHANGED dossier
  /\ UNCHANGED <<mode, feeding, Signals, running, Market, Trading, recorded, lost>>

-----------------------------------------------------------------------------
(* Ctrl+C while the session's handler is installed; the main frame may be  *)
(* inside one of the plain locks.                                          *)
Interrupt(lock) ==
  /\ handler = "session" /\ presses < Interrupts
  /\ pc["handler"] = "idle"
  /\ pc["main"] \notin {"new", "returned", "raised"}
  /\ lock # "none" => lock \in LocksOf(pc["main"]) /\ MayLock("main")
  /\ Goto("handler", "stop") /\ held' = lock
  /\ cut' = cut \cup {pc["main"]} \cup ({lock} \ {"none"}) /\ presses' = presses + 1
  /\ UNCHANGED <<mode, ret, wasFailed, feeding, handler, prevKnown, Session, Market,
                 Trading, Records>>

(* Ctrl+C inside a plain lock of the handler itself: a second handler runs *)
(* on top, and waits where the first now does.  Elsewhere its stop() is as *)
(* if the first had made it.                                               *)
InterruptAgain(lock) ==
  /\ handler = "session" /\ presses < Interrupts
  /\ pc["handler"] # "idle" /\ MayLock("handler") /\ Free("handler")
  /\ lock \in LocksOf(pc["handler"])
  /\ held' = lock
  /\ cut' = cut \cup {lock} /\ presses' = presses + 1
  /\ UNCHANGED <<mode, Frames, feeding, handler, prevKnown, Session, Market, Trading,
                 Records>>

(* Ctrl+C once the original handler is back: KeyboardInterrupt, which no   *)
(* except clause of run() or stop() catches, unwinds the main thread; it   *)
(* may come between the final status and the dossier.                      *)
KeyboardInterrupt ==
  /\ handler = "original" /\ presses < Interrupts
  /\ pc["main"] \notin {"new", "returned", "raised"}
  /\ pc' = [pc EXCEPT !["main"] = "raised", !["handler"] = "idle"]
  /\ cut' = cut \cup {"killed"} /\ presses' = presses + 1
  /\ \/ UNCHANGED <<status, unsaved>>
     \/ \E f \in {"main", "handler"} :
          pc[f] = "seal" /\ Runs(f) /\ status' = Verdict(f) /\ unsaved' = TRUE
  /\ UNCHANGED <<mode, ret, wasFailed, feeding, handler, prevKnown, held, running, failed,
                 Market, Trading, recorded, dossier, lost>>

Process(f) ==
  \/ \E price \in Prices, poor \in BOOLEAN : ProcessTick(f, price, poor)
  \/ Abort(f) \/ Aggregate(f)
  \/ \E newDate, signals \in BOOLEAN : CloseBar(f, newDate, signals)
  \/ Decide(f) \/ Submit(f) \/ Record(f) \/ Snapshot(f) \/ Limits(f)
  \/ \E before \in BOOLEAN : LedgerRaises(f, before)

Conclude(f) == Stop(f) \/ Restore(f) \/ Release(f) \/ Flush(f) \/ Seal(f)

Main    == Start \/ Subscribe \/ Ready \/ NotReady \/ Unready \/ Running \/ NextTick \/ LeaveLoop \/ FeedError
             \/ Process("main") \/ Conclude("main")
Worker  == Process("worker") \/ Conclude("worker")
Handler == Conclude("handler")

Next ==
  \/ Main \/ Worker \/ Handler \/ Deliver
  \/ \E lock \in PlainLocks \cup {"none"} : Interrupt(lock)
  \/ \E lock \in PlainLocks : InterruptAgain(lock)
  \/ KeyboardInterrupt

(* A thread that can take a step takes one: the operating system runs every*)
(* thread.  Ticks and Ctrl+C need not come.                                *)
Fairness == WF_vars(Main) /\ WF_vars(Handler) /\ WF_vars(Worker)

Spec == Init /\ [][Next]_vars /\ Fairness
-----------------------------------------------------------------------------
TypeOK ==
  /\ mode \in Modes
  /\ pc \in [Frame -> PC] /\ pc["handler"] \in {"idle", "stop"} \cup StopSteps
  /\ ret \in [Frame -> PC] /\ wasFailed \in [Frame -> BOOLEAN]
  /\ handler \in {"original", "session"} /\ prevKnown \in BOOLEAN
  /\ held \in PlainLocks \cup {"none"}
  /\ cut \in SUBSET (PC \cup {"killed"} \cup PlainLocks) /\ presses \in Nat
  /\ status \in {"STARTING", "RUNNING", "STOPPING"} \cup Final
  /\ running \in BOOLEAN /\ failed \in BOOLEAN /\ feeding \in BOOLEAN
  /\ bar \in {"none", "good", "bad"} /\ ticks \in Nat /\ bars \in Nat /\ dated \in BOOLEAN
  /\ flag \in BOOLEAN /\ account \in Account /\ risk \in Risk /\ trades \in Nat
  /\ estranged \in BOOLEAN /\ lost \in Nat /\ unsaved \in BOOLEAN /\ recorded \in Nat
  /\ dossier \in [trades : Int, qty : Int, verdict : Final \cup {"none"}]

(* The strategy's flag and the broker's position say the same, and the     *)
(* position is long or flat: "Roll back optimistic position flag if order  *)
(* was rejected by risk engine or broker" (strategy/compiler/engine.py:50).*)
FlagIsPosition ==
  (\A f \in Frame : pc[f] \notin {"decide", "submit"}) =>
    account.qty = IF flag THEN Qty ELSE 0

(* So it is as long as no order was refused and no exception or Ctrl+C came*)
(* between signal and fill, however ticks, bars and threads interleave.    *)
FlagIsPositionUnlessRefused ==
  estranged \/ cut \cap {"decide", "submit", "killed"} # {} \/ FlagIsPosition

(* The dossier of a session that is over has the broker's position and     *)
(* every trade but those whose bar the ledger broke off before they were   *)
(* recorded, unless it could not be saved or the handler sealed it on top  *)
(* of a tick or a bar that was still being processed.                      *)
DossierComplete ==
  /\ status \in Final /\ dossier # NoFile
  /\ ~unsaved /\ cut \cap {"aggregate", "bar", "decide", "submit", "record"} = {}
  => dossier.trades + lost = trades /\ dossier.qty = account.qty

(* Once the session is over its dossier says FAILED only if a fatal error  *)
(* was recorded, and always if it was, except that over a feed the main    *)
(* thread may still fail on top of a dossier already sealed: Ctrl+C sealed *)
(* it inside a bar, or reading one tick more raises after max_ticks did.   *)
(* It may also be older than the session: Ctrl+C sealed it in start().     *)
VerdictIsTrue ==
  status \in Final /\ dossier # NoFile /\ ~unsaved /\ cut \cap {"subscribe", "connect"} = {} =>
    /\ dossier.verdict = "FAILED" => failed
    /\ failed /\ mode # "feed" => dossier.verdict = "FAILED"

(* The dossier of a session that is over tells the truth about it. *)
DossierIsTrue == DossierComplete /\ VerdictIsTrue

(* With the drawdown breaker on, no fill grows the position or turns it:   *)
(* what the risk engine decided still holds when the broker fills.         *)
BreakerOnlyCloses ==
  [][risk.breaker => Abs(account'.qty) <= Abs(account.qty) /\ account'.qty * account.qty >= 0]_vars

(* Whoever begins to stop the session gets its dossier written, from any   *)
(* thread and inside any handler, unless saving it or the running bar      *)
(* raises, start() had failed, Ctrl+C came inside a plain lock, where      *)
(* stop() waits for its own thread, or Ctrl+C came once more.              *)
StopConcludes ==
  (\E f \in Frame : pc[f] = "stop") ~>
    \/ dossier # NoFile \/ unsaved \/ bar = "bad" \/ status = "FAILED"
    \/ cut \cap (PlainLocks \cup {"killed"}) # {}

(* Ctrl+C ends run(), unless it came inside start() or inside a lock that  *)
(* stop() takes again.                                                     *)
InterruptEndsRun ==
  (cut # {} /\ cut \cap StartSteps = {}) ~>
    (pc["main"] \in {"returned", "raised"} \/ cut \cap PlainLocks # {})

(* "Send SIGINT (Ctrl+C) to cleanly flush in-progress bars, record final   *)
(* session metrics, and close database connections" (README.md:349): the   *)
(* dossier is written, unless start() had failed, saving fails or Ctrl+C   *)
(* comes again.                                                            *)
InterruptConcludes ==
  (pc["handler"] = "stop") ~>
    (dossier # NoFile \/ unsaved \/ status = "FAILED" \/ "killed" \in cut)
=============================================================================
