------------------------ MODULE OptionsForwardRunner ------------------------
(***************************************************************************)
(* A forward session of the premium ladder, data/forward_options_runner.py:*)
(* sell one lot of a call, buy four lots of a cheaper one as its hedge,    *)
(* trail a stop on the short call with the ticks the feed thread queues,   *)
(* leave both positions on a stop hit, at 15:15 or when the session ends,  *)
(* and seal a dossier of what was done.                                    *)
(*                                                                         *)
(* The main thread is a sequence of steps named by `pc`; every order it    *)
(* sends to the paper broker is a step, because an exception or a Ctrl+C   *)
(* may unwind run() between two of them.  The broker is its net position   *)
(* per contract, in lots: PaperBroker says when it fills and when it       *)
(* refuses.  Events, snapshots and the freshness monitor write logs and    *)
(* files and are left out, but for the exceptions that writing may raise.  *)
(* Times are minutes of the day.                                           *)
(***************************************************************************)
EXTENDS Integers, Sequences

CONSTANTS
  Gap, Step,     \* of the trailing stop (500 and 500 paise)
  Entries,       \* fill prices of the short call
  Prices,        \* last traded prices of ticks; 0 is a legal Tick.ltp
  Times,         \* the minutes the clock shows
  WaitForOpen,   \* config.wait_for_market_open
  MaxTicks       \* bound: ticks in a session

ASSUME RunnerAssumption ==
  /\ Gap \in Nat \ {0} /\ Step \in Nat \ {0}
  /\ Entries \subseteq Nat \ {0} /\ Prices \subseteq Nat
  /\ Times \subseteq 0 .. 1439 /\ WaitForOpen \in BOOLEAN /\ MaxTicks \in Nat

VARIABLES
  pc,       \* where the main thread is
  caller,   \* where execute_paper_exit returns to
  clock,    \* the wall clock
  now,      \* now_ist, read at the top of a loop iteration
  queue,    \* _tick_queue
  latest,   \* _latest_ticks, a sequence of at most one tick per contract
  active,   \* _active_group is not None
  stop,     \* the trailing stop of the short leg, once there is a group
  net,      \* the broker's position per contract, in lots
  trades,   \* _trades: the contracts of the recorded round trips
  (* History, for the properties and the bound. *)
  torn,     \* run() unwound between two orders, or an exit was refused
  ticks     \* ticks received

vars == <<pc, caller, clock, now, queue, latest, active, stop, net, trades, torn, ticks>>

StopOf == INSTANCE TrailingStop

Contract == {"SHORT", "HEDGE"}
Flat     == [c \in Contract |-> 0]
Opened   == [c \in Contract |-> IF c = "SHORT" THEN -1 ELSE 4]

Exiting == {"exitShort", "exitHedge", "closeGroup"}
PC == {"wait", "sellShort", "buyHedge", "form", "loop", "drain", "check",
       "finally", "seal", "sealed", "dead"} \cup Exiting

Tick == [symbol : Contract, ltp : Prices, time : Times]

MarketOpen == 9 * 60 + 15
HourOf(t) == t \div 60
MinuteOf(t) == t % 60
SquareOffTime(t) == HourOf(t) = 15 /\ MinuteOf(t) >= 15
(* "Market close termination (15:30 IST)" *)
(* Mutant: the hour is compared for equality, as for the square-off. *)
MutClosingTime(t) == HourOf(t) = 15 /\ MinuteOf(t) >= 30

ClosingTime(t) == HourOf(t) >= 15 /\ MinuteOf(t) >= 30

Init ==
  /\ pc = "wait" /\ caller = "seal"
  /\ clock \in Times /\ now = clock
  /\ queue = <<>> /\ ticks = 0
  /\ latest = [c \in Contract |-> <<>>]
  /\ active = FALSE
  /\ \E entry \in Entries : stop = StopOf!Armed("SELL", TRUE, entry, clock)
  /\ net = Flat
  /\ trades = <<>>
  /\ torn = FALSE

Session == <<clock, now, queue, latest, ticks>>
Group   == <<active, stop>>
Books   == <<net, trades>>

-----------------------------------------------------------------------------
(* The clock and the feed thread.                                          *)

ClockAdvances ==
  /\ \E t \in Times : /\ t > clock
                      /\ \A u \in Times : u > clock => t <= u
                      /\ clock' = t
  /\ UNCHANGED <<pc, caller, now, queue, latest, ticks, torn, Group, Books>>

(* on_tick_received: from subscription to disconnection, a tick stamped by *)
(* the exchange at any time up to now, in any order.                       *)
TickArrives(tick) ==
  /\ pc \notin {"wait", "sealed", "dead"}
  /\ ticks < MaxTicks
  /\ tick.time <= clock
  /\ queue' = Append(queue, tick)
  /\ ticks' = ticks + 1
  /\ UNCHANGED <<pc, caller, clock, now, latest, torn, Group, Books>>

-----------------------------------------------------------------------------
(* Opening the position.                                                   *)

(* wait_for_market_session, discovery and subscription. *)
Begin ==
  /\ pc = "wait"
  /\ WaitForOpen => clock >= MarketOpen
  /\ pc' = "sellShort"
  /\ now' = clock
  /\ UNCHANGED <<caller, clock, queue, latest, ticks, torn, Group, Books>>

(* An order of execute_paper_entry fills, or is refused for margin and     *)
(* raises out of run()'s try block.                                        *)
(* Mutant: a refused hedge goes unnoticed. *)
MutEntryOrder(here, contract, next) ==
  /\ pc = here
  /\ \/ net' = [net EXCEPT ![contract] = @ + Opened[contract]]
     \/ UNCHANGED net
  /\ pc' = next
  /\ UNCHANGED <<caller, torn, trades, Session, Group>>

EntryOrder(here, contract, next) ==
  /\ pc = here
  /\ \/ /\ net' = [net EXCEPT ![contract] = @ + Opened[contract]]
        /\ pc' = next
        /\ UNCHANGED torn
     \/ /\ pc' = "finally"
        /\ torn' = (torn \/ net # Flat)
        /\ UNCHANGED net
  /\ UNCHANGED <<caller, trades, Session, Group>>

(* The group and the stop on its short leg, bound to the fill price and to *)
(* the time read when execute_paper_entry began.                           *)
FormGroup ==
  /\ pc = "form"
  /\ pc' = "loop"
  /\ active' = TRUE
  /\ stop' = StopOf!Armed("SELL", TRUE, stop.entry, now)
  /\ UNCHANGED <<caller, torn, Session, Books>>

-----------------------------------------------------------------------------
(* The loop.                                                               *)

Goto(here, next) == pc = here /\ pc' = next

(* execute_paper_exit returns at once when there is no group.              *)
CallExit(from) ==
  /\ pc' = IF active THEN "exitShort" ELSE from
  /\ caller' = from

BeginIteration ==
  /\ Goto("loop", "drain")
  /\ now' = clock
  /\ UNCHANGED <<caller, clock, queue, latest, ticks, torn, Group, Books>>

(* One turn of process_incoming_ticks: the tick becomes the latest of its  *)
(* contract whatever becomes of it; a price above zero reaches the stop of *)
(* the short leg, which may raise (the tick is then "discarded"), hold, or *)
(* trigger the exit of the group.                                          *)
(* Mutant of it: only the event of the first breach is looked at, and it   *)
(* is taken for a ratchet. *)
MutExitOnEvent(triggered) ==
  IF triggered /\ stop'.current = stop.entry + Gap THEN CallExit("drain") ELSE UNCHANGED <<pc, caller>>

ExitOnEvent(triggered) ==
  IF triggered THEN CallExit("drain") ELSE UNCHANGED <<pc, caller>>

ProcessTick ==
  /\ pc = "drain" /\ queue # <<>>
  /\ queue' = Tail(queue)
  /\ LET tick == Head(queue)
     IN  /\ latest' = [latest EXCEPT ![tick.symbol] = <<tick>>]
         /\ IF active /\ tick.symbol = "SHORT" /\ tick.ltp > 0
            THEN /\ StopOf!Update(tick.ltp, tick.time)
                 /\ ExitOnEvent(stop'.state = "TRIGGERED"
                                  /\ ~StopOf!Raises(stop, tick.ltp, tick.time))
            ELSE UNCHANGED <<stop, pc, caller>>
  /\ UNCHANGED <<clock, now, ticks, active, torn, Books>>

Drained ==
  /\ queue = <<>> /\ Goto("drain", "check")
  /\ UNCHANGED <<caller, torn, Session, Group, Books>>

(* Mutant: the square-off leaves the loop without leaving the position, in *)
(* the belief that "finally" will not find one. *)
MutAfterIteration ==
  IF SquareOffTime(now) THEN pc' = "seal" /\ UNCHANGED caller
  ELSE /\ pc' \in IF ClosingTime(now) THEN {"finally"} ELSE {"finally", "loop"}
       /\ UNCHANGED caller

(* At 15:15 square off, at 15:30 leave; else leave if the configured       *)
(* duration is over, or start another iteration.                           *)
AfterIteration ==
  IF SquareOffTime(now) THEN CallExit("finally")
  ELSE /\ pc' \in IF ClosingTime(now) THEN {"finally"} ELSE {"finally", "loop"}
       /\ UNCHANGED caller

CheckClock ==
  /\ pc = "check" /\ AfterIteration
  /\ UNCHANGED <<torn, Session, Group, Books>>

-----------------------------------------------------------------------------
(* execute_paper_exit.                                                     *)

(* Without a tick the leg's own price is used, which is never zero.        *)
Priced(contract) == \A i \in DOMAIN latest[contract] : latest[contract][i].ltp > 0

(* The closing order of one leg.  The broker refuses an order it has no    *)
(* price for, or one that no longer closes anything and exceeds the        *)
(* margin; the round trip is recorded all the same.                        *)
ExitOrder(here, contract, next) ==
  /\ Goto(here, next)
  /\ \/ /\ Priced(contract)
        /\ net' = [net EXCEPT ![contract] = @ - Opened[contract]]
        /\ UNCHANGED torn
     \/ /\ ~Priced(contract) \/ net[contract] # Opened[contract]
        /\ torn' = TRUE
        /\ UNCHANGED net
  /\ trades' = Append(trades, contract)
  /\ UNCHANGED <<caller, Session, Group>>

(* close_all, and _active_group = None.                                    *)
(* Mutant: the closed group stays the active one. *)
MutGroupAfterExit == TRUE
GroupAfterExit == FALSE

CloseGroup ==
  /\ Goto("closeGroup", caller)
  /\ active' = GroupAfterExit
  /\ StopOf!Close
  /\ UNCHANGED <<caller, torn, Session, Books>>

-----------------------------------------------------------------------------
(* The end of run().                                                       *)

InFinally == pc \in {"finally", "seal"} \/ (pc \in Exiting /\ caller = "seal")
Ended == pc \in {"sealed", "dead"}

(* Between these steps orders have been filled that no group accounts for. *)
BetweenOrders == pc \in {"buyHedge", "form", "exitHedge", "closeGroup"}

(* An exception or a Ctrl+C inside the try block.                          *)
Unwind ==
  /\ ~InFinally /\ ~Ended
  /\ pc' = "finally"
  /\ torn' = (torn \/ BetweenOrders)
  /\ UNCHANGED <<caller, Session, Group, Books>>

(* The same inside the finally block: no dossier is written.               *)
Abandon ==
  /\ InFinally /\ pc' = "dead"
  /\ torn' = (torn \/ BetweenOrders \/ active)
  /\ UNCHANGED <<caller, Session, Group, Books>>

Finally ==
  /\ pc = "finally" /\ CallExit("seal")
  /\ UNCHANGED <<torn, Session, Group, Books>>

(* stop and generate_sealed_dossier.                                       *)
Seal ==
  /\ Goto("seal", "sealed")
  /\ UNCHANGED <<caller, torn, Session, Group, Books>>

Main ==
  \/ Begin
  \/ EntryOrder("sellShort", "SHORT", "buyHedge")
  \/ EntryOrder("buyHedge", "HEDGE", "form")
  \/ FormGroup
  \/ BeginIteration \/ ProcessTick \/ Drained \/ CheckClock
  \/ ExitOrder("exitShort", "SHORT", "exitHedge")
  \/ ExitOrder("exitHedge", "HEDGE", "closeGroup")
  \/ CloseGroup
  \/ Finally \/ Seal

Next ==
  \/ Main
  \/ Unwind \/ Abandon
  \/ ClockAdvances
  \/ \E tick \in Tick : TickArrives(tick)

(* The main thread is scheduled and time passes; nobody has to interrupt.  *)
Spec == Init /\ [][Next]_vars /\ WF_vars(Main) /\ WF_vars(ClockAdvances)

-----------------------------------------------------------------------------
(* Properties.                                                             *)

(* The types.  The range of `net` bounds what a torn session can leave:     *)
(* never more than one exit too few or too many of a leg.                  *)
TypeOK ==
  /\ pc \in PC /\ caller \in {"drain", "finally", "seal"}
  /\ clock \in Times /\ now \in Times
  /\ queue \in Seq(Tick)
  /\ latest \in [Contract -> {<<>>} \cup {<<tick>> : tick \in Tick}]
  /\ active \in BOOLEAN /\ torn \in BOOLEAN
  /\ stop \in StopOf!Stop
  /\ net \in [Contract -> Int]
  /\ \A c \in Contract : net[c] \in {-Opened[c], 0, Opened[c]}
  /\ trades \in Seq(Contract)
  /\ ticks \in 0 .. MaxTicks

(* Unless run() was torn between two orders, the group and the broker      *)
(* agree: a group is active only over both legs, no group means no         *)
(* position, and every contract was recorded as a round trip at most once. *)
BooksAgree ==
  ~torn /\ pc \notin {"buyHedge", "form"} \cup Exiting =>
     /\ net = IF active THEN Opened ELSE Flat
     /\ trades # <<>> => ~active /\ trades = <<"SHORT", "HEDGE">>

(* A dossier is sealed over no open position, unless torn.                 *)
SealedFlatUnlessTorn == pc = "sealed" /\ ~torn => net = Flat /\ ~active

(* The loop never goes on with a position whose stop has triggered.        *)
NoTriggeredPosition ==
  pc \in {"loop", "check"} /\ active => stop.state = "ARMED"

(* A triggered stop is followed by the end of the group, whatever raises   *)
(* on the way; only a second interrupt, in the clean-up, prevents it.      *)
TriggerClosesGroup == stop.state = "TRIGGERED" ~> ~active \/ pc = "dead"

(* The session ends although the feed may stall, if time passes.           *)
SessionEnds == <>Ended

(* Refuted by the code: the group square-off in "finally" guarantees clean *)
(* exits before the dossier is sealed.                                     *)
SealedFlat == pc = "sealed" => net = Flat
=============================================================================
