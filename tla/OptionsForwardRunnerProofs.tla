--------------------- MODULE OptionsForwardRunnerProofs ---------------------
(***************************************************************************)
(* Safety of OptionsForwardRunner for every clock, feed and stop, and any  *)
(* number of ticks: unless run() was torn between two orders, the group    *)
(* and the broker agree and the dossier is sealed over no open position.   *)
(***************************************************************************)
EXTENDS OptionsForwardRunner, SequenceTheorems, TLAPS

(* Where the orders have got to at each step of the main thread.  "Done"   *)
(* is a session whose group was closed, "fresh" one that never had one.    *)
Fresh == ~active /\ net = Flat /\ trades = <<>>
Open  == active /\ net = Opened /\ trades = <<>>
Done  == ~active /\ net = Flat /\ trades = <<"SHORT", "HEDGE">>

Progress ==
  /\ pc \in {"wait", "sellShort"} => Fresh
  /\ pc = "buyHedge" => ~active /\ net = [Flat EXCEPT !["SHORT"] = -1] /\ trades = <<>>
  /\ pc = "form" => ~active /\ net = Opened /\ trades = <<>>
  /\ pc \in {"loop", "drain", "check"} => Open \/ Done
  /\ pc = "exitShort" => Open
  /\ pc = "exitHedge" => active /\ net = [Flat EXCEPT !["HEDGE"] = 4] /\ trades = <<"SHORT">>
  /\ pc = "closeGroup" => active /\ net = Flat /\ trades = <<"SHORT", "HEDGE">>
  /\ pc = "finally" => Fresh \/ Open \/ Done
  /\ pc \in {"seal", "sealed", "dead"} => Fresh \/ Done

IInv ==
  /\ pc \in PC /\ caller \in {"drain", "finally", "seal"}
  /\ ~torn => Progress
  /\ pc \in {"loop", "drain", "check", "form"} /\ active => stop.state = "ARMED"
  /\ pc = "form" => ~active
  /\ pc \in {"wait", "sellShort", "buyHedge"} => ~active
  /\ "state" \in DOMAIN stop

LEMMA RoundTrips ==
  /\ Append(<<>>, "SHORT") = <<"SHORT">>
  /\ Append(<<"SHORT">>, "HEDGE") = <<"SHORT", "HEDGE">>
<1> DEFINE one == <<"SHORT">>
           two == <<"SHORT", "HEDGE">>
<1>1. one \in Seq(Contract) /\ two \in Seq(Contract) /\ "HEDGE" \in Contract
  BY DEF Contract
<1>2. Len(one) = 1 /\ Len(two) = 2 /\ one[1] = "SHORT" /\ two[1] = "SHORT" /\ two[2] = "HEDGE"
  OBVIOUS
<1>3. Append(<<>>, "SHORT") = one
  OBVIOUS
<1> HIDE DEF one, two
<1>4. Append(one, "HEDGE") = two
  <2> DEFINE both == Append(one, "HEDGE")
  <2>1. /\ both \in Seq(Contract)
        /\ Len(both) = Len(one) + 1
        /\ \A i \in 1 .. Len(one) : both[i] = one[i]
        /\ both[Len(one) + 1] = "HEDGE"
    BY <1>1, AppendProperties
  <2> HIDE DEF both
  <2>2. Len(both) = 2 /\ both[1] = "SHORT" /\ both[2] = "HEDGE"
    BY <1>2, <2>1
  <2>3. \A i \in 1 .. Len(both) : both[i] = two[i]
    BY <1>2, <2>2
  <2>4. both = two
    BY <1>1, <1>2, <2>1, <2>2, <2>3, SeqEqual
  <2> QED BY <2>4 DEF both
<1> QED BY <1>3, <1>4 DEF one, two

LEMMA Nets ==
  /\ [Flat EXCEPT !["SHORT"] = @ + Opened["SHORT"]] = [Flat EXCEPT !["SHORT"] = -1]
  /\ [[Flat EXCEPT !["SHORT"] = -1] EXCEPT !["HEDGE"] = @ + Opened["HEDGE"]] = Opened
  /\ [Opened EXCEPT !["SHORT"] = @ - Opened["SHORT"]] = [Flat EXCEPT !["HEDGE"] = 4]
  /\ [[Flat EXCEPT !["HEDGE"] = 4] EXCEPT !["HEDGE"] = @ - Opened["HEDGE"]] = Flat
  /\ [Flat EXCEPT !["SHORT"] = -1] # Flat
  /\ [Flat EXCEPT !["HEDGE"] = 4]["HEDGE"] = Opened["HEDGE"]
BY DEF Flat, Opened, Contract

LEMMA InitEstablishes == Init => IInv
BY DEF Init, IInv, Progress, Fresh, PC, Exiting, StopOf!Armed

LEMMA EntryPreserves ==
  ASSUME IInv,
         \/ EntryOrder("sellShort", "SHORT", "buyHedge")
         \/ EntryOrder("buyHedge", "HEDGE", "form")
  PROVE  IInv'
<1>1. CASE EntryOrder("sellShort", "SHORT", "buyHedge")
  BY <1>1, Nets DEF EntryOrder, IInv, Progress, Fresh, Open, Done, PC, Exiting, Session, Group
<1>2. CASE EntryOrder("buyHedge", "HEDGE", "form")
  BY <1>2, Nets DEF EntryOrder, IInv, Progress, Fresh, Open, Done, PC, Exiting, Session, Group
<1> QED BY <1>1, <1>2

LEMMA ExitPreserves ==
  ASSUME IInv,
         \/ ExitOrder("exitShort", "SHORT", "exitHedge")
         \/ ExitOrder("exitHedge", "HEDGE", "closeGroup")
  PROVE  IInv'
<1> USE DEF ExitOrder, Goto, IInv, Progress, Open, PC, Exiting, Session, Group
<1>1. CASE ExitOrder("exitShort", "SHORT", "exitHedge")
  BY <1>1, RoundTrips, Nets
<1>2. CASE ExitOrder("exitHedge", "HEDGE", "closeGroup")
  BY <1>2, RoundTrips, Nets
<1> QED BY <1>1, <1>2

LEMMA CloseGroupPreserves ==
  ASSUME IInv, CloseGroup
  PROVE  IInv'
BY DEF CloseGroup, GroupAfterExit, StopOf!Close, Goto, IInv, Progress, Done, Fresh, Open, PC, Exiting,
       Session, Books

(* What a tick does to an armed stop: the exit is called when it triggers. *)
LEMMA TickPreserves ==
  ASSUME IInv, ProcessTick
  PROVE  IInv'
<1> DEFINE tick == Head(queue)
<1>1. /\ pc = "drain" /\ UNCHANGED <<active, torn, net, trades>>
      /\ \/ UNCHANGED <<stop, pc, caller>>
         \/ /\ active
            /\ StopOf!Update(tick.ltp, tick.time)
            /\ ExitOnEvent(stop'.state = "TRIGGERED"
                             /\ ~StopOf!Raises(stop, tick.ltp, tick.time))
  BY DEF ProcessTick, Books
<1>2. CASE UNCHANGED <<stop, pc, caller>>
  BY <1>1, <1>2 DEF IInv, Progress, Fresh, Open, Done
<1>3. CASE /\ active
           /\ StopOf!Update(tick.ltp, tick.time)
           /\ ExitOnEvent(stop'.state = "TRIGGERED"
                            /\ ~StopOf!Raises(stop, tick.ltp, tick.time))
  <2>1. stop.state = "ARMED" /\ "state" \in DOMAIN stop
    BY <1>1, <1>3 DEF IInv
  <2>2. /\ "state" \in DOMAIN stop'
        /\ \/ stop'.state = "TRIGGERED" /\ ~StopOf!Raises(stop, tick.ltp, tick.time)
           \/ stop'.state = "ARMED"
    BY <1>3, <2>1 DEF StopOf!Update, StopOf!Trigger, StopOf!Hold, StopOf!Ignore
  <2>3. \/ pc' = "exitShort" /\ caller' = "drain"
        \/ stop'.state = "ARMED" /\ pc' = "drain" /\ caller' = caller
    BY <1>1, <1>3, <2>2 DEF ExitOnEvent, CallExit
  <2> HIDE DEF tick
  <2> QED BY <1>1, <1>3, <2>2, <2>3 DEF IInv, Progress, Fresh, Open, Done, PC, Exiting
<1> QED BY <1>1, <1>2, <1>3

LEMMA NextPreserves == IInv /\ [Next]_vars => IInv'
<1> SUFFICES ASSUME IInv, [Next]_vars PROVE IInv'
  OBVIOUS
<1> USE DEF IInv, Progress, Fresh, Open, Done, PC, Exiting, Session, Group, Books, Goto
<1>1. CASE Begin
  BY <1>1 DEF Begin
<1>2. CASE FormGroup
  BY <1>2 DEF FormGroup, StopOf!Armed
<1>3. CASE BeginIteration \/ Drained
  BY <1>3 DEF BeginIteration, Drained
<1>4. CASE CheckClock
  BY <1>4 DEF CheckClock, AfterIteration, CallExit
<1>5. CASE Unwind
  BY <1>5 DEF Unwind, BetweenOrders, InFinally, Ended
<1>6. CASE Abandon
  BY <1>6 DEF Abandon, BetweenOrders, InFinally
<1>7. CASE Finally
  BY <1>7 DEF Finally, CallExit
<1>8. CASE Seal
  BY <1>8 DEF Seal
<1>9. CASE ClockAdvances
  BY <1>9 DEF ClockAdvances
<1>10. ASSUME NEW tick \in Tick, TickArrives(tick) PROVE IInv'
  BY <1>10 DEF TickArrives
<1>11. CASE UNCHANGED vars
  BY <1>11 DEF vars
<1> QED BY <1>1, <1>2, <1>3, <1>4, <1>5, <1>6, <1>7, <1>8, <1>9, <1>10, <1>11,
           EntryPreserves, ExitPreserves, CloseGroupPreserves, TickPreserves
        DEF Next, Main

THEOREM Inductive == Spec => []IInv
<1>1. Init => IInv
  BY InitEstablishes
<1>2. IInv /\ [Next]_vars => IInv'
  BY NextPreserves
<1> QED BY <1>1, <1>2, PTL DEF Spec

(* The group and the broker agree at every point of an untorn session.     *)
THEOREM BooksAgreeAlways == Spec => []BooksAgree
<1>1. IInv => BooksAgree
  <2>1. <<"SHORT", "HEDGE">> # <<>>
    OBVIOUS
  <2> QED BY <2>1 DEF IInv, BooksAgree, Progress, Fresh, Open, Done, PC, Exiting
<1> QED BY <1>1, Inductive, PTL

(* generate_sealed_dossier runs over no open position unless run() was     *)
(* torn between two orders or an exit was refused.                         *)
THEOREM SealedFlatAlways == Spec => []SealedFlatUnlessTorn
<1>1. IInv => SealedFlatUnlessTorn
  BY DEF IInv, SealedFlatUnlessTorn, Progress, Fresh, Done
<1> QED BY <1>1, Inductive, PTL

(* A breach leaves process_incoming_ticks only through execute_paper_exit. *)
THEOREM BreachExits == Spec => []NoTriggeredPosition
<1>1. IInv => NoTriggeredPosition
  BY DEF IInv, NoTriggeredPosition
<1> QED BY <1>1, Inductive, PTL

-----------------------------------------------------------------------------
(* Types, torn sessions included.                                          *)

Data ==
  /\ clock \in Times /\ now \in Times /\ ticks \in 0 .. MaxTicks
  /\ queue \in Seq(Tick)
  /\ latest \in [Contract -> {<<>>} \cup {<<tick>> : tick \in Tick}]
  /\ active \in BOOLEAN /\ torn \in BOOLEAN
  /\ stop \in StopOf!Stop
  /\ trades \in Seq(Contract)

(* A group is left by one pass over its legs.  A pass that run() unwound   *)
(* from is made again in "finally", over legs already left: that second    *)
(* pass, whose caller is "seal", is the only one that can turn a position, *)
(* and it ends the session.                                                *)
Halfway == \A c \in Contract : net[c] \in {0, Opened[c]}

NetInv ==
  /\ net \in [Contract -> Int]
  /\ \A c \in Contract : net[c] \in {-Opened[c], 0, Opened[c]}
  /\ pc \in {"wait", "sellShort"} => net = Flat
  /\ pc = "buyHedge" => net["SHORT"] = Opened["SHORT"] /\ net["HEDGE"] = 0
  /\ pc = "form" \/ (pc \in {"loop", "drain", "check"} /\ active) => net = Opened
  /\ pc = "exitShort" /\ caller # "seal" => net = Opened
  /\ pc = "exitHedge" /\ caller # "seal" => net["HEDGE"] = Opened["HEDGE"]
  /\ pc = "exitHedge" => net["HEDGE"] \in {0, Opened["HEDGE"]}
  /\ pc \notin {"exitHedge", "closeGroup", "seal", "sealed", "dead"} \/ caller # "seal" => Halfway

LEMMA Parameters ==
  /\ \A entry \in Entries : entry \in Nat \ {0}
  /\ \A price \in Prices : price \in Nat
  /\ \A time \in Times : time \in Nat
  /\ Gap \in Nat \ {0} /\ Step \in Nat \ {0}
BY RunnerAssumption, SMT

LEMMA ArmedTyped ==
  ASSUME NEW entry \in Nat \ {0}, NEW time \in Times
  PROVE  StopOf!Armed("SELL", TRUE, entry, time) \in StopOf!Stop
<1>1. time \in Nat /\ Gap \in Nat
  BY Parameters
<1>2. StopOf!Greater(0, StopOf!Behind("SELL", entry, Gap)) \in Int
  BY <1>1 DEF StopOf!Greater, StopOf!Behind
<1> QED BY <1>1, <1>2 DEF StopOf!Armed, StopOf!Stop

(* Every tick leaves the stop a stop, whichever way its ties fall.         *)
LEMMA UpdateTyped ==
  ASSUME stop \in StopOf!Stop, NEW price \in Nat, NEW time \in Times,
         StopOf!Update(price, time)
  PROVE  stop' \in StopOf!Stop
<1>1. /\ time \in Nat /\ Gap \in Int /\ Step \in Nat \ {0}
      /\ stop.entry \in Nat \ {0} /\ stop.peak \in Nat \ {0} /\ stop.current \in Int
  BY Parameters DEF StopOf!Stop
<1>2. CASE StopOf!Trigger(price, time)
  <2>1. price \in Nat \ {0}
    BY <1>2 DEF StopOf!Trigger, StopOf!Raises
  <2>2. stop' = [stop EXCEPT !.state = "TRIGGERED", !.price = price, !.time = time]
    BY <1>2 DEF StopOf!Trigger
  <2> QED BY <1>1, <2>1, <2>2 DEF StopOf!Stop
<1>3. CASE StopOf!Hold(price, time)
  <2> DEFINE peak == StopOf!NewPeak(stop, price)
             gain == StopOf!Gain(stop.side, stop.entry, peak)
  <2>1. price \in Nat \ {0}
    BY <1>3 DEF StopOf!Hold, StopOf!Raises
  <2>2. peak \in Nat \ {0}
    BY <1>1, <2>1 DEF StopOf!NewPeak
  <2> PICK n \in StopOf!StepsTaken(stop, peak) :
        stop' = [stop EXCEPT !.current = StopOf!Ratcheted(stop, n), !.peak = peak,
                             !.price = price, !.time = time]
    BY <1>3 DEF StopOf!Hold
  <2>3. gain \in Int
    BY <1>1, <2>2 DEF StopOf!Gain
  <2>4. n = 0 \/ n = gain \div Step \/ n = (gain \div Step) - 1
    BY DEF StopOf!StepsTaken
  <2> HIDE DEF gain, peak
  <2>5. gain \div Step \in Int
    BY <1>1, <2>3
  <2>6. n \in Int
    BY <2>4, <2>5
  <2> DEFINE level == StopOf!Ratcheted(stop, n)
  <2>7. level \in Int
    <3>1. n * Step \in Int
      BY <1>1, <2>6
    <3> QED BY <1>1, <3>1 DEF StopOf!Ratcheted, StopOf!Candidate, StopOf!Behind
  <2>8. stop' = [stop EXCEPT !.current = level, !.peak = peak, !.price = price, !.time = time]
    OBVIOUS
  <2> HIDE DEF level
  <2> DEFINE moved == [stop EXCEPT !.current = level]
             risen == [moved EXCEPT !.peak = peak]
             priced == [risen EXCEPT !.price = price]
  <2>9. stop' = [priced EXCEPT !.time = time]
    BY <2>8, Zenon
  <2>10. moved \in StopOf!Stop
    BY <2>7 DEF StopOf!Stop
  <2> HIDE DEF moved
  <2>11. risen \in StopOf!Stop
    BY <2>2, <2>10 DEF StopOf!Stop
  <2> HIDE DEF risen
  <2>12. priced \in StopOf!Stop
    BY <2>1, <2>11 DEF StopOf!Stop
  <2> HIDE DEF priced
  <2> QED BY <1>1, <2>9, <2>12 DEF StopOf!Stop
<1>4. CASE StopOf!Ignore(price, time)
  BY <1>4 DEF StopOf!Ignore
<1> QED BY <1>2, <1>3, <1>4 DEF StopOf!Update

LEMMA ProcessTickTyped ==
  ASSUME Data, ProcessTick
  PROVE  Data'
<1> DEFINE tick == Head(queue)
<1>1. tick \in Tick /\ Tail(queue) \in Seq(Tick)
  BY HeadTailProperties DEF Data, ProcessTick
<1>2. tick.symbol \in Contract /\ tick.ltp \in Nat /\ tick.time \in Times
  <2> HIDE DEF tick
  <2>1. tick.symbol \in Contract /\ tick.ltp \in Prices /\ tick.time \in Times
    BY <1>1, Zenon DEF Tick
  <2> QED BY <2>1, Parameters, Zenon
<1>3. /\ UNCHANGED <<clock, now, ticks, active, torn, trades>>
      /\ queue' = Tail(queue)
      /\ latest' = [latest EXCEPT ![tick.symbol] = <<tick>>]
      /\ StopOf!Update(tick.ltp, tick.time) \/ UNCHANGED stop
  BY DEF ProcessTick, Books
<1> HIDE DEF tick
<1>4. latest' \in [Contract -> {<<>>} \cup {<<t>> : t \in Tick}]
  BY <1>1, <1>2, <1>3 DEF Data
<1>5. stop' \in StopOf!Stop
  BY <1>2, <1>3, UpdateTyped DEF Data
<1> QED BY <1>1, <1>3, <1>4, <1>5 DEF Data

LEMMA NextTyped ==
  ASSUME Data, [Next]_vars
  PROVE  Data'
<1> USE DEF Data, Session, Group, Books, Goto
<1>1. CASE Begin
  BY <1>1 DEF Begin
<1>2. ASSUME NEW here, NEW contract, NEW next, EntryOrder(here, contract, next)
      PROVE  Data'
  <2>1. UNCHANGED <<clock, now, ticks, queue, latest, active, stop, trades>>
    BY <1>2 DEF EntryOrder
  <2>2. torn' \in BOOLEAN
    BY <1>2, Zenon DEF EntryOrder
  <2> QED BY <2>1, <2>2
<1>3. CASE FormGroup
  <2>1. stop.entry \in Nat \ {0}
    BY DEF StopOf!Stop
  <2>2. stop' \in StopOf!Stop
    BY <1>3, <2>1, ArmedTyped DEF FormGroup
  <2> QED BY <1>3, <2>2 DEF FormGroup
<1>4. CASE BeginIteration \/ Drained \/ CheckClock \/ Finally \/ Seal
  BY <1>4 DEF BeginIteration, Drained, CheckClock, Finally, Seal
<1>5. CASE ProcessTick
  BY <1>5, ProcessTickTyped
<1>6. ASSUME NEW here, NEW contract \in Contract, NEW next, ExitOrder(here, contract, next)
      PROVE  Data'
  <2>1. Append(trades, contract) \in Seq(Contract)
    BY AppendProperties
  <2>2. /\ UNCHANGED <<clock, now, ticks, queue, latest, active, stop>>
        /\ trades' = Append(trades, contract) /\ torn' \in BOOLEAN
    BY <1>6 DEF ExitOrder
  <2> QED BY <2>1, <2>2
<1>7. CASE CloseGroup
  <2>1. stop' \in StopOf!Stop
    BY <1>7 DEF CloseGroup, StopOf!Close, StopOf!Stop
  <2> QED BY <1>7, <2>1 DEF CloseGroup, GroupAfterExit
<1>8. CASE Unwind \/ Abandon
  <2>1. UNCHANGED <<clock, now, ticks, queue, latest, active, stop, trades>>
    BY <1>8 DEF Unwind, Abandon
  <2>2. torn' \in BOOLEAN
    BY <1>8, Zenon DEF Unwind, Abandon
  <2> QED BY <2>1, <2>2
<1>9. CASE ClockAdvances
  BY <1>9 DEF ClockAdvances
<1>10. ASSUME NEW tick \in Tick, TickArrives(tick)
       PROVE  Data'
  <2>1. Append(queue, tick) \in Seq(Tick)
    BY AppendProperties
  <2>2. ticks' \in 0 .. MaxTicks
    BY <1>10, RunnerAssumption DEF TickArrives
  <2> QED BY <1>10, <2>1, <2>2 DEF TickArrives
<1>11. CASE UNCHANGED vars
  BY <1>11 DEF vars
<1>12. "SHORT" \in Contract /\ "HEDGE" \in Contract
  BY DEF Contract
<1> QED BY <1>1, <1>2, <1>3, <1>4, <1>5, <1>6, <1>7, <1>8, <1>9, <1>10, <1>11, <1>12, Zenon
        DEF Next, Main

LEMMA NetPreserved ==
  ASSUME IInv, Data, NetInv, [Next]_vars
  PROVE  NetInv'
<1> USE DEF IInv, NetInv, Halfway, PC, Exiting, Contract, Flat, Opened, Data,
            Session, Group, Books, Goto
<1>1. CASE Begin
  BY <1>1 DEF Begin
<1>2. CASE EntryOrder("sellShort", "SHORT", "buyHedge")
  BY <1>2 DEF EntryOrder
<1>3. CASE EntryOrder("buyHedge", "HEDGE", "form")
  BY <1>3 DEF EntryOrder
<1>4. CASE FormGroup
  BY <1>4 DEF FormGroup
<1>5. CASE BeginIteration \/ Drained
  BY <1>5 DEF BeginIteration, Drained
<1>6. CASE CheckClock
  BY <1>6 DEF CheckClock, AfterIteration, CallExit
<1>7. CASE ProcessTick
  <2>1. /\ pc = "drain" /\ UNCHANGED <<net, active>>
        /\ UNCHANGED <<pc, caller>> \/ (active /\ CallExit("drain"))
    BY <1>7 DEF ProcessTick, ExitOnEvent
  <2> QED BY <2>1 DEF CallExit
<1>8. CASE ExitOrder("exitShort", "SHORT", "exitHedge")
  BY <1>8 DEF ExitOrder
<1>9. CASE ExitOrder("exitHedge", "HEDGE", "closeGroup")
  BY <1>9 DEF ExitOrder
<1>10. CASE CloseGroup
  BY <1>10 DEF CloseGroup, GroupAfterExit
<1>11. CASE Finally
  BY <1>11 DEF Finally, CallExit
<1>12. CASE Seal
  BY <1>12 DEF Seal
<1>13. CASE Unwind
  BY <1>13 DEF Unwind, InFinally, Ended
<1>14. CASE Abandon
  BY <1>14 DEF Abandon, InFinally
<1>15. CASE ClockAdvances
  BY <1>15 DEF ClockAdvances
<1>16. ASSUME NEW tick \in Tick, TickArrives(tick)
       PROVE  NetInv'
  BY <1>16 DEF TickArrives
<1>17. CASE UNCHANGED vars
  BY <1>17 DEF vars
<1> QED BY <1>1, <1>2, <1>3, <1>4, <1>5, <1>6, <1>7, <1>8, <1>9, <1>10, <1>11, <1>12, <1>13,
           <1>14, <1>15, <1>16, <1>17, Zenon
        DEF Next, Main

LEMMA InitTyped ==
  ASSUME Init
  PROVE  Data /\ NetInv
<1>1. clock \in Times /\ now \in Times /\ 0 \in 0 .. MaxTicks
  BY RunnerAssumption DEF Init
<1>2. stop \in StopOf!Stop
  <2>1. PICK entry \in Entries : stop = StopOf!Armed("SELL", TRUE, entry, clock)
    BY Zenon DEF Init
  <2>2. entry \in Nat \ {0}
    BY Parameters, Zenon
  <2> QED BY <1>1, <2>1, <2>2, ArmedTyped, Zenon
<1>3. latest \in [Contract -> {<<>>} \cup {<<tick>> : tick \in Tick}]
  BY DEF Init
<1>4. queue \in Seq(Tick) /\ trades \in Seq(Contract)
  BY EmptySeq DEF Init
<1>5. Data
  BY <1>1, <1>2, <1>3, <1>4 DEF Init, Data
<1>6. NetInv
  BY DEF Init, NetInv, Halfway, Flat, Opened, Contract, Exiting
<1> QED BY <1>5, <1>6

(* Every variable keeps its type in every session, the torn ones included: *)
(* whatever raises between two orders and however often the exit is called *)
(* again, each leg is open, flat, or left once too often, never more.      *)
THEOREM TypeCorrect == Spec => []TypeOK
<1>1. Init => Data /\ NetInv
  BY InitTyped
<1>2. IInv /\ Data /\ NetInv /\ [Next]_vars => Data' /\ NetInv'
  BY NextTyped, NetPreserved
<1>3. IInv /\ Data /\ NetInv => TypeOK
  BY DEF IInv, Data, NetInv, TypeOK
<1> QED BY <1>1, <1>2, <1>3, Inductive, PTL DEF Spec
=============================================================================
