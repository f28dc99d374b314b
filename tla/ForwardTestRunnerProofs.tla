------------------------ MODULE ForwardTestRunnerProofs -----------------------
(***************************************************************************)
(* Safety of a forward-testing session for every account, quantity, price, *)
(* limit and number of ticks and Ctrl+Cs, in any interleaving of the three *)
(* frames: the flag and the position, the dossier, the breaker.            *)
(***************************************************************************)
EXTENDS ForwardTestRunner, TLAPS

-----------------------------------------------------------------------------
(* The inductive invariant.                                                *)

(* Control.                                                                *)

RetInv ==
  /\ ret["main"] \in {"returned", "loop", "abort", "limits"}
  /\ ret["worker"] \in {"idle", "abort", "limits"}
  /\ ret["handler"] = "idle"

(* Two threads never hold the runner's lock at once. *)
LockInv == Holds("worker") => ~Holds("main") /\ ~Holds("handler")

(* Over a feed there is no worker; else the main thread processes no tick. *)
ModeInv ==
  /\ mode = "feed" => pc["worker"] = "off"
  /\ mode # "feed" => pc["main"] \notin TickSteps \cup {"tick"} /\ ret["main"] = "returned"

(* The handler runs on top of a main frame that Ctrl+C came upon; over a   *)
(* start that has failed it finds nothing to stop.                         *)
HandlerInv ==
  /\ pc["handler"] # "idle" =>
       pc["main"] \in cut /\ pc["main"] \notin {"new", "returned", "raised"}
  /\ pc["main"] = "unready" =>
       pc["handler"] \in {"idle", "stop"} /\ status = "FAILED" /\ ~running

Control == RetInv /\ LockInv /\ ModeInv /\ HandlerInv

(* Data.                                                                   *)

(* Until run() is under way nothing has been traded. *)
EarlyInv ==
  /\ pc["main"] \in {"new"} \cup StartSteps =>
       /\ ~flag /\ account.qty = 0 /\ trades = 0 /\ recorded = 0 /\ lost = 0 /\ ~running
       /\ pc["worker"] \in {"off", "idle", "tick"}
       /\ dossier # NoFile => dossier.trades = 0 /\ dossier.qty = 0
  /\ pc["main"] \in {"new", "subscribe"} => pc["worker"] = "off" /\ ~feeding
  /\ pc["main"] \in {"new", "subscribe", "connect", "unready"}
       /\ cut \cap {"subscribe", "connect"} = {} => dossier = NoFile

(* A session whose status is still STARTING is being started, or its       *)
(* adapter refused to subscribe, and nothing has failed in it.             *)
StartInv ==
  status = "STARTING" =>
    /\ ~failed
    /\ \/ pc["main"] = "new"
       \/ pc["main"] \in StartSteps /\ handler = "session"
       \/ pc["main"] = "raised" /\ pc["worker"] = "off" /\ ~feeding

(* Once a session is stopped, or stopping, no tick is accepted. *)
StopInv ==
  /\ \A f \in Frame : pc[f] \in StopSteps => ~running /\ status # "STARTING"
  /\ status \in Final => ~running

Midway == {"aggregate", "bar", "decide", "submit", "record"}

(* A sealed session trades no more, Ctrl+C on top of a bar aside. *)
QuietInv ==
  status \in Final /\ dossier # NoFile /\ cut \cap Midway = {} =>
    \A f \in Frame : pc[f] \notin Midway

Clean == ~estranged /\ cut \cap {"decide", "submit", "killed"} = {}

Signalled == {"decide", "submit"}

(* Between the signal and the fill the flag is ahead of the position. *)
FlagInv ==
  Clean =>
    account.qty = IF flag <=> pc["main"] \in Signalled \/ pc["worker"] \in Signalled
                  THEN 0 ELSE Qty

TradesInv ==
  "record" \notin cut =>
    \/ mode = "feed" /\ pc["main"] = "raised"
    \/ trades = IF "record" \in {pc["main"], pc["worker"]}
                THEN recorded + lost + 1 ELSE recorded + lost

FailInv ==
  /\ \A f \in Frame : wasFailed[f] => failed
  /\ status = "FAILED" => failed \/ pc["main"] \in {"unready", "raised"}
  /\ dossier.verdict = "FAILED" => failed
  /\ \A f \in Frame : pc[f] \in StopSteps /\ failed /\ mode # "feed" => wasFailed[f]

BreakerInv ==
  \A f \in Frame : pc[f] = "submit" /\ risk.breaker => PureClosing(account, Side, Qty)

IInv ==
  /\ TypeOK /\ Control /\ EarlyInv /\ StartInv /\ StopInv /\ QuietInv /\ FlagInv
  /\ TradesInv /\ DossierComplete /\ FailInv /\ VerdictIsTrue /\ BreakerInv

-----------------------------------------------------------------------------
USE DEF Frame, Thread, TickSteps, StopSteps, StartSteps, PlainLocks, Midway, Final, Signalled, NoFile,
        Goto, CallStop, Back, Outside, Runs, Session, Market, Trading, Records, Signals

(* The account and the risk engine keep their types.                       *)
LEMMA MarkedAccount ==
  ASSUME NEW a \in Account, NEW price \in Prices
  PROVE  Marked(a, price) \in Account /\ Marked(a, price).qty = a.qty
BY ForwardAssumption, SMT DEF Marked, Account

LEMMA FilledAccount ==
  ASSUME NEW a \in Account, NEW side, NEW price \in Int
  PROVE  /\ Filled(a, side, Qty, price) \in Account
         /\ Filled(a, side, Qty, price).qty =
              IF side = "BUY" THEN a.qty + Qty ELSE a.qty - Qty
<1>1. Qty \in Int /\ Fee \in Int
  BY ForwardAssumption, AccountAssumption
<1>2. Sign(side) * Qty = IF side = "BUY" THEN Qty ELSE -Qty
  BY <1>1, SMT DEF Sign
<1>3. Sign(side) * Qty \in Int
  BY <1>1, <1>2, SMT
<1> DEFINE quantity == a.qty + Sign(side) * Qty
           cash == a.cash - Sign(side) * Qty * price - Fee
           moved == [a EXCEPT !.qty = quantity]
<1>4. /\ quantity \in Int /\ cash \in Int
      /\ quantity = IF side = "BUY" THEN a.qty + Qty ELSE a.qty - Qty
  BY <1>1, <1>2, <1>3, SMT DEF Account
<1>5. Filled(a, side, Qty, price) = [moved EXCEPT !.cash = cash]
  BY Zenon DEF Filled
<1> HIDE DEF quantity, cash
<1>6. moved \in Account /\ moved.qty = quantity
  BY <1>4, SMT DEF Account
<1> HIDE DEF moved
<1>7. [moved EXCEPT !.cash = cash] \in Account /\ [moved EXCEPT !.cash = cash].qty = moved.qty
  BY <1>4, <1>6, SMT DEF Account
<1> QED BY <1>4, <1>5, <1>6, <1>7

LEMMA EquityTyped ==
  ASSUME NEW a \in Account
  PROVE  TotalCapital(a) \in Int
BY SMT DEF Account, TotalCapital

LEMMA RiskTyped ==
  ASSUME NEW r \in Risk, NEW equity \in Int
  PROVE  EquityUpdated(r, equity) \in Risk /\ SessionStarted(equity) \in Risk
<1> DEFINE top == Greater(r.sessionPeak, equity)
           breaker == r.breaker \/ Drawdown(top, equity)
<1>1. top \in Int
  BY SMT DEF Greater, Risk
<1>2. breaker \in BOOLEAN
  BY Zenon DEF Drawdown
<1>3. EquityUpdated(r, equity) = [sessionPeak |-> top, breaker |-> breaker]
  BY Zenon DEF EquityUpdated
<1> HIDE DEF top, breaker
<1>4. [sessionPeak |-> top, breaker |-> breaker] \in Risk
  BY <1>1, <1>2, Zenon DEF Risk
<1>5. SessionStarted(equity) \in Risk
  BY Zenon DEF SessionStarted, Risk
<1> QED BY <1>3, <1>4, <1>5

(* What an exception does to the frames: it leaves f, and the handler      *)
(* takes the main frame with it; only over a feed does run() go on to stop.*)
FramesTyped ==
  /\ pc \in [Frame -> PC] /\ pc["handler"] \in {"idle", "stop"} \cup StopSteps
  /\ ret \in [Frame -> PC] /\ wasFailed \in [Frame -> BOOLEAN]

Unwinds(f) ==
  /\ f = "worker" => /\ pc' = [pc EXCEPT !["worker"] = "idle"]
                     /\ ret' = [ret EXCEPT !["worker"] = "idle"]
                     /\ wasFailed' = [wasFailed EXCEPT !["worker"] = FALSE]
                     /\ failed' = failed
  /\ f # "worker" => /\ pc'["worker"] = pc["worker"] /\ pc'["handler"] = "idle"
                     /\ pc'["main"] = IF InTry THEN "stop" ELSE "raised"
                     /\ ret' = [ret EXCEPT !["main"] = "returned"]
                     /\ wasFailed'["worker"] = wasFailed["worker"]
  /\ \A g \in Frame : wasFailed'[g] => wasFailed[g]
  /\ failed => failed'
  /\ failed' => failed \/ mode = "feed"

LEMMA Raised ==
  ASSUME FramesTyped, failed \in BOOLEAN, NEW f \in Frame, Raise(f)
  PROVE  /\ pc' \in [Frame -> PC] /\ ret' \in [Frame -> PC]
         /\ wasFailed' \in [Frame -> BOOLEAN] /\ failed' \in BOOLEAN
         /\ Unwinds(f)
<1> USE DEF FramesTyped, Unwinds
<1>1. CASE f = "worker"
  <2>1. /\ pc' = [pc EXCEPT !["worker"] = "idle"]
        /\ ret' = [ret EXCEPT !["worker"] = "idle"]
        /\ wasFailed' = [wasFailed EXCEPT !["worker"] = FALSE]
        /\ failed' = failed
    BY <1>1 DEF Raise
  <2>2. pc' \in [Frame -> PC] /\ ret' \in [Frame -> PC] /\ wasFailed' \in [Frame -> BOOLEAN]
    BY <2>1 DEF PC
  <2>3. \A g \in Frame : wasFailed'[g] => wasFailed[g]
    BY <2>1
  <2> QED BY <1>1, <2>1, <2>2, <2>3
<1>2. CASE f # "worker"
  <2>1. /\ pc' = [pc EXCEPT !["handler"] = "idle", !["main"] = IF InTry THEN "stop" ELSE "raised"]
        /\ ret' = [ret EXCEPT !["main"] = "returned"]
        /\ wasFailed' = [wasFailed EXCEPT ![f] = FALSE, !["main"] = FALSE]
        /\ failed' = (failed \/ InTry)
    BY <1>2 DEF Raise
  <2>2. InTry \in BOOLEAN /\ (InTry => mode = "feed")
    BY DEF InTry
  <2>3. pc' \in [Frame -> PC] /\ ret' \in [Frame -> PC] /\ wasFailed' \in [Frame -> BOOLEAN]
    BY <2>1 DEF PC
  <2>4. pc'["handler"] = "idle" /\ pc'["main"] = IF InTry THEN "stop" ELSE "raised"
    BY <2>1
  <2>5. pc'["worker"] = pc["worker"] /\ wasFailed'["worker"] = wasFailed["worker"]
    BY <1>2, <2>1
  <2>6. \A g \in Frame : wasFailed'[g] => wasFailed[g]
    BY <2>1
  <2>7. failed' \in BOOLEAN /\ (failed => failed') /\ (failed' => failed \/ mode = "feed")
    BY <2>1, <2>2
  <2> QED BY <1>2, <2>1, <2>3, <2>4, <2>5, <2>6, <2>7
<1> QED BY <1>1, <1>2

-----------------------------------------------------------------------------
(* Every action preserves the invariant, conjunct by conjunct: what the    *)
(* other thread may not do meanwhile is LockInv, what the main frame waits *)
(* at under a handler is HandlerInv, and a session that is over accepts no *)
(* tick by StopInv.                                                        *)

LEMMA StartPreserves ==
  ASSUME IInv, Start
  PROVE  IInv'
<1> USE DEF IInv, Control, Start
<1>0. /\ pc \in [Frame -> PC] /\ pc["handler"] \in {"idle", "stop"} \cup StopSteps
      /\ ret \in [Frame -> PC] /\ wasFailed \in [Frame -> BOOLEAN]
  BY DEF TypeOK
<1>1. TypeOK'
  <2>1. /\ pc' \in [Frame -> PC] /\ pc'["handler"] \in {"idle", "stop"} \cup StopSteps
        /\ ret' \in [Frame -> PC] /\ wasFailed' \in [Frame -> BOOLEAN] /\ failed' \in BOOLEAN
    BY <1>0 DEF PC, RetInv, TypeOK
  <2>2. /\ mode' \in Modes /\ handler' \in {"original", "session"} /\ prevKnown' \in BOOLEAN
        /\ cut' \in SUBSET (PC \cup {"killed"} \cup PlainLocks) /\ presses' \in Nat
        /\ held' \in PlainLocks \cup {"none"}
        /\ status' \in {"STARTING", "RUNNING", "STOPPING"} \cup Final
        /\ running' \in BOOLEAN /\ feeding' \in BOOLEAN
    BY <1>0 DEF TypeOK
  <2>3. /\ bar' \in {"none", "good", "bad"} /\ ticks' \in Nat /\ bars' \in Nat
        /\ dated' \in BOOLEAN /\ flag' \in BOOLEAN
    BY <1>0 DEF TypeOK
  <2>4. account' \in Account /\ risk' \in Risk /\ trades' \in Nat
    BY <1>0 DEF TypeOK
  <2>5. /\ estranged' \in BOOLEAN /\ lost' \in Nat /\ unsaved' \in BOOLEAN /\ recorded' \in Nat
        /\ dossier' \in [trades : Int, qty : Int, verdict : Final \cup {"none"}]
    BY <1>0 DEF TypeOK
  <2> QED BY <2>1, <2>2, <2>3, <2>4, <2>5 DEF TypeOK
<1>2. RetInv'
  BY <1>0 DEF RetInv
<1>3. LockInv'
  BY <1>0 DEF LockInv, Holds, Nested, MayLock, EarlyInv
<1>4. ModeInv'
  BY <1>0 DEF ModeInv, EarlyInv
<1>5. HandlerInv'
  BY <1>0 DEF HandlerInv
<1>6. EarlyInv'
  BY <1>0 DEF EarlyInv
<1>7. StartInv'
  BY <1>0 DEF StartInv, EarlyInv
<1>8. StopInv'
  BY <1>0 DEF StopInv
<1>9. QuietInv'
  BY <1>0 DEF QuietInv
<1>10. FlagInv'
  BY <1>0 DEF FlagInv, Clean, EarlyInv
<1>11. TradesInv'
  BY <1>0 DEF TradesInv, EarlyInv
<1>12. DossierComplete'
  BY <1>0 DEF DossierComplete
<1>13. FailInv'
  BY <1>0 DEF FailInv
<1>14. VerdictIsTrue'
  BY <1>0 DEF VerdictIsTrue
<1>15. BreakerInv'
  BY <1>0 DEF BreakerInv, Side, PureClosing, EarlyInv
<1> QED BY <1>1, <1>2, <1>3, <1>4, <1>5, <1>6, <1>7, <1>8, <1>9, <1>10, <1>11, <1>12, <1>13, <1>14, <1>15

LEMMA SubscribePreserves ==
  ASSUME IInv, Subscribe
  PROVE  IInv'
<1> USE DEF IInv, Control, Subscribe
<1>0. /\ pc \in [Frame -> PC] /\ pc["handler"] \in {"idle", "stop"} \cup StopSteps
      /\ ret \in [Frame -> PC] /\ wasFailed \in [Frame -> BOOLEAN]
  BY DEF TypeOK
<1>1. TypeOK'
  <2>1. /\ pc' \in [Frame -> PC] /\ pc'["handler"] \in {"idle", "stop"} \cup StopSteps
        /\ ret' \in [Frame -> PC] /\ wasFailed' \in [Frame -> BOOLEAN] /\ failed' \in BOOLEAN
    BY <1>0 DEF PC, RetInv, TypeOK
  <2>2. /\ mode' \in Modes /\ handler' \in {"original", "session"} /\ prevKnown' \in BOOLEAN
        /\ cut' \in SUBSET (PC \cup {"killed"} \cup PlainLocks) /\ presses' \in Nat
        /\ held' \in PlainLocks \cup {"none"}
        /\ status' \in {"STARTING", "RUNNING", "STOPPING"} \cup Final
        /\ running' \in BOOLEAN /\ feeding' \in BOOLEAN
    BY <1>0 DEF TypeOK
  <2>3. /\ bar' \in {"none", "good", "bad"} /\ ticks' \in Nat /\ bars' \in Nat
        /\ dated' \in BOOLEAN /\ flag' \in BOOLEAN
    BY <1>0 DEF TypeOK
  <2>4. account' \in Account /\ risk' \in Risk /\ trades' \in Nat
    BY <1>0 DEF TypeOK
  <2>5. /\ estranged' \in BOOLEAN /\ lost' \in Nat /\ unsaved' \in BOOLEAN /\ recorded' \in Nat
        /\ dossier' \in [trades : Int, qty : Int, verdict : Final \cup {"none"}]
    BY <1>0 DEF TypeOK
  <2> QED BY <2>1, <2>2, <2>3, <2>4, <2>5 DEF TypeOK
<1>2. RetInv'
  BY <1>0 DEF RetInv
<1>3. LockInv'
  BY <1>0 DEF LockInv, Holds, Nested, MayLock, EarlyInv
<1>4. ModeInv'
  BY <1>0 DEF ModeInv, EarlyInv
<1>5. HandlerInv'
  BY <1>0 DEF HandlerInv
<1>6. EarlyInv'
  BY <1>0 DEF EarlyInv
<1>7. StartInv'
  BY <1>0 DEF StartInv, EarlyInv
<1>8. StopInv'
  BY <1>0 DEF StopInv
<1>9. QuietInv'
  BY <1>0 DEF QuietInv
<1>10. FlagInv'
  BY <1>0 DEF FlagInv, Clean, EarlyInv
<1>11. TradesInv'
  BY <1>0 DEF TradesInv, EarlyInv
<1>12. DossierComplete'
  BY <1>0 DEF DossierComplete
<1>13. FailInv'
  BY <1>0 DEF FailInv
<1>14. VerdictIsTrue'
  BY <1>0 DEF VerdictIsTrue
<1>15. BreakerInv'
  BY <1>0 DEF BreakerInv, Side, PureClosing, EarlyInv
<1> QED BY <1>1, <1>2, <1>3, <1>4, <1>5, <1>6, <1>7, <1>8, <1>9, <1>10, <1>11, <1>12, <1>13, <1>14, <1>15

LEMMA ReadyPreserves ==
  ASSUME IInv, Ready
  PROVE  IInv'
<1> USE DEF IInv, Control, Ready
<1>0. /\ pc \in [Frame -> PC] /\ pc["handler"] \in {"idle", "stop"} \cup StopSteps
      /\ ret \in [Frame -> PC] /\ wasFailed \in [Frame -> BOOLEAN]
  BY DEF TypeOK
<1>1. TypeOK'
  <2>1. /\ pc' \in [Frame -> PC] /\ pc'["handler"] \in {"idle", "stop"} \cup StopSteps
        /\ ret' \in [Frame -> PC] /\ wasFailed' \in [Frame -> BOOLEAN] /\ failed' \in BOOLEAN
    BY <1>0 DEF PC, RetInv, TypeOK
  <2>2. /\ mode' \in Modes /\ handler' \in {"original", "session"} /\ prevKnown' \in BOOLEAN
        /\ cut' \in SUBSET (PC \cup {"killed"} \cup PlainLocks) /\ presses' \in Nat
        /\ held' \in PlainLocks \cup {"none"}
        /\ status' \in {"STARTING", "RUNNING", "STOPPING"} \cup Final
        /\ running' \in BOOLEAN /\ feeding' \in BOOLEAN
    BY <1>0 DEF TypeOK
  <2>3. /\ bar' \in {"none", "good", "bad"} /\ ticks' \in Nat /\ bars' \in Nat
        /\ dated' \in BOOLEAN /\ flag' \in BOOLEAN
    BY <1>0 DEF TypeOK
  <2>4. account' \in Account /\ risk' \in Risk /\ trades' \in Nat
    BY <1>0 DEF TypeOK
  <2>5. /\ estranged' \in BOOLEAN /\ lost' \in Nat /\ unsaved' \in BOOLEAN /\ recorded' \in Nat
        /\ dossier' \in [trades : Int, qty : Int, verdict : Final \cup {"none"}]
    BY <1>0 DEF TypeOK
  <2> QED BY <2>1, <2>2, <2>3, <2>4, <2>5 DEF TypeOK
<1>2. RetInv'
  BY <1>0 DEF RetInv
<1>3. LockInv'
  BY <1>0 DEF LockInv, Holds, Nested, MayLock
<1>4. ModeInv'
  BY <1>0 DEF ModeInv
<1>5. HandlerInv'
  BY <1>0 DEF HandlerInv
<1>6. EarlyInv'
  BY <1>0 DEF EarlyInv
<1>7. StartInv'
  BY <1>0 DEF StartInv
<1>8. StopInv'
  BY <1>0 DEF StopInv
<1>9. QuietInv'
  BY <1>0 DEF QuietInv
<1>10. FlagInv'
  BY <1>0 DEF FlagInv, Clean
<1>11. TradesInv'
  BY <1>0 DEF TradesInv
<1>12. DossierComplete'
  BY <1>0 DEF DossierComplete
<1>13. FailInv'
  BY <1>0 DEF FailInv
<1>14. VerdictIsTrue'
  BY <1>0 DEF VerdictIsTrue
<1>15. BreakerInv'
  BY <1>0 DEF BreakerInv, Side, PureClosing
<1> QED BY <1>1, <1>2, <1>3, <1>4, <1>5, <1>6, <1>7, <1>8, <1>9, <1>10, <1>11, <1>12, <1>13, <1>14, <1>15

LEMMA NotReadyPreserves ==
  ASSUME IInv, NotReady
  PROVE  IInv'
<1> USE DEF IInv, Control, NotReady
<1>0. /\ pc \in [Frame -> PC] /\ pc["handler"] \in {"idle", "stop"} \cup StopSteps
      /\ ret \in [Frame -> PC] /\ wasFailed \in [Frame -> BOOLEAN]
  BY DEF TypeOK
<1>1. TypeOK'
  <2>1. /\ pc' \in [Frame -> PC] /\ pc'["handler"] \in {"idle", "stop"} \cup StopSteps
        /\ ret' \in [Frame -> PC] /\ wasFailed' \in [Frame -> BOOLEAN] /\ failed' \in BOOLEAN
    BY <1>0 DEF PC, RetInv, TypeOK
  <2>2. /\ mode' \in Modes /\ handler' \in {"original", "session"} /\ prevKnown' \in BOOLEAN
        /\ cut' \in SUBSET (PC \cup {"killed"} \cup PlainLocks) /\ presses' \in Nat
        /\ held' \in PlainLocks \cup {"none"}
        /\ status' \in {"STARTING", "RUNNING", "STOPPING"} \cup Final
        /\ running' \in BOOLEAN /\ feeding' \in BOOLEAN
    BY <1>0 DEF TypeOK
  <2>3. /\ bar' \in {"none", "good", "bad"} /\ ticks' \in Nat /\ bars' \in Nat
        /\ dated' \in BOOLEAN /\ flag' \in BOOLEAN
    BY <1>0 DEF TypeOK
  <2>4. account' \in Account /\ risk' \in Risk /\ trades' \in Nat
    BY <1>0 DEF TypeOK
  <2>5. /\ estranged' \in BOOLEAN /\ lost' \in Nat /\ unsaved' \in BOOLEAN /\ recorded' \in Nat
        /\ dossier' \in [trades : Int, qty : Int, verdict : Final \cup {"none"}]
    BY <1>0 DEF TypeOK
  <2> QED BY <2>1, <2>2, <2>3, <2>4, <2>5 DEF TypeOK
<1>2. RetInv'
  BY <1>0 DEF RetInv
<1>3. LockInv'
  BY <1>0 DEF LockInv, Holds, Nested, MayLock
<1>4. ModeInv'
  BY <1>0 DEF ModeInv
<1>5. HandlerInv'
  BY <1>0 DEF HandlerInv, EarlyInv
<1>6. EarlyInv'
  BY <1>0 DEF EarlyInv
<1>7. StartInv'
  BY <1>0 DEF StartInv
<1>8. StopInv'
  BY <1>0 DEF StopInv, EarlyInv
<1>9. QuietInv'
  BY <1>0 DEF QuietInv, EarlyInv
<1>10. FlagInv'
  BY <1>0 DEF FlagInv, Clean
<1>11. TradesInv'
  BY <1>0 DEF TradesInv
<1>12. DossierComplete'
  BY <1>0 DEF DossierComplete, EarlyInv
<1>13. FailInv'
  BY <1>0 DEF FailInv, EarlyInv
<1>14. VerdictIsTrue'
  BY <1>0 DEF VerdictIsTrue, EarlyInv
<1>15. BreakerInv'
  BY <1>0 DEF BreakerInv, Side, PureClosing
<1> QED BY <1>1, <1>2, <1>3, <1>4, <1>5, <1>6, <1>7, <1>8, <1>9, <1>10, <1>11, <1>12, <1>13, <1>14, <1>15

LEMMA UnreadyPreserves ==
  ASSUME IInv, Unready
  PROVE  IInv'
<1> USE DEF IInv, Control, Unready
<1>0. /\ pc \in [Frame -> PC] /\ pc["handler"] \in {"idle", "stop"} \cup StopSteps
      /\ ret \in [Frame -> PC] /\ wasFailed \in [Frame -> BOOLEAN]
  BY DEF TypeOK
<1>1. TypeOK'
  <2>1. /\ pc' \in [Frame -> PC] /\ pc'["handler"] \in {"idle", "stop"} \cup StopSteps
        /\ ret' \in [Frame -> PC] /\ wasFailed' \in [Frame -> BOOLEAN] /\ failed' \in BOOLEAN
    BY <1>0 DEF PC, RetInv, TypeOK
  <2>2. /\ mode' \in Modes /\ handler' \in {"original", "session"} /\ prevKnown' \in BOOLEAN
        /\ cut' \in SUBSET (PC \cup {"killed"} \cup PlainLocks) /\ presses' \in Nat
        /\ held' \in PlainLocks \cup {"none"}
        /\ status' \in {"STARTING", "RUNNING", "STOPPING"} \cup Final
        /\ running' \in BOOLEAN /\ feeding' \in BOOLEAN
    BY <1>0 DEF TypeOK
  <2>3. /\ bar' \in {"none", "good", "bad"} /\ ticks' \in Nat /\ bars' \in Nat
        /\ dated' \in BOOLEAN /\ flag' \in BOOLEAN
    BY <1>0 DEF TypeOK
  <2>4. account' \in Account /\ risk' \in Risk /\ trades' \in Nat
    BY <1>0 DEF TypeOK
  <2>5. /\ estranged' \in BOOLEAN /\ lost' \in Nat /\ unsaved' \in BOOLEAN /\ recorded' \in Nat
        /\ dossier' \in [trades : Int, qty : Int, verdict : Final \cup {"none"}]
    BY <1>0 DEF TypeOK
  <2> QED BY <2>1, <2>2, <2>3, <2>4, <2>5 DEF TypeOK
<1>2. RetInv'
  BY <1>0 DEF RetInv
<1>3. LockInv'
  BY <1>0 DEF LockInv, Holds, Nested, MayLock
<1>4. ModeInv'
  BY <1>0 DEF ModeInv
<1>5. HandlerInv'
  BY <1>0 DEF HandlerInv
<1>6. EarlyInv'
  BY <1>0 DEF EarlyInv
<1>7. StartInv'
  BY <1>0 DEF StartInv, HandlerInv
<1>8. StopInv'
  BY <1>0 DEF StopInv, EarlyInv
<1>9. QuietInv'
  BY <1>0 DEF QuietInv, EarlyInv
<1>10. FlagInv'
  BY <1>0 DEF FlagInv, Clean
<1>11. TradesInv'
  BY <1>0 DEF TradesInv
<1>12. DossierComplete'
  BY <1>0 DEF DossierComplete, EarlyInv
<1>13. FailInv'
  BY <1>0 DEF FailInv, EarlyInv
<1>14. VerdictIsTrue'
  BY <1>0 DEF VerdictIsTrue, EarlyInv
<1>15. BreakerInv'
  BY <1>0 DEF BreakerInv, Side, PureClosing
<1> QED BY <1>1, <1>2, <1>3, <1>4, <1>5, <1>6, <1>7, <1>8, <1>9, <1>10, <1>11, <1>12, <1>13, <1>14, <1>15

LEMMA RunningPreserves ==
  ASSUME IInv, Running
  PROVE  IInv'
<1> USE DEF IInv, Control, Running
<1>0. /\ pc \in [Frame -> PC] /\ pc["handler"] \in {"idle", "stop"} \cup StopSteps
      /\ ret \in [Frame -> PC] /\ wasFailed \in [Frame -> BOOLEAN]
  BY DEF TypeOK
<1>1. TypeOK'
  <2>1. /\ pc' \in [Frame -> PC] /\ pc'["handler"] \in {"idle", "stop"} \cup StopSteps
        /\ ret' \in [Frame -> PC] /\ wasFailed' \in [Frame -> BOOLEAN] /\ failed' \in BOOLEAN
    BY <1>0 DEF PC, RetInv, TypeOK
  <2>2. /\ mode' \in Modes /\ handler' \in {"original", "session"} /\ prevKnown' \in BOOLEAN
        /\ cut' \in SUBSET (PC \cup {"killed"} \cup PlainLocks) /\ presses' \in Nat
        /\ held' \in PlainLocks \cup {"none"}
        /\ status' \in {"STARTING", "RUNNING", "STOPPING"} \cup Final
        /\ running' \in BOOLEAN /\ feeding' \in BOOLEAN
    BY <1>0 DEF TypeOK
  <2>3. /\ bar' \in {"none", "good", "bad"} /\ ticks' \in Nat /\ bars' \in Nat
        /\ dated' \in BOOLEAN /\ flag' \in BOOLEAN
    BY <1>0 DEF TypeOK
  <2>4. account' \in Account /\ risk' \in Risk /\ trades' \in Nat
    BY <1>0 DEF TypeOK
  <2>5. /\ estranged' \in BOOLEAN /\ lost' \in Nat /\ unsaved' \in BOOLEAN /\ recorded' \in Nat
        /\ dossier' \in [trades : Int, qty : Int, verdict : Final \cup {"none"}]
    BY <1>0 DEF TypeOK
  <2> QED BY <2>1, <2>2, <2>3, <2>4, <2>5 DEF TypeOK
<1>2. RetInv'
  BY <1>0 DEF RetInv
<1>3. LockInv'
  BY <1>0 DEF LockInv, Holds, Nested, MayLock
<1>4. ModeInv'
  BY <1>0 DEF ModeInv
<1>5. HandlerInv'
  BY <1>0 DEF HandlerInv
<1>6. EarlyInv'
  BY <1>0 DEF EarlyInv
<1>7. StartInv'
  BY <1>0 DEF StartInv, EarlyInv
<1>8. StopInv'
  BY <1>0 DEF StopInv, EarlyInv
<1>9. QuietInv'
  BY <1>0 DEF QuietInv
<1>10. FlagInv'
  BY <1>0 DEF FlagInv, Clean, EarlyInv
<1>11. TradesInv'
  BY <1>0 DEF TradesInv, EarlyInv
<1>12. DossierComplete'
  BY <1>0 DEF DossierComplete
<1>13. FailInv'
  BY <1>0 DEF FailInv
<1>14. VerdictIsTrue'
  BY <1>0 DEF VerdictIsTrue
<1>15. BreakerInv'
  BY <1>0 DEF BreakerInv, Side, PureClosing
<1> QED BY <1>1, <1>2, <1>3, <1>4, <1>5, <1>6, <1>7, <1>8, <1>9, <1>10, <1>11, <1>12, <1>13, <1>14, <1>15

LEMMA NextTickPreserves ==
  ASSUME IInv, NextTick
  PROVE  IInv'
<1> USE DEF IInv, Control, NextTick
<1>0. /\ pc \in [Frame -> PC] /\ pc["handler"] \in {"idle", "stop"} \cup StopSteps
      /\ ret \in [Frame -> PC] /\ wasFailed \in [Frame -> BOOLEAN]
  BY DEF TypeOK
<1>1. TypeOK'
  <2>1. /\ pc' \in [Frame -> PC] /\ pc'["handler"] \in {"idle", "stop"} \cup StopSteps
        /\ ret' \in [Frame -> PC] /\ wasFailed' \in [Frame -> BOOLEAN] /\ failed' \in BOOLEAN
    BY <1>0 DEF PC, RetInv, TypeOK
  <2>2. /\ mode' \in Modes /\ handler' \in {"original", "session"} /\ prevKnown' \in BOOLEAN
        /\ cut' \in SUBSET (PC \cup {"killed"} \cup PlainLocks) /\ presses' \in Nat
        /\ held' \in PlainLocks \cup {"none"}
        /\ status' \in {"STARTING", "RUNNING", "STOPPING"} \cup Final
        /\ running' \in BOOLEAN /\ feeding' \in BOOLEAN
    BY <1>0 DEF TypeOK
  <2>3. /\ bar' \in {"none", "good", "bad"} /\ ticks' \in Nat /\ bars' \in Nat
        /\ dated' \in BOOLEAN /\ flag' \in BOOLEAN
    BY <1>0 DEF TypeOK
  <2>4. account' \in Account /\ risk' \in Risk /\ trades' \in Nat
    BY <1>0 DEF TypeOK
  <2>5. /\ estranged' \in BOOLEAN /\ lost' \in Nat /\ unsaved' \in BOOLEAN /\ recorded' \in Nat
        /\ dossier' \in [trades : Int, qty : Int, verdict : Final \cup {"none"}]
    BY <1>0 DEF TypeOK
  <2> QED BY <2>1, <2>2, <2>3, <2>4, <2>5 DEF TypeOK
<1>2. RetInv'
  BY <1>0 DEF RetInv
<1>3. LockInv'
  BY <1>0 DEF LockInv, Holds, Nested, MayLock
<1>4. ModeInv'
  BY <1>0 DEF ModeInv
<1>5. HandlerInv'
  BY <1>0 DEF HandlerInv
<1>6. EarlyInv'
  BY <1>0 DEF EarlyInv
<1>7. StartInv'
  BY <1>0 DEF StartInv
<1>8. StopInv'
  BY <1>0 DEF StopInv
<1>9. QuietInv'
  BY <1>0 DEF QuietInv
<1>10. FlagInv'
  BY <1>0 DEF FlagInv, Clean
<1>11. TradesInv'
  BY <1>0 DEF TradesInv
<1>12. DossierComplete'
  BY <1>0 DEF DossierComplete
<1>13. FailInv'
  BY <1>0 DEF FailInv
<1>14. VerdictIsTrue'
  BY <1>0 DEF VerdictIsTrue
<1>15. BreakerInv'
  BY <1>0 DEF BreakerInv, Side, PureClosing
<1> QED BY <1>1, <1>2, <1>3, <1>4, <1>5, <1>6, <1>7, <1>8, <1>9, <1>10, <1>11, <1>12, <1>13, <1>14, <1>15

LEMMA LeaveLoopPreserves ==
  ASSUME IInv, LeaveLoop
  PROVE  IInv'
<1> USE DEF IInv, Control, LeaveLoop, Over
<1>0. /\ pc \in [Frame -> PC] /\ pc["handler"] \in {"idle", "stop"} \cup StopSteps
      /\ ret \in [Frame -> PC] /\ wasFailed \in [Frame -> BOOLEAN]
  BY DEF TypeOK
<1>1. TypeOK'
  <2>1. /\ pc' \in [Frame -> PC] /\ pc'["handler"] \in {"idle", "stop"} \cup StopSteps
        /\ ret' \in [Frame -> PC] /\ wasFailed' \in [Frame -> BOOLEAN] /\ failed' \in BOOLEAN
    BY <1>0 DEF PC, RetInv, TypeOK
  <2>2. /\ mode' \in Modes /\ handler' \in {"original", "session"} /\ prevKnown' \in BOOLEAN
        /\ cut' \in SUBSET (PC \cup {"killed"} \cup PlainLocks) /\ presses' \in Nat
        /\ held' \in PlainLocks \cup {"none"}
        /\ status' \in {"STARTING", "RUNNING", "STOPPING"} \cup Final
        /\ running' \in BOOLEAN /\ feeding' \in BOOLEAN
    BY <1>0 DEF TypeOK
  <2>3. /\ bar' \in {"none", "good", "bad"} /\ ticks' \in Nat /\ bars' \in Nat
        /\ dated' \in BOOLEAN /\ flag' \in BOOLEAN
    BY <1>0 DEF TypeOK
  <2>4. account' \in Account /\ risk' \in Risk /\ trades' \in Nat
    BY <1>0 DEF TypeOK
  <2>5. /\ estranged' \in BOOLEAN /\ lost' \in Nat /\ unsaved' \in BOOLEAN /\ recorded' \in Nat
        /\ dossier' \in [trades : Int, qty : Int, verdict : Final \cup {"none"}]
    BY <1>0 DEF TypeOK
  <2> QED BY <2>1, <2>2, <2>3, <2>4, <2>5 DEF TypeOK
<1>2. RetInv'
  BY <1>0 DEF RetInv
<1>3. LockInv'
  BY <1>0 DEF LockInv, Holds, Nested, MayLock
<1>4. ModeInv'
  BY <1>0 DEF ModeInv
<1>5. HandlerInv'
  BY <1>0 DEF HandlerInv
<1>6. EarlyInv'
  BY <1>0 DEF EarlyInv
<1>7. StartInv'
  BY <1>0 DEF StartInv
<1>8. StopInv'
  BY <1>0 DEF StopInv
<1>9. QuietInv'
  BY <1>0 DEF QuietInv
<1>10. FlagInv'
  BY <1>0 DEF FlagInv, Clean
<1>11. TradesInv'
  BY <1>0 DEF TradesInv
<1>12. DossierComplete'
  BY <1>0 DEF DossierComplete
<1>13. FailInv'
  BY <1>0 DEF FailInv
<1>14. VerdictIsTrue'
  BY <1>0 DEF VerdictIsTrue
<1>15. BreakerInv'
  BY <1>0 DEF BreakerInv, Side, PureClosing
<1> QED BY <1>1, <1>2, <1>3, <1>4, <1>5, <1>6, <1>7, <1>8, <1>9, <1>10, <1>11, <1>12, <1>13, <1>14, <1>15

LEMMA FeedErrorPreserves ==
  ASSUME IInv, FeedError
  PROVE  IInv'
<1> USE DEF IInv, Control, FeedError, Unwinds
<1>0. /\ pc \in [Frame -> PC] /\ pc["handler"] \in {"idle", "stop"} \cup StopSteps
      /\ ret \in [Frame -> PC] /\ wasFailed \in [Frame -> BOOLEAN]
  BY DEF TypeOK
<1>1. Unwinds("main")
  BY <1>0, Raised DEF FramesTyped, TypeOK
<1>2. TypeOK'
  <2>1. /\ pc' \in [Frame -> PC] /\ pc'["handler"] \in {"idle", "stop"} \cup StopSteps
        /\ ret' \in [Frame -> PC] /\ wasFailed' \in [Frame -> BOOLEAN] /\ failed' \in BOOLEAN
    BY <1>0, <1>1, Raised DEF PC, RetInv, TypeOK, FramesTyped
  <2>2. /\ mode' \in Modes /\ handler' \in {"original", "session"} /\ prevKnown' \in BOOLEAN
        /\ cut' \in SUBSET (PC \cup {"killed"} \cup PlainLocks) /\ presses' \in Nat
        /\ held' \in PlainLocks \cup {"none"}
        /\ status' \in {"STARTING", "RUNNING", "STOPPING"} \cup Final
        /\ running' \in BOOLEAN /\ feeding' \in BOOLEAN
    BY <1>0, <1>1 DEF TypeOK
  <2>3. /\ bar' \in {"none", "good", "bad"} /\ ticks' \in Nat /\ bars' \in Nat
        /\ dated' \in BOOLEAN /\ flag' \in BOOLEAN
    BY <1>0, <1>1 DEF TypeOK
  <2>4. account' \in Account /\ risk' \in Risk /\ trades' \in Nat
    BY <1>0, <1>1 DEF TypeOK
  <2>5. /\ estranged' \in BOOLEAN /\ lost' \in Nat /\ unsaved' \in BOOLEAN /\ recorded' \in Nat
        /\ dossier' \in [trades : Int, qty : Int, verdict : Final \cup {"none"}]
    BY <1>0, <1>1 DEF TypeOK
  <2> QED BY <2>1, <2>2, <2>3, <2>4, <2>5 DEF TypeOK
<1>3. RetInv'
  BY <1>0, <1>1 DEF RetInv
<1>4. LockInv'
  BY <1>0, <1>1 DEF LockInv, Holds, Nested, MayLock
<1>5. ModeInv'
  BY <1>0, <1>1 DEF ModeInv
<1>6. HandlerInv'
  BY <1>0, <1>1 DEF HandlerInv
<1>7. EarlyInv'
  BY <1>0, <1>1 DEF EarlyInv
<1>8. StartInv'
  BY <1>0, <1>1 DEF StartInv
<1>9. StopInv'
  BY <1>0, <1>1 DEF StopInv
<1>10. QuietInv'
  BY <1>0, <1>1 DEF QuietInv
<1>11. FlagInv'
  BY <1>0, <1>1 DEF FlagInv, Clean
<1>12. TradesInv'
  BY <1>0, <1>1 DEF TradesInv
<1>13. DossierComplete'
  BY <1>0, <1>1 DEF DossierComplete
<1>14. FailInv'
  BY <1>0, <1>1 DEF FailInv
<1>15. VerdictIsTrue'
  BY <1>0, <1>1 DEF VerdictIsTrue
<1>16. BreakerInv'
  BY <1>0, <1>1 DEF BreakerInv, Side, PureClosing
<1> QED BY <1>2, <1>3, <1>4, <1>5, <1>6, <1>7, <1>8, <1>9, <1>10, <1>11, <1>12, <1>13, <1>14, <1>15, <1>16

LEMMA DeliverPreserves ==
  ASSUME IInv, Deliver
  PROVE  IInv'
<1> USE DEF IInv, Control, Deliver
<1>0. /\ pc \in [Frame -> PC] /\ pc["handler"] \in {"idle", "stop"} \cup StopSteps
      /\ ret \in [Frame -> PC] /\ wasFailed \in [Frame -> BOOLEAN]
  BY DEF TypeOK
<1>1. TypeOK'
  <2>1. /\ pc' \in [Frame -> PC] /\ pc'["handler"] \in {"idle", "stop"} \cup StopSteps
        /\ ret' \in [Frame -> PC] /\ wasFailed' \in [Frame -> BOOLEAN] /\ failed' \in BOOLEAN
    BY <1>0 DEF PC, RetInv, TypeOK
  <2>2. /\ mode' \in Modes /\ handler' \in {"original", "session"} /\ prevKnown' \in BOOLEAN
        /\ cut' \in SUBSET (PC \cup {"killed"} \cup PlainLocks) /\ presses' \in Nat
        /\ held' \in PlainLocks \cup {"none"}
        /\ status' \in {"STARTING", "RUNNING", "STOPPING"} \cup Final
        /\ running' \in BOOLEAN /\ feeding' \in BOOLEAN
    BY <1>0 DEF TypeOK
  <2>3. /\ bar' \in {"none", "good", "bad"} /\ ticks' \in Nat /\ bars' \in Nat
        /\ dated' \in BOOLEAN /\ flag' \in BOOLEAN
    BY <1>0 DEF TypeOK
  <2>4. account' \in Account /\ risk' \in Risk /\ trades' \in Nat
    BY <1>0 DEF TypeOK
  <2>5. /\ estranged' \in BOOLEAN /\ lost' \in Nat /\ unsaved' \in BOOLEAN /\ recorded' \in Nat
        /\ dossier' \in [trades : Int, qty : Int, verdict : Final \cup {"none"}]
    BY <1>0 DEF TypeOK
  <2> QED BY <2>1, <2>2, <2>3, <2>4, <2>5 DEF TypeOK
<1>2. RetInv'
  BY <1>0 DEF RetInv
<1>3. LockInv'
  BY <1>0 DEF LockInv, Holds, Nested, MayLock
<1>4. ModeInv'
  BY <1>0 DEF ModeInv
<1>5. HandlerInv'
  BY <1>0 DEF HandlerInv
<1>6. EarlyInv'
  BY <1>0 DEF EarlyInv
<1>7. StartInv'
  BY <1>0 DEF StartInv
<1>8. StopInv'
  BY <1>0 DEF StopInv
<1>9. QuietInv'
  BY <1>0 DEF QuietInv
<1>10. FlagInv'
  BY <1>0 DEF FlagInv, Clean
<1>11. TradesInv'
  BY <1>0 DEF TradesInv
<1>12. DossierComplete'
  BY <1>0 DEF DossierComplete
<1>13. FailInv'
  BY <1>0 DEF FailInv
<1>14. VerdictIsTrue'
  BY <1>0 DEF VerdictIsTrue
<1>15. BreakerInv'
  BY <1>0 DEF BreakerInv, Side, PureClosing
<1> QED BY <1>1, <1>2, <1>3, <1>4, <1>5, <1>6, <1>7, <1>8, <1>9, <1>10, <1>11, <1>12, <1>13, <1>14, <1>15

LEMMA ProcessTickPreserves ==
  ASSUME IInv, NEW f \in {"main", "worker"}, NEW price \in Prices, NEW poor \in BOOLEAN, ProcessTick(f, price, poor)
  PROVE  IInv'
<1> USE DEF IInv, Control, ProcessTick, Accepts
<1>0. /\ pc \in [Frame -> PC] /\ pc["handler"] \in {"idle", "stop"} \cup StopSteps
      /\ ret \in [Frame -> PC] /\ wasFailed \in [Frame -> BOOLEAN]
  BY DEF TypeOK
<1>1. account' \in Account /\ account'.qty = account.qty
  BY MarkedAccount DEF TypeOK
<1>2. TypeOK'
  <2>1. /\ pc' \in [Frame -> PC] /\ pc'["handler"] \in {"idle", "stop"} \cup StopSteps
        /\ ret' \in [Frame -> PC] /\ wasFailed' \in [Frame -> BOOLEAN] /\ failed' \in BOOLEAN
    <3>1. pc' \in [Frame -> PC] /\ pc'["handler"] = pc["handler"]
      BY <1>0 DEF PC
    <3>2. ret' \in [Frame -> PC] /\ wasFailed' = wasFailed
      BY <1>0 DEF PC
    <3>3. failed' = TRUE \/ failed' = failed
      OBVIOUS
    <3> QED BY <1>0, <3>1, <3>2, <3>3 DEF TypeOK
  <2>2. /\ mode' \in Modes /\ handler' \in {"original", "session"} /\ prevKnown' \in BOOLEAN
        /\ cut' \in SUBSET (PC \cup {"killed"} \cup PlainLocks) /\ presses' \in Nat
        /\ held' \in PlainLocks \cup {"none"}
        /\ status' \in {"STARTING", "RUNNING", "STOPPING"} \cup Final
        /\ running' \in BOOLEAN /\ feeding' \in BOOLEAN
    BY <1>0, <1>1 DEF TypeOK
  <2>3. /\ bar' \in {"none", "good", "bad"} /\ ticks' \in Nat /\ bars' \in Nat
        /\ dated' \in BOOLEAN /\ flag' \in BOOLEAN
    BY <1>0, <1>1 DEF TypeOK
  <2>4. account' \in Account /\ risk' \in Risk /\ trades' \in Nat
    BY <1>0, <1>1 DEF TypeOK
  <2>5. /\ estranged' \in BOOLEAN /\ lost' \in Nat /\ unsaved' \in BOOLEAN /\ recorded' \in Nat
        /\ dossier' \in [trades : Int, qty : Int, verdict : Final \cup {"none"}]
    BY <1>0, <1>1 DEF TypeOK
  <2> QED BY <2>1, <2>2, <2>3, <2>4, <2>5 DEF TypeOK
<1>3. RetInv'
  BY <1>0, <1>1 DEF RetInv
<1>4. LockInv'
  BY <1>0, <1>1 DEF LockInv, Holds, Nested, MayLock
<1>5. ModeInv'
  BY <1>0, <1>1 DEF ModeInv
<1>6. HandlerInv'
  BY <1>0, <1>1 DEF HandlerInv
<1>7. EarlyInv'
  BY <1>0, <1>1 DEF EarlyInv, MayLock, Holds
<1>8. StartInv'
  BY <1>0, <1>1 DEF StartInv, EarlyInv, MayLock, Holds
<1>9. StopInv'
  BY <1>0, <1>1 DEF StopInv
<1>10. QuietInv'
  BY <1>0, <1>1 DEF QuietInv, StopInv
<1>11. FlagInv'
  BY <1>0, <1>1 DEF FlagInv, Clean
<1>12. TradesInv'
  BY <1>0, <1>1 DEF TradesInv
<1>13. DossierComplete'
  BY <1>0, <1>1 DEF DossierComplete, StopInv
<1>14. FailInv'
  BY <1>0, <1>1 DEF FailInv, MayLock, Holds, EarlyInv
<1>15. VerdictIsTrue'
  BY <1>0, <1>1 DEF VerdictIsTrue, StopInv
<1>16. BreakerInv'
  BY <1>0, <1>1 DEF BreakerInv, Side, PureClosing, MayLock, Holds, EarlyInv
<1> QED BY <1>2, <1>3, <1>4, <1>5, <1>6, <1>7, <1>8, <1>9, <1>10, <1>11, <1>12, <1>13, <1>14, <1>15, <1>16

LEMMA AbortPreserves ==
  ASSUME IInv, NEW f \in {"main", "worker"}, Abort(f)
  PROVE  IInv'
<1> USE DEF IInv, Control, Abort, Unwinds
<1>0. /\ pc \in [Frame -> PC] /\ pc["handler"] \in {"idle", "stop"} \cup StopSteps
      /\ ret \in [Frame -> PC] /\ wasFailed \in [Frame -> BOOLEAN]
  BY DEF TypeOK
<1>1. Raise(f) => Unwinds(f)
  BY <1>0, Raised DEF FramesTyped, TypeOK
<1>2. TypeOK'
  <2>1. /\ pc' \in [Frame -> PC] /\ pc'["handler"] \in {"idle", "stop"} \cup StopSteps
        /\ ret' \in [Frame -> PC] /\ wasFailed' \in [Frame -> BOOLEAN] /\ failed' \in BOOLEAN
    BY <1>0, <1>1, Raised DEF PC, RetInv, TypeOK, FramesTyped
  <2>2. /\ mode' \in Modes /\ handler' \in {"original", "session"} /\ prevKnown' \in BOOLEAN
        /\ cut' \in SUBSET (PC \cup {"killed"} \cup PlainLocks) /\ presses' \in Nat
        /\ held' \in PlainLocks \cup {"none"}
        /\ status' \in {"STARTING", "RUNNING", "STOPPING"} \cup Final
        /\ running' \in BOOLEAN /\ feeding' \in BOOLEAN
    BY <1>0, <1>1 DEF TypeOK
  <2>3. /\ bar' \in {"none", "good", "bad"} /\ ticks' \in Nat /\ bars' \in Nat
        /\ dated' \in BOOLEAN /\ flag' \in BOOLEAN
    BY <1>0, <1>1 DEF TypeOK
  <2>4. account' \in Account /\ risk' \in Risk /\ trades' \in Nat
    BY <1>0, <1>1 DEF TypeOK
  <2>5. /\ estranged' \in BOOLEAN /\ lost' \in Nat /\ unsaved' \in BOOLEAN /\ recorded' \in Nat
        /\ dossier' \in [trades : Int, qty : Int, verdict : Final \cup {"none"}]
    BY <1>0, <1>1 DEF TypeOK
  <2> QED BY <2>1, <2>2, <2>3, <2>4, <2>5 DEF TypeOK
<1>3. RetInv'
  BY <1>0, <1>1 DEF RetInv
<1>4. LockInv'
  BY <1>0, <1>1 DEF LockInv, Holds, Nested, MayLock
<1>5. ModeInv'
  BY <1>0, <1>1 DEF ModeInv
<1>6. HandlerInv'
  BY <1>0, <1>1 DEF HandlerInv
<1>7. EarlyInv'
  BY <1>0, <1>1 DEF EarlyInv
<1>8. StartInv'
  BY <1>0, <1>1 DEF StartInv, EarlyInv
<1>9. StopInv'
  BY <1>0, <1>1 DEF StopInv
<1>10. QuietInv'
  BY <1>0, <1>1 DEF QuietInv
<1>11. FlagInv'
  BY <1>0, <1>1 DEF FlagInv, Clean
<1>12. TradesInv'
  BY <1>0, <1>1 DEF TradesInv
<1>13. DossierComplete'
  BY <1>0, <1>1 DEF DossierComplete
<1>14. FailInv'
  BY <1>0, <1>1 DEF FailInv
<1>15. VerdictIsTrue'
  BY <1>0, <1>1 DEF VerdictIsTrue
<1>16. BreakerInv'
  BY <1>0, <1>1 DEF BreakerInv, Side, PureClosing
<1> QED BY <1>2, <1>3, <1>4, <1>5, <1>6, <1>7, <1>8, <1>9, <1>10, <1>11, <1>12, <1>13, <1>14, <1>15, <1>16

LEMMA AggregatePreserves ==
  ASSUME IInv, NEW f \in {"main", "worker"}, Aggregate(f)
  PROVE  IInv'
<1> USE DEF IInv, Control, Aggregate, BarOf, Unwinds
<1>0. /\ pc \in [Frame -> PC] /\ pc["handler"] \in {"idle", "stop"} \cup StopSteps
      /\ ret \in [Frame -> PC] /\ wasFailed \in [Frame -> BOOLEAN]
  BY DEF TypeOK
<1>1. Raise(f) => Unwinds(f)
  BY <1>0, Raised DEF FramesTyped, TypeOK
<1>2. TypeOK'
  <2>1. /\ pc' \in [Frame -> PC] /\ pc'["handler"] \in {"idle", "stop"} \cup StopSteps
        /\ ret' \in [Frame -> PC] /\ wasFailed' \in [Frame -> BOOLEAN] /\ failed' \in BOOLEAN
    BY <1>0, <1>1, Raised DEF PC, RetInv, TypeOK, FramesTyped
  <2>2. /\ mode' \in Modes /\ handler' \in {"original", "session"} /\ prevKnown' \in BOOLEAN
        /\ cut' \in SUBSET (PC \cup {"killed"} \cup PlainLocks) /\ presses' \in Nat
        /\ held' \in PlainLocks \cup {"none"}
        /\ status' \in {"STARTING", "RUNNING", "STOPPING"} \cup Final
        /\ running' \in BOOLEAN /\ feeding' \in BOOLEAN
    BY <1>0, <1>1 DEF TypeOK
  <2>3. /\ bar' \in {"none", "good", "bad"} /\ ticks' \in Nat /\ bars' \in Nat
        /\ dated' \in BOOLEAN /\ flag' \in BOOLEAN
    BY <1>0, <1>1 DEF TypeOK
  <2>4. account' \in Account /\ risk' \in Risk /\ trades' \in Nat
    BY <1>0, <1>1 DEF TypeOK
  <2>5. /\ estranged' \in BOOLEAN /\ lost' \in Nat /\ unsaved' \in BOOLEAN /\ recorded' \in Nat
        /\ dossier' \in [trades : Int, qty : Int, verdict : Final \cup {"none"}]
    BY <1>0, <1>1 DEF TypeOK
  <2> QED BY <2>1, <2>2, <2>3, <2>4, <2>5 DEF TypeOK
<1>3. RetInv'
  BY <1>0, <1>1 DEF RetInv
<1>4. LockInv'
  BY <1>0, <1>1 DEF LockInv, Holds, Nested, MayLock
<1>5. ModeInv'
  BY <1>0, <1>1 DEF ModeInv
<1>6. HandlerInv'
  BY <1>0, <1>1 DEF HandlerInv
<1>7. EarlyInv'
  BY <1>0, <1>1 DEF EarlyInv
<1>8. StartInv'
  BY <1>0, <1>1 DEF StartInv
<1>9. StopInv'
  BY <1>0, <1>1 DEF StopInv
<1>10. QuietInv'
  BY <1>0, <1>1 DEF QuietInv
<1>11. FlagInv'
  BY <1>0, <1>1 DEF FlagInv, Clean
<1>12. TradesInv'
  BY <1>0, <1>1 DEF TradesInv
<1>13. DossierComplete'
  BY <1>0, <1>1 DEF DossierComplete
<1>14. FailInv'
  BY <1>0, <1>1 DEF FailInv
<1>15. VerdictIsTrue'
  BY <1>0, <1>1 DEF VerdictIsTrue
<1>16. BreakerInv'
  BY <1>0, <1>1 DEF BreakerInv, Side, PureClosing
<1> QED BY <1>2, <1>3, <1>4, <1>5, <1>6, <1>7, <1>8, <1>9, <1>10, <1>11, <1>12, <1>13, <1>14, <1>15, <1>16

LEMMA CloseBarPreserves ==
  ASSUME IInv, NEW f \in {"main", "worker"}, NEW newDate \in BOOLEAN, NEW signals \in BOOLEAN, CloseBar(f, newDate, signals)
  PROVE  IInv'
<1> USE DEF IInv, Control, CloseBar
<1>0. /\ pc \in [Frame -> PC] /\ pc["handler"] \in {"idle", "stop"} \cup StopSteps
      /\ ret \in [Frame -> PC] /\ wasFailed \in [Frame -> BOOLEAN]
  BY DEF TypeOK
<1>1. risk' \in Risk
  BY EquityTyped, RiskTyped DEF TypeOK
<1>2. TypeOK'
  <2>1. /\ pc' \in [Frame -> PC] /\ pc'["handler"] \in {"idle", "stop"} \cup StopSteps
        /\ ret' \in [Frame -> PC] /\ wasFailed' \in [Frame -> BOOLEAN] /\ failed' \in BOOLEAN
    BY <1>0, <1>1 DEF PC, RetInv, TypeOK
  <2>2. /\ mode' \in Modes /\ handler' \in {"original", "session"} /\ prevKnown' \in BOOLEAN
        /\ cut' \in SUBSET (PC \cup {"killed"} \cup PlainLocks) /\ presses' \in Nat
        /\ held' \in PlainLocks \cup {"none"}
        /\ status' \in {"STARTING", "RUNNING", "STOPPING"} \cup Final
        /\ running' \in BOOLEAN /\ feeding' \in BOOLEAN
    BY <1>0, <1>1 DEF TypeOK
  <2>3. /\ bar' \in {"none", "good", "bad"} /\ ticks' \in Nat /\ bars' \in Nat
        /\ dated' \in BOOLEAN /\ flag' \in BOOLEAN
    <3>1. flag \in BOOLEAN /\ signals \in BOOLEAN /\ flag' = IF signals THEN ~flag ELSE flag
      BY DEF TypeOK
    <3>2. flag' \in BOOLEAN
      BY <3>1, Zenon
    <3> QED BY <3>2 DEF TypeOK
  <2>4. account' \in Account /\ risk' \in Risk /\ trades' \in Nat
    BY <1>0, <1>1 DEF TypeOK
  <2>5. /\ estranged' \in BOOLEAN /\ lost' \in Nat /\ unsaved' \in BOOLEAN /\ recorded' \in Nat
        /\ dossier' \in [trades : Int, qty : Int, verdict : Final \cup {"none"}]
    BY <1>0, <1>1 DEF TypeOK
  <2> QED BY <2>1, <2>2, <2>3, <2>4, <2>5 DEF TypeOK
<1>3. RetInv'
  BY <1>0, <1>1 DEF RetInv
<1>4. LockInv'
  BY <1>0, <1>1 DEF LockInv, Holds, Nested, MayLock
<1>5. ModeInv'
  BY <1>0, <1>1 DEF ModeInv
<1>6. HandlerInv'
  BY <1>0, <1>1 DEF HandlerInv
<1>7. EarlyInv'
  BY <1>0, <1>1 DEF EarlyInv
<1>8. StartInv'
  BY <1>0, <1>1 DEF StartInv
<1>9. StopInv'
  BY <1>0, <1>1 DEF StopInv
<1>10. QuietInv'
  BY <1>0, <1>1 DEF QuietInv
<1>11. FlagInv'
  BY <1>0, <1>1 DEF FlagInv, Clean, LockInv, Holds, Nested
<1>12. TradesInv'
  BY <1>0, <1>1 DEF TradesInv
<1>13. DossierComplete'
  BY <1>0, <1>1 DEF DossierComplete
<1>14. FailInv'
  BY <1>0, <1>1 DEF FailInv
<1>15. VerdictIsTrue'
  BY <1>0, <1>1 DEF VerdictIsTrue
<1>16. BreakerInv'
  BY <1>0, <1>1 DEF BreakerInv, Side, PureClosing, LockInv, Holds, Nested
<1> QED BY <1>2, <1>3, <1>4, <1>5, <1>6, <1>7, <1>8, <1>9, <1>10, <1>11, <1>12, <1>13, <1>14, <1>15, <1>16

LEMMA DecidePreserves ==
  ASSUME IInv, NEW f \in {"main", "worker"}, Decide(f)
  PROVE  IInv'
<1> USE DEF IInv, Control, Decide, Unwinds
<1>0. /\ pc \in [Frame -> PC] /\ pc["handler"] \in {"idle", "stop"} \cup StopSteps
      /\ ret \in [Frame -> PC] /\ wasFailed \in [Frame -> BOOLEAN]
  BY DEF TypeOK
<1>1. Raise(f) => Unwinds(f)
  BY <1>0, Raised DEF FramesTyped, TypeOK
<1>2. TypeOK'
  <2>1. /\ pc' \in [Frame -> PC] /\ pc'["handler"] \in {"idle", "stop"} \cup StopSteps
        /\ ret' \in [Frame -> PC] /\ wasFailed' \in [Frame -> BOOLEAN] /\ failed' \in BOOLEAN
    BY <1>0, <1>1, Raised DEF PC, RetInv, TypeOK, FramesTyped
  <2>2. /\ mode' \in Modes /\ handler' \in {"original", "session"} /\ prevKnown' \in BOOLEAN
        /\ cut' \in SUBSET (PC \cup {"killed"} \cup PlainLocks) /\ presses' \in Nat
        /\ held' \in PlainLocks \cup {"none"}
        /\ status' \in {"STARTING", "RUNNING", "STOPPING"} \cup Final
        /\ running' \in BOOLEAN /\ feeding' \in BOOLEAN
    BY <1>0, <1>1 DEF TypeOK
  <2>3. /\ bar' \in {"none", "good", "bad"} /\ ticks' \in Nat /\ bars' \in Nat
        /\ dated' \in BOOLEAN /\ flag' \in BOOLEAN
    BY <1>0, <1>1 DEF TypeOK
  <2>4. account' \in Account /\ risk' \in Risk /\ trades' \in Nat
    BY <1>0, <1>1 DEF TypeOK
  <2>5. /\ estranged' \in BOOLEAN /\ lost' \in Nat /\ unsaved' \in BOOLEAN /\ recorded' \in Nat
        /\ dossier' \in [trades : Int, qty : Int, verdict : Final \cup {"none"}]
    BY <1>0, <1>1 DEF TypeOK
  <2> QED BY <2>1, <2>2, <2>3, <2>4, <2>5 DEF TypeOK
<1>3. RetInv'
  BY <1>0, <1>1 DEF RetInv
<1>4. LockInv'
  BY <1>0, <1>1 DEF LockInv, Holds, Nested, MayLock
<1>5. ModeInv'
  BY <1>0, <1>1 DEF ModeInv
<1>6. HandlerInv'
  BY <1>0, <1>1 DEF HandlerInv
<1>7. EarlyInv'
  BY <1>0, <1>1 DEF EarlyInv
<1>8. StartInv'
  BY <1>0, <1>1 DEF StartInv
<1>9. StopInv'
  BY <1>0, <1>1 DEF StopInv
<1>10. QuietInv'
  BY <1>0, <1>1 DEF QuietInv
<1>11. FlagInv'
  BY <1>0, <1>1 DEF FlagInv, Clean
<1>12. TradesInv'
  BY <1>0, <1>1 DEF TradesInv
<1>13. DossierComplete'
  BY <1>0, <1>1 DEF DossierComplete
<1>14. FailInv'
  BY <1>0, <1>1 DEF FailInv
<1>15. VerdictIsTrue'
  BY <1>0, <1>1 DEF VerdictIsTrue
<1>16. BreakerInv'
  BY <1>0, <1>1 DEF BreakerInv, Side, PureClosing, RiskRefuses
<1> QED BY <1>2, <1>3, <1>4, <1>5, <1>6, <1>7, <1>8, <1>9, <1>10, <1>11, <1>12, <1>13, <1>14, <1>15, <1>16

LEMMA SubmitPreserves ==
  ASSUME IInv, NEW f \in {"main", "worker"}, Submit(f)
  PROVE  IInv'
<1> USE DEF IInv, Control, Submit
<1>0. /\ pc \in [Frame -> PC] /\ pc["handler"] \in {"idle", "stop"} \cup StopSteps
      /\ ret \in [Frame -> PC] /\ wasFailed \in [Frame -> BOOLEAN]
  BY DEF TypeOK
<1>1. \/ UNCHANGED <<account, trades>> /\ estranged' = TRUE /\ pc' = [pc EXCEPT ![f] = "snapshot"]
      \/ /\ account' \in Account /\ trades' = trades + 1 /\ UNCHANGED estranged
         /\ account'.qty = IF Side = "BUY" THEN account.qty + Qty ELSE account.qty - Qty
         /\ pc' = [pc EXCEPT ![f] = "record"]
  <2> DEFINE at == account.mark + Sign(Side) * Spread
  <2>1. account \in Account
    BY DEF TypeOK
  <2>2. at \in Int
    BY <2>1, ForwardAssumption, SMT DEF Account, Sign
  <2> HIDE DEF at
  <2>3. /\ Filled(account, Side, Qty, at) \in Account
        /\ Filled(account, Side, Qty, at).qty =
             IF Side = "BUY" THEN account.qty + Qty ELSE account.qty - Qty
    BY <2>1, <2>2, FilledAccount, Zenon
  <2> QED BY <2>3 DEF at
<1>2. TypeOK'
  <2>1. /\ pc' \in [Frame -> PC] /\ pc'["handler"] \in {"idle", "stop"} \cup StopSteps
        /\ ret' \in [Frame -> PC] /\ wasFailed' \in [Frame -> BOOLEAN] /\ failed' \in BOOLEAN
    BY <1>0, <1>1 DEF PC, RetInv, TypeOK
  <2>2. /\ mode' \in Modes /\ handler' \in {"original", "session"} /\ prevKnown' \in BOOLEAN
        /\ cut' \in SUBSET (PC \cup {"killed"} \cup PlainLocks) /\ presses' \in Nat
        /\ held' \in PlainLocks \cup {"none"}
        /\ status' \in {"STARTING", "RUNNING", "STOPPING"} \cup Final
        /\ running' \in BOOLEAN /\ feeding' \in BOOLEAN
    BY <1>0, <1>1 DEF TypeOK
  <2>3. /\ bar' \in {"none", "good", "bad"} /\ ticks' \in Nat /\ bars' \in Nat
        /\ dated' \in BOOLEAN /\ flag' \in BOOLEAN
    BY <1>0, <1>1 DEF TypeOK
  <2>4. account' \in Account /\ risk' \in Risk /\ trades' \in Nat
    BY <1>0, <1>1 DEF TypeOK
  <2>5. /\ estranged' \in BOOLEAN /\ lost' \in Nat /\ unsaved' \in BOOLEAN /\ recorded' \in Nat
        /\ dossier' \in [trades : Int, qty : Int, verdict : Final \cup {"none"}]
    BY <1>0, <1>1 DEF TypeOK
  <2> QED BY <2>1, <2>2, <2>3, <2>4, <2>5 DEF TypeOK
<1>3. RetInv'
  BY <1>0, <1>1 DEF RetInv
<1>4. LockInv'
  BY <1>0, <1>1 DEF LockInv, Holds, Nested, MayLock
<1>5. ModeInv'
  BY <1>0, <1>1 DEF ModeInv
<1>6. HandlerInv'
  BY <1>0, <1>1 DEF HandlerInv
<1>7. EarlyInv'
  BY <1>0, <1>1 DEF EarlyInv
<1>8. StartInv'
  BY <1>0, <1>1 DEF StartInv
<1>9. StopInv'
  BY <1>0, <1>1 DEF StopInv
<1>10. QuietInv'
  BY <1>0, <1>1 DEF QuietInv
<1>11. FlagInv'
  <2>1. account.qty \in Int /\ Qty \in Int
    BY ForwardAssumption DEF TypeOK, Account
  <2>2. CASE UNCHANGED <<account, trades>> /\ estranged'
    BY <2>2 DEF FlagInv, Clean
  <2>3. CASE /\ UNCHANGED estranged /\ pc' = [pc EXCEPT ![f] = "record"]
             /\ account'.qty = IF Side = "BUY" THEN account.qty + Qty ELSE account.qty - Qty
    <3>1. UNCHANGED <<flag, cut>> /\ (Clean' => Clean)
      BY <2>3 DEF Clean
    <3>2. pc["main"] \in Signalled \/ pc["worker"] \in Signalled
      OBVIOUS
    <3>3. pc'["main"] \notin Signalled /\ pc'["worker"] \notin Signalled
      BY <1>0, <2>3 DEF LockInv, Holds, Nested
    <3>4. Clean' => account.qty = IF flag THEN 0 ELSE Qty
      BY <3>1, <3>2 DEF FlagInv
    <3>5. account'.qty = IF flag THEN account.qty + Qty ELSE account.qty - Qty
      BY <2>3 DEF Side
    <3>6. Clean' => account'.qty = IF flag THEN Qty ELSE 0
      BY <2>1, <3>4, <3>5
    <3> QED BY <3>1, <3>3, <3>6 DEF FlagInv
  <2> QED BY <1>1, <2>2, <2>3
<1>12. TradesInv'
  BY <1>0, <1>1 DEF TradesInv, LockInv, Holds, Nested, ModeInv
<1>13. DossierComplete'
  BY <1>0, <1>1 DEF DossierComplete, QuietInv
<1>14. FailInv'
  BY <1>0, <1>1 DEF FailInv
<1>15. VerdictIsTrue'
  BY <1>0, <1>1 DEF VerdictIsTrue
<1>16. BreakerInv'
  BY <1>0, <1>1 DEF BreakerInv, Side, PureClosing, LockInv, Holds, Nested, ModeInv
<1> QED BY <1>2, <1>3, <1>4, <1>5, <1>6, <1>7, <1>8, <1>9, <1>10, <1>11, <1>12, <1>13, <1>14, <1>15, <1>16

LEMMA RecordPreserves ==
  ASSUME IInv, NEW f \in {"main", "worker"}, Record(f)
  PROVE  IInv'
<1> USE DEF IInv, Control, Record
<1>0. /\ pc \in [Frame -> PC] /\ pc["handler"] \in {"idle", "stop"} \cup StopSteps
      /\ ret \in [Frame -> PC] /\ wasFailed \in [Frame -> BOOLEAN]
  BY DEF TypeOK
<1>1. TypeOK'
  <2>1. /\ pc' \in [Frame -> PC] /\ pc'["handler"] \in {"idle", "stop"} \cup StopSteps
        /\ ret' \in [Frame -> PC] /\ wasFailed' \in [Frame -> BOOLEAN] /\ failed' \in BOOLEAN
    BY <1>0 DEF PC, RetInv, TypeOK
  <2>2. /\ mode' \in Modes /\ handler' \in {"original", "session"} /\ prevKnown' \in BOOLEAN
        /\ cut' \in SUBSET (PC \cup {"killed"} \cup PlainLocks) /\ presses' \in Nat
        /\ held' \in PlainLocks \cup {"none"}
        /\ status' \in {"STARTING", "RUNNING", "STOPPING"} \cup Final
        /\ running' \in BOOLEAN /\ feeding' \in BOOLEAN
    BY <1>0 DEF TypeOK
  <2>3. /\ bar' \in {"none", "good", "bad"} /\ ticks' \in Nat /\ bars' \in Nat
        /\ dated' \in BOOLEAN /\ flag' \in BOOLEAN
    BY <1>0 DEF TypeOK
  <2>4. account' \in Account /\ risk' \in Risk /\ trades' \in Nat
    BY <1>0 DEF TypeOK
  <2>5. /\ estranged' \in BOOLEAN /\ lost' \in Nat /\ unsaved' \in BOOLEAN /\ recorded' \in Nat
        /\ dossier' \in [trades : Int, qty : Int, verdict : Final \cup {"none"}]
    BY <1>0 DEF TypeOK
  <2> QED BY <2>1, <2>2, <2>3, <2>4, <2>5 DEF TypeOK
<1>2. RetInv'
  BY <1>0 DEF RetInv
<1>3. LockInv'
  BY <1>0 DEF LockInv, Holds, Nested, MayLock
<1>4. ModeInv'
  BY <1>0 DEF ModeInv
<1>5. HandlerInv'
  BY <1>0 DEF HandlerInv
<1>6. EarlyInv'
  BY <1>0 DEF EarlyInv
<1>7. StartInv'
  BY <1>0 DEF StartInv
<1>8. StopInv'
  BY <1>0 DEF StopInv
<1>9. QuietInv'
  BY <1>0 DEF QuietInv
<1>10. FlagInv'
  BY <1>0 DEF FlagInv, Clean
<1>11. TradesInv'
  <2>1. recorded \in Nat /\ lost \in Nat /\ trades \in Nat
    BY DEF TypeOK
  <2> QED BY <1>0, <2>1 DEF TradesInv, LockInv, Holds, Nested, ModeInv
<1>12. DossierComplete'
  BY <1>0 DEF DossierComplete
<1>13. FailInv'
  BY <1>0 DEF FailInv
<1>14. VerdictIsTrue'
  BY <1>0 DEF VerdictIsTrue
<1>15. BreakerInv'
  BY <1>0 DEF BreakerInv, Side, PureClosing
<1> QED BY <1>1, <1>2, <1>3, <1>4, <1>5, <1>6, <1>7, <1>8, <1>9, <1>10, <1>11, <1>12, <1>13, <1>14, <1>15

LEMMA LedgerRaisesPreserves ==
  ASSUME IInv, NEW f \in {"main", "worker"}, NEW before \in BOOLEAN, LedgerRaises(f, before)
  PROVE  IInv'
<1> USE DEF IInv, Control, LedgerRaises, Unwinds
<1>0. /\ pc \in [Frame -> PC] /\ pc["handler"] \in {"idle", "stop"} \cup StopSteps
      /\ ret \in [Frame -> PC] /\ wasFailed \in [Frame -> BOOLEAN]
  BY DEF TypeOK
<1>1. Raise(f) => Unwinds(f)
  BY <1>0, Raised DEF FramesTyped, TypeOK
<1>2. TypeOK'
  <2>1. /\ pc' \in [Frame -> PC] /\ pc'["handler"] \in {"idle", "stop"} \cup StopSteps
        /\ ret' \in [Frame -> PC] /\ wasFailed' \in [Frame -> BOOLEAN] /\ failed' \in BOOLEAN
    BY <1>0, <1>1, Raised DEF PC, RetInv, TypeOK, FramesTyped
  <2>2. /\ mode' \in Modes /\ handler' \in {"original", "session"} /\ prevKnown' \in BOOLEAN
        /\ cut' \in SUBSET (PC \cup {"killed"} \cup PlainLocks) /\ presses' \in Nat
        /\ held' \in PlainLocks \cup {"none"}
        /\ status' \in {"STARTING", "RUNNING", "STOPPING"} \cup Final
        /\ running' \in BOOLEAN /\ feeding' \in BOOLEAN
    BY <1>0, <1>1 DEF TypeOK
  <2>3. /\ bar' \in {"none", "good", "bad"} /\ ticks' \in Nat /\ bars' \in Nat
        /\ dated' \in BOOLEAN /\ flag' \in BOOLEAN
    BY <1>0, <1>1 DEF TypeOK
  <2>4. account' \in Account /\ risk' \in Risk /\ trades' \in Nat
    BY <1>0, <1>1 DEF TypeOK
  <2>5. /\ estranged' \in BOOLEAN /\ lost' \in Nat /\ unsaved' \in BOOLEAN /\ recorded' \in Nat
        /\ dossier' \in [trades : Int, qty : Int, verdict : Final \cup {"none"}]
    BY <1>0, <1>1 DEF TypeOK
  <2> QED BY <2>1, <2>2, <2>3, <2>4, <2>5 DEF TypeOK
<1>3. RetInv'
  BY <1>0, <1>1 DEF RetInv
<1>4. LockInv'
  BY <1>0, <1>1 DEF LockInv, Holds, Nested, MayLock
<1>5. ModeInv'
  BY <1>0, <1>1 DEF ModeInv
<1>6. HandlerInv'
  BY <1>0, <1>1 DEF HandlerInv
<1>7. EarlyInv'
  BY <1>0, <1>1 DEF EarlyInv
<1>8. StartInv'
  BY <1>0, <1>1 DEF StartInv
<1>9. StopInv'
  BY <1>0, <1>1 DEF StopInv
<1>10. QuietInv'
  BY <1>0, <1>1 DEF QuietInv
<1>11. FlagInv'
  BY <1>0, <1>1 DEF FlagInv, Clean
<1>12. TradesInv'
  <2>1. recorded \in Nat /\ lost \in Nat /\ trades \in Nat
    BY DEF TypeOK
  <2>2. trades' = trades /\ cut' = cut /\ mode' = mode /\ pc[f] = "record"
    OBVIOUS
  <2>3. recorded' + lost' = recorded + lost + 1
    BY <2>1
  <2>4. f # "handler" /\ Unwinds(f)
    BY <1>0, <1>1, <2>2
  <2>5. CASE f = "worker"
    <3>1. pc["main"] # "record" /\ pc'["main"] = pc["main"] /\ pc'["worker"] # "record"
      BY <1>0, <2>2, <2>4, <2>5 DEF LockInv, Holds
    <3> QED BY <2>1, <2>2, <2>3, <2>5, <3>1 DEF TradesInv
  <2>6. CASE f = "main"
    <3>1. /\ pc["worker"] # "record" /\ pc'["worker"] = pc["worker"] /\ pc'["main"] # "record"
          /\ pc["main"] # "raised"
      BY <1>0, <2>2, <2>4, <2>6 DEF LockInv, Holds
    <3> QED BY <2>1, <2>2, <2>3, <2>6, <3>1 DEF TradesInv
  <2> QED BY <2>4, <2>5, <2>6
<1>13. DossierComplete'
  BY <1>0, <1>1 DEF DossierComplete, QuietInv
<1>14. FailInv'
  BY <1>0, <1>1 DEF FailInv
<1>15. VerdictIsTrue'
  BY <1>0, <1>1 DEF VerdictIsTrue
<1>16. BreakerInv'
  BY <1>0, <1>1 DEF BreakerInv, Side, PureClosing
<1> QED BY <1>2, <1>3, <1>4, <1>5, <1>6, <1>7, <1>8, <1>9, <1>10, <1>11, <1>12, <1>13, <1>14, <1>15, <1>16

LEMMA SnapshotPreserves ==
  ASSUME IInv, NEW f \in {"main", "worker"}, Snapshot(f)
  PROVE  IInv'
<1> USE DEF IInv, Control, Snapshot
<1>0. /\ pc \in [Frame -> PC] /\ pc["handler"] \in {"idle", "stop"} \cup StopSteps
      /\ ret \in [Frame -> PC] /\ wasFailed \in [Frame -> BOOLEAN]
  BY DEF TypeOK
<1>1. risk' \in Risk
  BY EquityTyped, RiskTyped DEF TypeOK
<1>2. TypeOK'
  <2>1. /\ pc' \in [Frame -> PC] /\ pc'["handler"] \in {"idle", "stop"} \cup StopSteps
        /\ ret' \in [Frame -> PC] /\ wasFailed' \in [Frame -> BOOLEAN] /\ failed' \in BOOLEAN
    BY <1>0, <1>1 DEF PC, RetInv, TypeOK
  <2>2. /\ mode' \in Modes /\ handler' \in {"original", "session"} /\ prevKnown' \in BOOLEAN
        /\ cut' \in SUBSET (PC \cup {"killed"} \cup PlainLocks) /\ presses' \in Nat
        /\ held' \in PlainLocks \cup {"none"}
        /\ status' \in {"STARTING", "RUNNING", "STOPPING"} \cup Final
        /\ running' \in BOOLEAN /\ feeding' \in BOOLEAN
    BY <1>0, <1>1 DEF TypeOK
  <2>3. /\ bar' \in {"none", "good", "bad"} /\ ticks' \in Nat /\ bars' \in Nat
        /\ dated' \in BOOLEAN /\ flag' \in BOOLEAN
    BY <1>0, <1>1 DEF TypeOK
  <2>4. account' \in Account /\ risk' \in Risk /\ trades' \in Nat
    BY <1>0, <1>1 DEF TypeOK
  <2>5. /\ estranged' \in BOOLEAN /\ lost' \in Nat /\ unsaved' \in BOOLEAN /\ recorded' \in Nat
        /\ dossier' \in [trades : Int, qty : Int, verdict : Final \cup {"none"}]
    BY <1>0, <1>1 DEF TypeOK
  <2> QED BY <2>1, <2>2, <2>3, <2>4, <2>5 DEF TypeOK
<1>3. RetInv'
  BY <1>0, <1>1 DEF RetInv
<1>4. LockInv'
  BY <1>0, <1>1 DEF LockInv, Holds, Nested, MayLock
<1>5. ModeInv'
  BY <1>0, <1>1 DEF ModeInv
<1>6. HandlerInv'
  BY <1>0, <1>1 DEF HandlerInv
<1>7. EarlyInv'
  BY <1>0, <1>1 DEF EarlyInv
<1>8. StartInv'
  BY <1>0, <1>1 DEF StartInv
<1>9. StopInv'
  BY <1>0, <1>1 DEF StopInv
<1>10. QuietInv'
  BY <1>0, <1>1 DEF QuietInv
<1>11. FlagInv'
  BY <1>0, <1>1 DEF FlagInv, Clean
<1>12. TradesInv'
  BY <1>0, <1>1 DEF TradesInv
<1>13. DossierComplete'
  BY <1>0, <1>1 DEF DossierComplete
<1>14. FailInv'
  BY <1>0, <1>1 DEF FailInv
<1>15. VerdictIsTrue'
  BY <1>0, <1>1 DEF VerdictIsTrue
<1>16. BreakerInv'
  BY <1>0, <1>1 DEF BreakerInv, Side, PureClosing, LockInv, Holds, Nested
<1> QED BY <1>2, <1>3, <1>4, <1>5, <1>6, <1>7, <1>8, <1>9, <1>10, <1>11, <1>12, <1>13, <1>14, <1>15, <1>16

LEMMA LimitsPreserves ==
  ASSUME IInv, NEW f \in {"main", "worker"}, Limits(f)
  PROVE  IInv'
<1> USE DEF IInv, Control, Limits
<1>0. /\ pc \in [Frame -> PC] /\ pc["handler"] \in {"idle", "stop"} \cup StopSteps
      /\ ret \in [Frame -> PC] /\ wasFailed \in [Frame -> BOOLEAN]
  BY DEF TypeOK
<1>1. TypeOK'
  <2>1. /\ pc' \in [Frame -> PC] /\ pc'["handler"] \in {"idle", "stop"} \cup StopSteps
        /\ ret' \in [Frame -> PC] /\ wasFailed' \in [Frame -> BOOLEAN] /\ failed' \in BOOLEAN
    BY <1>0 DEF PC, RetInv, TypeOK
  <2>2. /\ mode' \in Modes /\ handler' \in {"original", "session"} /\ prevKnown' \in BOOLEAN
        /\ cut' \in SUBSET (PC \cup {"killed"} \cup PlainLocks) /\ presses' \in Nat
        /\ held' \in PlainLocks \cup {"none"}
        /\ status' \in {"STARTING", "RUNNING", "STOPPING"} \cup Final
        /\ running' \in BOOLEAN /\ feeding' \in BOOLEAN
    BY <1>0 DEF TypeOK
  <2>3. /\ bar' \in {"none", "good", "bad"} /\ ticks' \in Nat /\ bars' \in Nat
        /\ dated' \in BOOLEAN /\ flag' \in BOOLEAN
    BY <1>0 DEF TypeOK
  <2>4. account' \in Account /\ risk' \in Risk /\ trades' \in Nat
    BY <1>0 DEF TypeOK
  <2>5. /\ estranged' \in BOOLEAN /\ lost' \in Nat /\ unsaved' \in BOOLEAN /\ recorded' \in Nat
        /\ dossier' \in [trades : Int, qty : Int, verdict : Final \cup {"none"}]
    BY <1>0 DEF TypeOK
  <2> QED BY <2>1, <2>2, <2>3, <2>4, <2>5 DEF TypeOK
<1>2. RetInv'
  BY <1>0 DEF RetInv
<1>3. LockInv'
  BY <1>0 DEF LockInv, Holds, Nested, MayLock
<1>4. ModeInv'
  BY <1>0 DEF ModeInv
<1>5. HandlerInv'
  BY <1>0 DEF HandlerInv
<1>6. EarlyInv'
  BY <1>0 DEF EarlyInv
<1>7. StartInv'
  BY <1>0 DEF StartInv
<1>8. StopInv'
  BY <1>0 DEF StopInv
<1>9. QuietInv'
  BY <1>0 DEF QuietInv
<1>10. FlagInv'
  BY <1>0 DEF FlagInv, Clean
<1>11. TradesInv'
  BY <1>0 DEF TradesInv
<1>12. DossierComplete'
  BY <1>0 DEF DossierComplete
<1>13. FailInv'
  BY <1>0 DEF FailInv
<1>14. VerdictIsTrue'
  BY <1>0 DEF VerdictIsTrue
<1>15. BreakerInv'
  BY <1>0 DEF BreakerInv, Side, PureClosing
<1> QED BY <1>1, <1>2, <1>3, <1>4, <1>5, <1>6, <1>7, <1>8, <1>9, <1>10, <1>11, <1>12, <1>13, <1>14, <1>15

LEMMA StopPreserves ==
  ASSUME IInv, NEW f \in Frame, Stop(f)
  PROVE  IInv'
<1> USE DEF IInv, Control, Stop, Return, WasFailed, Concluded
<1>0. /\ pc \in [Frame -> PC] /\ pc["handler"] \in {"idle", "stop"} \cup StopSteps
      /\ ret \in [Frame -> PC] /\ wasFailed \in [Frame -> BOOLEAN]
  BY DEF TypeOK
<1>1. TypeOK'
  <2>1. /\ pc' \in [Frame -> PC] /\ pc'["handler"] \in {"idle", "stop"} \cup StopSteps
        /\ ret' \in [Frame -> PC] /\ wasFailed' \in [Frame -> BOOLEAN] /\ failed' \in BOOLEAN
    <3>1. pc' \in [Frame -> PC] /\ pc'["handler"] \in {"idle", "stop"} \cup StopSteps
      BY <1>0 DEF PC, RetInv
    <3>2. ret' \in [Frame -> PC] /\ failed' \in BOOLEAN
      BY <1>0 DEF PC, TypeOK
    <3>3. wasFailed' \in [Frame -> BOOLEAN]
      <4>1. WasFailed \in BOOLEAN
        BY Zenon DEF TypeOK, WasFailed
      <4> HIDE DEF WasFailed
      <4>2. \/ wasFailed' = [wasFailed EXCEPT ![f] = FALSE]
            \/ wasFailed' = [wasFailed EXCEPT ![f] = WasFailed]
        OBVIOUS
      <4> QED BY <1>0, <4>1, <4>2
    <3> QED BY <3>1, <3>2, <3>3
  <2>2. /\ mode' \in Modes /\ handler' \in {"original", "session"} /\ prevKnown' \in BOOLEAN
        /\ cut' \in SUBSET (PC \cup {"killed"} \cup PlainLocks) /\ presses' \in Nat
        /\ held' \in PlainLocks \cup {"none"}
        /\ status' \in {"STARTING", "RUNNING", "STOPPING"} \cup Final
        /\ running' \in BOOLEAN /\ feeding' \in BOOLEAN
    BY <1>0 DEF TypeOK
  <2>3. /\ bar' \in {"none", "good", "bad"} /\ ticks' \in Nat /\ bars' \in Nat
        /\ dated' \in BOOLEAN /\ flag' \in BOOLEAN
    BY <1>0 DEF TypeOK
  <2>4. account' \in Account /\ risk' \in Risk /\ trades' \in Nat
    BY <1>0 DEF TypeOK
  <2>5. /\ estranged' \in BOOLEAN /\ lost' \in Nat /\ unsaved' \in BOOLEAN /\ recorded' \in Nat
        /\ dossier' \in [trades : Int, qty : Int, verdict : Final \cup {"none"}]
    BY <1>0 DEF TypeOK
  <2> QED BY <2>1, <2>2, <2>3, <2>4, <2>5 DEF TypeOK
<1>2. RetInv'
  BY <1>0 DEF RetInv
<1>3. LockInv'
  BY <1>0 DEF LockInv, Holds, Nested, MayLock, RetInv
<1>4. ModeInv'
  BY <1>0 DEF ModeInv, RetInv
<1>5. HandlerInv'
  BY <1>0 DEF HandlerInv, RetInv
<1>6. EarlyInv'
  BY <1>0 DEF EarlyInv, StartInv, RetInv, HandlerInv
<1>7. StartInv'
  BY <1>0 DEF StartInv, EarlyInv, RetInv
<1>8. StopInv'
  BY <1>0 DEF StopInv, EarlyInv, StartInv, RetInv, HandlerInv
<1>9. QuietInv'
  BY <1>0 DEF QuietInv, StopInv, RetInv
<1>10. FlagInv'
  BY <1>0 DEF FlagInv, Clean, RetInv
<1>11. TradesInv'
  BY <1>0 DEF TradesInv, RetInv
<1>12. DossierComplete'
  BY <1>0 DEF DossierComplete
<1>13. FailInv'
  <2>1. UNCHANGED <<failed, mode, dossier>> /\ (status' = "FAILED" => status = "FAILED")
    OBVIOUS
  <2>2. CASE Concluded
    <3>1. pc' = [pc EXCEPT ![f] = ret[f]] /\ wasFailed' = [wasFailed EXCEPT ![f] = FALSE]
      BY <2>2
    <3>2. pc'[f] \notin StopSteps
      BY <1>0, <3>1 DEF RetInv
    <3> QED BY <1>0, <2>1, <3>1, <3>2 DEF FailInv
  <2>3. CASE ~Concluded
    <3>1. /\ pc' = [pc EXCEPT ![f] = "restore"]
          /\ wasFailed' = [wasFailed EXCEPT ![f] = WasFailed]
      BY <2>3
    <3>2. WasFailed <=> failed
      BY <2>3 DEF StopInv
    <3> HIDE DEF WasFailed
    <3> QED BY <1>0, <2>1, <3>1, <3>2 DEF FailInv
  <2> QED BY <2>2, <2>3
<1>14. VerdictIsTrue'
  BY <1>0 DEF VerdictIsTrue
<1>15. BreakerInv'
  BY <1>0 DEF BreakerInv, Side, PureClosing, RetInv
<1> QED BY <1>1, <1>2, <1>3, <1>4, <1>5, <1>6, <1>7, <1>8, <1>9, <1>10, <1>11, <1>12, <1>13, <1>14, <1>15

LEMMA RestorePreserves ==
  ASSUME IInv, NEW f \in Frame, Restore(f)
  PROVE  IInv'
<1> USE DEF IInv, Control, Restore, Restored
<1>0. /\ pc \in [Frame -> PC] /\ pc["handler"] \in {"idle", "stop"} \cup StopSteps
      /\ ret \in [Frame -> PC] /\ wasFailed \in [Frame -> BOOLEAN]
  BY DEF TypeOK
<1>1. TypeOK'
  <2>1. /\ pc' \in [Frame -> PC] /\ pc'["handler"] \in {"idle", "stop"} \cup StopSteps
        /\ ret' \in [Frame -> PC] /\ wasFailed' \in [Frame -> BOOLEAN] /\ failed' \in BOOLEAN
    BY <1>0 DEF PC, RetInv, TypeOK
  <2>2. /\ mode' \in Modes /\ handler' \in {"original", "session"} /\ prevKnown' \in BOOLEAN
        /\ cut' \in SUBSET (PC \cup {"killed"} \cup PlainLocks) /\ presses' \in Nat
        /\ held' \in PlainLocks \cup {"none"}
        /\ status' \in {"STARTING", "RUNNING", "STOPPING"} \cup Final
        /\ running' \in BOOLEAN /\ feeding' \in BOOLEAN
    BY <1>0 DEF TypeOK
  <2>3. /\ bar' \in {"none", "good", "bad"} /\ ticks' \in Nat /\ bars' \in Nat
        /\ dated' \in BOOLEAN /\ flag' \in BOOLEAN
    BY <1>0 DEF TypeOK
  <2>4. account' \in Account /\ risk' \in Risk /\ trades' \in Nat
    BY <1>0 DEF TypeOK
  <2>5. /\ estranged' \in BOOLEAN /\ lost' \in Nat /\ unsaved' \in BOOLEAN /\ recorded' \in Nat
        /\ dossier' \in [trades : Int, qty : Int, verdict : Final \cup {"none"}]
    BY <1>0 DEF TypeOK
  <2> QED BY <2>1, <2>2, <2>3, <2>4, <2>5 DEF TypeOK
<1>2. RetInv'
  BY <1>0 DEF RetInv
<1>3. LockInv'
  BY <1>0 DEF LockInv, Holds, Nested, MayLock
<1>4. ModeInv'
  BY <1>0 DEF ModeInv
<1>5. HandlerInv'
  BY <1>0 DEF HandlerInv
<1>6. EarlyInv'
  BY <1>0 DEF EarlyInv
<1>7. StartInv'
  BY <1>0 DEF StartInv, StopInv
<1>8. StopInv'
  BY <1>0 DEF StopInv
<1>9. QuietInv'
  BY <1>0 DEF QuietInv
<1>10. FlagInv'
  BY <1>0 DEF FlagInv, Clean
<1>11. TradesInv'
  BY <1>0 DEF TradesInv
<1>12. DossierComplete'
  BY <1>0 DEF DossierComplete
<1>13. FailInv'
  BY <1>0 DEF FailInv
<1>14. VerdictIsTrue'
  BY <1>0 DEF VerdictIsTrue
<1>15. BreakerInv'
  BY <1>0 DEF BreakerInv, Side, PureClosing
<1> QED BY <1>1, <1>2, <1>3, <1>4, <1>5, <1>6, <1>7, <1>8, <1>9, <1>10, <1>11, <1>12, <1>13, <1>14, <1>15

LEMMA ReleasePreserves ==
  ASSUME IInv, NEW f \in Frame, Release(f)
  PROVE  IInv'
<1> USE DEF IInv, Control, Release
<1>0. /\ pc \in [Frame -> PC] /\ pc["handler"] \in {"idle", "stop"} \cup StopSteps
      /\ ret \in [Frame -> PC] /\ wasFailed \in [Frame -> BOOLEAN]
  BY DEF TypeOK
<1>1. TypeOK'
  <2>1. /\ pc' \in [Frame -> PC] /\ pc'["handler"] \in {"idle", "stop"} \cup StopSteps
        /\ ret' \in [Frame -> PC] /\ wasFailed' \in [Frame -> BOOLEAN] /\ failed' \in BOOLEAN
    BY <1>0 DEF PC, RetInv, TypeOK
  <2>2. /\ mode' \in Modes /\ handler' \in {"original", "session"} /\ prevKnown' \in BOOLEAN
        /\ cut' \in SUBSET (PC \cup {"killed"} \cup PlainLocks) /\ presses' \in Nat
        /\ held' \in PlainLocks \cup {"none"}
        /\ status' \in {"STARTING", "RUNNING", "STOPPING"} \cup Final
        /\ running' \in BOOLEAN /\ feeding' \in BOOLEAN
    BY <1>0 DEF TypeOK
  <2>3. /\ bar' \in {"none", "good", "bad"} /\ ticks' \in Nat /\ bars' \in Nat
        /\ dated' \in BOOLEAN /\ flag' \in BOOLEAN
    BY <1>0 DEF TypeOK
  <2>4. account' \in Account /\ risk' \in Risk /\ trades' \in Nat
    BY <1>0 DEF TypeOK
  <2>5. /\ estranged' \in BOOLEAN /\ lost' \in Nat /\ unsaved' \in BOOLEAN /\ recorded' \in Nat
        /\ dossier' \in [trades : Int, qty : Int, verdict : Final \cup {"none"}]
    BY <1>0 DEF TypeOK
  <2> QED BY <2>1, <2>2, <2>3, <2>4, <2>5 DEF TypeOK
<1>2. RetInv'
  BY <1>0 DEF RetInv
<1>3. LockInv'
  BY <1>0 DEF LockInv, Holds, Nested, MayLock
<1>4. ModeInv'
  BY <1>0 DEF ModeInv
<1>5. HandlerInv'
  BY <1>0 DEF HandlerInv
<1>6. EarlyInv'
  BY <1>0 DEF EarlyInv
<1>7. StartInv'
  BY <1>0 DEF StartInv, StopInv
<1>8. StopInv'
  BY <1>0 DEF StopInv
<1>9. QuietInv'
  BY <1>0 DEF QuietInv
<1>10. FlagInv'
  BY <1>0 DEF FlagInv, Clean
<1>11. TradesInv'
  BY <1>0 DEF TradesInv
<1>12. DossierComplete'
  BY <1>0 DEF DossierComplete
<1>13. FailInv'
  BY <1>0 DEF FailInv
<1>14. VerdictIsTrue'
  BY <1>0 DEF VerdictIsTrue
<1>15. BreakerInv'
  BY <1>0 DEF BreakerInv, Side, PureClosing
<1> QED BY <1>1, <1>2, <1>3, <1>4, <1>5, <1>6, <1>7, <1>8, <1>9, <1>10, <1>11, <1>12, <1>13, <1>14, <1>15

LEMMA FlushPreserves ==
  ASSUME IInv, NEW f \in Frame, Flush(f)
  PROVE  IInv'
<1> USE DEF IInv, Control, Flush, Unwinds
<1>0. /\ pc \in [Frame -> PC] /\ pc["handler"] \in {"idle", "stop"} \cup StopSteps
      /\ ret \in [Frame -> PC] /\ wasFailed \in [Frame -> BOOLEAN]
  BY DEF TypeOK
<1>1. Raise(f) => Unwinds(f)
  BY <1>0, Raised DEF FramesTyped, TypeOK
<1>2. TypeOK'
  <2>1. /\ pc' \in [Frame -> PC] /\ pc'["handler"] \in {"idle", "stop"} \cup StopSteps
        /\ ret' \in [Frame -> PC] /\ wasFailed' \in [Frame -> BOOLEAN] /\ failed' \in BOOLEAN
    BY <1>0, <1>1, Raised DEF PC, RetInv, TypeOK, FramesTyped
  <2>2. /\ mode' \in Modes /\ handler' \in {"original", "session"} /\ prevKnown' \in BOOLEAN
        /\ cut' \in SUBSET (PC \cup {"killed"} \cup PlainLocks) /\ presses' \in Nat
        /\ held' \in PlainLocks \cup {"none"}
        /\ status' \in {"STARTING", "RUNNING", "STOPPING"} \cup Final
        /\ running' \in BOOLEAN /\ feeding' \in BOOLEAN
    BY <1>0, <1>1 DEF TypeOK
  <2>3. /\ bar' \in {"none", "good", "bad"} /\ ticks' \in Nat /\ bars' \in Nat
        /\ dated' \in BOOLEAN /\ flag' \in BOOLEAN
    BY <1>0, <1>1 DEF TypeOK
  <2>4. account' \in Account /\ risk' \in Risk /\ trades' \in Nat
    BY <1>0, <1>1 DEF TypeOK
  <2>5. /\ estranged' \in BOOLEAN /\ lost' \in Nat /\ unsaved' \in BOOLEAN /\ recorded' \in Nat
        /\ dossier' \in [trades : Int, qty : Int, verdict : Final \cup {"none"}]
    BY <1>0, <1>1 DEF TypeOK
  <2> QED BY <2>1, <2>2, <2>3, <2>4, <2>5 DEF TypeOK
<1>3. RetInv'
  BY <1>0, <1>1 DEF RetInv
<1>4. LockInv'
  BY <1>0, <1>1 DEF LockInv, Holds, Nested, MayLock
<1>5. ModeInv'
  BY <1>0, <1>1 DEF ModeInv
<1>6. HandlerInv'
  BY <1>0, <1>1 DEF HandlerInv
<1>7. EarlyInv'
  BY <1>0, <1>1 DEF EarlyInv
<1>8. StartInv'
  BY <1>0, <1>1 DEF StartInv, StopInv
<1>9. StopInv'
  BY <1>0, <1>1 DEF StopInv
<1>10. QuietInv'
  BY <1>0, <1>1 DEF QuietInv
<1>11. FlagInv'
  BY <1>0, <1>1 DEF FlagInv, Clean, HandlerInv, ModeInv, InTry
<1>12. TradesInv'
  BY <1>0, <1>1 DEF TradesInv, HandlerInv, ModeInv, InTry
<1>13. DossierComplete'
  BY <1>0, <1>1 DEF DossierComplete
<1>14. FailInv'
  BY <1>0, <1>1 DEF FailInv, HandlerInv, InTry
<1>15. VerdictIsTrue'
  BY <1>0, <1>1 DEF VerdictIsTrue
<1>16. BreakerInv'
  BY <1>0, <1>1 DEF BreakerInv, Side, PureClosing
<1> QED BY <1>2, <1>3, <1>4, <1>5, <1>6, <1>7, <1>8, <1>9, <1>10, <1>11, <1>12, <1>13, <1>14, <1>15, <1>16

LEMMA SealPreserves ==
  ASSUME IInv, NEW f \in Frame, Seal(f)
  PROVE  IInv'
<1> USE DEF IInv, Control, Seal, Verdict, Return, Unwinds
<1>0. /\ pc \in [Frame -> PC] /\ pc["handler"] \in {"idle", "stop"} \cup StopSteps
      /\ ret \in [Frame -> PC] /\ wasFailed \in [Frame -> BOOLEAN]
  BY DEF TypeOK
<1>1. Raise(f) => Unwinds(f)
  BY <1>0, Raised DEF FramesTyped, TypeOK
<1>2. TypeOK'
  <2>1. /\ pc' \in [Frame -> PC] /\ pc'["handler"] \in {"idle", "stop"} \cup StopSteps
        /\ ret' \in [Frame -> PC] /\ wasFailed' \in [Frame -> BOOLEAN] /\ failed' \in BOOLEAN
    <3>1. CASE Raise(f)
      BY <1>0, <1>1, <3>1, Raised DEF PC, RetInv, TypeOK, FramesTyped
    <3>2. CASE Return(f) /\ UNCHANGED failed
      BY <1>0, <3>2 DEF PC, RetInv, TypeOK
    <3> QED BY <3>1, <3>2
  <2>2. /\ mode' \in Modes /\ handler' \in {"original", "session"} /\ prevKnown' \in BOOLEAN
        /\ cut' \in SUBSET (PC \cup {"killed"} \cup PlainLocks) /\ presses' \in Nat
        /\ held' \in PlainLocks \cup {"none"}
        /\ status' \in {"STARTING", "RUNNING", "STOPPING"} \cup Final
        /\ running' \in BOOLEAN /\ feeding' \in BOOLEAN
    BY <1>0, <1>1 DEF TypeOK
  <2>3. /\ bar' \in {"none", "good", "bad"} /\ ticks' \in Nat /\ bars' \in Nat
        /\ dated' \in BOOLEAN /\ flag' \in BOOLEAN
    BY <1>0, <1>1 DEF TypeOK
  <2>4. account' \in Account /\ risk' \in Risk /\ trades' \in Nat
    BY <1>0, <1>1 DEF TypeOK
  <2>5. /\ estranged' \in BOOLEAN /\ lost' \in Nat /\ unsaved' \in BOOLEAN /\ recorded' \in Nat
        /\ dossier' \in [trades : Int, qty : Int, verdict : Final \cup {"none"}]
    <3>1. recorded \in Nat /\ account.qty \in Int
      BY DEF TypeOK, Account
    <3>2. status' \in Final
      OBVIOUS
    <3>3. dossier' \in [trades : Int, qty : Int, verdict : Final \cup {"none"}]
      BY <3>1, <3>2 DEF TypeOK
    <3> QED BY <3>1, <3>3 DEF TypeOK
  <2> QED BY <2>1, <2>2, <2>3, <2>4, <2>5 DEF TypeOK
<1>3. RetInv'
  BY <1>0, <1>1 DEF RetInv
<1>4. LockInv'
  BY <1>0, <1>1 DEF LockInv, Holds, Nested, MayLock, RetInv
<1>5. ModeInv'
  BY <1>0, <1>1 DEF ModeInv, RetInv
<1>6. HandlerInv'
  BY <1>0, <1>1 DEF HandlerInv, RetInv, EarlyInv
<1>7. EarlyInv'
  BY <1>0, <1>1 DEF EarlyInv, RetInv, HandlerInv
<1>8. StartInv'
  BY <1>0, <1>1 DEF StartInv, RetInv
<1>9. StopInv'
  BY <1>0, <1>1 DEF StopInv, RetInv
<1>10. QuietInv'
  BY <1>0, <1>1 DEF QuietInv, LockInv, Holds, Nested, RetInv, HandlerInv, InTry
<1>11. FlagInv'
  BY <1>0, <1>1 DEF FlagInv, Clean, RetInv, HandlerInv, ModeInv, InTry
<1>12. TradesInv'
  BY <1>0, <1>1 DEF TradesInv, RetInv, HandlerInv, ModeInv, InTry
<1>13. DossierComplete'
  BY <1>0, <1>1 DEF DossierComplete, LockInv, Holds, Nested, ModeInv, HandlerInv, TradesInv
<1>14. FailInv'
  BY <1>0, <1>1 DEF FailInv, RetInv
<1>15. VerdictIsTrue'
  BY <1>0, <1>1 DEF VerdictIsTrue, FailInv, RetInv
<1>16. BreakerInv'
  BY <1>0, <1>1 DEF BreakerInv, Side, PureClosing, RetInv
<1> QED BY <1>2, <1>3, <1>4, <1>5, <1>6, <1>7, <1>8, <1>9, <1>10, <1>11, <1>12, <1>13, <1>14, <1>15, <1>16

LEMMA InterruptPreserves ==
  ASSUME IInv, NEW lock \in PlainLocks \cup {"none"}, Interrupt(lock)
  PROVE  IInv'
<1> USE DEF IInv, Control, Interrupt
<1>0. /\ pc \in [Frame -> PC] /\ pc["handler"] \in {"idle", "stop"} \cup StopSteps
      /\ ret \in [Frame -> PC] /\ wasFailed \in [Frame -> BOOLEAN]
  BY DEF TypeOK
<1>1. TypeOK'
  <2>1. /\ pc' \in [Frame -> PC] /\ pc'["handler"] \in {"idle", "stop"} \cup StopSteps
        /\ ret' \in [Frame -> PC] /\ wasFailed' \in [Frame -> BOOLEAN] /\ failed' \in BOOLEAN
    BY <1>0 DEF PC, RetInv, TypeOK
  <2>2. /\ mode' \in Modes /\ handler' \in {"original", "session"} /\ prevKnown' \in BOOLEAN
        /\ cut' \in SUBSET (PC \cup {"killed"} \cup PlainLocks) /\ presses' \in Nat
        /\ held' \in PlainLocks \cup {"none"}
        /\ status' \in {"STARTING", "RUNNING", "STOPPING"} \cup Final
        /\ running' \in BOOLEAN /\ feeding' \in BOOLEAN
    BY <1>0 DEF TypeOK
  <2>3. /\ bar' \in {"none", "good", "bad"} /\ ticks' \in Nat /\ bars' \in Nat
        /\ dated' \in BOOLEAN /\ flag' \in BOOLEAN
    BY <1>0 DEF TypeOK
  <2>4. account' \in Account /\ risk' \in Risk /\ trades' \in Nat
    BY <1>0 DEF TypeOK
  <2>5. /\ estranged' \in BOOLEAN /\ lost' \in Nat /\ unsaved' \in BOOLEAN /\ recorded' \in Nat
        /\ dossier' \in [trades : Int, qty : Int, verdict : Final \cup {"none"}]
    BY <1>0 DEF TypeOK
  <2> QED BY <2>1, <2>2, <2>3, <2>4, <2>5 DEF TypeOK
<1>2. RetInv'
  BY <1>0 DEF RetInv
<1>3. LockInv'
  BY <1>0 DEF LockInv, Holds, Nested, MayLock, RetInv
<1>4. ModeInv'
  BY <1>0 DEF ModeInv
<1>5. HandlerInv'
  BY <1>0 DEF HandlerInv
<1>6. EarlyInv'
  BY <1>0 DEF EarlyInv
<1>7. StartInv'
  BY <1>0 DEF StartInv
<1>8. StopInv'
  BY <1>0 DEF StopInv
<1>9. QuietInv'
  BY <1>0 DEF QuietInv
<1>10. FlagInv'
  BY <1>0 DEF FlagInv, Clean
<1>11. TradesInv'
  BY <1>0 DEF TradesInv
<1>12. DossierComplete'
  BY <1>0 DEF DossierComplete
<1>13. FailInv'
  BY <1>0 DEF FailInv
<1>14. VerdictIsTrue'
  BY <1>0 DEF VerdictIsTrue
<1>15. BreakerInv'
  BY <1>0 DEF BreakerInv, Side, PureClosing
<1> QED BY <1>1, <1>2, <1>3, <1>4, <1>5, <1>6, <1>7, <1>8, <1>9, <1>10, <1>11, <1>12, <1>13, <1>14, <1>15

LEMMA InterruptAgainPreserves ==
  ASSUME IInv, NEW lock \in PlainLocks, InterruptAgain(lock)
  PROVE  IInv'
<1> USE DEF IInv, Control, InterruptAgain, Frames
<1>0. /\ pc \in [Frame -> PC] /\ pc["handler"] \in {"idle", "stop"} \cup StopSteps
      /\ ret \in [Frame -> PC] /\ wasFailed \in [Frame -> BOOLEAN]
  BY DEF TypeOK
<1>1. TypeOK'
  <2>1. /\ pc' \in [Frame -> PC] /\ pc'["handler"] \in {"idle", "stop"} \cup StopSteps
        /\ ret' \in [Frame -> PC] /\ wasFailed' \in [Frame -> BOOLEAN] /\ failed' \in BOOLEAN
    BY <1>0 DEF PC, RetInv, TypeOK
  <2>2. /\ mode' \in Modes /\ handler' \in {"original", "session"} /\ prevKnown' \in BOOLEAN
        /\ cut' \in SUBSET (PC \cup {"killed"} \cup PlainLocks) /\ presses' \in Nat
        /\ held' \in PlainLocks \cup {"none"}
        /\ status' \in {"STARTING", "RUNNING", "STOPPING"} \cup Final
        /\ running' \in BOOLEAN /\ feeding' \in BOOLEAN
    BY <1>0 DEF TypeOK
  <2>3. /\ bar' \in {"none", "good", "bad"} /\ ticks' \in Nat /\ bars' \in Nat
        /\ dated' \in BOOLEAN /\ flag' \in BOOLEAN
    BY <1>0 DEF TypeOK
  <2>4. account' \in Account /\ risk' \in Risk /\ trades' \in Nat
    BY <1>0 DEF TypeOK
  <2>5. /\ estranged' \in BOOLEAN /\ lost' \in Nat /\ unsaved' \in BOOLEAN /\ recorded' \in Nat
        /\ dossier' \in [trades : Int, qty : Int, verdict : Final \cup {"none"}]
    BY <1>0 DEF TypeOK
  <2> QED BY <2>1, <2>2, <2>3, <2>4, <2>5 DEF TypeOK
<1>2. RetInv'
  BY <1>0 DEF RetInv
<1>3. LockInv'
  BY <1>0 DEF LockInv, Holds, Nested, MayLock, RetInv
<1>4. ModeInv'
  BY <1>0 DEF ModeInv
<1>5. HandlerInv'
  BY <1>0 DEF HandlerInv
<1>6. EarlyInv'
  BY <1>0 DEF EarlyInv
<1>7. StartInv'
  BY <1>0 DEF StartInv
<1>8. StopInv'
  BY <1>0 DEF StopInv
<1>9. QuietInv'
  BY <1>0 DEF QuietInv
<1>10. FlagInv'
  BY <1>0 DEF FlagInv, Clean
<1>11. TradesInv'
  BY <1>0 DEF TradesInv
<1>12. DossierComplete'
  BY <1>0 DEF DossierComplete
<1>13. FailInv'
  BY <1>0 DEF FailInv
<1>14. VerdictIsTrue'
  BY <1>0 DEF VerdictIsTrue
<1>15. BreakerInv'
  BY <1>0 DEF BreakerInv, Side, PureClosing
<1> QED BY <1>1, <1>2, <1>3, <1>4, <1>5, <1>6, <1>7, <1>8, <1>9, <1>10, <1>11, <1>12, <1>13, <1>14, <1>15

LEMMA KeyboardInterruptPreserves ==
  ASSUME IInv, KeyboardInterrupt
  PROVE  IInv'
<1> USE DEF IInv, Control, KeyboardInterrupt, Verdict
<1>0. /\ pc \in [Frame -> PC] /\ pc["handler"] \in {"idle", "stop"} \cup StopSteps
      /\ ret \in [Frame -> PC] /\ wasFailed \in [Frame -> BOOLEAN]
  BY DEF TypeOK
<1>1. TypeOK'
  <2>1. /\ pc' \in [Frame -> PC] /\ pc'["handler"] \in {"idle", "stop"} \cup StopSteps
        /\ ret' \in [Frame -> PC] /\ wasFailed' \in [Frame -> BOOLEAN] /\ failed' \in BOOLEAN
    BY <1>0 DEF PC, RetInv, TypeOK
  <2>2. /\ mode' \in Modes /\ handler' \in {"original", "session"} /\ prevKnown' \in BOOLEAN
        /\ cut' \in SUBSET (PC \cup {"killed"} \cup PlainLocks) /\ presses' \in Nat
        /\ held' \in PlainLocks \cup {"none"}
        /\ status' \in {"STARTING", "RUNNING", "STOPPING"} \cup Final
        /\ running' \in BOOLEAN /\ feeding' \in BOOLEAN
    BY <1>0 DEF TypeOK
  <2>3. /\ bar' \in {"none", "good", "bad"} /\ ticks' \in Nat /\ bars' \in Nat
        /\ dated' \in BOOLEAN /\ flag' \in BOOLEAN
    BY <1>0 DEF TypeOK
  <2>4. account' \in Account /\ risk' \in Risk /\ trades' \in Nat
    BY <1>0 DEF TypeOK
  <2>5. /\ estranged' \in BOOLEAN /\ lost' \in Nat /\ unsaved' \in BOOLEAN /\ recorded' \in Nat
        /\ dossier' \in [trades : Int, qty : Int, verdict : Final \cup {"none"}]
    BY <1>0 DEF TypeOK
  <2> QED BY <2>1, <2>2, <2>3, <2>4, <2>5 DEF TypeOK
<1>2. RetInv'
  BY <1>0 DEF RetInv
<1>3. LockInv'
  BY <1>0 DEF LockInv, Holds, Nested, MayLock
<1>4. ModeInv'
  BY <1>0 DEF ModeInv
<1>5. HandlerInv'
  BY <1>0 DEF HandlerInv
<1>6. EarlyInv'
  BY <1>0 DEF EarlyInv
<1>7. StartInv'
  BY <1>0 DEF StartInv, EarlyInv, HandlerInv
<1>8. StopInv'
  BY <1>0 DEF StopInv
<1>9. QuietInv'
  BY <1>0 DEF QuietInv, LockInv, Holds, Nested, RetInv, HandlerInv, ModeInv
<1>10. FlagInv'
  BY <1>0 DEF FlagInv, Clean
<1>11. TradesInv'
  BY <1>0 DEF TradesInv, ModeInv
<1>12. DossierComplete'
  BY <1>0 DEF DossierComplete
<1>13. FailInv'
  BY <1>0 DEF FailInv
<1>14. VerdictIsTrue'
  BY <1>0 DEF VerdictIsTrue
<1>15. BreakerInv'
  BY <1>0 DEF BreakerInv, Side, PureClosing
<1> QED BY <1>1, <1>2, <1>3, <1>4, <1>5, <1>6, <1>7, <1>8, <1>9, <1>10, <1>11, <1>12, <1>13, <1>14, <1>15

-----------------------------------------------------------------------------
LEMMA InitEstablishes ==
  ASSUME Init
  PROVE  IInv
<1> USE DEF Init
<1>1. /\ pc["main"] = "new" /\ pc["worker"] = "off" /\ pc["handler"] = "idle"
      /\ ret["main"] = "returned" /\ ret["worker"] = "idle" /\ ret["handler"] = "idle"
      /\ \A f \in Frame : wasFailed[f] = FALSE
  OBVIOUS
<1>2. TypeOK
  <2>1. /\ pc \in [Frame -> PC] /\ ret \in [Frame -> PC] /\ wasFailed \in [Frame -> BOOLEAN]
    BY DEF PC
  <2>2. account \in Account
    BY AccountAssumption DEF Opening, Account
  <2>3. risk \in Risk
    BY AccountAssumption DEF Fresh, Risk
  <2>4. dossier \in [trades : Int, qty : Int, verdict : Final \cup {"none"}]
    OBVIOUS
  <2> QED BY <1>1, <2>1, <2>2, <2>3, <2>4 DEF TypeOK
<1>3. Control
  BY <1>1 DEF Control, RetInv, LockInv, Holds, Nested, ModeInv, HandlerInv
<1>4. account.qty = 0
  BY DEF Opening
<1>5. EarlyInv /\ StartInv /\ StopInv /\ QuietInv
  BY <1>1, <1>4 DEF EarlyInv, StartInv, StopInv, QuietInv
<1>6. FlagInv /\ TradesInv
  BY <1>1, <1>4 DEF FlagInv, Clean, TradesInv
<1>7. DossierComplete /\ VerdictIsTrue
  BY DEF DossierComplete, VerdictIsTrue
<1>8. FailInv
  BY <1>1 DEF FailInv
<1>9. BreakerInv
  BY <1>1 DEF BreakerInv
<1> QED BY <1>2, <1>3, <1>5, <1>6, <1>7, <1>8, <1>9 DEF IInv

LEMMA StutterPreserves ==
  ASSUME IInv, UNCHANGED vars
  PROVE  IInv'
<1> USE DEF vars, Frames
<1>1. TypeOK'
  BY DEF IInv, TypeOK
<1>2. Control'
  BY DEF IInv, Control, RetInv, LockInv, Holds, Nested, ModeInv, HandlerInv
<1>3. EarlyInv' /\ StartInv' /\ StopInv' /\ QuietInv'
  BY DEF IInv, EarlyInv, StartInv, StopInv, QuietInv
<1>4. FlagInv' /\ TradesInv'
  BY DEF IInv, FlagInv, Clean, TradesInv
<1>5. DossierComplete' /\ VerdictIsTrue' /\ FailInv'
  BY DEF IInv, DossierComplete, VerdictIsTrue, FailInv
<1>6. BreakerInv'
  BY DEF IInv, BreakerInv, Side, PureClosing
<1> QED BY <1>1, <1>2, <1>3, <1>4, <1>5, <1>6 DEF IInv

LEMMA NextPreserves ==
  ASSUME IInv, [Next]_vars
  PROVE  IInv'
<1>1. ASSUME NEW f \in {"main", "worker"}, Process(f) PROVE IInv'
  BY <1>1, ProcessTickPreserves, AbortPreserves, AggregatePreserves, CloseBarPreserves,
     DecidePreserves, SubmitPreserves, RecordPreserves, SnapshotPreserves, LimitsPreserves,
     LedgerRaisesPreserves, Zenon DEF Process
<1>2. ASSUME NEW f \in Frame, Conclude(f) PROVE IInv'
  BY <1>2, StopPreserves, RestorePreserves, ReleasePreserves, FlushPreserves, SealPreserves, Zenon DEF Conclude
<1>3. CASE Main
  BY <1>1, <1>2, <1>3, StartPreserves, SubscribePreserves, ReadyPreserves, NotReadyPreserves,
     UnreadyPreserves, RunningPreserves,
     NextTickPreserves, LeaveLoopPreserves, FeedErrorPreserves, Zenon DEF Main
<1>4. CASE Worker \/ Handler
  BY <1>1, <1>2, <1>4, Zenon DEF Worker, Handler
<1> QED BY <1>3, <1>4, DeliverPreserves, InterruptPreserves, InterruptAgainPreserves,
           KeyboardInterruptPreserves, StutterPreserves, Zenon DEF Next

(* The control, the money and the records of a session stay consistent.   *)
THEOREM Inductive == Spec => []IInv
<1>1. Init => IInv
  BY InitEstablishes
<1>2. IInv /\ [Next]_vars => IInv'
  BY NextPreserves
<1> QED BY <1>1, <1>2, PTL DEF Spec

(* Every variable keeps its type, for every quantity, price and limit, and *)
(* every number of ticks, bars and Ctrl+Cs.                                *)
THEOREM TypeCorrect == Spec => []TypeOK
<1>1. IInv => TypeOK
  BY DEF IInv
<1> QED BY <1>1, Inductive, PTL

(* The strategy's flag says what the broker's position is until an order is*)
(* refused, an exception comes between signal and fill, or Ctrl+C does.    *)
THEOREM FlagFollowsPosition == Spec => []FlagIsPositionUnlessRefused
<1>1. IInv => FlagIsPositionUnlessRefused
  BY DEF IInv, FlagInv, Clean, FlagIsPositionUnlessRefused, FlagIsPosition
<1> QED BY <1>1, Inductive, PTL

(* The sealed dossier has the broker's trades, those the ledger broke off  *)
(* aside, its position and the true verdict, whichever frame sealed it.    *)
THEOREM DossierTrue == Spec => []DossierIsTrue
<1>1. IInv => DossierIsTrue
  BY DEF IInv, DossierIsTrue
<1> QED BY <1>1, Inductive, PTL

-----------------------------------------------------------------------------
(* Only a submitted order moves the position.                              *)
LEMMA OnlySubmitMoves ==
  ASSUME IInv, [Next]_vars, ~ \E f \in {"main", "worker"} : Submit(f)
  PROVE  account'.qty = account.qty
<1>1. ASSUME NEW f \in {"main", "worker"}, NEW price \in Prices, NEW poor \in BOOLEAN,
             ProcessTick(f, price, poor)
      PROVE  account'.qty = account.qty
  BY <1>1, MarkedAccount DEF ProcessTick, IInv, TypeOK
<1>2. ASSUME NEW f \in {"main", "worker"}, Process(f)
      PROVE  account'.qty = account.qty
  BY <1>1, <1>2 DEF Process, Abort, Aggregate, CloseBar, Decide, Record, Snapshot, Limits,
                    LedgerRaises
<1>3. ASSUME NEW f \in Frame, Conclude(f)
      PROVE  account'.qty = account.qty
  BY <1>3 DEF Conclude, Stop, Restore, Release, Flush, Seal
<1>4. CASE Main
  BY <1>2, <1>3, <1>4 DEF Main, Start, Subscribe, Ready, NotReady, Unready, Running, NextTick,
                    LeaveLoop, FeedError
<1>5. CASE Worker \/ Handler
  BY <1>2, <1>3, <1>5 DEF Worker, Handler
<1>6. CASE \/ Deliver \/ KeyboardInterrupt
           \/ \E lock \in PlainLocks \cup {"none"} : Interrupt(lock)
           \/ \E lock \in PlainLocks : InterruptAgain(lock)
  BY <1>6 DEF Deliver, Interrupt, InterruptAgain, KeyboardInterrupt
<1>7. CASE UNCHANGED vars
  BY <1>7 DEF vars
<1> QED BY <1>4, <1>5, <1>6, <1>7 DEF Next

(* While the drawdown breaker is on no fill grows the position or turns it.*)
THEOREM BreakerHolds == Spec => BreakerOnlyCloses
<1>1. ASSUME IInv, [Next]_vars, risk.breaker
      PROVE  Abs(account'.qty) <= Abs(account.qty) /\ account'.qty * account.qty >= 0
  <2>1. account.qty \in Int /\ account \in Account /\ Qty \in Nat \ {0}
    BY <1>1, ForwardAssumption DEF IInv, TypeOK, Account
  <2>2. CASE \E f \in {"main", "worker"} : Submit(f)
    <3> PICK f \in {"main", "worker"} : Submit(f)
      BY <2>2
    <3>1. PureClosing(account, Side, Qty)
      BY <1>1 DEF Submit, IInv, BreakerInv
    <3>2. CASE UNCHANGED account
      BY <2>1, <3>2, SMT DEF Abs
    <3>3. CASE account' = Filled(account, Side, Qty, account.mark + Sign(Side) * Spread)
      <4> DEFINE at == account.mark + Sign(Side) * Spread
      <4>1. at \in Int
        BY <2>1, ForwardAssumption, SMT DEF Account, Sign
      <4> HIDE DEF at
      <4>2. account'.qty = IF Side = "BUY" THEN account.qty + Qty ELSE account.qty - Qty
        BY <2>1, <3>3, <4>1, FilledAccount DEF at
      <4>3. \/ Side = "BUY" /\ account.qty < 0 /\ Qty <= -account.qty
            \/ Side # "BUY" /\ account.qty > 0 /\ Qty <= account.qty
        BY <2>1, <3>1, SMT DEF PureClosing, Sign, Abs
      <4>4. \/ account.qty < 0 /\ account'.qty <= 0 /\ account.qty <= account'.qty
            \/ account.qty > 0 /\ account'.qty >= 0 /\ account'.qty <= account.qty
        BY <2>1, <4>2, <4>3, SMT
      <4>5. account'.qty \in Int
        BY <2>1, <4>2
      <4> QED BY <2>1, <4>4, <4>5, SMT DEF Abs
    <3> QED BY <3>2, <3>3 DEF Submit
  <2>3. CASE ~ \E f \in {"main", "worker"} : Submit(f)
    <3>1. account'.qty = account.qty
      BY <1>1, <2>3, OnlySubmitMoves
    <3> QED BY <2>1, <3>1, SMT DEF Abs
  <2> QED BY <2>2, <2>3
<1>2. IInv /\ [Next]_vars =>
        [risk.breaker => Abs(account'.qty) <= Abs(account.qty)
                           /\ account'.qty * account.qty >= 0]_vars
  BY <1>1
<1> QED BY <1>2, Inductive, PTL DEF Spec, BreakerOnlyCloses
=============================================================================
