--------------------------- MODULE TickAggregator ---------------------------
(***************************************************************************)
(* Ticks into bars, TickAggregator of data/feeds/aggregator.py.            *)
(*                                                                         *)
(* process_tick and flush hold the aggregator's lock from end to end, so   *)
(* each is one action, but for the callback on_bar_close: it runs after    *)
(* the lock is released (HandOver), and a flush may come before it.  The   *)
(* caller of process_tick waits for the callback.  Prices are paise, a     *)
(* bucket is named by the time it starts.  Open interest, the synthetic    *)
(* flag, the ring of recent ticks and the diagnostic counters are left     *)
(* out; no decision reads them.                                            *)
(***************************************************************************)
EXTENDS Money, SequencesExt

CONSTANTS
  Interval,    \* interval_seconds
  Prices,      \* last traded prices; 0 is a legal Tick.ltp
  Volumes,     \* tick volumes
  Times,       \* tick timestamps
  MaxTicks     \* bound: ticks processed

ASSUME AggregatorAssumption ==
  /\ Interval \in Nat \ {0}
  /\ Prices \subseteq Nat
  /\ Volumes \subseteq Nat
  /\ Times \subseteq Nat
  /\ MaxTicks \in Nat

VARIABLES
  config,    \* [mode, strict, ignoreDuplicates], fixed at construction
  bar,       \* the running bar: _current_bucket_start and the _curr_ fields
  last,      \* _last_tick, a sequence of at most one tick
  session,   \* _last_session_volume
  bars,      \* the bars emitted (bar_buffer, below its capacity)
  pending,   \* the closed bar whose callback has yet to run, if any
  total,     \* _total_ticks_processed
  (* History variables, for the properties only. *)
  taken,     \* the ticks of the running bar, each with its volume delta
  flushed,   \* flush has emitted a bar
  regular,   \* no tick took back volume, and no bar failed to close
  handed     \* start times of the bars given to the callback

vars == <<config, bar, last, session, bars, pending, total,
          taken, flushed, regular, handed>>

None == -1

(* TRADED_VOLUME is another name for CUMULATIVE. *)
Config == [mode : {"TICK_COUNT", "INCREMENTAL", "CUMULATIVE"},
           strict : BOOLEAN, ignoreDuplicates : BOOLEAN]
Tick == [time : Times, ltp : Prices, volume : Volumes]
Running == [start : Nat \cup {None}, open : Nat, high : Nat, low : Nat, close : Nat,
            volume : Nat, ticks : Nat, value : Nat]
Bar == [start : Nat, open : Nat \ {0}, high : Nat \ {0}, low : Nat \ {0},
        close : Nat \ {0}, volume : Nat, ticks : Nat, vwap : Nat]

NoBar == [start |-> None, open |-> 0, high |-> 0, low |-> 0, close |-> 0,
          volume |-> 0, ticks |-> 0, value |-> 0]

Bucket(time) == (time \div Interval) * Interval

-----------------------------------------------------------------------------
(* Volume.  In cumulative mode a tick adds what the session's volume grew  *)
(* by; the first tick, or one below the last, counts in full.              *)

VolumeDelta(tick) ==
  IF config.mode = "TICK_COUNT" THEN 1
  ELSE IF config.mode = "INCREMENTAL" \/ session = None \/ tick.volume < session
       THEN tick.volume
  ELSE tick.volume - session

(* Mutant: the first volume of the session is never replaced. *)
MutSessionVolume(tick) ==
  IF config.mode = "CUMULATIVE" /\ session = None THEN tick.volume ELSE session

SessionVolume(tick) == IF config.mode = "CUMULATIVE" THEN tick.volume ELSE session

-----------------------------------------------------------------------------
(* Bars.                                                                   *)

Opened(tick, delta) ==
  [ start  |-> Bucket(tick.time), open |-> tick.ltp, high |-> tick.ltp,
    low    |-> tick.ltp, close |-> tick.ltp,
    volume |-> delta, ticks |-> 1, value |-> tick.ltp * delta ]

(* Mutant: the price is summed without the volume it was traded at. *)
MutExtended(b, tick, delta) ==
  [b EXCEPT !.high   = Greater(@, tick.ltp),
            !.low    = Lesser(@, tick.ltp),
            !.close  = tick.ltp,
            !.volume = @ + delta,
            !.ticks  = @ + 1,
            !.value  = @ + tick.ltp]

Extended(b, tick, delta) ==
  [b EXCEPT !.high   = Greater(@, tick.ltp),
            !.low    = Lesser(@, tick.ltp),
            !.close  = tick.ltp,
            !.volume = @ + delta,
            !.ticks  = @ + 1,
            !.value  = @ + tick.ltp * delta]

(* round(pv_sum / volume, 2), or the close when nothing was traded.        *)
Vwap(b) == IF b.volume > 0 THEN Nearest(b.value, b.volume) ELSE {b.close}

Sealed(b, vwap) ==
  [ start |-> b.start, open |-> b.open, high |-> b.high, low |-> b.low,
    close |-> b.close, volume |-> b.volume, ticks |-> b.ticks, vwap |-> vwap ]

(* Bar's validators ask for positive prices; a bar with one of 0 raises.   *)
(* Mutant: they are not asked. *)
MutValid(b) == TRUE
Valid(b) == b.low > 0

-----------------------------------------------------------------------------
(* Operations.                                                             *)

Init ==
  /\ config \in Config
  /\ bar = NoBar /\ last = <<>> /\ session = None
  /\ bars = <<>> /\ pending = <<>> /\ total = 0
  /\ taken = <<>> /\ flushed = FALSE /\ regular = TRUE /\ handed = <<>>

(* A tick of a bucket before the running one. *)
Late(tick) == bar.start # None /\ Bucket(tick.time) < bar.start

(* A tick of the running bucket, older than the last one.                  *)
Retrograde(tick) ==
  bar.start = Bucket(tick.time) /\ last # <<>> /\ tick.time < last[1].time

Duplicate(tick) == last = <<tick>>

(* Ticks dropped, or refused by an exception, without a trace but in the   *)
(* counters.  A retrograde tick is dropped in strict mode only.            *)
Dropped(tick) ==
  \/ Late(tick)
  \/ config.strict /\ Retrograde(tick)
  \/ Duplicate(tick) /\ (config.strict \/ config.ignoreDuplicates)

Drop(tick) ==
  /\ Dropped(tick)
  /\ UNCHANGED <<bar, last, session, bars, pending, taken, flushed, regular, handed>>

(* The volume is counted before the bars are looked at. *)
Take(tick) ==
  /\ ~Dropped(tick)
  /\ session' = SessionVolume(tick)
  /\ UNCHANGED <<flushed, handed>>

StillRegular(tick) == regular /\ (session # None => tick.volume >= session)

Start(tick) ==
  /\ Take(tick) /\ bar.start = None
  /\ bar' = Opened(tick, VolumeDelta(tick))
  /\ taken' = <<[ltp |-> tick.ltp, delta |-> VolumeDelta(tick)]>>
  /\ last' = <<tick>>
  /\ regular' = StillRegular(tick)
  /\ UNCHANGED <<bars, pending>>

Continue(tick) ==
  /\ Take(tick) /\ bar.start # None /\ Bucket(tick.time) <= bar.start
  /\ bar' = Extended(bar, tick, VolumeDelta(tick))
  /\ taken' = Append(taken, [ltp |-> tick.ltp, delta |-> VolumeDelta(tick)])
  /\ last' = <<tick>>
  /\ regular' = StillRegular(tick)
  /\ UNCHANGED <<bars, pending>>

(* Mutant: the high of the closed bar is kept for the next one. *)
MutAfterRollover(tick) == [Opened(tick, VolumeDelta(tick)) EXCEPT !.high = Greater(bar.high, @)]
(* Mutant: the new bar keeps the bucket of the closed one. *)
MutBucketKept(tick) == [Opened(tick, VolumeDelta(tick)) EXCEPT !.start = bar.start]
AfterRollover(tick) == Opened(tick, VolumeDelta(tick))

Rollover(tick) ==
  /\ Take(tick) /\ bar.start # None /\ bar.start < Bucket(tick.time)
  /\ Valid(bar)
  /\ \E vwap \in Vwap(bar) :
       /\ bars' = Append(bars, Sealed(bar, vwap))
       /\ pending' = <<Sealed(bar, vwap)>>
  /\ bar' = AfterRollover(tick)
  /\ taken' = <<[ltp |-> tick.ltp, delta |-> VolumeDelta(tick)]>>
  /\ last' = <<tick>>
  /\ regular' = StillRegular(tick)

(* Building the bar raises: the volume has been counted, nothing else.     *)
FailToRoll(tick) ==
  /\ Take(tick) /\ bar.start # None /\ bar.start < Bucket(tick.time)
  /\ ~Valid(bar)
  /\ regular' = FALSE
  /\ UNCHANGED <<bar, last, bars, pending, taken>>

ProcessTick(tick) ==
  /\ pending = <<>>
  /\ total < MaxTicks
  /\ total' = total + 1
  /\ \/ Drop(tick) \/ Start(tick) \/ Continue(tick) \/ Rollover(tick) \/ FailToRoll(tick)
  /\ UNCHANGED config

(* The callback of the bar that process_tick closed.                       *)
HandOver ==
  /\ pending # <<>>
  /\ pending' = <<>>
  /\ handed' = Append(handed, pending[1].start)
  /\ UNCHANGED <<config, bar, last, session, bars, total, taken, flushed, regular>>

(* flush: its callers never ask for the callback.  It raises, changing     *)
(* nothing, when the running bar is not valid.                             *)
Flush ==
  /\ bar.start # None /\ Valid(bar)
  /\ \E vwap \in Vwap(bar) : bars' = Append(bars, Sealed(bar, vwap))
  /\ bar' = NoBar
  /\ taken' = <<>> /\ flushed' = TRUE
  /\ UNCHANGED <<config, last, session, pending, total, regular, handed>>

Next ==
  \/ \E tick \in Tick : ProcessTick(tick)
  \/ HandOver
  \/ Flush

Spec == Init /\ [][Next]_vars

-----------------------------------------------------------------------------
(* Properties.                                                             *)

TypeOK ==
  /\ config \in Config
  /\ bar \in Running
  /\ last \in {<<>>} \cup {<<tick>> : tick \in Tick}
  /\ session \in Volumes \cup {None}
  /\ bars \in Seq(Bar)
  /\ pending \in Seq(Bar) /\ Len(pending) <= 1
  /\ total \in 0 .. MaxTicks
  /\ taken \in Seq([ltp : Prices, delta : Nat])
  /\ flushed \in BOOLEAN /\ regular \in BOOLEAN
  /\ handed \in Seq(Nat)

(* The running bar, accumulated tick by tick in three branches of the      *)
(* code, is the open, high, low, close and count of the very ticks it took *)
(* since it was opened.                                                    *)
BarIsItsTicks ==
  IF bar.start = None THEN taken = <<>>
  ELSE /\ Len(taken) > 0 /\ bar.ticks = Len(taken)
       /\ bar.open = taken[1].ltp /\ bar.close = taken[Len(taken)].ltp
       /\ \A i \in DOMAIN taken : bar.low <= taken[i].ltp /\ taken[i].ltp <= bar.high
       /\ \E i \in DOMAIN taken : bar.low = taken[i].ltp
       /\ \E i \in DOMAIN taken : bar.high = taken[i].ltp

(* The volume-weighted price of a bar lies between its low and its high,   *)
(* whatever the volume mode, the resets of the session's volume and the    *)
(* rounding.                                                               *)
VwapWithinBar ==
  \A i \in DOMAIN bars : bars[i].low <= bars[i].vwap /\ bars[i].vwap <= bars[i].high

(* Until a flush, bars are emitted in the order of their buckets, one per  *)
(* bucket, and none but the last may still wait for its callback.          *)
BarsAdvance ==
  ~flushed =>
    /\ \A i, j \in DOMAIN bars : i < j => bars[i].start < bars[j].start
    /\ \A i \in DOMAIN bars : bars[i].start < bar.start
    /\ Len(handed) + Len(pending) = Len(bars)
    /\ \A i \in DOMAIN handed : handed[i] = bars[i].start

Total(s) == FoldLeft(+, 0, s)
VolumesOf(sealed) == [i \in DOMAIN sealed |-> sealed[i].volume]

(* In cumulative mode no volume is lost or counted twice: as long as the   *)
(* session's volume does not fall, the volumes of all bars add up to it.   *)
(* Ticks that are dropped give their volume to the next one.               *)
VolumeCountedOnce ==
  config.mode = "CUMULATIVE" /\ regular =>
    Total(VolumesOf(bars)) + bar.volume
      = IF session = None THEN 0 ELSE session
=============================================================================
