------------------------------- MODULE Signals -------------------------------
(***************************************************************************)
(* What the strategies read in the candles: the signals of                 *)
(* backtest/signals.py, the features and models of strategy/features.py,   *)
(* and the OKF strategies of okf/strategies.py.                            *)
(***************************************************************************)
EXTENDS Indicators

Signal(side, entry, stop, target) ==
  [side |-> side, entry |-> entry, stop |-> stop, target |-> target]

Flat == Signal("FLAT", None, None, None)

\* The price at a distance on the gaining side, or on the losing one.
Ahead(side, price, distance) == IF side = "LONG" THEN price + distance ELSE price - distance

-----------------------------------------------------------------------------
(* Backtest signals.  Each is given the whole series and the index of the   *)
(* bar that has just closed.                                                *)

(* _slice_closed *)
Closed(candles, index) == SubSeq(candles, 1, index)

\* The bars before the last that a breakout is measured against.
Channel(hist, lookback) == SubSeq(hist, Len(hist) - lookback, Len(hist) - 1)

Breakout(hist, lookback) ==
  LET close == Last(hist).close IN
  IF close > Highest(Channel(hist, lookback)) THEN "LONG"
  ELSE IF close < Lowest(Channel(hist, lookback)) THEN "SHORT"
  ELSE "FLAT"

DonchianBreakoutSignal(candles, index) ==
  LET hist     == Closed(candles, index)
      n        == Periods.lookback
      close    == Last(hist).close
      side     == Breakout(hist, n)
      range    == Atr(hist, Periods.atr)
      distance == 2 * (IF range = None THEN Part(close, 20) ELSE range)
      volumes  == Field(Recent(hist, n), "volume")
  IN  IF Len(hist) < n + 2 \/ side = "FLAT" \/ n * Last(hist).volume < Sum(volumes)
      THEN Flat
      ELSE Signal(side, close, Ahead(side, close, -distance), Ahead(side, close, 3 * distance))

\* Mutant: buys what is above the average.
MeanReversionSignal_Chases(candles, index) ==
  LET close == Last(Closed(candles, index)).close
      mid   == Sma(Field(Closed(candles, index), "close"), Periods.sma)
  IN  IF index < Periods.sma + 1 \/ close <= Part(mid, 1020)
      THEN Flat ELSE Signal("LONG", close, Part(close, 980), mid)

MeanReversionSignal(candles, index) ==
  LET hist  == Closed(candles, index)
      close == Last(hist).close
      mid   == Sma(Field(hist, "close"), Periods.sma)
  IN  CASE Len(hist) < Periods.sma + 1 -> Flat
        [] OTHER ->
           IF close < Part(mid, 980) THEN Signal("LONG", close, Part(close, 980), mid)
           ELSE IF close > Part(mid, 1020) THEN Signal("SHORT", close, Part(close, 1020), mid)
           ELSE Flat

(* A cross of the two averages, seen over the last two bars. *)
TrendFollowingSignal(candles, index) ==
  LET hist     == Closed(candles, index)
      closes   == Field(hist, "close")
      close    == Last(hist).close
      Lead(values) == Ema(values, Periods.fast) - Ema(values, Periods.slow)
      before   == Lead(Front(closes))
      now      == Lead(closes)
  IN  IF Len(hist) < Periods.slow + 2 THEN Flat
      ELSE IF before <= 0 /\ now > 0
           THEN Signal("LONG", close, Part(close, 970), Part(close, 1090))
      ELSE IF before >= 0 /\ now < 0
           THEN Signal("SHORT", close, Part(close, 1030), Part(close, 910))
      ELSE Flat

SmcStructureSignal(candles, index) ==
  LET hist   == Closed(candles, index)
      window == Channel(hist, Periods.lookback)
      close  == Last(hist).close
      side   == Breakout(hist, Periods.lookback)
      stop   == IF side = "LONG" THEN Lowest(window) ELSE Highest(window)
  IN  IF Len(hist) < Periods.lookback + 2 \/ side = "FLAT" THEN Flat
      ELSE Signal(side, close, stop, Ahead(side, close, 2 * Gap(close, stop)))

(* signal_for_strategy, by what the name of the strategy contains. *)
SignalForStrategy(strategy, candles, index) ==
  CASE strategy = "mean_reversion"  -> MeanReversionSignal(candles, index)
    [] strategy = "trend_following" -> TrendFollowingSignal(candles, index)
    [] strategy = "po3_vwap"        -> SmcStructureSignal(candles, index)
    [] OTHER                        -> DonchianBreakoutSignal(candles, index)

-----------------------------------------------------------------------------
(* Features and models of the strategy service *)

(* Candles by their times, of which no two have the same.                   *)
ByTime(candles) ==
  [i \in 1 .. Cardinality(candles) |->
     CHOOSE c \in candles : Cardinality({d \in candles : d.time <= c.time}) = i]

(* The candle that n bars make, from this group of them on. *)
Longer(group, time) ==
  [time |-> time, open |-> Head(group).open, high |-> Highest(group), low |-> Lowest(group),
   close |-> Last(group).close, volume |-> Sum(Field(group, "volume"))]

Buckets(candles, n) ==
  {Longer(ByTime({c \in Range(candles) : c.time \div n = k}), n * k) :
     k \in {c.time \div n : c \in Range(candles)}}

(* synthesize_timeframe: the candles of a longer timeframe, n bars each, by *)
(* the bars there are; the last may still be forming.                       *)
SynthesizeTimeframe(candles, n) == ByTime(Buckets(candles, n))

(* only_closed_candles: a candle that is still open at this time is dropped. *)
\* Mutant: a candle that has begun is taken for one that is closed.
OnlyClosed_Begun(candles, asOf, duration) == ByTime({c \in candles : c.time < asOf})

OnlyClosed(candles, asOf, duration) == ByTime({c \in candles : c.time + duration <= asOf})

Bias(high) ==
  IF Len(high) < 2 THEN "unknown"
  ELSE IF Last(high).close >= high[Len(high) - 1].close THEN "bullish"
  ELSE "bearish"

(* A model is CONFIRMED, REJECTED or, where it lacks something, UNAVAILABLE. *)
Judged(available, confirmed) ==
  IF ~available THEN "UNAVAILABLE" ELSE IF confirmed THEN "CONFIRMED" ELSE "REJECTED"

(* _eval_m1: a sweep of a level of the previous day, closed back. *)
EvalM1(closed) ==
  LET closes == Field(closed, "close")
      fast   == Ema(closes, Periods.fast)
      slow   == Ema(closes, Periods.slow)
      adx    == Adx(closed, Periods.adx)
      day    == PreviousSession(closed, Periods.day)
      swept  == Recent(closed, Min({Periods.sweep, Len(closed)}))
  IN  Judged(fast # None /\ slow # None /\ adx # None,
             /\ day # None /\ adx >= Periods.minAdx
             /\ \/ Highest(swept) > day.high /\ Last(closes) < day.high /\ fast > slow
                \/ Lowest(swept) < day.low /\ Last(closes) > day.low /\ fast < slow)

(* _eval_m2: a candle through the volume-weighted price, with the bias. *)
EvalM2(closed, high) ==
  LET c      == Last(closed)
      price  == Vwap(closed)
      range  == Atr(closed, Periods.atr)
      volume == RelativeVolume(closed, Periods.volume)
  IN  Judged(price # None /\ range # None /\ volume # None,
             /\ Gap(c.close, c.open) >= range /\ volume >= 13
             /\ \/ c.open < price /\ price <= c.close /\ Bias(high) = "bullish"
                \/ c.open > price /\ price >= c.close /\ Bias(high) = "bearish")

(* _eval_m4: a break of structure, and a gap anywhere in the bars. *)
EvalM4(closed, mid, high) ==
  Judged(Len(mid) >= Periods.leastMid /\ Len(high) >= Periods.leastHigh,
         LastFairValueGap(closed) # None /\ StructureBreak(closed) # "none")

(* StrategyFeatureEngine.compute, as build_feature_bundle calls it.  M3     *)
(* asks for an order flow that no provider gives.                           *)
Features(candles, asOf, stale) ==
  LET Whole(n)   == OnlyClosed(Buckets(candles, n), asOf, n)
      closed     == OnlyClosed(Range(candles), asOf, 1)
      closedMid  == Whole(Periods.mid)
      closedHigh == Whole(Periods.high)
      models     == [M1 |-> EvalM1(closed), M2 |-> EvalM2(closed, closedHigh),
                     M3 |-> "UNAVAILABLE", M4 |-> EvalM4(closed, closedMid, closedHigh)]
  IN  CASE stale                                -> [status |-> "STALE", confirmed |-> {}]
        [] Len(closed) < Periods.leastFeatures  -> [status |-> "UNAVAILABLE", confirmed |-> {}]
        [] OTHER -> [status    |-> "CALCULATED",
                     confirmed |-> {m \in DOMAIN models : models[m] = "CONFIRMED"},
                     available |-> {m \in DOMAIN models : models[m] # "UNAVAILABLE"},
                     close     |-> Last(closed).close,
                     range     |-> Atr(closed, Periods.atr),
                     stopLong  |-> StructuralStop(closed, "LONG"),
                     stopShort |-> StructuralStop(closed, "SHORT")]

-----------------------------------------------------------------------------
(* OKF strategies: the side they confirm, or None.  They are given the      *)
(* candles as they are, the forming one too.                                *)

\* Mutant: the wick is enough, whatever the body does.
M1Po3Sweep_WickOnly(candles) ==
  LET c   == Last(candles)
      day == PreviousSession(candles, Periods.day)
  IN  IF day = None THEN None
      ELSE IF c.high > day.high /\ c.close < day.high THEN "SHORT" ELSE None

(* evaluate_m1_po3_sweep: a level of the previous day or month is swept and *)
(* the body closes back, up or down.                                        *)
M1Po3Sweep(candles) ==
  LET c      == Last(candles)
      adx    == Adx(candles, Periods.adx)
      volume == RelativeVolume(candles, Periods.volume)
      levels == {PreviousSession(candles, Periods.day), PreviousSession(candles, Periods.month)}
                  \ {None}
      Above(l) == c.high > l.high /\ c.close < l.high /\ c.close < c.open
      Below(l) == c.low < l.low /\ c.close > l.low /\ c.close > c.open
  IN  IF \/ Len(candles) < Periods.leastM1
         \/ adx = None \/ volume = None THEN None
      ELSE IF adx <= Periods.minAdx \/ volume < 13 THEN None
      ELSE IF \E l \in levels : Above(l) THEN "SHORT"
      ELSE IF \E l \in levels : Below(l) THEN "LONG"
      ELSE None

(* evaluate_m2_vwap_reclaim *)
M2VwapReclaim(candles, high) ==
  LET c      == Last(candles)
      before == candles[Len(candles) - 1].close
      price  == Vwap(candles)
      range  == Atr(candles, Periods.atr)
  IN  IF Len(candles) < Periods.leastM2 \/ Len(high) < 2 THEN None
      ELSE IF price = None \/ range = None THEN None
      ELSE IF range <= 0 \/ 10 * Gap(c.close, c.open) < 3 * range THEN None
      ELSE IF before < price /\ price <= c.close /\ Bias(high) = "bullish" THEN "LONG"
      ELSE IF before > price /\ price >= c.close /\ Bias(high) = "bearish" THEN "SHORT"
      ELSE None

\* The last price against the middle of the last swings.
Retraced(side, close, high, low) ==
  IF side = "LONG" THEN 2 * close <= high + low ELSE 2 * close >= high + low

(* evaluate_m3_ict_fvg: a swing of the high timeframe is swept, and in the  *)
(* lower one the structure breaks and the price is back in the gap.         *)
M3IctFvg(candles, high) ==
  LET close     == Last(candles).close
      sweptHigh == LastSwing(high, TRUE)
      sweptLow  == LastSwing(high, FALSE)
      swingHigh == LastSwing(candles, TRUE)
      swingLow  == LastSwing(candles, FALSE)
      gap       == LastFairValueGap(candles)
      side      == IF StructureBreak(candles) = "bullish" THEN "LONG" ELSE "SHORT"
      swept     == \/ sweptHigh # None /\ Last(high).high > sweptHigh
                   \/ sweptLow # None /\ Last(high).low < sweptLow
  IN  IF Len(candles) < Periods.leastM3 \/ Len(high) < Periods.leastM3High THEN None
      ELSE IF ~swept \/ StructureBreak(candles) = "none" THEN None
      ELSE IF gap = None \/ swingHigh = None \/ swingLow = None THEN None
      ELSE IF Retraced(side, close, swingHigh, swingLow) /\ close \in gap.bottom .. gap.top
           THEN side
      ELSE None

(* evaluate_m5_donchian_breakout: the volume against that of the channel.   *)
M5DonchianBreakout(candles) ==
  LET n       == Periods.lookback
      channel == Channel(candles, n)
      volume  == Sum(Field(channel, "volume"))
  IN  IF Len(candles) < Periods.leastM5 THEN None
      ELSE IF Last(candles).close <= Highest(channel) THEN None
      ELSE IF volume <= 0 \/ 10 * n * Last(candles).volume < 15 * volume THEN None
      ELSE "LONG"
=============================================================================
