----------------------------- MODULE Indicators ------------------------------
(***************************************************************************)
(* What is computed from candles: the indicators of market/indicators.py   *)
(* and the session levels of strategy/features.py.                         *)
(*                                                                         *)
(* A candle is [time, open, high, low, close, volume]; its time is that of *)
(* its first bar, a bar of the base timeframe lasting one unit.  Prices are *)
(* integers and a division drops its remainder; a ratio is in tenths.  The *)
(* look-back periods of the code are the fields of Periods.                *)
(***************************************************************************)
EXTENDS Integers, Sequences, FiniteSets, SequencesExt

CONSTANTS None,      \* an absent value
          Periods    \* the look-backs and the numbers of candles asked for

ASSUME PeriodsAssumption ==
  /\ \A f \in {"lookback", "sma", "fast", "slow", "atr", "adx", "volume", "swing",
               "sweep", "day", "month", "mid", "high", "leastM5"} : Periods[f] \in Nat \ {0}
  /\ Periods.fast < Periods.slow /\ Periods.lookback < Periods.leastM5

ASSUME NoneAssumption == None \notin Int /\ None \notin {"LONG", "SHORT", "FLAT"}

Part(x, permille) == (x * permille) \div 1000
Gap(a, b) == IF a >= b THEN a - b ELSE b - a

Field(candles, f) == [i \in DOMAIN candles |-> candles[i][f]]
Sum(values) ==
  LET upTo[i \in 0 .. Len(values)] == IF i = 0 THEN 0 ELSE upTo[i - 1] + values[i]
  IN  upTo[Len(values)]
Recent(values, n) == SubSeq(values, Len(values) - n + 1, Len(values))
Highest(candles) == Max({c.high : c \in Range(candles)})
Lowest(candles)  == Min({c.low : c \in Range(candles)})

(* validate_candles: what the data provider lets through. *)
ValidCandle(c) ==
  /\ c.volume >= 0 /\ c.low >= 0
  /\ c.low <= Min({c.open, c.close}) /\ Max({c.open, c.close}) <= c.high

-----------------------------------------------------------------------------
(* Indicators: the last value of each, or None *)

Sma(values, n) == IF Len(values) < n THEN None ELSE Sum(Recent(values, n)) \div n

(* Seeded with the average of the first n values. *)
Ema(values, n) ==
  IF Len(values) < n THEN None
  ELSE FoldLeft(LAMBDA e, v : e + (2 * (v - e)) \div (n + 1),
                Sum(SubSeq(values, 1, n)) \div n,
                SubSeq(values, n + 1, Len(values)))

TrueRange(candles, i) ==
  LET c == candles[i] IN
  IF i = 1 THEN c.high - c.low
  ELSE LET before == candles[i - 1].close
       IN  Max({c.high - c.low, Gap(c.high, before), Gap(c.low, before)})

Atr(candles, n) == Sma([i \in DOMAIN candles |-> TrueRange(candles, i)], n)

(* The move up (or down) of a bar, when it is the larger of the two. *)
Move(candles, i, up) ==
  LET rise == candles[i].high - candles[i - 1].high
      fall == candles[i - 1].low - candles[i].low
      move == IF up THEN rise ELSE fall
  IN  IF move > (IF up THEN fall ELSE rise) /\ move > 0 THEN move ELSE 0

(* Wilder's sums and average: the first n moves are added up, then each     *)
(* next one replaces an n-th of its sum.                                    *)
Adx(candles, n) ==
  LET Wilder(s, i, x) == IF i <= n + 1 THEN s + x ELSE s - (s \div n) + x
      Step(s, i) ==
        LET plus  == Wilder(s.plus, i, Move(candles, i, TRUE))
            minus == Wilder(s.minus, i, Move(candles, i, FALSE))
            range == Wilder(s.range, i, TrueRange(candles, i))
            dx    == IF range = 0 \/ plus + minus = 0 THEN 0
                     ELSE (100 * Gap(plus, minus)) \div (plus + minus)
            count == IF i <= n THEN 0 ELSE s.count + 1
        IN  [plus |-> plus, minus |-> minus, range |-> range, count |-> count,
             adx |-> CASE count = 0 -> 0
                       [] count < n -> s.adx + dx
                       [] count = n -> (s.adx + dx) \div n
                       [] OTHER     -> (s.adx * (n - 1) + dx) \div n]
      last == FoldLeft(Step, [plus |-> 0, minus |-> 0, range |-> 0, count |-> 0, adx |-> 0],
                       [i \in 1 .. Len(candles) - 1 |-> i + 1])
  IN  IF Len(candles) <= n \/ last.count < n THEN None ELSE last.adx

(* The typical price, weighted by the volume. *)
Vwap(candles) ==
  LET volume == Sum(Field(candles, "volume"))
  IN  IF volume = 0 THEN None
      ELSE Sum([i \in DOMAIN candles |->
                  (candles[i].high + candles[i].low + candles[i].close) * candles[i].volume])
             \div (3 * volume)

(* The last volume over its average, in tenths. *)
RelativeVolume(candles, n) ==
  LET volumes == Field(candles, "volume")
      sum     == IF Len(volumes) < n THEN 0 ELSE Sum(Recent(volumes, n))
  IN  IF sum = 0 THEN None ELSE (10 * n * Last(volumes)) \div sum

Around(candles, i) == SubSeq(candles, i - Periods.swing, i + Periods.swing)

LastSwing(candles, up) ==
  LET Turns(i) == IF up THEN candles[i].high = Highest(Around(candles, i))
                        ELSE candles[i].low = Lowest(Around(candles, i))
      turns == {i \in 1 + Periods.swing .. Len(candles) - Periods.swing : Turns(i)}
  IN  IF turns = {} THEN None
      ELSE IF up THEN candles[Max(turns)].high ELSE candles[Max(turns)].low

(* market_structure_break *)
StructureBreak(candles) ==
  LET high == LastSwing(candles, TRUE)
      low  == LastSwing(candles, FALSE)
  IN  IF high # None /\ Last(candles).close > high THEN "bullish"
      ELSE IF low # None /\ Last(candles).close < low THEN "bearish"
      ELSE "none"

(* detect_fair_value_gaps: the last of them, or None. *)
LastFairValueGap(candles) ==
  LET Span(i) == IF candles[i].low > candles[i - 2].high
                 THEN [bottom |-> candles[i - 2].high, top |-> candles[i].low]
                 ELSE IF candles[i].high < candles[i - 2].low
                 THEN [bottom |-> candles[i].high, top |-> candles[i - 2].low]
                 ELSE None
      gaps == {i \in 3 .. Len(candles) : Span(i) # None}
  IN  IF gaps = {} THEN None ELSE Span(Max(gaps))

(* structural_3bar_swing_stop *)
StructuralStop(candles, side) ==
  IF Len(candles) < 3 THEN None
  ELSE IF side = "LONG" THEN Lowest(Recent(candles, 3)) ELSE Highest(Recent(candles, 3))

(* session_levels: the high and the low of the day, or month, before the    *)
(* one of the last candle, which is the latest that has any candle.         *)
PreviousSession(candles, length) ==
  LET session(c) == c.time \div length
      before     == {session(c) : c \in Range(candles)} \ {session(Last(candles))}
      kept       == SelectSeq(candles, LAMBDA c : session(c) = Max(before))
  IN  IF before = {} THEN None ELSE [high |-> Highest(kept), low |-> Lowest(kept)]
=============================================================================
