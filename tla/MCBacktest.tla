----------------------------- MODULE MCBacktest ------------------------------
(***************************************************************************)
(* A small instance of Backtest for TLC: eight shapes of candle, each      *)
(* opening near the close of the one before, short look-backs, and what    *)
(* must hold of the signals, the folds and the metrics on every series.    *)
(***************************************************************************)
EXTENDS Backtest, FiniteSets

Candle(open, high, low, close, volume) ==
  [open |-> open, high |-> high, low |-> low, close |-> close, volume |-> volume]

MCShapes ==
  {Candle(10000, 10010,  9950, 10000, 10),    \* quiet
   Candle(10000, 10400,  9950, 10350, 20),    \* up, on volume
   Candle(10350, 10420, 10300, 10390, 10),    \* stays up
   Candle(10390, 10440, 10290, 10390, 10),    \* stays up, wider
   Candle(10390, 11200, 10340, 11150, 20),    \* up again, far
   Candle(11150, 11250,  9940, 10020, 30),    \* a spike, and falls back
   Candle(10000, 10010,  9550,  9600, 20),    \* down, on volume
   Candle( 9600, 10040,  8400,  9990, 20)}    \* down and up again

MCPeriods ==
  [lookback |-> 2, sma |-> 2, fast |-> 2, slow |-> 3, atr |-> 2, adx |-> 2, volume |-> 3,
   swing |-> 1, sweep |-> 2, day |-> 2, month |-> 4, mid |-> 2, high |-> 3,
   minAdx |-> 21, leastFeatures |-> 3, leastMid |-> 1, leastHigh |-> 1,
   leastM1 |-> 3, leastM2 |-> 3, leastM3 |-> 4, leastM3High |-> 4, leastM5 |-> 4]

MCSystem ==
  [trade |-> 200, position |-> 1000, exposure |-> 5000, dailyLoss |-> 500, drawdown |-> 1000,
   trades |-> 20, slippage |-> 50, leverage |-> 1, stopRequired |-> TRUE, liquidity |-> 20,
   confidence |-> 5500, reward |-> 15, kelly |-> 2500, pairs |-> {}]

MCDocument ==
  [risk |-> 100, dailyLoss |-> 500, drawdown |-> 1500, trades |-> 8, cooldown |-> 5,
   kelly |-> 2500, correlation |-> TRUE, riskOn |-> {"BTC"}, blockers |-> {"SPY", "QQQ"},
   lowTurnover |-> TRUE, forbidden |-> {"scalping"}]

MCSymbol == [name |-> "BTC", class |-> "crypto"]

Past == SubSeq(series, 1, index)

-----------------------------------------------------------------------------
(* Signals *)

\* A decision at the close of a bar is the same whatever the candles after it
\* are, though the signals are given the whole series and the features make
\* longer candles of it that are still forming: docs/STRATEGIES.md:95.
OnlyThePast ==
  index > 0 =>
    LET now == Last(Past).time + 1
    IN  /\ \A s \in Strategies :
              SignalForStrategy(s, series, index) = SignalForStrategy(s, Past, index)
        /\ Features(series, now, FALSE) = Features(Past, now, FALSE)

\* Every signal is protected: it stops on the losing side of its entry and
\* takes profit on the gaining one, whatever the candles were.
SignalsProtected ==
  index > 0 =>
    \A s \in Strategies :
      LET signal == SignalForStrategy(s, series, index)
      IN  CASE signal.side = "LONG"  -> signal.stop < signal.entry /\ signal.entry < signal.target
            [] signal.side = "SHORT" -> signal.target < signal.entry /\ signal.entry < signal.stop
            [] OTHER                 -> TRUE

\* On a bar that opens where the one before it closed, no two of M1, M2 and M5
\* confirm opposite sides: none fades the move that another one follows.  M3
\* may contradict them: asked for a break of the structure and for the middle
\* of the last swings at once, it confirms no SHORT at all, and LONG only on a
\* price that is above the last swing high and below the last swing low.
OKFModelsAgree ==
  index > 1 /\ Last(Past).open = Past[index - 1].close =>
    LET high  == SynthesizeTimeframe(Past, Periods.high)
        sides == {M1Po3Sweep(Past), M2VwapReclaim(Past, high), M5DonchianBreakout(Past)}
        swing == M3IctFvg(Past, high)
        close == Last(Past).close
    IN  /\ ~ {"LONG", "SHORT"} \subseteq sides
        /\ swing # None => /\ swing = "LONG"
                           /\ LastSwing(Past, TRUE) < close /\ close < LastSwing(Past, FALSE)

-----------------------------------------------------------------------------
(* Folds *)

\* The three parts follow each other in time, disjoint, none empty, and no
\* candle between them is in none.
Sound(fold) ==
  /\ fold.train # {} /\ fold.validation # {} /\ fold.test # {}
  /\ \A a \in fold.train, b \in fold.validation, c \in fold.test : a < b /\ b < c
  /\ LET all == fold.train \cup fold.validation \cup fold.test
     IN  Cardinality(all) = Max(all) - Min(all) + 1

\* Nothing a fold is tested on was in what it was trained or validated on,
\* however the candles lie in time.
FoldsDoNotLeak ==
  LET n     == Len(series)
      times == Field(series, "time")
  IN  /\ n >= 5 => Sound(ChronologicalSplits(n, 60, 20))
      /\ \A fold \in BarWindows(n, 2, 1, 1, 1) : Sound(fold)
      /\ \A fold \in DayWindows(times, 1, 1, 1, 1, 6) : Sound(fold)

-----------------------------------------------------------------------------
(* Results *)

\* The engine labels the i-th record with the side of the i-th position it
\* opened: it is the side that the record closed.
LabelsMatchSides ==
  \A s \in Strategies :
    LET b == books[s]
    IN  \A i \in DOMAIN b.records : i \in DOMAIN b.opened /\ b.records[i].side = b.opened[i]

\* Runs of a sequence on which a test holds, from their length.
Longest(length, Holds(_)) ==
  LET runs == {r \in (1 .. length) \X (1 .. length) :
                 r[1] <= r[2] /\ \A k \in r[1] .. r[2] : Holds(k)}
  IN  Max({0} \cup {r[2] - r[1] + 1 : r \in runs})

\* The streaks and the length of the drawdown are the longest runs of wins, of
\* losses, and of bars below an equity reached before.
MetricsMatchDefinitions ==
  \A s \in Strategies :
    LET curve == books[s].curve
        moves == [i \in 1 .. Len(curve) |-> IF i = 1 THEN curve[1] - Capital
                                            ELSE curve[i] - curve[i - 1]]
        Below(i) == curve[i] < Max({Capital} \cup {curve[k] : k \in 1 .. i})
    IN  /\ Streaks(moves).wins = Longest(Len(moves), LAMBDA i : moves[i] > 0)
        /\ Streaks(moves).losses = Longest(Len(moves), LAMBDA i : moves[i] < 0)
        /\ DrawdownDuration(curve) = Longest(Len(curve), Below)

ReplayTypeOK ==
  /\ index + 1 = Len(series) /\ Len(series) <= MaxBars
  /\ \A s \in Strategies :
       LET b == books[s]
       IN  /\ b.side \in {"FLAT", "LONG", "SHORT"} /\ b.qty >= 0 /\ b.peak >= Capital
           /\ (b.side = "FLAT") = (b.entry = None) /\ (b.side = "FLAT") = (b.qty = 0)
           /\ Len(b.curve) = index
=============================================================================
