------------------------------ MODULE Backtest -------------------------------
(***************************************************************************)
(* The backtest (backtest/engine.py): candle after candle it moves the     *)
(* price of its paper exchange, asks a strategy for a signal and lets the   *)
(* risk engine decide on the plan, one book per strategy on the same       *)
(* candles.  With it, how candles are split into folds                     *)
(* (backtest/splits.py) and what the metrics count (backtest/metrics.py).  *)
(*                                                                         *)
(* "series" is the list of candles the engine is given.  It holds one more  *)
(* than was replayed: the signals get the whole list and the index of the   *)
(* bar that closed, and must not read past it.  Quantities are in lots,    *)
(* Lots to a unit; the book is that of one symbol.                         *)
(***************************************************************************)
EXTENDS Signals

CONSTANTS Strategies,    \* the strategies under test
          Shapes,        \* what a candle may look like
          Jump,          \* the most a candle opens away from the close before it
          Gaps,          \* bars without a candle between two candles
          MaxBars,       \* bound: candles in the series
          MaxMissing,    \* bound: bars without a candle
          Warmup,        \* bars before the first decision
          Capital, Lots,
          FeeBps, SlipBps,
          System, Document, \* the limits of config/risk.yaml and of the OKF document
          Symbol

Risk == INSTANCE RiskEngine WITH BasisPoints <- 10000

ASSUME ShapesAssumption ==
  /\ Shapes \subseteq [open : Nat, high : Nat, low : Nat, close : Nat, volume : Nat]
  /\ \A c \in Shapes : ValidCandle(c)

\* The unit of price is so small that no division drops a whole move: two prices
\* differ by nothing or by the divisor of a range, and a close is not a few units.
ASSUME UnitAssumption ==
  LET prices == UNION {{c.open, c.high, c.low, c.close} : c \in Shapes}
  IN  /\ \A p, q \in prices : p # q => Gap(p, q) >= Periods.atr
      /\ \A c \in Shapes : c.close >= 50

ASSUME GapsAssumption == Gaps \subseteq Nat

ASSUME AccountAssumption ==
  Capital \in Nat \ {0} /\ Lots \in Nat \ {0} /\ FeeBps \in Nat /\ SlipBps \in Nat

ASSUME BarsAssumption == MaxBars \in Nat \ {0}

VARIABLES series, index, books

replayVars == <<series, index, books>>

NewBook ==
  [cash |-> Capital, peak |-> Capital, trades |-> 0, side |-> "FLAT", qty |-> 0,
   entry |-> None, stop |-> None, target |-> None, trail |-> None,
   breakeven |-> FALSE, partial |-> FALSE,
   records |-> <<>>,    \* exchange.trades: [side, pnl]; the code's has no side
   opened  |-> <<>>,    \* trade_sides
   refused |-> {},      \* the reasons of the last refusal
   curve   |-> <<>>]    \* equity_curve

CandleAt(time, shape) ==
  [time |-> time, open |-> shape.open, high |-> shape.high, low |-> shape.low,
   close |-> shape.close, volume |-> shape.volume]

InitReplay ==
  /\ \E c \in Shapes : series = <<CandleAt(0, c)>>
  /\ index = 0
  /\ books = [s \in Strategies |-> NewBook]

-----------------------------------------------------------------------------
(* The book *)

Value(qty, price) == (qty * price) \div Lots
Fee(notional) == (notional * FeeBps) \div 10000

\* What a position gained, or lost, from its entry to this price.
Gain(b, qty, price) ==
  IF b.side = "LONG" THEN Value(qty, price) - Value(qty, b.entry)
                     ELSE Value(qty, b.entry) - Value(qty, price)

Equity(b, price) ==
  CASE b.side = "FLAT"  -> b.cash
    [] b.side = "LONG"  -> b.cash + Value(b.qty, price)
    [] b.side = "SHORT" -> b.cash - Value(b.qty, price)

Snapshot(b, price) == [b EXCEPT !.peak = Max({@, Equity(b, price)})]

\* The cash after qty of the position is closed at this price.
CashAfter(b, qty, price) ==
  (IF b.side = "LONG" THEN b.cash + Value(qty, price) ELSE b.cash - Value(qty, price))
    - Fee(Value(qty, price))

(* _exit_position and _record_trade_close: the record knows the exit's fee. *)
Exit(b, price) ==
  [b EXCEPT !.cash = CashAfter(b, b.qty, price), !.trades = @ + 1,
            !.side = "FLAT", !.qty = 0, !.entry = None, !.stop = None, !.target = None,
            !.records = Append(@, [side |-> b.side,
                                   pnl |-> Gain(b, b.qty, price) - Fee(Value(b.qty, price))])]

AtOneR(b, price) ==
  LET risk == IF b.stop = None THEN 0 ELSE Gap(b.entry, b.stop)
  IN  risk > 0 /\ (IF b.side = "LONG" THEN price >= b.entry + risk ELSE price <= b.entry - risk)

Tighter(side, stop, candidate) ==
  IF side = "LONG" THEN candidate > stop ELSE candidate < stop

Breakeven(b, price) ==
  IF b.breakeven /\ AtOneR(b, price) /\ Tighter(b.side, b.stop, b.entry)
  THEN [b EXCEPT !.stop = b.entry]
  ELSE b

\* Mutant: the half that is closed is recorded like a closed position.
Partial_Recorded(b, price, atOneR) ==
  IF b.partial /\ atOneR
  THEN [b EXCEPT !.qty = @ - b.qty \div 2, !.partial = FALSE,
                 !.records = Append(@, [side |-> b.side, pnl |-> 0])]
  ELSE b

(* Half of the position is closed, once; no trade is recorded.              *)
Partial(b, price, atOneR) ==
  IF b.partial /\ atOneR
  THEN LET half == b.qty \div 2
       IN  [b EXCEPT !.cash = CashAfter(b, half, price), !.qty = @ - half,
                     !.trades = @ + 1, !.partial = FALSE]
  ELSE b

StopHit(b, price) ==
  b.stop # None /\ (IF b.side = "LONG" THEN price <= b.stop ELSE price >= b.stop)

TargetHit(b, price) ==
  b.target # None /\ (IF b.side = "LONG" THEN price >= b.target ELSE price <= b.target)

Trailed(b, price) ==
  IF b.trail = None THEN b
  ELSE LET candidate == Ahead(b.side, price, -b.trail)
       IN  IF Tighter(b.side, b.stop, candidate) THEN [b EXCEPT !.stop = candidate] ELSE b

(* on_price_update, on a book without resting orders.  The risk is measured *)
(* once, before the stop moves.                                             *)
Tick(b, price) ==
  IF b.side = "FLAT" THEN b
  ELSE LET kept == Partial(Breakeven(b, price), price, AtOneR(b, price))
       IN  IF StopHit(kept, price) \/ TargetHit(kept, price)
           THEN Exit(kept, price)
           ELSE Trailed(kept, price)

-----------------------------------------------------------------------------
(* A decision *)

(* _plan_from_signal: half a percent of the initial capital is risked, and  *)
(* no more than two percent of it is traded.                                *)
PlanQuantity(signal) ==
  LET risk    == Gap(signal.entry, signal.stop)
      byRisk  == IF risk = 0 THEN 0 ELSE (Part(Capital, 5) * Lots) \div risk
      byValue == (Part(Capital, 20) * Lots) \div signal.entry
  IN  Min({byRisk, byValue})

(* What the risk engine is told: the plan, and the book as it stands.  No   *)
(* day ever ends in a backtest, so its trades and its gain are of all days. *)
Proposed(signal) ==
  [symbol |-> Symbol, side |-> signal.side, quantity |-> PlanQuantity(signal),
   notional |-> Value(PlanQuantity(signal), signal.entry), entry |-> signal.entry,
   stop |-> signal.stop, target |-> signal.target, slippage |-> 5, leverage |-> 1,
   confidence |-> 7000, models |-> {signal.side}, liquidity |-> 1000000, stale |-> FALSE,
   bars |-> 100]

RiskSnapshot(b, price) ==
  [equity |-> Equity(b, price), cash |-> Max({b.cash, 0}), exposure |-> Value(b.qty, price),
   dailyPnl |-> Equity(b, price) - Capital,
   drawdown |-> (10000 * (b.peak - Equity(b, price))) \div b.peak,
   trades |-> b.trades, killSwitch |-> FALSE, halted |-> FALSE]

\* What a paper engine does not refuse a plan for.
Ignored == {"STRATEGY_DATA_UNAVAILABLE", "NO_VALID_MODEL"}

Refusals(signal, b) ==
  IF PlanQuantity(signal) = 0
  THEN {"ZERO_SIZE"}
  ELSE Risk!Refusals(Risk!Engine(Document, System), Proposed(signal),
                     RiskSnapshot(b, signal.entry), None, Risk!PlainContext(FALSE)) \ Ignored

(* The fill of the market order, and the rules of the position: a breakout  *)
(* trails its stop by the range of the bar, PO3/VWAP takes half at 1R.      *)
Open(b, strategy, signal, candle) ==
  LET slip     == (signal.entry * SlipBps) \div 10000
      price    == Ahead(signal.side, signal.entry, slip)
      qty      == PlanQuantity(signal)
      cost     == Fee(Value(qty, price))
      range    == candle.high - candle.low
      po3      == strategy = "po3_vwap"
  IN  [b EXCEPT !.cash = (IF signal.side = "LONG" THEN @ - Value(qty, price)
                                                  ELSE @ + Value(qty, price)) - cost,
                !.side = signal.side, !.qty = qty, !.entry = price,
                !.stop = signal.stop, !.target = signal.target, !.trades = @ + 1,
                !.trail = IF strategy = "momentum_breakout"
                          THEN 2 * (IF range = 0 THEN Part(candle.close, 10) ELSE range)
                          ELSE @,
                !.breakeven = po3, !.partial = po3,
                !.opened = Append(@, signal.side)]

Decide(b, strategy, candles, at) ==
  LET signal  == SignalForStrategy(strategy, candles, at)
      refused == Refusals(signal, b)
  IN  IF signal.side = "FLAT" \/ b.side # "FLAT" THEN b
      ELSE IF refused # {} THEN [b EXCEPT !.refused = refused]
      ELSE Open(b, strategy, signal, candles[at])

-----------------------------------------------------------------------------
(* BacktestEngine.run, one bar: the open, the high, the low, the close, and *)
(* then the decision, on the bar that has closed.                           *)
AfterBar(b, strategy, candles, at) ==
  LET c       == candles[at]
      managed == Snapshot(Tick(Tick(Tick(Tick(b, c.open), c.high), c.low), c.close), c.close)
      decided == IF at <= Warmup THEN managed ELSE Decide(managed, strategy, candles, at)
  IN  [Snapshot(decided, c.close) EXCEPT !.curve = Append(@, Equity(decided, c.close))]

Missing == Last(series).time + 1 - Len(series)

Replay(shape, gap) ==
  /\ Len(series) < MaxBars
  /\ Missing + gap <= MaxMissing
  /\ Gap(shape.open, Last(series).close) <= Jump
  /\ series' = Append(series, CandleAt(Last(series).time + 1 + gap, shape))
  /\ index' = index + 1
  /\ books' = [s \in Strategies |-> AfterBar(books[s], s, series', index')]

NextReplay == \E shape \in Shapes, gap \in Gaps : Replay(shape, gap)

SpecReplay == InitReplay /\ [][NextReplay]_replayVars

-----------------------------------------------------------------------------
(* Folds: [train, validation, test], each a set of indices of the series *)

Fold(a, b, c) == [train |-> a, validation |-> b, test |-> c]

(* chronological_splits, by percents of the number of candles *)
ChronologicalSplits(n, train, validation) ==
  LET tEnd == (n * train) \div 100
      vEnd == (n * (train + validation)) \div 100
  IN  Fold(1 .. tEnd, tEnd + 1 .. vEnd, vEnd + 1 .. n)

(* walk_forward_windows with numbers of bars *)
BarWindows(n, train, validation, test, step) ==
  {Fold(i + 1 .. i + train,
        i + train + 1 .. i + train + validation,
        i + train + validation + 1 .. i + train + validation + test) :
     i \in {k * step : k \in 0 .. n} \cap 0 .. n - (train + validation + test)}

\* Mutant: a candle on the boundary of two spans is in both.
DayWindows_Shared(times, train, validation, test, step, leastFallback) ==
  LET Within(from, to) == {i \in DOMAIN times : from <= times[i] /\ times[i] <= to}
      starts == times[1] .. Last(times) - (train + validation + test)
      At(k)  == Fold(Within(k, k + train), Within(k + train, k + train + validation),
                     Within(k + train + validation, k + train + validation + test))
  IN  {At(k) : k \in starts}

(* walk_forward_windows with days: what falls in each span of time, its     *)
(* start excluded but for the first.  A fold lacking one of them is left    *)
(* out, and a long series that has none is split by bars; it is too long    *)
(* for the least numbers of bars, 10 and 5, to matter.                      *)
DayWindows(times, train, validation, test, step, leastFallback) ==
  LET n      == Len(times)
      Within(from, to) == {i \in 1 .. n : from <= times[i] /\ times[i] <= to}
      starts == {k \in times[1] .. times[n] - (train + validation + test) :
                   (k - times[1]) % step = 0}
      At(k)  == Fold(Within(k, k + train),
                     Within(k + train + 1, k + train + validation),
                     Within(k + train + validation + 1, k + train + validation + test))
      full   == {f \in {At(k) : k \in starts} :
                   f.train # {} /\ f.validation # {} /\ f.test # {}}
      third  == n \div 3
      sixth  == n \div 6
  IN  IF full = {} /\ n >= leastFallback
      THEN BarWindows(n, third, sixth, sixth, Max({1, third \div 3}))
      ELSE full

-----------------------------------------------------------------------------
(* Metrics *)

(* _streaks: the most wins, and the most losses, in a row. *)
Streaks(pnls) ==
  LET Step(s, p) ==
        LET win  == IF p > 0 THEN s.win + 1 ELSE 0
            loss == IF p < 0 THEN s.loss + 1 ELSE 0
        IN  [win |-> win, loss |-> loss,
             wins |-> Max({s.wins, win}), losses |-> Max({s.losses, loss})]
      scan[i \in 0 .. Len(pnls)] ==
        IF i = 0 THEN [win |-> 0, loss |-> 0, wins |-> 0, losses |-> 0]
        ELSE Step(scan[i - 1], pnls[i])
  IN  [wins |-> scan[Len(pnls)].wins, losses |-> scan[Len(pnls)].losses]

\* Mutant: a drawdown that has not ended is not counted.
DrawdownDuration_Ended(curve) ==
  LET Step(s, i) ==
        IF curve[i] >= s.peak
        THEN [peak |-> curve[i], length |-> 0, longest |-> Max({s.longest, s.length})]
        ELSE [s EXCEPT !.length = @ + 1]
  IN  FoldLeft(Step, [peak |-> Capital, length |-> 0, longest |-> 0],
               [i \in DOMAIN curve |-> i]).longest

(* maximum_drawdown_duration_bars of compute_backtest_metrics *)
DrawdownDuration(curve) ==
  LET Step(s, i) ==
        IF curve[i] >= s.peak
        THEN [peak |-> curve[i], from |-> None,
              longest |-> IF s.from = None THEN s.longest ELSE Max({s.longest, i - s.from})]
        ELSE [s EXCEPT !.from = IF @ = None THEN i ELSE @]
      scan[i \in 0 .. Len(curve)] ==
        IF i = 0 THEN [peak |-> Capital, from |-> None, longest |-> 0]
        ELSE Step(scan[i - 1], i)
      all == scan[Len(curve)]
  IN  IF all.from = None THEN all.longest
      ELSE Max({all.longest, Len(curve) + 1 - all.from})
=============================================================================
