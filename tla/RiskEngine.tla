----------------------------- MODULE RiskEngine -----------------------------
(***************************************************************************)
(* The deterministic risk decision of risk/engine.py, with the limits it   *)
(* takes: the system's (risk/config.py), the strategy's, and those of the  *)
(* OKF guideline document (okf/resolver.py).  "Stricter wins": every limit *)
(* is the tightest of the sources that state it.                           *)
(*                                                                         *)
(* Money and prices are integers, limits on equity are basis points, and a *)
(* ratio is in tenths.  An absent value (no stop, no strategy, an age that *)
(* is not known) is None.                                                  *)
(***************************************************************************)
EXTENDS Integers

CONSTANTS None,           \* an absent value
          BasisPoints     \* the whole of the equity, in basis points

(* GlobalRiskLimits, the limits of a strategy and of the OKF document, and  *)
(* PortfolioRiskSnapshot.                                                   *)
Systems(Names) ==
  [trade : Int, position : Int, exposure : Int, dailyLoss : Int, drawdown : Int,
   trades : Int, slippage : Int, leverage : Int, stopRequired : BOOLEAN,
   liquidity : Int, confidence : Int, reward : Int, kelly : Int, pairs : SUBSET Names]

StrategyLimits ==
  [risk : Int, dailyLoss : Int, trades : Int, cooldown : Int, reward : Int,
   target : Int, rangeMultiple : Int]

Documents(Names) ==
  [risk : Int, dailyLoss : Int, drawdown : Int, trades : Int, cooldown : Int,
   kelly : Int, correlation : BOOLEAN, riskOn : SUBSET Names, blockers : SUBSET Names,
   lowTurnover : BOOLEAN, forbidden : SUBSET Names]

Books == [equity : Int, cash : Int, exposure : Int, dailyPnl : Int, drawdown : Int,
          trades : Int, killSwitch : BOOLEAN, halted : BOOLEAN]

ASSUME NoneAssumption == None \notin Int
ASSUME BasisAssumption == BasisPoints \in Nat \ {0}

Least(a, b) == IF a <= b THEN a ELSE b
Most(a, b)  == IF a >= b THEN a ELSE b
Distance(a, b) == IF a >= b THEN a - b ELSE b - a

\* A limit of a source, or the given default where there is no such source.
Of(source, limit, default) == IF source = None THEN default ELSE source[limit]

If(condition, reason) == IF condition THEN {reason} ELSE {}

-----------------------------------------------------------------------------
(* The OKF document and the limits *)

\* Mutant: the document is taken at its word.
Resolve_AsWritten(document, system) == document

(* resolve: what the document asks, tightened to the system's limits.  Its  *)
(* quarter Kelly may only lower the system's.                               *)
Resolve(document, system) ==
  [document EXCEPT
     !.risk      = Least(@, system.trade),
     !.dailyLoss = Least(@, system.dailyLoss),
     !.drawdown  = Least(@, system.drawdown),
     !.trades    = Least(@, system.trades),
     !.cooldown  = Most(@, 0),
     !.kelly     = Least(@, system.kelly)]

(* apply_to_limits: the document tightens four of the system's own limits. *)
ApplyToLimits(document, system) ==
  LET resolved == Resolve(document, system)
  IN  [system EXCEPT !.dailyLoss = resolved.dailyLoss,
                     !.drawdown  = resolved.drawdown,
                     !.trades    = resolved.trades,
                     !.kelly     = resolved.kelly]

(* RiskEngine.__init__: a document that cannot be loaded (None) leaves the  *)
(* system's limits as they are.                                             *)
Engine(document, system) ==
  IF document = None
  THEN [limits |-> system, okf |-> None]
  ELSE [limits |-> ApplyToLimits(document, system),
        okf    |-> Resolve(document, system)]

\* Mutants: the document overrules the others; the strategy is forgotten.
Tightest_DocumentRules(own, strategy, okf, limit) ==
  Of(okf, limit, Least(own, Of(strategy, limit, own)))

Tightest_NoStrategy(own, strategy, okf, limit) == Least(own, Of(okf, limit, own))

Tightest(own, strategy, okf, limit) ==
  LET both == Least(own, Of(strategy, limit, own))
  IN  Least(both, Of(okf, limit, both))

(* merge_effective_limits, beside the limits only the system sets.  A       *)
(* strategy may raise the reward ratio it wants and the bars it waits,      *)
(* never lower them.                                                        *)
EffectiveLimits(system, strategy, okf) ==
  [system    |-> system,
   risk      |-> Tightest(system.trade, strategy, okf, "risk"),
   dailyLoss |-> Tightest(system.dailyLoss, strategy, okf, "dailyLoss"),
   drawdown  |-> Least(system.drawdown, Of(okf, "drawdown", system.drawdown)),
   trades    |-> Tightest(system.trades, strategy, okf, "trades"),
   kelly     |-> Least(system.kelly, Of(okf, "kelly", system.kelly)),
   reward    |-> Most(system.reward, Of(strategy, "reward", 10)),
   cooldown  |-> Most(Of(strategy, "cooldown", 0), Of(okf, "cooldown", 0))]

(* pair_allowed: no list allows every symbol; otherwise the symbol, in any  *)
(* of its spellings, or the wildcard of its class must be listed.           *)
PairAllowed(symbol, pairs) ==
  \/ pairs = {}
  \/ symbol.name \in pairs
  \/ symbol.class \in pairs

-----------------------------------------------------------------------------
(* The OKF gates *)

(* OKFCorrelationGate.evaluate: a new long on a risk-on asset is blocked    *)
(* while every one of the blockers is held long, and while what is held is  *)
(* not known.  "positions" is the set of symbols held long.                 *)
CorrelationGate(okf, entry, positions, known) ==
  CASE \/ ~okf.correlation
       \/ entry.side = "SHORT"
       \/ entry.modification \/ ~entry.new
       \/ entry.symbol.name \notin okf.riskOn        -> "OK"
    [] ~known \/ positions = None                    -> "CORRELATION_DATA_UNAVAILABLE"
    [] okf.blockers # {} /\ okf.blockers \subseteq positions
                                                     -> "CORRELATION_FILTER_BLOCK"
    [] OTHER                                         -> "OK"

(* LowTurnoverGuard.evaluate *)
TurnoverAllowed(okf, tradesToday, bars, style) ==
  \/ ~okf.lowTurnover
  \/ /\ style \notin okf.forbidden
     /\ tradesToday < okf.trades
     /\ \/ bars = None
        \/ okf.cooldown <= 0
        \/ bars >= okf.cooldown

(* PreTradeMemoryGate.evaluate: "memory" is the set of remembered trades,   *)
(* each with its outcome and its likeness to this one in percent; None when *)
(* the memory or the features of this trade are not to be had.              *)
MemoryGate(memory, threshold) ==
  IF memory = None
  THEN "FAILURE_MEMORY_UNAVAILABLE"
  ELSE IF \E m \in memory : m.outcome = "LOSS" /\ m.likeness > threshold
       THEN "FAILURE_MEMORY_MATCH_BLOCK"
       ELSE "OK"

-----------------------------------------------------------------------------
(* RiskEngine.evaluate.  The reasons are collected, so a decision names all *)
(* that is wrong; it approves when there is none.                           *)

StandingRefusals(p, b, limits, switch) ==
  UNION { If(switch \/ b.killSwitch, "KILL_SWITCH_ACTIVE"),
          If(b.halted, "TRADING_HALTED"),
          If(p.stale, "STALE_MARKET_DATA"),
          If(~PairAllowed(p.symbol, limits.system.pairs), "PAIR_NOT_ALLOWED"),
          If(p.quantity <= 0 \/ p.notional <= 0 \/ p.entry <= 0, "INVALID_TRADE") }

StopRefusals(p, limits) ==
  IF p.stop = None
  THEN If(limits.system.stopRequired, "STOP_LOSS_REQUIRED")
  ELSE UNION { If(p.side = "LONG" /\ p.stop >= p.entry, "INVALID_STOP"),
               If(p.side = "SHORT" /\ p.stop <= p.entry, "INVALID_STOP"),
               If(/\ p.target # None
                  /\ p.stop # p.entry
                  /\ 10 * Distance(p.target, p.entry)
                        < limits.reward * Distance(p.entry, p.stop),
                  "RISK_REWARD_TOO_LOW") }

SizeRefusals(p, b, limits) ==
  LET equity == Most(b.equity, 0)
  IN  UNION { If(BasisPoints * p.notional > equity * limits.system.position,
                 "POSITION_LIMIT_EXCEEDED"),
              If(BasisPoints * p.notional > equity * limits.system.trade,
                 "TRADE_SIZE_LIMIT_EXCEEDED"),
              If(BasisPoints * (b.exposure + p.notional) > equity * limits.system.exposure,
                 "EXPOSURE_LIMIT_EXCEEDED") }

LossRefusals(b, limits) ==
  UNION { If(/\ b.equity > 0
             /\ b.dailyPnl < 0
             /\ BasisPoints * (-b.dailyPnl) >= b.equity * limits.dailyLoss,
             "DAILY_LOSS_LIMIT"),
          If(b.drawdown >= limits.drawdown, "DRAWDOWN_LIMIT"),
          If(b.trades >= limits.trades, "TRADE_COUNT_LIMIT") }

MarketRefusals(p, b, strategy, limits) ==
  UNION { If(/\ p.bars # None
             /\ limits.cooldown > 0
             /\ p.bars < limits.cooldown, "COOLDOWN_ACTIVE"),
          If(p.slippage > limits.system.slippage, "SLIPPAGE_LIMIT"),
          If(p.leverage > limits.system.leverage, "LEVERAGE_LIMIT"),
          If(p.liquidity # None /\ p.liquidity < limits.system.liquidity,
             "INSUFFICIENT_LIQUIDITY"),
          If(p.side = "LONG" /\ p.notional > b.cash, "INSUFFICIENT_CASH"),
          If(p.confidence < limits.system.confidence, "INSUFFICIENT_CONFIDENCE"),
          If(p.models = {}, "NO_VALID_MODEL"),
          If(strategy = None, "STRATEGY_DATA_UNAVAILABLE") }

(* The correlation gate is asked only by a caller that gives the positions  *)
(* or says that they are not known.                                         *)
OKFRefusals(p, b, okf, context) ==
  IF okf = None
  THEN {}
  ELSE LET entry == [symbol |-> p.symbol, side |-> p.side, new |-> context.new,
                     modification |-> context.modification]
           verdict == IF context.positions # None \/ ~context.known
                      THEN CorrelationGate(okf, entry, context.positions, context.known)
                      ELSE "OK"
       IN  If(verdict # "OK", verdict)
             \cup If(~TurnoverAllowed(okf, b.trades, p.bars, context.style),
                     "LOW_TURNOVER_BLOCK")

MemoryRefusals(verdict) == If(verdict # "OK", verdict)

(* context: how the engine is called: the switch it holds, the positions,   *)
(* the style and the verdict of the memory gate ("OK" when it is not asked). *)
Refusals(engine, p, b, strategy, context) ==
  LET limits == EffectiveLimits(engine.limits, strategy, engine.okf)
  IN  UNION { StandingRefusals(p, b, limits, context.switch),
              StopRefusals(p, limits),
              SizeRefusals(p, b, limits),
              LossRefusals(b, limits),
              MarketRefusals(p, b, strategy, limits),
              OKFRefusals(p, b, engine.okf, context),
              MemoryRefusals(context.memory) }

(* A caller that names no positions, no style and no verdict of the memory. *)
PlainContext(switch) ==
  [switch |-> switch, positions |-> None, known |-> TRUE, new |-> TRUE,
   modification |-> FALSE, style |-> None, memory |-> "OK"]

Approved(engine, p, b, strategy, context) ==
  Refusals(engine, p, b, strategy, context) = {}

-----------------------------------------------------------------------------
(* What the sources ask of a trade, each by its own limits *)

WithinSource(source, b) ==
  /\ b.dailyPnl >= 0 \/ b.equity <= 0
       \/ BasisPoints * (-b.dailyPnl) < b.equity * source.dailyLoss
  /\ b.trades < source.trades

WithinSystem(system, p, b) ==
  /\ WithinSource(system, b)
  /\ b.drawdown < system.drawdown
  /\ BasisPoints * p.notional <= Most(b.equity, 0) * Least(system.trade, system.position)
  /\ BasisPoints * (b.exposure + p.notional) <= Most(b.equity, 0) * system.exposure
  /\ p.stop # None /\ p.target # None =>
       10 * Distance(p.target, p.entry) >= system.reward * Distance(p.entry, p.stop)

WithinStrategy(strategy, p, b) ==
  /\ WithinSource(strategy, b)
  /\ p.bars # None => p.bars >= strategy.cooldown
  /\ p.stop # None /\ p.target # None =>
       10 * Distance(p.target, p.entry) >= strategy.reward * Distance(p.entry, p.stop)

WithinDocument(document, p, b) ==
  /\ WithinSource(document, b)
  /\ b.drawdown < document.drawdown
  /\ p.bars # None => p.bars >= document.cooldown

WithinEverySource(system, strategy, document, p, b) ==
  /\ WithinSystem(system, p, b)
  /\ strategy # None /\ WithinStrategy(strategy, p, b)
  /\ document # None => WithinDocument(document, p, b)
=============================================================================
