---------------------------- MODULE TradeProposal ----------------------------
(***************************************************************************)
(* How a trade is proposed: the messages of the agents, the consensus of    *)
(* agents/implementations/consensus.py, the plan of execution/planner.py,   *)
(* the circuit breakers and the risk decision, as orchestration/proposal.py *)
(* puts them together.  Nothing here sends an order.                        *)
(*                                                                         *)
(* Confidence is in percent where an agent states it and in basis points    *)
(* where the consensus computes it; quantities are in thousandths.          *)
(***************************************************************************)
EXTENDS RiskEngine

CONSTANT MinDirectional   \* the least confidence, in percent, of a direction

Lots == 1000      \* parts of a unit in a quantity

(* Python's round: to the nearest, a tie to the even neighbour. *)
RoundHalfEven(n, d) ==
  LET q == n \div d
      r == 2 * (n % d)
  IN  IF r < d \/ (r = d /\ q % 2 = 0) THEN q ELSE q + 1

Critical     == {"market", "technical", "trend"}
Agents       == Critical \cup {"strategy", "bull", "bear"}

-----------------------------------------------------------------------------
(* Agents and consensus *)

(* BaseAgent.run: an agent that fails answers NO_TRADE with no confidence;  *)
(* an error of the language model is told as unavailable.                   *)
Message(outcome, confidence, lean) ==
  CASE outcome \in {"ok", "stale", "no_trade"} ->
         [status |-> "OK", payload |-> outcome, confidence |-> confidence, lean |-> lean]
    [] outcome = "unavailable" ->
         [status |-> "UNAVAILABLE", payload |-> "unavailable",
          confidence |-> confidence, lean |-> lean]
    [] outcome = "llm_error" ->
         [status |-> "ERROR", payload |-> "unavailable", confidence |-> 0, lean |-> None]
    [] outcome = "error" ->
         [status |-> "ERROR", payload |-> "none", confidence |-> 0, lean |-> None]

(* A message a direction cannot do without is missing, failed or stale. *)
CriticalGap(messages) ==
  \E a \in Critical :
     \/ messages[a] = None
     \/ messages[a].status # "OK"
     \/ messages[a].payload \in {"unavailable", "stale", "no_trade"}

(* The weight of a message in tenths, times its quality in twentieths. *)
Weight(agent, message) ==
  CASE agent = "strategy"  -> IF message.status = "OK" THEN 12 * 20 ELSE 12 * 5
    [] agent = "technical" -> 10 * 20
    [] agent = "trend"     -> IF message.lean = "NEUTRAL" THEN 10 * 16 ELSE 10 * 20
    [] OTHER               -> 8 * 18

Voice(agent, message) ==
  CASE agent = "bull" -> "LONG"
    [] agent = "bear" -> "SHORT"
    [] OTHER          -> message.lean

Score(messages, direction) ==
  LET Share(a) == IF messages[a] # None /\ Voice(a, messages[a]) = direction
                  THEN Weight(a, messages[a]) * messages[a].confidence
                  ELSE 0
  IN  Share("strategy") + Share("technical") + Share("trend") + Share("bull") + Share("bear")

(* The direction with the most weight, the earlier of two equal ones; a near *)
(* tie and a direction of little confidence are NEUTRAL.                    *)
Verdict(score) ==
  LET sum     == score["LONG"] + score["SHORT"] + score["NEUTRAL"]
      total   == IF sum = 0 THEN 1 ELSE sum
      first   == IF /\ score["LONG"] >= score["SHORT"]
                    /\ score["LONG"] >= score["NEUTRAL"] THEN "LONG"
                 ELSE IF score["SHORT"] >= score["NEUTRAL"] THEN "SHORT"
                 ELSE "NEUTRAL"
      second  == CHOOSE s \in {score[d] : d \in DOMAIN score \ {first}} :
                   \A d \in DOMAIN score \ {first} : s >= score[d]
      share   == RoundHalfEven(BasisPoints * score[first], total)
      close   == /\ score[first] > 0
                 /\ 100 * (score[first] - second) < 8 * total
      unsure  == 100 * score[first] < MinDirectional * total
  IN  [decision   |-> IF close \/ unsure THEN "NEUTRAL" ELSE first,
       confidence |-> IF close THEN Least(share, BasisPoints \div 2) ELSE share]

(* ConsensusAgent.analyze *)
Consensus(messages) ==
  IF CriticalGap(messages)
  THEN [decision |-> "NO_TRADE", confidence |-> 0]
  ELSE Verdict([LONG    |-> Score(messages, "LONG"),
                SHORT   |-> Score(messages, "SHORT"),
                NEUTRAL |-> Score(messages, "NEUTRAL")])

-----------------------------------------------------------------------------
(* The plan *)

NoTrade(reason, confidence) ==
  [status |-> "NO_TRADE", reason |-> reason, confidence |-> confidence]

Toward(side, price, distance) ==
  IF side = "LONG" THEN price + distance ELSE price - distance

(* The structural stop of the side, or a multiple of the average range. *)
PlannedStop(side, features, strategy) ==
  LET structural == IF side = "LONG" THEN features.stopLong ELSE features.stopShort
  IN  IF structural # None THEN structural
      ELSE IF features.range = None THEN None
      ELSE Toward(side, features.close, -(strategy.rangeMultiple * features.range))

(* The risk budget over the distance to the stop, capped by the notional     *)
(* limits.  The planner's limits do not include the OKF document's risk per *)
(* trade.                                                                   *)
Quantity(system, risk, close, distance, equity) ==
  Least((equity * risk * Lots) \div (BasisPoints * distance),
        (equity * Least(system.trade, system.position) * Lots) \div (BasisPoints * close))

Proposed(side, consensus, features, stop, quantity, target) ==
  [status     |-> "PROPOSED",
   side       |-> side,
   models     |-> features.confirmed,
   entry      |-> features.close,
   quantity   |-> quantity,
   notional   |-> (quantity * features.close) \div Lots,
   stop       |-> stop,
   target     |-> Toward(side, features.close,
                         (target * Distance(features.close, stop)) \div 10),
   confidence |-> consensus.confidence]

(* TradePlanner.plan *)
Plan(system, strategy, consensus, features, equity) ==
  LET side == consensus.decision
      stop == PlannedStop(side, features, strategy)
      No(reason) == NoTrade(reason, consensus.confidence)
  IN  CASE side \notin {"LONG", "SHORT"} -> No("CONSENSUS")
        [] features.confirmed = {}       -> No("NO_VALID_MODEL")
        [] features.close = None         -> No("STRATEGY_DATA_UNAVAILABLE")
        [] stop = None \/ stop = features.close -> No("INVALID_STOP")
        [] OTHER ->
             Proposed(side, consensus, features, stop,
                      Quantity(system, EffectiveLimits(system, strategy, None).risk,
                               features.close, Distance(features.close, stop), equity),
                      strategy.target)

(* TradePlan.to_proposal *)
ToProposal(plan, symbol, market) ==
  [symbol |-> symbol, side |-> plan.side, quantity |-> plan.quantity,
   notional |-> plan.notional, entry |-> plan.entry, stop |-> plan.stop,
   target |-> plan.target, slippage |-> 5, leverage |-> 1,
   confidence |-> plan.confidence, models |-> plan.models,
   liquidity |-> market.liquidity, stale |-> market.stale, bars |-> market.bars]

-----------------------------------------------------------------------------
(* The breakers *)

\* Mutant: a limit that is reached is not yet exceeded.
BreakerReasons_Beyond(b, limits, on) ==
  on \cap
  UNION { If(b.equity > 0
               /\ BasisPoints * Most(-b.dailyPnl, 0) > b.equity * limits.dailyLoss,
             "DAILY_LOSS_LIMIT"),
          If(b.drawdown > limits.drawdown, "DRAWDOWN_LIMIT"),
          If(b.trades > limits.trades, "TRADE_COUNT_LIMIT") }

(* CircuitBreakerService.evaluate_portfolio: the reasons of this call, of   *)
(* the breakers that the configuration leaves on.  The halt it sets is      *)
(* never taken back.                                                        *)
BreakerReasons(b, limits, on) ==
  on \cap
  UNION { If(b.equity > 0
               /\ BasisPoints * Most(-b.dailyPnl, 0) >= b.equity * limits.dailyLoss,
             "DAILY_LOSS_LIMIT"),
          If(b.drawdown >= limits.drawdown, "DRAWDOWN_LIMIT"),
          If(b.trades >= limits.trades, "TRADE_COUNT_LIMIT") }

(* OKFCircuitBreakers.evaluate, with the two limits it was made with: what  *)
(* trips it, first the STOP file, or None.                                  *)
OKFBreach(b, limits, stopFile) ==
  IF stopFile THEN "STOP_FILE"
  ELSE IF /\ b.equity > 0 /\ b.dailyPnl < 0
          /\ BasisPoints * (-b.dailyPnl) >= b.equity * limits.dailyLoss
       THEN "DAILY_LOSS"
  ELSE IF b.drawdown >= limits.drawdown THEN "DRAWDOWN"
  ELSE None

-----------------------------------------------------------------------------
(* ProposalService.evaluate_proposal.  "halted" is the state of the         *)
(* breakers before the call, "on" the breakers of the configuration; the    *)
(* proposal names no positions, no style and no verdict of the memory.      *)

Judge(engine, strategy, plan, book, market, symbol, switch, latch) ==
  LET halts   == latch \/ switch
      snap    == [book EXCEPT !.killSwitch = switch, !.halted = halts]
      refused == IF plan.status = "NO_TRADE" \/ halts \/ market.stale
                 THEN {IF halts THEN "TRADING_HALTED"
                       ELSE IF market.stale THEN "STALE_MARKET_DATA"
                       ELSE plan.reason}
                 ELSE Refusals(engine, ToProposal(plan, symbol, market), snap,
                               strategy, PlainContext(switch))
  IN  [approved |-> refused = {}, plan |-> plan, halted |-> latch, reasons |-> refused]

EvaluateProposal(engine, strategy, messages, features, book, market, symbol, switch, halted, on) ==
  Judge(engine, strategy,
        Plan(engine.limits, strategy, Consensus(messages), features, book.equity),
        book, market, symbol, switch,
        halted
          \/ BreakerReasons(book, EffectiveLimits(engine.limits, strategy, None), on) # {})
=============================================================================
