--------------------------- MODULE MCTradeProposal ---------------------------
(***************************************************************************)
(* The trade decision on a small instance.  The state is one case: a value *)
(* for every input of the decision.  The walk starts at a case in which    *)
(* everything is in order and the trade is approved, and departs from it   *)
(* in one input after another, at most MaxDepartures times.                *)
(***************************************************************************)
EXTENDS MarketAnalysis

CONSTANT MaxDepartures

\* The symbols, their classes, the models and the styles of the cases.
CaseNames == {"BTC", "AAPL", "SPY", "QQQ", "crypto", "stock", "m1", "scalping"}

Breakers == {"DAILY_LOSS_LIMIT", "DRAWDOWN_LIMIT", "TRADE_COUNT_LIMIT"}

\* What is absent is no word, no breach and no limits of a source.
ASSUME AbsentAssumption ==
  None \notin CaseNames \cup {"STOP_FILE", "DAILY_LOSS", "DRAWDOWN"}
                \cup StrategyLimits \cup Documents(CaseNames)

VARIABLES case,      \* [input |-> value]
          departed   \* how many inputs are not as in the case in order

vars == <<case, departed>>

\* Per input: its value in the case in order, and the other values.
Inputs ==
  [sysTrade |-> <<200, {50}>>, sysPosition |-> <<1000, {100}>>,
   sysExposure |-> <<5000, {150}>>, sysDailyLoss |-> <<500, {100}>>,
   sysDrawdown |-> <<1000, {300}>>, sysTrades |-> <<20, {3}>>,
   sysReward |-> <<15, {40}>>, sysPairs |-> <<{}, {{"stock"}}>>,
   stopRequired |-> <<TRUE, {FALSE}>>, hasStrategy |-> <<TRUE, {FALSE}>>,
   strRisk |-> <<100, {20, 300}>>, strReward |-> <<20, {10}>>,
   strDailyLoss |-> <<400, {80}>>, strTrades |-> <<5, {2}>>,
   strCooldown |-> <<2, {9}>>, hasDocument |-> <<TRUE, {FALSE}>>,
   okfRisk |-> <<100, {30, 500}>>, okfDailyLoss |-> <<500, {60, 900}>>,
   okfDrawdown |-> <<1000, {2000}>>, okfTrades |-> <<8, {1, 40}>>,
   okfCooldown |-> <<5, {8}>>, okfCorrelation |-> <<TRUE, {FALSE}>>,
   okfLowTurnover |-> <<TRUE, {FALSE}>>, equity |-> <<1000, {0, 400}>>,
   cash |-> <<900, {10}>>, exposure |-> <<0, {480}>>,
   dailyPnl |-> <<0, {-7, -30, -60}>>, drawdown |-> <<0, {250, 1500}>>,
   trades |-> <<0, {1, 4}>>, killSwitch |-> <<FALSE, {TRUE}>>,
   switch |-> <<FALSE, {TRUE}>>, halted |-> <<FALSE, {TRUE}>>,
   stopFile |-> <<FALSE, {TRUE}>>,
   breakers |-> <<Breakers, {{}} \cup {Breakers \ {r} : r \in Breakers}>>,
   ownDailyLoss |-> <<500, {60, 900}>>, ownDrawdown |-> <<1000, {200, 2000}>>, symbol |-> <<"BTC", {"AAPL"}>>,
   side |-> <<"LONG", {"SHORT"}>>, quantity |-> <<190, {0}>>,
   notional |-> <<19, {45, 0}>>, stop |-> <<90, {100, None}>>,
   target |-> <<120, {112, None}>>, bars |-> <<10, {None, 3}>>,
   liquidity |-> <<50, {None, 5}>>, positions |-> <<{}, {None, {"SPY", "QQQ"}}>>,
   known |-> <<TRUE, {FALSE}>>, style |-> <<None, {"scalping"}>>,
   memory |-> <<{}, {None, {[outcome |-> "LOSS", likeness |-> 90]}}>>,
   confirmed |-> <<{"m1"}, {{}}>>, close |-> <<100, {None}>>,
   stopLong |-> <<90, {40, 100}>>, stopShort |-> <<None, {110}>>,
   range |-> <<None, {30}>>, age |-> <<10, {None, Word, 121}>>,
   candles |-> <<50, {None, 0}>>, laterAge |-> <<10, {None, 121}>>,
   laterCandles |-> <<50, {None, 0}>>, rsi |-> <<50, {20, 80}>>,
   histogram |-> <<1, {-1}>>, aboveAverage |-> <<TRUE, {FALSE}>>,
   shortTerm |-> <<"up", {"down"}>>, provider |-> <<"mock", {"ollama", "hosted"}>>,
   usable |-> <<TRUE, {FALSE}>>, mute |-> <<None, {"market", "technical", "bull"}>>,
   text |-> <<"object", {"embedded", "broken"}>>,
   garbled |-> <<"trend", {"strategy"}>>, confidence |-> <<70, {None, Word, 130}>>,
   sides |-> <<0, {2, -3}>>, saidShort |-> <<None, {"down"}>>,
   direction |-> <<"LONG", {"SHORT", "NO_TRADE", "unknown"}>>, bull |-> <<80, {20}>>,
   bear |-> <<20, {80}>>]

Init == case = [f \in DOMAIN Inputs |-> Inputs[f][1]] /\ departed = 0

Depart(f) ==
  /\ departed < MaxDepartures
  /\ case[f] = Inputs[f][1]
  /\ \E value \in Inputs[f][2] : case' = [case EXCEPT ![f] = value]
  /\ departed' = departed + 1

Next == \E f \in DOMAIN Inputs : Depart(f)

Spec == Init /\ [][Next]_vars
-----------------------------------------------------------------------------
(* The inputs of the case *)

System ==
  [trade |-> case.sysTrade, position |-> case.sysPosition, exposure |-> case.sysExposure,
   dailyLoss |-> case.sysDailyLoss, drawdown |-> case.sysDrawdown, trades |-> case.sysTrades,
   slippage |-> 50, leverage |-> 1, stopRequired |-> case.stopRequired, liquidity |-> 20,
   confidence |-> 5500, reward |-> case.sysReward, kelly |-> 2500, pairs |-> case.sysPairs]

Strategy ==
  IF case.hasStrategy
  THEN [risk |-> case.strRisk, dailyLoss |-> case.strDailyLoss, trades |-> case.strTrades,
        cooldown |-> case.strCooldown, reward |-> case.strReward,
        target |-> 60, rangeMultiple |-> 2]
  ELSE None

Document ==
  IF case.hasDocument
  THEN [risk |-> case.okfRisk, dailyLoss |-> case.okfDailyLoss, drawdown |-> case.okfDrawdown,
        trades |-> case.okfTrades, cooldown |-> case.okfCooldown, kelly |-> 2500,
        correlation |-> case.okfCorrelation, riskOn |-> {"BTC"}, blockers |-> {"SPY", "QQQ"},
        lowTurnover |-> case.okfLowTurnover, forbidden |-> {"scalping"}]
  ELSE None

Symbol == [name |-> case.symbol, class |-> IF case.symbol = "BTC" THEN "crypto" ELSE "stock"]

Book ==
  [equity |-> case.equity, cash |-> case.cash, exposure |-> case.exposure,
   dailyPnl |-> case.dailyPnl, drawdown |-> case.drawdown, trades |-> case.trades,
   killSwitch |-> case.killSwitch, halted |-> case.halted]

Stale == StaleAtProposal(case.laterAge, case.laterCandles)

Market == [liquidity |-> case.liquidity, stale |-> Stale, bars |-> case.bars]

Trade ==
  [symbol |-> Symbol, side |-> case.side, quantity |-> case.quantity,
   notional |-> case.notional, entry |-> 100, stop |-> case.stop, target |-> case.target,
   slippage |-> 5, leverage |-> 1, confidence |-> 6000, models |-> case.confirmed,
   liquidity |-> case.liquidity, stale |-> Stale, bars |-> case.bars]

Context(known, memory) ==
  [switch |-> case.switch, positions |-> case.positions, known |-> known, new |-> TRUE,
   modification |-> FALSE, style |-> case.style, memory |-> MemoryGate(memory, 80)]

\* Without candles no model is confirmed and there is no price.
Features ==
  [confirmed |-> IF case.laterCandles \in {None, 0} THEN {} ELSE case.confirmed,
   close     |-> IF case.laterCandles \in {None, 0} THEN None ELSE case.close,
   stopLong  |-> case.stopLong, stopShort |-> case.stopShort, range |-> case.range]

Chain ==
  [a \in Agents |->
     << [kind    |-> IF case.mute \in {None, a} THEN case.provider ELSE "mock",
         up      |-> case.usable, key |-> TRUE, answers |-> case.usable] >>]

Reply ==
  [a \in Agents |->
     [text       |-> IF a = case.garbled THEN case.text ELSE "object",
      confidence |-> CASE a = "bull" -> case.bull [] a = "bear" -> case.bear
                       [] OTHER -> case.confidence,
      bullish    |-> Most(case.sides, 0), bearish |-> Most(-case.sides, 0),
      shortTerm  |-> case.saidShort, direction |-> case.direction]]

Messages == Analyze(Snapshot(case.age, case.candles), case, Chain, Reply)

ApprovedUnder(document, known, memory) ==
  Approved(Engine(document, System), Trade, Book, Strategy, Context(known, memory))

\* The service proposes for a strategy it knows, or it raises.
Decision ==
  EvaluateProposal(Engine(Document, System), Strategy, Messages, Features, Book, Market,
                   Symbol, case.switch, case.halted, case.breakers)
-----------------------------------------------------------------------------
(* What an approval means *)

\* Every limit of every source holds of an approved trade, whatever the merge
\* made of them: the system's, the strategy's, and those of the document.
ApprovedWithinEverySource ==
  ApprovedUnder(Document, case.known, case.memory) =>
    WithinEverySource(System, Strategy, Document, Trade, Book)

\* A guideline document never opens what the system and the strategy refuse,
\* and to know less never helps: what is refused with the positions at hand is
\* refused when a caller says that they are not known.
StricterNeverOpens ==
  LET approved == ApprovedUnder(Document, case.known, case.memory)
  IN  /\ approved => ApprovedUnder(None, case.known, case.memory)
      /\ ApprovedUnder(Document, FALSE, case.memory) => approved

KeepsBudget(plan) ==
  /\ BasisPoints * plan.quantity * Distance(plan.entry, plan.stop)
       <= case.equity * Lots * Least(System.trade, Strategy.risk)
  /\ BasisPoints * plan.notional <= case.equity * Least(System.trade, System.position)
  /\ IF plan.side = "LONG" THEN plan.stop < plan.entry /\ plan.entry < plan.target
                           ELSE plan.entry < plan.stop /\ plan.target < plan.entry
  /\ plan.quantity > 0 /\ plan.models # {}

\* A plan that is approved may not lose more than the risk budget of the system
\* and of the strategy, is protected on the side of the loss, stays within the
\* notional limits, and was asked for by agents that all had what they need:
\* a market that was there and fresh at both looks, and a reply of the model
\* that says how sure it is in a number, or not at all.
ApprovedPlanKeepsBudget ==
  case.hasStrategy /\ Decision.approved =>
    /\ KeepsBudget(Decision.plan)
    /\ {case.age, case.laterAge} \subseteq 0..MaxAge
    /\ {case.candles, case.laterCandles} \subseteq Nat \ {0}
    /\ \A a \in {"technical", "trend"} :
         Ask(Chain[a], Reply[a]) = "ok" /\ Reply[a].confidence # Word

\* A loss limit that is reached stops the trade, whichever of the three places
\* that know it still looks.  The breakers of the service trip on what the risk
\* engine refuses, each unless it is switched off, and then halt the service for
\* good; the engine refuses with every breaker off.  The breaker of the document
\* has limits of its own: it trips on every loss the engine refuses if they are
\* no looser than the engine's, and on no other if they are no stricter.
LossesNeverPass ==
  LET limits  == EffectiveLimits(Engine(Document, System).limits, Strategy, None)
      breaker == BreakerReasons(Book, limits, case.breakers)
      losses  == LossRefusals(Book, limits)
      own     == [dailyLoss |-> case.ownDailyLoss, drawdown |-> case.ownDrawdown]
      okf     == OKFBreach(Book, own, case.stopFile)
      Below(l, m) == l.dailyLoss <= m.dailyLoss /\ l.drawdown <= m.drawdown
  IN  /\ breaker = losses \cap case.breakers
      /\ case.hasStrategy /\ losses # {} => ~Decision.approved
      /\ case.hasStrategy /\ (breaker # {} \/ case.halted) => Decision.halted /\ ~Decision.approved
      /\ Below(own, limits) /\ losses \ {"TRADE_COUNT_LIMIT"} # {} => okf # None
      /\ Below(limits, own) /\ okf # None =>
           case.stopFile \/ losses \ {"TRADE_COUNT_LIMIT"} # {}
=============================================================================
