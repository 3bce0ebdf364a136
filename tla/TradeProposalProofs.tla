------------------------ MODULE TradeProposalProofs ------------------------
(***************************************************************************)
(* What an approval of the risk engine means, for every limit of the        *)
(* system, of the strategy and of the guideline document, every trade and   *)
(* every book: proofs of what MCTradeProposal checks case by case.          *)
(***************************************************************************)
EXTENDS MCTradeProposal, TLAPS

\* What the memory gate says.
Verdicts == {"OK", "FAILURE_MEMORY_UNAVAILABLE", "FAILURE_MEMORY_MATCH_BLOCK"}

Contexts(Names) ==
  [switch : BOOLEAN, positions : (SUBSET Names) \cup {None}, known : BOOLEAN,
   new : BOOLEAN, modification : BOOLEAN, style : Names \cup {None}, memory : Verdicts]

\* What the theorems need to know of a trade.
IsTrade(p) ==
  /\ p.side \in {"LONG", "SHORT"}
  /\ p.entry \in Int /\ p.notional \in Int
  /\ p.stop \in Int \cup {None} /\ p.target \in Int \cup {None}
  /\ p.bars \in Nat \cup {None}

\* The limits that no document changes.
SystemOnly == {"trade", "position", "exposure", "reward", "slippage", "leverage",
               "liquidity", "confidence", "pairs", "stopRequired"}

-----------------------------------------------------------------------------
(* Arithmetic *)

LEMMA Monotone ==
  ASSUME NEW a \in Nat, NEW b \in Int, NEW c \in Int, b <= c
  PROVE  a * b <= a * c
  OBVIOUS

LEMMA DistanceNatural ==
  ASSUME NEW a \in Int, NEW b \in Int
  PROVE  Distance(a, b) \in Nat
  BY DEF Distance

-----------------------------------------------------------------------------
(* The merge of the limits *)

\* Every limit that more than one source states is at most that of each.
LEMMA TightestBelow ==
  ASSUME NEW own \in Int, NEW strategy, NEW okf, NEW limit,
         strategy # None => strategy[limit] \in Int,
         okf # None => okf[limit] \in Int
  PROVE  /\ Tightest(own, strategy, okf, limit) \in Int
         /\ Tightest(own, strategy, okf, limit) <= own
         /\ strategy # None => Tightest(own, strategy, okf, limit) <= strategy[limit]
         /\ okf # None => Tightest(own, strategy, okf, limit) <= okf[limit]
  BY DEF Tightest, Of, Least

\* A document tightened to the system is a document, and with it the system's
\* limits are still limits.
LEMMA EngineTightens ==
  ASSUME NEW Names, NEW system \in Systems(Names), NEW document \in Documents(Names),
         None \notin Documents(Names),
         NEW resolved, resolved = Resolve(document, system),
         NEW engine, engine = Engine(document, system)
  PROVE  /\ resolved \in Documents(Names)
         /\ \A field \in {"dailyLoss", "trades", "drawdown"} :
              /\ resolved[field] \in Int
              /\ resolved[field] <= document[field] /\ resolved[field] <= system[field]
              /\ resolved[field] \in {document[field], system[field]}
         /\ resolved.cooldown >= document.cooldown
         /\ engine.okf = resolved
         /\ engine.limits \in Systems(Names)
         /\ \A field \in SystemOnly : engine.limits[field] = system[field]
         /\ \A field \in {"dailyLoss", "trades", "drawdown"} :
              engine.limits[field] = resolved[field]
<1>1. /\ resolved.risk      = Least(document.risk, system.trade)
      /\ resolved.dailyLoss = Least(document.dailyLoss, system.dailyLoss)
      /\ resolved.drawdown  = Least(document.drawdown, system.drawdown)
      /\ resolved.trades    = Least(document.trades, system.trades)
      /\ resolved.cooldown  = Most(document.cooldown, 0)
      /\ resolved.kelly     = Least(document.kelly, system.kelly)
      /\ \A field \in {"correlation", "riskOn", "blockers", "lowTurnover", "forbidden"} :
           resolved[field] = document[field]
      /\ DOMAIN resolved = DOMAIN document
  BY DEF Resolve, Documents
<1>2. /\ \A field \in {"risk", "dailyLoss", "drawdown", "trades", "cooldown", "kelly"} :
           document[field] \in Int
      /\ \A field \in {"trade", "dailyLoss", "drawdown", "trades", "kelly"} :
           system[field] \in Int
  BY DEF Documents, Systems
<1>3. resolved \in Documents(Names)
  <2>1. resolved = [f \in DOMAIN resolved |-> resolved[f]]
    BY DEF Resolve, Documents
  <2> QED
    BY <1>1, <1>2, <2>1 DEF Documents, Least, Most
<1>4. /\ \A field \in {"dailyLoss", "trades", "drawdown"} :
           /\ resolved[field] \in Int
           /\ resolved[field] <= document[field] /\ resolved[field] <= system[field]
           /\ resolved[field] \in {document[field], system[field]}
      /\ resolved.cooldown >= document.cooldown
  BY <1>1, <1>2 DEF Least, Most
<1>5. engine.okf = resolved /\ engine.limits = ApplyToLimits(document, system)
  BY DEF Engine
<1>6. engine.limits = [system EXCEPT !.dailyLoss = resolved.dailyLoss,
                                     !.drawdown  = resolved.drawdown,
                                     !.trades    = resolved.trades,
                                     !.kelly     = resolved.kelly]
  BY <1>5 DEF ApplyToLimits
<1>7. /\ resolved.dailyLoss \in Int /\ resolved.drawdown \in Int
      /\ resolved.trades \in Int /\ resolved.kelly \in Int
  BY <1>3 DEF Documents
<1>8. engine.limits \in Systems(Names)
  <2>1. [system EXCEPT !.dailyLoss = resolved.dailyLoss, !.drawdown = resolved.drawdown,
                       !.trades = resolved.trades, !.kelly = resolved.kelly]
          \in Systems(Names)
    BY <1>7 DEF Systems
  <2> QED
    BY <1>6, <2>1
<1>9. /\ \A field \in SystemOnly : engine.limits[field] = system[field]
      /\ \A field \in {"dailyLoss", "trades", "drawdown"} :
           engine.limits[field] = resolved[field]
  BY <1>6 DEF Systems, SystemOnly
<1> QED
  BY <1>3, <1>4, <1>5, <1>8, <1>9

\* No limit of the merge is looser than that of a source which states it.
LEMMA EffectiveBelow ==
  ASSUME NEW Names, NEW system \in Systems(Names),
         NEW strategy \in StrategyLimits \cup {None}, None \notin StrategyLimits,
         NEW document \in Documents(Names) \cup {None}, None \notin Documents(Names),
         NEW limits,
         limits = EffectiveLimits(Engine(document, system).limits, strategy,
                                  Engine(document, system).okf)
  PROVE  /\ \A field \in SystemOnly :
              limits.system[field] = system[field]
         /\ \A field \in {"dailyLoss", "trades"} :
              /\ limits[field] \in Int /\ limits[field] <= system[field]
              /\ strategy # None => limits[field] <= strategy[field]
              /\ document # None => limits[field] <= document[field]
         /\ limits.drawdown \in Int /\ limits.drawdown <= system.drawdown
         /\ document # None => limits.drawdown <= document.drawdown
         /\ limits.reward \in Int /\ limits.reward >= system.reward
         /\ strategy # None => limits.reward >= strategy.reward
         /\ limits.cooldown \in Int
         /\ strategy # None => limits.cooldown >= strategy.cooldown
         /\ document # None => limits.cooldown >= document.cooldown
<1> DEFINE engine == Engine(document, system)
<1>1. CASE document = None
  <2>1. engine.limits = system /\ engine.okf = None
    BY <1>1 DEF Engine
  <2>2. \A field \in {"dailyLoss", "trades"} :
          /\ system[field] \in Int
          /\ strategy # None => strategy[field] \in Int
    BY DEF Systems, StrategyLimits
  <2>3. limits = EffectiveLimits(system, strategy, None)
    BY <2>1
  <2>4. \A field \in {"dailyLoss", "trades"} :
          limits[field] = Tightest(system[field], strategy, None, field)
    BY <2>3 DEF EffectiveLimits
  <2>5. \A field \in {"dailyLoss", "trades"} :
          /\ limits[field] \in Int /\ limits[field] <= system[field]
          /\ strategy # None => limits[field] <= strategy[field]
    BY <2>2, <2>4, TightestBelow
  <2>6. /\ limits.system = system
        /\ limits.drawdown = system.drawdown
        /\ limits.reward = Most(system.reward, Of(strategy, "reward", 10))
        /\ limits.cooldown = Most(Of(strategy, "cooldown", 0), 0)
    BY <2>3 DEF EffectiveLimits, Of, Least, Systems
  <2>7. /\ limits.reward \in Int /\ limits.reward >= system.reward
        /\ strategy # None => limits.reward >= strategy.reward
        /\ limits.cooldown \in Int
        /\ strategy # None => limits.cooldown >= strategy.cooldown
    BY <2>6 DEF Of, Most, Systems, StrategyLimits
  <2> QED
    BY <1>1, <2>5, <2>6, <2>7 DEF Systems, SystemOnly
<1>2. CASE document # None
  <2> DEFINE resolved == Resolve(document, system)
  <2>1. document \in Documents(Names)
    BY <1>2
  <2>2. /\ resolved \in Documents(Names)
        /\ \A field \in {"dailyLoss", "trades", "drawdown"} :
             /\ resolved[field] \in Int
             /\ resolved[field] <= document[field] /\ resolved[field] <= system[field]
        /\ resolved.cooldown >= document.cooldown
    BY <2>1, EngineTightens
  <2>3. engine.okf = resolved
    BY <2>1, EngineTightens
  <2>4. /\ engine.limits \in Systems(Names)
        /\ \A field \in SystemOnly : engine.limits[field] = system[field]
        /\ \A field \in {"dailyLoss", "trades", "drawdown"} :
             engine.limits[field] = resolved[field]
    BY <2>1, EngineTightens
  <2>5. resolved # None
    BY <2>2
  <2> HIDE DEF resolved, engine
  <2>6. limits = EffectiveLimits(engine.limits, strategy, resolved)
    BY <2>3 DEF engine
  <2>7. \A field \in {"dailyLoss", "trades"} :
          /\ engine.limits[field] \in Int
          /\ strategy # None => strategy[field] \in Int
          /\ limits[field] = Tightest(engine.limits[field], strategy, resolved, field)
    BY <2>2, <2>4, <2>6 DEF EffectiveLimits, StrategyLimits
  <2>8. \A field \in {"dailyLoss", "trades"} :
          /\ limits[field] \in Int /\ limits[field] <= engine.limits[field]
          /\ strategy # None => limits[field] <= strategy[field]
    BY <2>2, <2>7, TightestBelow
  <2>9. /\ limits.system = engine.limits
        /\ limits.drawdown = Least(engine.limits.drawdown, resolved.drawdown)
        /\ limits.reward = Most(engine.limits.reward, Of(strategy, "reward", 10))
        /\ limits.cooldown = Most(Of(strategy, "cooldown", 0), resolved.cooldown)
    BY <2>5, <2>6 DEF EffectiveLimits, Of
  <2>10. /\ limits.reward \in Int /\ limits.reward >= system.reward
         /\ strategy # None => limits.reward >= strategy.reward
         /\ limits.cooldown \in Int
         /\ strategy # None => limits.cooldown >= strategy.cooldown
         /\ limits.cooldown >= resolved.cooldown
         /\ limits.drawdown \in Int /\ limits.drawdown <= resolved.drawdown
    BY <2>2, <2>4, <2>9 DEF Of, Most, Least, Systems, StrategyLimits, Documents, SystemOnly
  <2>11. \A field \in {"dailyLoss", "trades"} :
           limits[field] <= system[field] /\ limits[field] <= document[field]
    BY <2>1, <2>2, <2>4, <2>8 DEF Documents, Systems
  <2>12. /\ limits.drawdown <= system.drawdown /\ limits.drawdown <= document.drawdown
         /\ limits.cooldown >= document.cooldown
    BY <2>1, <2>2, <2>10 DEF Documents, Systems
  <2> QED
    BY <2>4, <2>8, <2>9, <2>10, <2>11, <2>12
<1> QED
  BY <1>1, <1>2

-----------------------------------------------------------------------------
(* The decision *)

\* No condition of a refusal holds of an approved trade.
LEMMA NothingRefused ==
  ASSUME NEW engine, NEW p, NEW b, NEW strategy, NEW context, NEW limits,
         limits = EffectiveLimits(engine.limits, strategy, engine.okf),
         Approved(engine, p, b, strategy, context)
  PROVE  /\ StopRefusals(p, limits) = {}
         /\ SizeRefusals(p, b, limits) = {}
         /\ LossRefusals(b, limits) = {}
         /\ MarketRefusals(p, b, strategy, limits) = {}
  BY DEF Approved, Refusals

\* An approved trade is within every limit of the system, of the strategy and
\* of the document, whatever the three are and however they disagree.
THEOREM ApprovalKeepsEverySource ==
  ASSUME NEW Names, NEW system \in Systems(Names),
         NEW strategy \in StrategyLimits \cup {None}, None \notin StrategyLimits,
         NEW document \in Documents(Names) \cup {None}, None \notin Documents(Names),
         NEW p, IsTrade(p), NEW b \in Books, NEW context,
         Approved(Engine(document, system), p, b, strategy, context)
  PROVE  WithinEverySource(system, strategy, document, p, b)
<1> DEFINE engine == Engine(document, system)
           limits == EffectiveLimits(engine.limits, strategy, engine.okf)
<1>1. /\ StopRefusals(p, limits) = {} /\ SizeRefusals(p, b, limits) = {}
      /\ LossRefusals(b, limits) = {} /\ MarketRefusals(p, b, strategy, limits) = {}
  BY NothingRefused
<1>2. /\ \A field \in {"trade", "position", "exposure"} : limits.system[field] = system[field]
      /\ \A field \in {"dailyLoss", "trades"} :
           /\ limits[field] \in Int /\ limits[field] <= system[field]
           /\ strategy # None => limits[field] <= strategy[field]
           /\ document # None => limits[field] <= document[field]
      /\ limits.drawdown \in Int /\ limits.drawdown <= system.drawdown
      /\ document # None => limits.drawdown <= document.drawdown
      /\ limits.reward \in Int /\ limits.reward >= system.reward
      /\ strategy # None => limits.reward >= strategy.reward
      /\ limits.cooldown \in Int
      /\ strategy # None => limits.cooldown >= strategy.cooldown
      /\ document # None => limits.cooldown >= document.cooldown
  BY EffectiveBelow DEF SystemOnly
<1> HIDE DEF engine, limits
<1>3. /\ b.equity \in Int /\ b.exposure \in Int /\ b.dailyPnl \in Int
      /\ b.drawdown \in Int /\ b.trades \in Int /\ BasisPoints \in Int
  BY BasisAssumption DEF Books
<1>4. /\ b.equity > 0 /\ b.dailyPnl < 0 =>
           ~ (BasisPoints * (-b.dailyPnl) >= b.equity * limits.dailyLoss)
      /\ ~ (b.drawdown >= limits.drawdown)
      /\ ~ (b.trades >= limits.trades)
  BY <1>1 DEF LossRefusals, If
<1>5. ASSUME NEW source, source.dailyLoss \in Int, source.trades \in Int,
             limits.dailyLoss <= source.dailyLoss, limits.trades <= source.trades
      PROVE  WithinSource(source, b)
  <2>1. CASE b.equity > 0 /\ b.dailyPnl < 0
    <3>1. b.equity * limits.dailyLoss <= b.equity * source.dailyLoss
      BY <1>2, <1>3, <1>5, <2>1, Monotone
    <3>2. BasisPoints * (-b.dailyPnl) < b.equity * limits.dailyLoss
      BY <1>2, <1>3, <1>4, <2>1
    <3> QED
      BY <1>2, <1>3, <1>4, <1>5, <3>1, <3>2 DEF WithinSource
  <2>2. CASE ~ (b.equity > 0 /\ b.dailyPnl < 0)
    BY <1>2, <1>3, <1>4, <1>5, <2>2 DEF WithinSource
  <2> QED
    BY <2>1, <2>2
<1>6. ASSUME NEW source, source.reward \in Int, limits.reward >= source.reward,
             p.stop # None, p.target # None
      PROVE  10 * Distance(p.target, p.entry) >= source.reward * Distance(p.entry, p.stop)
  <2>1. /\ ~ (p.side = "LONG" /\ p.stop >= p.entry)
        /\ ~ (p.side = "SHORT" /\ p.stop <= p.entry)
        /\ ~ (/\ p.target # None /\ p.stop # p.entry
              /\ 10 * Distance(p.target, p.entry) < limits.reward * Distance(p.entry, p.stop))
    BY <1>1, <1>6 DEF StopRefusals, If
  <2>2. p.stop # p.entry /\ p.stop \in Int /\ p.entry \in Int /\ p.target \in Int
    BY <1>6, <2>1 DEF IsTrade
  <2>3. Distance(p.target, p.entry) \in Nat /\ Distance(p.entry, p.stop) \in Nat
    BY <2>2, DistanceNatural
  <2>4. Distance(p.entry, p.stop) * source.reward <= Distance(p.entry, p.stop) * limits.reward
    BY <1>2, <1>6, <2>3, Monotone
  <2> QED
    BY <1>2, <1>6, <2>1, <2>2, <2>3, <2>4
<1>7. ASSUME NEW source, source.cooldown \in Int, limits.cooldown >= source.cooldown
      PROVE  p.bars # None => p.bars >= source.cooldown
  <2>1. ~ (p.bars # None /\ limits.cooldown > 0 /\ p.bars < limits.cooldown)
    BY <1>1 DEF MarketRefusals, If
  <2> QED
    BY <1>2, <1>7, <2>1 DEF IsTrade
<1>8. WithinSystem(system, p, b)
  <2>1. WithinSource(system, b)
    BY <1>2, <1>5 DEF Systems
  <2>2. Most(b.equity, 0) \in Nat
    BY <1>3 DEF Most
  <2>3. /\ BasisPoints * p.notional <= Most(b.equity, 0) * system.position
        /\ BasisPoints * p.notional <= Most(b.equity, 0) * system.trade
        /\ BasisPoints * (b.exposure + p.notional) <= Most(b.equity, 0) * system.exposure
    <3>1. /\ ~ (BasisPoints * p.notional > Most(b.equity, 0) * system.position)
          /\ ~ (BasisPoints * p.notional > Most(b.equity, 0) * system.trade)
          /\ ~ (BasisPoints * (b.exposure + p.notional) > Most(b.equity, 0) * system.exposure)
      BY <1>1, <1>2 DEF SizeRefusals, If
    <3> QED
      BY <1>3, <2>2, <3>1 DEF IsTrade, Systems
  <2>4. Least(system.trade, system.position) \in {system.trade, system.position}
    BY DEF Least
  <2>5. p.stop # None /\ p.target # None =>
          10 * Distance(p.target, p.entry) >= system.reward * Distance(p.entry, p.stop)
    BY <1>2, <1>6 DEF Systems
  <2>6. b.drawdown < system.drawdown
    BY <1>2, <1>3, <1>4 DEF Systems
  <2> QED
    BY <2>1, <2>3, <2>4, <2>5, <2>6 DEF WithinSystem
<1>9. strategy # None
  BY <1>1 DEF MarketRefusals, If
<1>10. WithinStrategy(strategy, p, b)
  BY <1>2, <1>5, <1>6, <1>7, <1>9 DEF WithinStrategy, StrategyLimits
<1>11. ASSUME document # None PROVE WithinDocument(document, p, b)
  <2>1. document \in Documents(Names)
    BY <1>11
  <2>2. WithinSource(document, b)
    BY <1>2, <1>5, <1>11, <2>1 DEF Documents
  <2>3. p.bars # None => p.bars >= document.cooldown
    BY <1>2, <1>7, <1>11, <2>1 DEF Documents
  <2>4. b.drawdown < document.drawdown
    BY <1>2, <1>3, <1>4, <1>11, <2>1 DEF Documents
  <2> QED
    BY <2>2, <2>3, <2>4 DEF WithinDocument
<1> QED
  BY <1>8, <1>9, <1>10, <1>11 DEF WithinEverySource

\* What the engine refuses without a document it refuses with any: the document
\* can only be stricter than the system and the strategy.
THEOREM DocumentNeverOpens ==
  ASSUME NEW Names, NEW system \in Systems(Names),
         NEW strategy \in StrategyLimits \cup {None}, None \notin StrategyLimits,
         NEW document \in Documents(Names), None \notin Documents(Names),
         NEW p, IsTrade(p), NEW b \in Books, NEW context,
         Approved(Engine(document, system), p, b, strategy, context)
  PROVE  Approved(Engine(None, system), p, b, strategy, context)
<1> DEFINE engine == Engine(document, system)
           strict == EffectiveLimits(engine.limits, strategy, engine.okf)
           plain  == EffectiveLimits(system, strategy, None)
<1>1. Engine(None, system).limits = system /\ Engine(None, system).okf = None
  BY DEF Engine
<1>2. /\ \A field \in SystemOnly : strict.system[field] = system[field]
      /\ \A field \in {"dailyLoss", "trades"} :
           /\ strict[field] \in Int /\ strict[field] <= system[field]
           /\ strategy # None => strict[field] <= strategy[field]
      /\ strict.drawdown \in Int /\ strict.drawdown <= system.drawdown
      /\ strict.cooldown \in Int
      /\ strategy # None => strict.cooldown >= strategy.cooldown
  BY EffectiveBelow
<1>3. strict.reward = plain.reward
  <2>1. strict.system.reward = system.reward
    BY <1>2 DEF SystemOnly
  <2>2. strict.system = engine.limits
    BY DEF EffectiveLimits
  <2> QED
    BY <2>1, <2>2 DEF EffectiveLimits
<1>4. plain.system = system
  BY DEF EffectiveLimits
<1>5. /\ plain.dailyLoss \in {system.dailyLoss} \cup (IF strategy = None THEN {} ELSE {strategy.dailyLoss})
      /\ plain.trades \in {system.trades} \cup (IF strategy = None THEN {} ELSE {strategy.trades})
      /\ plain.drawdown = system.drawdown
      /\ plain.cooldown \in {0} \cup (IF strategy = None THEN {} ELSE {strategy.cooldown})
  BY DEF EffectiveLimits, Tightest, Of, Least, Most, Systems, StrategyLimits
<1>6. /\ StandingRefusals(p, b, strict, context.switch) = {}
      /\ StopRefusals(p, strict) = {} /\ SizeRefusals(p, b, strict) = {}
      /\ LossRefusals(b, strict) = {} /\ MarketRefusals(p, b, strategy, strict) = {}
      /\ MemoryRefusals(context.memory) = {}
  BY DEF Approved, Refusals
<1> HIDE DEF engine, strict, plain
<1>7. /\ plain.dailyLoss \in Int /\ strict.dailyLoss <= plain.dailyLoss
      /\ plain.trades \in Int /\ strict.trades <= plain.trades
      /\ plain.drawdown \in Int /\ strict.drawdown <= plain.drawdown
      /\ plain.cooldown \in Int /\ (plain.cooldown > 0 => strict.cooldown >= plain.cooldown)
  BY <1>2, <1>5 DEF Systems, StrategyLimits
<1>8. StandingRefusals(p, b, plain, context.switch) = {}
  BY <1>2, <1>4, <1>6 DEF StandingRefusals, SystemOnly
<1>9. StopRefusals(p, plain) = {}
  BY <1>2, <1>3, <1>4, <1>6 DEF StopRefusals, SystemOnly
<1>10. SizeRefusals(p, b, plain) = {}
  BY <1>2, <1>4, <1>6 DEF SizeRefusals, SystemOnly
<1>11. LossRefusals(b, plain) = {}
  <2>1. /\ b.equity \in Int /\ b.dailyPnl \in Int /\ b.drawdown \in Int /\ b.trades \in Int
        /\ BasisPoints \in Int
    BY BasisAssumption DEF Books
  <2>2. /\ ~ (/\ b.equity > 0 /\ b.dailyPnl < 0
              /\ BasisPoints * (-b.dailyPnl) >= b.equity * strict.dailyLoss)
        /\ ~ (b.drawdown >= strict.drawdown)
        /\ ~ (b.trades >= strict.trades)
    BY <1>6 DEF LossRefusals, If
  <2>3. b.equity > 0 => b.equity * strict.dailyLoss <= b.equity * plain.dailyLoss
    BY <1>2, <1>7, <2>1, Monotone
  <2>4. ~ (/\ b.equity > 0 /\ b.dailyPnl < 0
           /\ BasisPoints * (-b.dailyPnl) >= b.equity * plain.dailyLoss)
    BY <1>2, <1>7, <2>1, <2>2, <2>3
  <2>5. ~ (b.drawdown >= plain.drawdown) /\ ~ (b.trades >= plain.trades)
    BY <1>2, <1>7, <2>1, <2>2
  <2> QED
    BY <2>4, <2>5 DEF LossRefusals, If
<1>12. MarketRefusals(p, b, strategy, plain) = {}
  <2>1. ~ (p.bars # None /\ strict.cooldown > 0 /\ p.bars < strict.cooldown)
    BY <1>6 DEF MarketRefusals, If
  <2>2. ~ (p.bars # None /\ plain.cooldown > 0 /\ p.bars < plain.cooldown)
    BY <1>2, <1>7, <2>1 DEF IsTrade
  <2> QED
    BY <1>2, <1>4, <1>6, <2>2 DEF MarketRefusals, If, SystemOnly
<1>13. OKFRefusals(p, b, None, context) = {}
  BY DEF OKFRefusals
<1>14. Refusals(Engine(None, system), p, b, strategy, context)
         = UNION {StandingRefusals(p, b, plain, context.switch), StopRefusals(p, plain),
                  SizeRefusals(p, b, plain), LossRefusals(b, plain),
                  MarketRefusals(p, b, strategy, plain),
                  OKFRefusals(p, b, None, context), MemoryRefusals(context.memory)}
  BY <1>1 DEF Refusals, plain
<1> QED
  BY <1>6, <1>8, <1>9, <1>10, <1>11, <1>12, <1>13, <1>14 DEF Approved

\* A trade that is approved although the positions are not known is approved
\* whatever the positions are found to be; knowing less never opens one.
THEOREM IgnoranceNeverOpens ==
  ASSUME NEW Names, NEW engine, NEW p, NEW b, NEW strategy,
         NEW context \in Contexts(Names), context.known,
         Approved(engine, p, b, strategy, [context EXCEPT !.known = FALSE])
  PROVE  Approved(engine, p, b, strategy, context)
<1> DEFINE ignorant == [context EXCEPT !.known = FALSE]
<1>1. /\ ~ignorant.known
      /\ \A field \in {"switch", "positions", "new", "modification", "style", "memory"} :
           ignorant[field] = context[field]
  BY DEF Contexts
<1> HIDE DEF ignorant
<1>2. OKFRefusals(p, b, engine.okf, ignorant) = {}
  BY DEF Approved, Refusals, ignorant
<1>3. OKFRefusals(p, b, engine.okf, context) = {}
  <2>1. CASE engine.okf = None
    BY <2>1 DEF OKFRefusals
  <2>2. CASE engine.okf # None
    <3> DEFINE entry == [symbol |-> p.symbol, side |-> p.side, new |-> context.new,
                         modification |-> context.modification]
    <3>1. CorrelationGate(engine.okf, entry, context.positions, ignorant.known) = "OK"
      BY <1>1, <1>2, <2>2 DEF OKFRefusals, If
    <3>2. CorrelationGate(engine.okf, entry, context.positions, context.known) = "OK"
      BY <1>1, <3>1 DEF CorrelationGate
    <3>3. TurnoverAllowed(engine.okf, b.trades, p.bars, context.style)
      BY <1>1, <1>2, <2>2 DEF OKFRefusals, If
    <3> QED
      BY <2>2, <3>2, <3>3 DEF OKFRefusals, If
  <2> QED
    BY <2>1, <2>2
<1> QED
  BY <1>1, <1>2, <1>3 DEF Approved, Refusals, ignorant

\* A limit on the daily loss that is not looser trips no later.
LEMMA TighterTrips ==
  ASSUME NEW b \in Books, NEW l \in Int, NEW m \in Int, l <= m, b.equity > 0,
         BasisPoints * (-b.dailyPnl) >= b.equity * m
  PROVE  BasisPoints * (-b.dailyPnl) >= b.equity * l
<1>1. b.equity \in Nat /\ b.dailyPnl \in Int /\ BasisPoints \in Int
  BY BasisAssumption DEF Books
<1>2. b.equity * l <= b.equity * m
  BY <1>1, Monotone
<1> DEFINE loss == BasisPoints * (-b.dailyPnl)
           low  == b.equity * l
           high == b.equity * m
<1>3. loss \in Int /\ low \in Int /\ high \in Int
  BY <1>1
<1>4. loss >= high /\ low <= high
  BY <1>2
<1> HIDE DEF loss, low, high
<1>5. loss >= low
  BY <1>3, <1>4
<1> QED
  BY <1>5 DEF loss, low

\* The breakers of the proposal service trip on what the risk engine refuses for
\* a loss, to the unit, unless they are switched off.  The breakers of the
\* document trip on all of it if their own limits are no looser than the
\* engine's, and on nothing else if they are no stricter.
THEOREM BreakersTripTogether ==
  ASSUME NEW b \in Books, NEW limits, limits.dailyLoss \in Nat \ {0},
         limits.drawdown \in Int, limits.trades \in Int, NEW on,
         NEW own \in [dailyLoss : Int, drawdown : Int],
         None \notin {"DAILY_LOSS", "DRAWDOWN"}
  PROVE  /\ BreakerReasons(b, limits, on) = LossRefusals(b, limits) \cap on
         /\ /\ own.dailyLoss <= limits.dailyLoss /\ own.drawdown <= limits.drawdown
            /\ LossRefusals(b, limits) \ {"TRADE_COUNT_LIMIT"} # {}
            => OKFBreach(b, own, FALSE) # None
         /\ /\ limits.dailyLoss <= own.dailyLoss /\ limits.drawdown <= own.drawdown
            /\ OKFBreach(b, own, FALSE) # None
            => LossRefusals(b, limits) \ {"TRADE_COUNT_LIMIT"} # {}
<1> DEFINE losses   == LossRefusals(b, limits)
           Lost(l) == /\ b.equity > 0 /\ b.dailyPnl < 0
                      /\ BasisPoints * (-b.dailyPnl) >= b.equity * l
           lost     == Lost(limits.dailyLoss)
           ownLost  == Lost(own.dailyLoss)
           lower    == b.drawdown >= limits.drawdown
           ownLower == b.drawdown >= own.drawdown
           often    == b.trades >= limits.trades
<1>1. /\ b.equity \in Int /\ b.dailyPnl \in Int /\ b.drawdown \in Int /\ b.trades \in Int
      /\ BasisPoints \in Int
  BY BasisAssumption DEF Books
<1>2. /\ b.equity > 0
      /\ BasisPoints * Most(-b.dailyPnl, 0) >= b.equity * limits.dailyLoss
      <=> lost
  <2>1. CASE b.dailyPnl < 0
    BY <1>1, <2>1 DEF Most
  <2>2. CASE ~ (b.dailyPnl < 0)
    <3>1. Most(-b.dailyPnl, 0) = 0
      BY <1>1, <2>2 DEF Most
    <3>2. b.equity > 0 => b.equity * 1 <= b.equity * limits.dailyLoss
      BY <1>1, Monotone
    <3> QED
      BY <1>1, <2>2, <3>1, <3>2
  <2> QED
    BY <2>1, <2>2
<1>3. losses = UNION {If(lost, "DAILY_LOSS_LIMIT"), If(lower, "DRAWDOWN_LIMIT"),
                      If(often, "TRADE_COUNT_LIMIT")}
  BY DEF LossRefusals
<1>4. BreakerReasons(b, limits, on) = losses \cap on
  BY <1>2, <1>3 DEF BreakerReasons, If
<1>5. OKFBreach(b, own, FALSE) # None <=> ownLost \/ ownLower
  BY DEF OKFBreach
<1>6. own.dailyLoss <= limits.dailyLoss => (lost => ownLost)
  BY TighterTrips
<1>7. limits.dailyLoss <= own.dailyLoss => (ownLost => lost)
  BY TighterTrips
<1>8. /\ own.drawdown <= limits.drawdown => (lower => ownLower)
      /\ limits.drawdown <= own.drawdown => (ownLower => lower)
  BY <1>1
<1> HIDE DEF losses, lost, ownLost, lower, ownLower, often
<1>9. losses \ {"TRADE_COUNT_LIMIT"} # {} <=> lost \/ lower
  BY <1>3 DEF If
<1> QED
  BY <1>4, <1>5, <1>6, <1>7, <1>8, <1>9 DEF losses

-----------------------------------------------------------------------------
(* The plan *)

LEMMA QuotientBelow ==
  ASSUME NEW n \in Int, NEW d \in Nat \ {0}
  PROVE  n \div d \in Int /\ d * (n \div d) <= n
  OBVIOUS

\* A planned trade loses no more between its entry and its stop than the risk
\* budget of the system and of the strategy, and costs no more than the limits
\* on a trade and a position, after the roundings of the quantity.
THEOREM PlanKeepsBudget ==
  ASSUME NEW Names, NEW system \in Systems(Names), NEW strategy \in StrategyLimits,
         None \notin StrategyLimits,
         NEW consensus, NEW equity \in Int,
         NEW features, features.close \in Nat \ {0},
         features.stopLong \in Int \cup {None}, features.stopShort \in Int \cup {None},
         features.range \in Int \cup {None},
         NEW plan, plan = Plan(system, strategy, consensus, features, equity),
         plan.status = "PROPOSED"
  PROVE  /\ plan.quantity \in Int /\ plan.stop \in Int
         /\ BasisPoints * (plan.quantity * Distance(plan.entry, plan.stop))
              <= equity * Least(system.trade, strategy.risk) * Lots
         /\ BasisPoints * plan.notional <= equity * Least(system.trade, system.position)
<1> DEFINE side     == consensus.decision
           stop     == PlannedStop(side, features, strategy)
           close    == features.close
           distance == Distance(close, stop)
           risk     == Least(system.trade, strategy.risk)
           notional == Least(system.trade, system.position)
           byRisk   == (equity * risk * Lots) \div (BasisPoints * distance)
           bySize   == (equity * notional * Lots) \div (BasisPoints * close)
<1>1. /\ system.trade \in Int /\ system.position \in Int
      /\ strategy.risk \in Int /\ strategy.rangeMultiple \in Int /\ strategy # None
      /\ close \in Nat \ {0} /\ close # None /\ equity \in Int
      /\ BasisPoints \in Nat \ {0}
  BY NoneAssumption, BasisAssumption DEF Systems, StrategyLimits
<1>2. EffectiveLimits(system, strategy, None).risk = risk
  BY <1>1 DEF EffectiveLimits, Tightest, Of, Least
<1>3. /\ side \in {"LONG", "SHORT"}
      /\ stop # None /\ stop # close
      /\ plan = Proposed(side, consensus, features, stop,
                         Quantity(system, risk, close, distance, equity), strategy.target)
  BY <1>1, <1>2 DEF Plan, NoTrade
<1>4. stop \in Int
  BY <1>1, <1>3 DEF PlannedStop, Toward
<1> HIDE DEF stop, side
<1>5. /\ plan.entry = close /\ plan.stop = stop
      /\ plan.quantity = Least(byRisk, bySize)
      /\ plan.notional = (plan.quantity * close) \div Lots
  BY <1>3 DEF Proposed, Quantity
<1>6. /\ distance \in Nat \ {0} /\ risk \in Int /\ notional \in Int
      /\ Lots \in Nat \ {0}
  BY <1>1, <1>3, <1>4 DEF Distance, Least, Lots
<1> HIDE DEF close, distance, risk, notional
<1>7. /\ BasisPoints * distance \in Nat \ {0}
      /\ BasisPoints * close \in Nat \ {0}
  BY <1>1, <1>6
<1>8. /\ equity * risk * Lots \in Int
      /\ equity * notional * Lots \in Int
  BY <1>1, <1>6
<1>9. /\ byRisk \in Int /\ (BasisPoints * distance) * byRisk <= equity * risk * Lots
      /\ bySize \in Int /\ (BasisPoints * close) * bySize <= equity * notional * Lots
  BY <1>7, <1>8, QuotientBelow
<1> HIDE DEF byRisk, bySize
<1>10. plan.quantity \in Int /\ plan.quantity <= byRisk /\ plan.quantity <= bySize
  BY <1>5, <1>9 DEF Least
<1>11. BasisPoints * (plan.quantity * distance) <= equity * risk * Lots
  <2>1. (BasisPoints * distance) * plan.quantity <= (BasisPoints * distance) * byRisk
    BY <1>7, <1>9, <1>10, Monotone
  <2>2. (BasisPoints * distance) * plan.quantity = BasisPoints * (plan.quantity * distance)
    BY <1>1, <1>6, <1>10
  <2> QED
    BY <1>7, <1>8, <1>9, <1>10, <2>1, <2>2
<1>12. BasisPoints * plan.notional <= equity * notional
  <2>1. (BasisPoints * close) * plan.quantity <= equity * notional * Lots
    <3>1. (BasisPoints * close) * plan.quantity <= (BasisPoints * close) * bySize
      BY <1>7, <1>9, <1>10, Monotone
    <3> QED
      BY <1>7, <1>8, <1>9, <1>10, <3>1
  <2>2. plan.quantity * close \in Int
    BY <1>1, <1>10
  <2>3. plan.notional \in Int /\ Lots * plan.notional <= plan.quantity * close
    BY <1>5, <1>6, <2>2, QuotientBelow
  <2>4. BasisPoints * (Lots * plan.notional) <= BasisPoints * (plan.quantity * close)
    BY <1>1, <1>6, <2>2, <2>3, Monotone
  <2>5. /\ BasisPoints * (Lots * plan.notional) = Lots * (BasisPoints * plan.notional)
        /\ BasisPoints * (plan.quantity * close) = (BasisPoints * close) * plan.quantity
        /\ equity * notional * Lots = Lots * (equity * notional)
    BY <1>1, <1>6, <1>10, <2>3
  <2>6. Lots * (BasisPoints * plan.notional) <= Lots * (equity * notional)
    BY <1>1, <1>6, <1>7, <1>10, <2>1, <2>3, <2>4, <2>5
  <2>7. BasisPoints * plan.notional \in Int /\ equity * notional \in Int
    BY <1>1, <1>6, <2>3
  <2> QED
    BY <2>6, <2>7 DEF Lots
<1> QED
  BY <1>4, <1>5, <1>10, <1>11, <1>12 DEF distance, risk, notional
-----------------------------------------------------------------------------
(* The cases *)

Numbers == {"sysTrade", "sysPosition", "sysExposure", "sysDrawdown",
            "sysTrades", "sysReward", "strRisk", "strReward", "strTrades",
            "strCooldown", "okfRisk", "okfDrawdown", "okfTrades", "okfCooldown",
            "equity", "cash", "exposure", "dailyPnl", "drawdown", "trades",
            "notional", "ownDrawdown"}
Shares == {"sysDailyLoss", "strDailyLoss", "okfDailyLoss", "ownDailyLoss"}
Flags == {"stopRequired", "hasStrategy", "hasDocument", "okfCorrelation",
          "okfLowTurnover", "killSwitch", "switch", "halted", "stopFile",
          "known"}
Prices == {"stop", "target", "stopLong", "stopShort", "range"}
Counts == {"bars", "candles", "laterCandles"}
Ages == {"age", "laterAge"}
NameSets == {"sysPairs", "confirmed"}

\* The types of the inputs the theorems speak of.
CaseTyped ==
  /\ \A f \in Numbers : case[f] \in Int
  /\ \A f \in Shares : case[f] \in Nat \ {0}
  /\ \A f \in Flags : case[f] \in BOOLEAN
  /\ \A f \in Prices : case[f] \in Int \cup {None}
  /\ \A f \in Counts : case[f] \in Nat \cup {None}
  /\ \A f \in Ages : case[f] \in Nat \cup {None, Word}
  /\ \A f \in NameSets : case[f] \in SUBSET CaseNames
  /\ case.side \in {"LONG", "SHORT"}
  /\ case.positions \in ((SUBSET CaseNames) \cup {None})
  /\ case.style \in (CaseNames \cup {None})
  /\ case.close \in ((Nat \ {0}) \cup {None})
  /\ case.text \in {"object", "embedded", "broken"}

Values(f) == {Inputs[f][1]} \cup Inputs[f][2]

\* Every input has one of the values of its row.
Drawn ==
  /\ case = [f \in DOMAIN Inputs |-> case[f]]
  /\ \A f \in DOMAIN Inputs : case[f] \in Values(f)

LEMMA Rows == {"sysTrade", "sysPosition", "sysExposure", "sysDrawdown",
              "sysTrades", "sysReward", "strRisk", "strReward", "strTrades",
              "strCooldown", "okfRisk", "okfDrawdown", "okfTrades",
              "okfCooldown", "equity", "cash", "exposure", "dailyPnl",
              "drawdown", "trades", "notional", "ownDrawdown", "sysDailyLoss",
              "strDailyLoss", "okfDailyLoss", "ownDailyLoss", "stopRequired", "hasStrategy", "hasDocument",
              "okfCorrelation", "okfLowTurnover", "killSwitch", "switch",
              "halted", "stopFile", "known", "stop", "target", "stopLong",
              "stopShort", "range", "bars", "candles", "laterCandles", "age",
              "laterAge", "sysPairs", "confirmed", "side", "positions", "style",
              "close", "text"} \subseteq DOMAIN Inputs
  BY DEF Inputs

LEMMA NumbersTyped == \A f \in Numbers : Values(f) \subseteq Int
<1>1. /\ Values("sysTrade") \subseteq Int
      /\ Values("sysPosition") \subseteq Int
      /\ Values("sysExposure") \subseteq Int
      /\ Values("sysDrawdown") \subseteq Int
  BY DEF Inputs, Values
<1>2. /\ Values("sysTrades") \subseteq Int
      /\ Values("sysReward") \subseteq Int
      /\ Values("strRisk") \subseteq Int
  BY DEF Inputs, Values
<1>3. /\ Values("strReward") \subseteq Int
      /\ Values("strTrades") \subseteq Int
      /\ Values("strCooldown") \subseteq Int
      /\ Values("okfRisk") \subseteq Int
  BY DEF Inputs, Values
<1>4. /\ Values("okfDrawdown") \subseteq Int
      /\ Values("okfTrades") \subseteq Int
      /\ Values("okfCooldown") \subseteq Int
  BY DEF Inputs, Values
<1>5. /\ Values("equity") \subseteq Int
      /\ Values("cash") \subseteq Int
      /\ Values("exposure") \subseteq Int
      /\ Values("dailyPnl") \subseteq Int
  BY DEF Inputs, Values
<1>6. /\ Values("drawdown") \subseteq Int
      /\ Values("trades") \subseteq Int
      /\ Values("notional") \subseteq Int
      /\ Values("ownDrawdown") \subseteq Int
  BY DEF Inputs, Values
<1> QED
  BY <1>1, <1>2, <1>3, <1>4, <1>5, <1>6 DEF Numbers

LEMMA SharesTyped == \A f \in Shares : Values(f) \subseteq (Nat \ {0})
<1>1. /\ Values("sysDailyLoss") \subseteq (Nat \ {0})
      /\ Values("strDailyLoss") \subseteq (Nat \ {0})
      /\ Values("okfDailyLoss") \subseteq (Nat \ {0})
      /\ Values("ownDailyLoss") \subseteq (Nat \ {0})
  BY DEF Inputs, Values
<1> QED
  BY <1>1 DEF Shares

LEMMA FlagsTyped == \A f \in Flags : Values(f) \subseteq BOOLEAN
<1>1. /\ Values("stopRequired") \subseteq BOOLEAN
      /\ Values("hasStrategy") \subseteq BOOLEAN
      /\ Values("hasDocument") \subseteq BOOLEAN
      /\ Values("okfCorrelation") \subseteq BOOLEAN
  BY DEF Inputs, Values
<1>2. /\ Values("okfLowTurnover") \subseteq BOOLEAN
      /\ Values("killSwitch") \subseteq BOOLEAN
      /\ Values("switch") \subseteq BOOLEAN
  BY DEF Inputs, Values
<1>3. /\ Values("halted") \subseteq BOOLEAN
      /\ Values("stopFile") \subseteq BOOLEAN
      /\ Values("known") \subseteq BOOLEAN
  BY DEF Inputs, Values
<1> QED
  BY <1>1, <1>2, <1>3 DEF Flags

LEMMA PricesTyped == \A f \in Prices : Values(f) \subseteq (Int \cup {None})
<1>1. /\ Values("stop") \subseteq (Int \cup {None})
      /\ Values("target") \subseteq (Int \cup {None})
      /\ Values("stopLong") \subseteq (Int \cup {None})
      /\ Values("stopShort") \subseteq (Int \cup {None})
  BY DEF Inputs, Values
<1>2. Values("range") \subseteq (Int \cup {None})
  BY DEF Inputs, Values
<1> QED
  BY <1>1, <1>2 DEF Prices

LEMMA CountsTyped == \A f \in Counts : Values(f) \subseteq (Nat \cup {None})
<1>1. /\ Values("bars") \subseteq (Nat \cup {None})
      /\ Values("candles") \subseteq (Nat \cup {None})
      /\ Values("laterCandles") \subseteq (Nat \cup {None})
  BY DEF Inputs, Values
<1> QED
  BY <1>1 DEF Counts

LEMMA AgesTyped == \A f \in Ages : Values(f) \subseteq (Nat \cup {None, Word})
<1>1. /\ Values("age") \subseteq (Nat \cup {None, Word})
      /\ Values("laterAge") \subseteq (Nat \cup {None, Word})
  BY DEF Inputs, Values
<1> QED
  BY <1>1 DEF Ages

LEMMA NameSetsTyped == \A f \in NameSets : Values(f) \subseteq SUBSET CaseNames
<1>1. /\ Values("sysPairs") \subseteq SUBSET CaseNames
      /\ Values("confirmed") \subseteq SUBSET CaseNames
  BY DEF Inputs, Values, CaseNames
<1> QED
  BY <1>1 DEF NameSets

LEMMA OthersTyped ==
  /\ Values("side") \subseteq {"LONG", "SHORT"}
  /\ Values("positions") \subseteq ((SUBSET CaseNames) \cup {None})
  /\ Values("style") \subseteq (CaseNames \cup {None})
  /\ Values("close") \subseteq ((Nat \ {0}) \cup {None})
  /\ Values("text") \subseteq {"object", "embedded", "broken"}
<1>1. Values("side") \subseteq {"LONG", "SHORT"}
  BY DEF Inputs, Values
<1>2. Values("positions") \subseteq ((SUBSET CaseNames) \cup {None})
  BY DEF Inputs, Values, CaseNames
<1>3. Values("style") \subseteq (CaseNames \cup {None})
  BY DEF Inputs, Values, CaseNames
<1>4. Values("close") \subseteq ((Nat \ {0}) \cup {None})
  BY DEF Inputs, Values
<1>5. Values("text") \subseteq {"object", "embedded", "broken"}
  BY DEF Inputs, Values
<1> QED
  BY <1>1, <1>2, <1>3, <1>4, <1>5

LEMMA DrawnTyped == Drawn => CaseTyped
  BY Rows, NumbersTyped, SharesTyped, FlagsTyped, PricesTyped, CountsTyped, AgesTyped, NameSetsTyped, OthersTyped
     DEF Drawn, CaseTyped, Numbers, Shares, Flags, Prices, Counts, Ages, NameSets

\* The walk through the cases stays in the table of the inputs.
THEOREM CasesTyped == Spec => []CaseTyped
<1>1. Init => Drawn
  BY DEF Init, Drawn, Values
<1>2. Drawn /\ [Next]_vars => Drawn'
  <2> SUFFICES ASSUME Drawn, [Next]_vars PROVE Drawn'
    OBVIOUS
  <2>1. CASE UNCHANGED vars
    BY <2>1 DEF Drawn, vars
  <2>2. ASSUME NEW f \in DOMAIN Inputs, Depart(f) PROVE Drawn'
    <3>1. PICK value \in Inputs[f][2] : case' = [case EXCEPT ![f] = value]
      BY <2>2 DEF Depart
    <3> QED
      BY <3>1 DEF Drawn, Values
  <2> QED
    BY <2>1, <2>2 DEF Next
<1> QED
  BY <1>1, <1>2, DrawnTyped, PTL DEF Spec

\* What the cases are made of: limits, a document, a book and a trade.
LEMMA CaseParts ==
  ASSUME CaseTyped
  PROVE  /\ System \in Systems(CaseNames)
         /\ Strategy \in StrategyLimits \cup {None}
         /\ Document \in Documents(CaseNames) \cup {None}
         /\ Book \in Books
         /\ IsTrade(Trade)
<1>1. System \in Systems(CaseNames)
  BY DEF CaseTyped, Numbers, Shares, Flags, NameSets, System, Systems
<1>2. Strategy \in StrategyLimits \cup {None}
  BY DEF CaseTyped, Numbers, Shares, Strategy, StrategyLimits
<1>3. Document \in Documents(CaseNames) \cup {None}
  BY DEF CaseTyped, Numbers, Shares, Flags, Document, Documents, CaseNames
<1>4. Book \in Books
  BY DEF CaseTyped, Numbers, Flags, Book, Books
<1>5. IsTrade(Trade)
  BY DEF CaseTyped, Numbers, Prices, Counts, IsTrade, Trade
<1> QED
  BY <1>1, <1>2, <1>3, <1>4, <1>5

\* An approved trade is within every limit of every source.
THEOREM ApprovedTradesWithinEverySource == Spec => []ApprovedWithinEverySource
<1>1. CaseTyped => ApprovedWithinEverySource
  BY CaseParts, ApprovalKeepsEverySource, AbsentAssumption
     DEF ApprovedWithinEverySource, ApprovedUnder
<1> QED
  BY <1>1, CasesTyped, PTL

\* Neither a document nor ignorance opens what is refused without them.
THEOREM StricterIsNeverOpener == Spec => []StricterNeverOpens
<1>1. ASSUME CaseTyped PROVE StricterNeverOpens
  <2>1. ApprovedUnder(Document, case.known, case.memory)
          => ApprovedUnder(None, case.known, case.memory)
    <3>1. CASE Document = None
      BY <3>1
    <3>2. CASE Document # None
      BY <1>1, <3>2, CaseParts, DocumentNeverOpens, AbsentAssumption DEF ApprovedUnder
    <3> QED
      BY <3>1, <3>2
  <2>2. ASSUME ApprovedUnder(Document, FALSE, case.memory)
        PROVE  ApprovedUnder(Document, case.known, case.memory)
    <3>1. case.known \in BOOLEAN
      BY <1>1 DEF CaseTyped, Flags
    <3>2. CASE ~case.known
      BY <2>2, <3>1, <3>2
    <3>3. CASE case.known
      <4> DEFINE context == Context(case.known, case.memory)
      <4>1. context \in Contexts(CaseNames) /\ context.known
        BY <1>1, <3>1, <3>3 DEF CaseTyped, Flags, Context, Contexts, MemoryGate, Verdicts
      <4>2. ASSUME NEW ignorant, ignorant = [context EXCEPT !.known = FALSE]
            PROVE  ignorant = Context(FALSE, case.memory)
        BY <4>2 DEF Context
      <4>3. [context EXCEPT !.known = FALSE] = Context(FALSE, case.memory)
        BY <4>2
      <4> QED
        BY <2>2, <4>1, <4>3, IgnoranceNeverOpens DEF ApprovedUnder
    <3> QED
      BY <3>1, <3>2, <3>3
  <2> QED
    BY <2>1, <2>2 DEF StricterNeverOpens
<1> QED
  BY <1>1, CasesTyped, PTL

\* The loss limits of a case are whole, whatever the document tightens, and the
\* limit on the daily loss is not zero.
LEMMA CaseLimits ==
  ASSUME CaseTyped,
         NEW engine, engine = Engine(Document, System),
         NEW limits, limits = EffectiveLimits(engine.limits, Strategy, None)
  PROVE  /\ engine.limits \in Systems(CaseNames)
         /\ \A field \in SystemOnly : engine.limits[field] = System[field]
         /\ limits.dailyLoss \in Nat \ {0}
         /\ limits.drawdown \in Int /\ limits.trades \in Int
<1>1. /\ System \in Systems(CaseNames) /\ Strategy \in StrategyLimits \cup {None}
      /\ Document \in Documents(CaseNames) \cup {None} /\ None \notin Documents(CaseNames)
  BY CaseParts, AbsentAssumption
<1>2. /\ System.dailyLoss \in Nat \ {0}
      /\ Strategy # None => Strategy.dailyLoss \in Nat \ {0} /\ Strategy.trades \in Int
      /\ Document # None => Document.dailyLoss \in Nat \ {0}
  BY DEF CaseTyped, Shares, Numbers, System, Strategy, Document
<1>3. /\ engine.limits \in Systems(CaseNames)
      /\ \A field \in SystemOnly : engine.limits[field] = System[field]
      /\ engine.limits.dailyLoss \in Nat \ {0}
  <2>1. CASE Document = None
    <3>1. engine.limits = System
      BY <2>1 DEF Engine
    <3> QED
      BY <1>1, <1>2, <3>1
  <2>2. CASE Document # None
    <3> DEFINE resolved == Resolve(Document, System)
    <3>1. /\ engine.limits \in Systems(CaseNames)
          /\ \A field \in SystemOnly : engine.limits[field] = System[field]
          /\ engine.limits.dailyLoss = resolved.dailyLoss
          /\ resolved.dailyLoss \in {Document.dailyLoss, System.dailyLoss}
      BY <1>1, <2>2, EngineTightens
    <3> QED
      BY <1>2, <2>2, <3>1
  <2> QED
    BY <2>1, <2>2
<1>4. /\ limits.dailyLoss = Tightest(engine.limits.dailyLoss, Strategy, None, "dailyLoss")
      /\ limits.trades = Tightest(engine.limits.trades, Strategy, None, "trades")
      /\ limits.drawdown = Least(engine.limits.drawdown, engine.limits.drawdown)
  BY DEF EffectiveLimits, Of
<1>5. engine.limits.trades \in Int /\ engine.limits.drawdown \in Int
  BY <1>3 DEF Systems
<1>6. limits.dailyLoss \in Nat \ {0}
  BY <1>2, <1>3, <1>4 DEF Tightest, Of, Least
<1>7. limits.trades \in Int /\ limits.drawdown \in Int
  BY <1>2, <1>4, <1>5 DEF Tightest, Of, Least
<1> QED
  BY <1>3, <1>6, <1>7

\* The document takes part in the engine's limits twice: a loss that is refused
\* without it among the limits is refused with it.
LEMMA DocumentRefusesLosses ==
  ASSUME CaseTyped,
         NEW engine, engine = Engine(Document, System),
         NEW limits, limits = EffectiveLimits(engine.limits, Strategy, None),
         NEW all, all = EffectiveLimits(engine.limits, Strategy, engine.okf)
  PROVE  LossRefusals(Book, limits) # {} => LossRefusals(Book, all) # {}
<1>1. /\ engine.limits \in Systems(CaseNames)
      /\ limits.dailyLoss \in Nat \ {0} /\ limits.drawdown \in Int /\ limits.trades \in Int
  BY CaseLimits
<1>2. /\ Book \in Books
      /\ System \in Systems(CaseNames) /\ Document \in Documents(CaseNames) \cup {None}
      /\ Strategy \in StrategyLimits \cup {None}
      /\ None \notin Documents(CaseNames) /\ None \notin StrategyLimits
  BY CaseParts, AbsentAssumption
<1>3. engine.okf # None => engine.okf \in Documents(CaseNames)
  <2>1. CASE Document = None
    BY <2>1 DEF Engine
  <2>2. CASE Document # None
    BY <1>2, <2>2, EngineTightens
  <2> QED
    BY <2>1, <2>2
<1>4. /\ all.dailyLoss \in Int /\ all.dailyLoss <= limits.dailyLoss
      /\ all.trades \in Int /\ all.trades <= limits.trades
  <2>1. \A field \in {"dailyLoss", "trades"} :
          /\ limits[field] = Tightest(engine.limits[field], Strategy, None, field)
          /\ all[field] = Tightest(engine.limits[field], Strategy, engine.okf, field)
          /\ engine.limits[field] \in Int
          /\ Strategy # None => Strategy[field] \in Int
          /\ engine.okf # None => engine.okf[field] \in Int
    BY <1>1, <1>2, <1>3 DEF EffectiveLimits, Systems, StrategyLimits, Documents
  <2>2. ASSUME NEW field \in {"dailyLoss", "trades"}
        PROVE  all[field] \in Int /\ all[field] <= limits[field]
    BY <2>1 DEF Tightest, Of, Least
  <2> QED
    BY <2>2
<1>5. all.drawdown \in Int /\ all.drawdown <= limits.drawdown
  BY <1>1, <1>3 DEF EffectiveLimits, Least, Of, Systems, Documents
<1>6. Book.equity > 0 /\ BasisPoints * (-Book.dailyPnl) >= Book.equity * limits.dailyLoss
        => BasisPoints * (-Book.dailyPnl) >= Book.equity * all.dailyLoss
  BY <1>1, <1>2, <1>4, TighterTrips
<1>7. /\ Book.drawdown >= limits.drawdown => Book.drawdown >= all.drawdown
      /\ Book.trades >= limits.trades => Book.trades >= all.trades
  BY <1>1, <1>2, <1>4, <1>5 DEF Books
<1> QED
  BY <1>6, <1>7 DEF LossRefusals, If

\* A loss limit that is reached stops the trade, whichever breaker is on.
THEOREM NoLossPasses == Spec => []LossesNeverPass
<1>1. ASSUME CaseTyped PROVE LossesNeverPass
  <2> DEFINE engine == Engine(Document, System)
             limits == EffectiveLimits(engine.limits, Strategy, None)
             breaker == BreakerReasons(Book, limits, case.breakers)
             losses  == LossRefusals(Book, limits)
             own     == [dailyLoss |-> case.ownDailyLoss, drawdown |-> case.ownDrawdown]
             okf     == OKFBreach(Book, own, case.stopFile)
             Below(l, m) == l.dailyLoss <= m.dailyLoss /\ l.drawdown <= m.drawdown
  <2>1. /\ breaker = losses \cap case.breakers
        /\ Below(own, limits) /\ losses \ {"TRADE_COUNT_LIMIT"} # {}
             => OKFBreach(Book, own, FALSE) # None
        /\ Below(limits, own) /\ OKFBreach(Book, own, FALSE) # None
             => losses \ {"TRADE_COUNT_LIMIT"} # {}
    <3>1. /\ limits.dailyLoss \in Nat \ {0}
          /\ limits.drawdown \in Int /\ limits.trades \in Int
      BY <1>1, CaseLimits
    <3>2. Book \in Books
      BY <1>1, CaseParts
    <3>3. own \in [dailyLoss : Int, drawdown : Int]
      BY <1>1 DEF CaseTyped, Shares, Numbers
    <3>4. None \notin {"DAILY_LOSS", "DRAWDOWN"}
      BY AbsentAssumption
    <3> HIDE DEF engine, own, limits
    <3> QED
      BY <3>1, <3>2, <3>3, <3>4, BreakersTripTogether
  <2>2. /\ case.stopFile => okf # None
        /\ ~case.stopFile => okf = OKFBreach(Book, own, FALSE)
    BY AbsentAssumption DEF OKFBreach
  <2>3. breaker # {} \/ case.halted => Decision.halted /\ ~Decision.approved
    BY DEF Decision, EvaluateProposal, Judge
  <2>4. ASSUME losses # {}, Decision.approved
        PROVE  FALSE
    <3> DEFINE plan == Plan(engine.limits, Strategy, Consensus(Messages), Features, Book.equity)
               p    == ToProposal(plan, Symbol, Market)
               all  == EffectiveLimits(engine.limits, Strategy, engine.okf)
    <3>1. PICK halts :
            Refusals(engine, p, [Book EXCEPT !.killSwitch = case.switch, !.halted = halts],
                     Strategy, PlainContext(case.switch)) = {}
      BY <2>4 DEF Decision, EvaluateProposal, Judge
    <3> DEFINE snap == [Book EXCEPT !.killSwitch = case.switch, !.halted = halts]
    <3>2. LossRefusals(snap, all) = {}
      BY <3>1 DEF Refusals
    <3>3. LossRefusals(snap, all) = LossRefusals(Book, all)
      BY DEF LossRefusals, Book
    <3>4. LossRefusals(Book, all) # {}
      BY <1>1, <2>4, DocumentRefusesLosses
    <3> QED
      BY <3>2, <3>3, <3>4
  <2> HIDE DEF breaker, losses, okf
  <2>5. ASSUME Below(limits, own), okf # None
        PROVE  case.stopFile \/ losses \ {"TRADE_COUNT_LIMIT"} # {}
    BY <2>1, <2>2, <2>5
  <2>6. ASSUME Below(own, limits), losses \ {"TRADE_COUNT_LIMIT"} # {}
        PROVE  okf # None
    BY <2>1, <2>2, <2>6
  <2> QED
    BY <2>1, <2>3, <2>4, <2>5, <2>6 DEF LossesNeverPass, breaker, losses, okf
<1> QED
  BY <1>1, CasesTyped, PTL

\* A look at the market that is usable found candles and a price in time.
LEMMA UsableLook ==
  ASSUME NEW age \in Nat \cup {None, Word}, NEW candles \in Nat \cup {None},
         Snapshot(age, candles) # None, Usable(Snapshot(age, candles))
  PROVE  age \in 0..MaxAge /\ candles \in Nat \ {0}
<1>1. age # Word
  BY DEF Snapshot
<1>2. age # None /\ candles # None
  <2>1. age = None \/ candles = None
          => Snapshot(age, candles) = [available |-> FALSE, stale |-> TRUE]
    BY <1>1 DEF Snapshot
  <2> QED
    BY <2>1 DEF Usable
<1>3. Snapshot(age, candles) = [available |-> candles > 0, stale |-> age > MaxAge]
  BY <1>1, <1>2 DEF Snapshot
<1>4. candles > 0 /\ ~(age > MaxAge)
  <2>1. /\ Snapshot(age, candles).available = (candles > 0)
        /\ Snapshot(age, candles).stale = (age > MaxAge)
    BY <1>3
  <2> QED
    BY <2>1 DEF Usable
<1> QED
  BY <1>1, <1>2, <1>4, MaxAgeAssumption

\* An agent that cannot do without the model and whose message is in order got
\* a usable look at the market and a reply it could read.
LEMMA MessageInOrder ==
  ASSUME NEW snapshot, NEW chain, NEW reply, NEW lean,
         reply.text \in {"object", "embedded", "broken"},
         NEW message,
         message = Reading(snapshot, IF Usable(snapshot)
                                     THEN Answered(chain, reply, 55, lean)
                                     ELSE Message("no_trade", 0, None)),
         message.status = "OK", message.payload \notin {"unavailable", "stale", "no_trade"}
  PROVE  /\ snapshot # None /\ Usable(snapshot)
         /\ Ask(chain, reply) = "ok" /\ reply.confidence # Word
<1>1. Message("error", 0, None).status = "ERROR"
  BY DEF Message
<1>2. Message("no_trade", 0, None).payload = "no_trade"
  BY DEF Message
<1>3. snapshot # None /\ Usable(snapshot) /\ message = Answered(chain, reply, 55, lean)
  BY <1>1, <1>2 DEF Reading
<1>4. Ask(chain, reply) = "ok"
  <2>1. Ask(chain, reply) \in {"ok", "error", "llm_error"}
    BY DEF Ask, Parse
  <2>2. Message("llm_error", 0, None).status = "ERROR"
    BY DEF Message
  <2> QED
    BY <1>1, <1>3, <2>1, <2>2 DEF Answered
<1>5. reply.confidence # Word
  <2>1. reply.confidence = Word => Told(reply, 55, lean) = Message("error", 0, None)
    BY WordAssumption DEF Told
  <2> QED
    BY <1>1, <1>3, <1>4, <2>1 DEF Answered
<1> QED
  BY <1>3, <1>4, <1>5

\* A plan with a side was asked for by agents that had what they need.
LEMMA PlannedOnFacts ==
  ASSUME CaseTyped, Consensus(Messages).decision \in {"LONG", "SHORT"}
  PROVE  /\ case.age \in 0..MaxAge /\ case.candles \in Nat \ {0}
         /\ \A a \in {"technical", "trend"} :
              Ask(Chain[a], Reply[a]) = "ok" /\ Reply[a].confidence # Word
<1> DEFINE look == Snapshot(case.age, case.candles)
<1>1. ~CriticalGap(Messages)
  BY DEF Consensus
<1>2. \A a \in {"technical", "trend"} :
        /\ Messages[a].status = "OK"
        /\ Messages[a].payload \notin {"unavailable", "stale", "no_trade"}
  BY <1>1 DEF CriticalGap, Critical
<1>3. \A a \in {"technical", "trend"} : Reply[a].text \in {"object", "embedded", "broken"}
  BY DEF CaseTyped, Reply, Agents, Critical
<1>4. /\ look # None /\ Usable(look)
      /\ Ask(Chain["technical"], Reply["technical"]) = "ok"
      /\ Reply["technical"].confidence # Word
  <2>1. Messages["technical"]
          = TechnicalMessage(look, case, Chain["technical"], Reply["technical"])
    BY DEF Messages, Analyze
  <2> HIDE DEF look
  <2>2. PICK lean : Messages["technical"]
          = Reading(look, IF Usable(look)
                          THEN Answered(Chain["technical"], Reply["technical"], 55, lean)
                          ELSE Message("no_trade", 0, None))
    BY <2>1 DEF TechnicalMessage
  <2> QED
    BY <1>2, <1>3, <2>2, MessageInOrder
<1>5. /\ Ask(Chain["trend"], Reply["trend"]) = "ok"
      /\ Reply["trend"].confidence # Word
  <2>1. Messages["trend"] = TrendMessage(look, case, Chain["trend"], Reply["trend"])
    BY DEF Messages, Analyze
  <2> HIDE DEF look
  <2>2. PICK lean : Messages["trend"]
          = Reading(look, IF Usable(look)
                          THEN Answered(Chain["trend"], Reply["trend"], 55, lean)
                          ELSE Message("no_trade", 0, None))
    BY <2>1 DEF TrendMessage
  <2> QED
    BY <1>2, <1>3, <2>2, MessageInOrder
<1>6. case.age \in Nat \cup {None, Word} /\ case.candles \in Nat \cup {None}
  BY DEF CaseTyped, Ages, Counts
<1> QED
  BY <1>4, <1>5, <1>6, UsableLook

\* An approved plan stays within the budget, has its stop and its target on the
\* right sides, and rests on a market and on replies that were in order.
THEOREM ApprovedPlansKeepBudget == Spec => []ApprovedPlanKeepsBudget
<1>1. ASSUME CaseTyped, case.hasStrategy, Decision.approved
      PROVE  /\ KeepsBudget(Decision.plan)
             /\ {case.age, case.laterAge} \subseteq 0..MaxAge
             /\ {case.candles, case.laterCandles} \subseteq Nat \ {0}
             /\ \A a \in {"technical", "trend"} :
                  Ask(Chain[a], Reply[a]) = "ok" /\ Reply[a].confidence # Word
  <2> DEFINE engine == Engine(Document, System)
             limits == EffectiveLimits(engine.limits, Strategy, engine.okf)
             consensus == Consensus(Messages)
             plan == Plan(engine.limits, Strategy, consensus, Features, Book.equity)
             p == ToProposal(plan, Symbol, Market)
  <2>1. /\ engine.limits \in Systems(CaseNames)
        /\ engine.limits.trade = System.trade /\ engine.limits.position = System.position
        /\ Strategy \in StrategyLimits /\ Strategy # None /\ None \notin StrategyLimits
        /\ Strategy.target = 60
    <3>1. /\ engine.limits \in Systems(CaseNames)
          /\ engine.limits.trade = System.trade /\ engine.limits.position = System.position
      BY <1>1, CaseLimits DEF SystemOnly
    <3>2. Strategy \in StrategyLimits
      BY <1>1 DEF CaseTyped, Numbers, Shares, Strategy, StrategyLimits
    <3>3. Strategy.target = 60
      BY <1>1 DEF Strategy
    <3> QED
      BY <3>1, <3>2, <3>3, AbsentAssumption
  <2>2. PICK snap : /\ Decision.plan = plan /\ plan.status # "NO_TRADE" /\ ~Market.stale
                    /\ Refusals(engine, p, snap, Strategy, PlainContext(case.switch)) = {}
    BY <1>1 DEF Decision, EvaluateProposal, Judge
  <2>3. /\ plan.status = "PROPOSED"
        /\ consensus.decision \in {"LONG", "SHORT"}
        /\ Features.confirmed # {} /\ Features.close # None
        /\ plan.side = consensus.decision /\ plan.entry = Features.close
        /\ plan.models = Features.confirmed
        /\ plan.target = Toward(plan.side, plan.entry,
                                (60 * Distance(plan.entry, plan.stop)) \div 10)
    BY <2>1, <2>2 DEF Plan, Proposed, NoTrade
  <2>4. /\ StandingRefusals(p, snap, limits, case.switch) = {}
        /\ StopRefusals(p, limits) = {}
    BY <2>2 DEF Refusals, PlainContext
  <2>5. /\ Features.close \in Nat \ {0}
        /\ Features.stopLong \in Int \cup {None} /\ Features.stopShort \in Int \cup {None}
        /\ Features.range \in Int \cup {None}
        /\ Book.equity = case.equity /\ case.equity \in Int
    BY <1>1, <2>3 DEF CaseTyped, Prices, Numbers, Features, Book
  <2> HIDE DEF engine, consensus, plan, limits
  <2>6. /\ plan.quantity \in Int /\ plan.stop \in Int
        /\ BasisPoints * (plan.quantity * Distance(plan.entry, plan.stop))
              <= case.equity * Least(System.trade, Strategy.risk) * Lots
        /\ BasisPoints * plan.notional <= case.equity * Least(System.trade, System.position)
    BY <2>1, <2>3, <2>5, PlanKeepsBudget DEF plan
  <2>7. /\ p.side = plan.side /\ p.entry = plan.entry /\ p.stop = plan.stop
        /\ p.quantity = plan.quantity
    BY DEF ToProposal
  <2> HIDE DEF p
  <2>8. /\ BasisPoints \in Int /\ Lots \in Int
        /\ Least(System.trade, Strategy.risk) \in Int
    BY <1>1, <2>1, CaseParts, BasisAssumption DEF Systems, StrategyLimits, Least, Lots
  <2>9. /\ plan.quantity > 0
        /\ plan.side = "LONG" => plan.stop < plan.entry
        /\ plan.side = "SHORT" => plan.entry < plan.stop
    BY <2>3, <2>4, <2>5, <2>6, <2>7, NoneAssumption DEF StandingRefusals, StopRefusals, If
  <2>10. KeepsBudget(plan)
    <3>1. Distance(plan.entry, plan.stop) \in Nat \ {0}
      BY <2>3, <2>5, <2>6, <2>9 DEF Distance
    <3>2. (60 * Distance(plan.entry, plan.stop)) \div 10 \in Nat \ {0}
      BY <3>1
    <3>3. IF plan.side = "LONG" THEN plan.stop < plan.entry /\ plan.entry < plan.target
                                ELSE plan.entry < plan.stop /\ plan.target < plan.entry
      <4> DEFINE reach == (60 * Distance(plan.entry, plan.stop)) \div 10
      <4>1. reach \in Nat \ {0} /\ plan.target = Toward(plan.side, plan.entry, reach)
        BY <2>3, <3>2
      <4> HIDE DEF reach
      <4> QED
        BY <2>3, <2>5, <2>9, <4>1 DEF Toward
    <3>4. BasisPoints * plan.quantity * Distance(plan.entry, plan.stop)
            <= case.equity * Lots * Least(System.trade, Strategy.risk)
      <4> DEFINE d == Distance(plan.entry, plan.stop)
                 l == Least(System.trade, Strategy.risk)
      <4>1. /\ BasisPoints * plan.quantity * d = BasisPoints * (plan.quantity * d)
            /\ case.equity * Lots * l = case.equity * l * Lots
        <5> HIDE DEF d, l
        <5>1. d \in Int /\ l \in Int
          BY <2>8, <3>1 DEF d, l
        <5> QED
          BY <2>5, <2>6, <2>8, <5>1
      <4> QED
        BY <2>6, <4>1
    <3> QED
      BY <2>3, <2>6, <2>9, <3>3, <3>4 DEF KeepsBudget
  <2>11. /\ case.age \in 0..MaxAge /\ case.candles \in Nat \ {0}
        /\ \A a \in {"technical", "trend"} :
             Ask(Chain[a], Reply[a]) = "ok" /\ Reply[a].confidence # Word
    BY <1>1, <2>3, PlannedOnFacts DEF consensus
  <2>12. case.laterAge \in 0..MaxAge /\ case.laterCandles \in Nat \ {0}
    <3>1. /\ case.laterAge \in Nat \cup {None, Word}
          /\ case.laterCandles \in Nat \cup {None}
      BY <1>1 DEF CaseTyped, Ages, Counts
    <3>2. ~Stale
      BY <2>2 DEF Market
    <3> QED
      BY <3>1, <3>2, UsableLook DEF Stale, StaleAtProposal
  <2> QED
    BY <2>2, <2>10, <2>11, <2>12
<1> QED
  BY <1>1, CasesTyped, PTL DEF ApprovedPlanKeepsBudget
=============================================================================
