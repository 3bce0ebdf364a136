---------------------------- MODULE MarketAnalysis ----------------------------
(***************************************************************************)
(* How the messages of a proposal come about: one look at the market        *)
(* (market/data.py), the replies of a language model (llm/providers.py) and *)
(* the agents that read both (agents/), in the order of the pipeline of     *)
(* orchestration/orchestrator.py.                                           *)
(*                                                                         *)
(* A reply is a record: what its text holds ("object", "embedded", "broken" *)
(* or "no_object"), the confidence it states in percent (None when it       *)
(* states none, Word when it is no number), and what it says.               *)
(***************************************************************************)
EXTENDS TradeProposal, FiniteSets

CONSTANTS MaxAge,   \* market_data_max_age_seconds
          Word      \* a confidence that is not a number

ASSUME WordAssumption == Word \notin Int \cup {None}
ASSUME MaxAgeAssumption == MaxAge \in Nat

-----------------------------------------------------------------------------
(* The market *)

(* PublicCCXTMarketData.get_snapshot: "age" is how long ago this process     *)
(* fetched the ticker (the feed's own time is not read, so that a price the *)
(* feed repeats is fresh), None when the fetch failed and Word when the     *)
(* feed named no price, which raises; "candles" is how many there are.      *)
Snapshot(age, candles) ==
  IF age = Word THEN None
  ELSE IF None \in {age, candles} THEN [available |-> FALSE, stale |-> TRUE]
  ELSE [available |-> candles > 0, stale |-> age > MaxAge]

Usable(snapshot) == snapshot.available /\ ~snapshot.stale

\* An agent to which the snapshot raises fails.
Reading(snapshot, message) == IF snapshot = None THEN Message("error", 0, None) ELSE message

-----------------------------------------------------------------------------
(* The model *)

(* A local provider that does not answer the probe is not available; one    *)
(* that needs a key and has none is not either; a request that fails, or    *)
(* whose answer has no text in its place, raises.                           *)
Local(p) ==
  CASE ~p.up     -> "unavailable"
    [] p.answers -> "ok"
    [] OTHER     -> "raises"

Hosted(p) ==
  CASE ~p.key    -> "unavailable"
    [] p.answers -> "ok"
    [] OTHER     -> "raises"

Provider(p) ==
  CASE p.kind = "mock"   -> "ok"
    [] p.kind = "ollama" -> Local(p)
    [] p.kind = "hosted" -> Hosted(p)

(* LLMRouter.complete: the first provider of the chain that replies; the     *)
(* agents name no fallbacks, so that their chain is one long.               *)
Completes(chain) == \E i \in DOMAIN chain : Provider(chain[i]) = "ok"

(* LLMRouter.parse_json_content: a text with braces that do not parse lets   *)
(* an error of the parser escape.                                           *)
Parse(text) ==
  CASE text \in {"object", "embedded"} -> "ok"
    [] text = "broken"                 -> "error"
    [] text = "no_object"              -> "llm_error"

(* BaseAgent.llm_json *)
Ask(chain, reply) == IF Completes(chain) THEN Parse(reply.text) ELSE "llm_error"

(* AgentMessage: a confidence is clamped into the whole of a percentage. *)
Clamped(confidence) == Most(0, Least(100, confidence))

\* What an agent makes of a reply: its confidence, or the agent's own default.
Told(reply, default, lean) ==
  CASE reply.confidence = Word -> Message("error", 0, None)
    [] reply.confidence = None -> Message("ok", default, lean)
    [] OTHER                   -> Message("ok", Clamped(reply.confidence), lean)

\* BaseAgent.run of an agent that cannot do without the model.
Answered(chain, reply, default, lean) ==
  IF Ask(chain, reply) = "ok"
  THEN Told(reply, default, lean)
  ELSE Message(Ask(chain, reply), 0, None)

-----------------------------------------------------------------------------
(* The agents *)

(* MarketIntelligenceAgent.analyze: the only one that goes on without the    *)
(* model.                                                                   *)
MarketMessage(snapshot, chain, reply) ==
  Reading(snapshot,
    CASE ~snapshot.available     -> Message("unavailable", 0, None)
      [] snapshot.stale          -> Message("stale", 0, None)
      [] Ask(chain, reply) # "ok" -> Message("ok", 55, None)
      [] OTHER                   -> Told(reply, 70, None))

(* The three readings of the indicators: each speaks for one side or none.   *)
Readings(indicators) ==
  [bullish |-> UNION { If(indicators.rsi <= 30, "rsi"), If(indicators.histogram > 0, "macd"),
                       If(indicators.aboveAverage, "sma20") },
   bearish |-> UNION { If(indicators.rsi >= 70, "rsi"), If(indicators.histogram < 0, "macd"),
                       If(~indicators.aboveAverage, "sma20") }]

Tally(bullish, bearish) ==
  CASE bullish > bearish -> "LONG"
    [] bearish > bullish -> "SHORT"
    [] OTHER             -> "NEUTRAL"

(* TechnicalAnalysisAgent.analyze: the model adds signals of its own to the  *)
(* readings, on either side and as many as it likes.                        *)
TechnicalMessage(snapshot, indicators, chain, reply) ==
  LET readings == Readings(indicators)
  IN  Reading(snapshot,
        IF Usable(snapshot)
        THEN Answered(chain, reply, 55,
                      Tally(Cardinality(readings.bullish) + reply.bullish,
                            Cardinality(readings.bearish) + reply.bearish))
        ELSE Message("no_trade", 0, None))

(* TrendAgent.analyze: the model's word on the short term replaces the one   *)
(* of the averages.                                                         *)
TrendMessage(snapshot, indicators, chain, reply) ==
  LET short == IF reply.shortTerm # None THEN reply.shortTerm ELSE indicators.shortTerm
      lean  == CASE short = "up" -> "LONG" [] short = "down" -> "SHORT" [] OTHER -> "NEUTRAL"
  IN  Reading(snapshot,
        IF Usable(snapshot)
        THEN Answered(chain, reply, 55, lean)
        ELSE Message("no_trade", 0, None))

(* StrategyAgent.analyze: it sees a market that is not to be had by the      *)
(* payload of the message, which an agent that failed leaves empty.  A      *)
(* direction it does not know is NEUTRAL; NO_TRADE abstains.                *)
StrategyMessage(market, chain, reply) ==
  LET direction == CASE reply.direction \in {"LONG", "SHORT"} -> reply.direction
                     [] reply.direction = "NO_TRADE"          -> None
                     [] OTHER                                 -> "NEUTRAL"
  IN  IF market.payload \in {"unavailable", "stale", "no_trade"}
      THEN Message("no_trade", 0, None)
      ELSE Answered(chain, reply, 50, direction)

(* BullAnalystAgent and BearAnalystAgent: the confidence is all that counts. *)
AnalystMessage(chain, reply) == Answered(chain, reply, 50, None)

(* TradingOrchestrator.analyze: one snapshot serves every agent of the run.  *)
(* "chain" and "reply" are functions of the agent.  The agents of mood, of  *)
(* the chain and of the calendar have no say in the consensus.              *)
Analyze(snapshot, indicators, chain, reply) ==
  LET market == MarketMessage(snapshot, chain["market"], reply["market"])
  IN  [market    |-> market,
       technical |-> TechnicalMessage(snapshot, indicators,
                                      chain["technical"], reply["technical"]),
       trend     |-> TrendMessage(snapshot, indicators, chain["trend"], reply["trend"]),
       strategy  |-> StrategyMessage(market, chain["strategy"], reply["strategy"]),
       bull      |-> AnalystMessage(chain["bull"], reply["bull"]),
       bear      |-> AnalystMessage(chain["bear"], reply["bear"])]

(* TradingOrchestrator.propose fetches candles and a snapshot anew; any       *)
(* failure leaves no candles, and a proposal without them has no model.     *)
StaleAtProposal(age, candles) ==
  LET snapshot == Snapshot(age, candles)
  IN  snapshot = None \/ ~Usable(snapshot)
=============================================================================
