------------------------------- MODULE MCEdges -------------------------------
(***************************************************************************)
(* Four parts at the edges of the process: the webhook, the market gateway, *)
(* the live gate and the dashboard's events.  They share nothing but the    *)
(* clock: each is a scene of its own, and the others stand still in it.     *)
(***************************************************************************)
EXTENDS Integers, Sequences, TLC

CONSTANTS None, MaxTime,
          Nonces, Keys, MaxSkew, KeepFor, Minute, RateLimit,
          Callers, CacheFor, MaxFetch,
          Checks, MaxHistory,
          Threads, Clients, ReplayLimit, QueueSize

VARIABLES scene, clock,
          nonces, keys, arrivals, intents,
          entry, call, health, served,
          stage, history, policy, approved,
          script, delivery, published, queue, client

Hook    == INSTANCE Webhook
Gateway == INSTANCE MarketGateway
Gate    == INSTANCE LiveGate
Stream  == INSTANCE EventStream

hookVars    == <<nonces, keys, arrivals, intents>>
gatewayVars == <<entry, call, health, served>>
gateVars    == <<stage, history, policy, approved>>
streamVars  == <<script, delivery, published, queue, client>>
vars        == <<scene, clock, hookVars, gatewayVars, gateVars, streamVars>>

\* The defaults: an hour against two minutes.  A nonce is then kept for as long
\* as a stamp that was accepted with it may be accepted again.
ASSUME KeepAssumption == KeepFor \in Nat /\ MaxSkew \in Nat /\ KeepFor >= 2 * MaxSkew

ASSUME RateAssumption == RateLimit \in Nat /\ Minute \in Nat

ASSUME TimesAssumption == CacheFor \in Nat /\ MaxFetch \in Nat /\ ReplayLimit \in Nat \ {0}

\* What the programs of the dashboard publish; that nothing is on its way is not
\* itself an event on its way.
EventKinds == {"AgentCompleted", "TradePlanCreated", "OrderFilled", "PositionClosed",
               "RiskRejected", "StudyStarted", "StudyCompleted", "KillSwitchActivated"}

ASSUME NoneAssumption ==
  None \notin [event : [by : Threads, kind : EventKinds], to : SUBSET Clients]

\* Nothing tells the threads, the callers or the nonces apart.
Symmetry == Permutations(Threads) \cup Permutations(Callers) \cup Permutations(Nonces)

Init ==
  /\ scene \in {"webhook", "market", "stages", "events"}
  /\ clock = 0
  /\ Hook!InitHook
  /\ Gateway!InitGateway
  /\ Gate!InitGate
  /\ Stream!InitStream

Tick ==
  /\ scene \in {"webhook", "market"}
  /\ clock < MaxTime
  /\ Gateway!MayPass
  /\ clock' = clock + 1
  /\ UNCHANGED <<scene, hookVars, gatewayVars, gateVars, streamVars>>

WebhookStep ==
  /\ scene = "webhook"
  /\ Hook!NextHook
  /\ UNCHANGED <<scene, gatewayVars, gateVars, streamVars>>

MarketStep ==
  /\ scene = "market"
  /\ Gateway!NextGateway
  /\ UNCHANGED <<scene, hookVars, gateVars, streamVars>>

StageStep ==
  /\ scene = "stages"
  /\ Gate!NextGate
  /\ UNCHANGED <<scene, clock, hookVars, gatewayVars, streamVars>>

EventStep ==
  /\ scene = "events"
  /\ Stream!NextStream
  /\ UNCHANGED <<scene, clock, hookVars, gatewayVars, gateVars>>

Next == Tick \/ WebhookStep \/ MarketStep \/ StageStep \/ EventStep

Spec == Init /\ [][Next]_vars

-----------------------------------------------------------------------------

\* However often an alert is delivered, one life of the webhook makes one
\* intent of it, and never more in a minute than the limit.
IntentsAnswerAlerts == Hook!IntentsAnswerAlerts

\* A price that is served, from the cache or not, is not older than the cache
\* keeps it and two calls take, however the callers of the gateway interleave.
ServedAgeBounded == Gateway!ServedAgeBounded

\* The stage of the manager was reached by a promotion through every stage in
\* turn from the one it was made with, and none of them was left since.
StagesWereEarned == Gate!StagesWereEarned

\* A client of the dashboard misses no event between the replay it is sent when
\* it connects and the queue that follows, unless its queue was full.
NothingMissed == Stream!NothingMissed
=============================================================================
