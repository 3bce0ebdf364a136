----------------------------- MODULE EdgesProofs -----------------------------
(***************************************************************************)
(* Proofs about the gateway, the live gate, the dashboard's events and the  *)
(* webhook, for every number of threads, callers, clients and alerts and    *)
(* every bound.  Each has an invariant of its own; the steps of the others  *)
(* leave it alone.                                                          *)
(***************************************************************************)
EXTENDS MCEdges, SequenceTheorems, FiniteSetTheorems, WellFoundedInduction, TLAPS

-----------------------------------------------------------------------------
(* The gateway *)

\* A price was read before the entry that holds it was stored, and that no
\* longer before than a call takes; a call answers with what it read itself or
\* with what it found when it began.
PriceInv ==
  /\ clock \in Nat
  /\ DOMAIN call = Callers
  /\ entry # None => /\ entry.read \in Nat /\ entry.expires \in Nat
                     /\ entry.expires <= entry.read + MaxFetch + CacheFor
  /\ \A c \in Callers : call[c] # None =>
       /\ call[c].since \in Nat
       /\ call[c].since <= clock /\ clock <= call[c].since + MaxFetch
       /\ call[c].step \in {"fetched", "answered"} =>
            /\ call[c].read \in Nat
            /\ call[c].since <= call[c].read + MaxFetch + CacheFor
       /\ call[c].step = "fetched" => call[c].since <= call[c].read
  /\ served # None => /\ served.read \in Nat /\ served.at \in Nat
                      /\ served.at <= served.read + CacheFor + 2 * MaxFetch

LEMMA PriceInit ==
  ASSUME Init
  PROVE  PriceInv
  BY DEF Init, PriceInv, Gateway!InitGateway

LEMMA PriceStep ==
  ASSUME PriceInv, [Next]_vars
  PROVE  PriceInv'
<1>1. CASE Tick
  <2>1. /\ clock' = clock + 1
        /\ \A c \in Callers : call[c] # None => clock < call[c].since + MaxFetch
        /\ UNCHANGED <<entry, call, served>>
    BY <1>1 DEF Tick, Gateway!MayPass, gatewayVars
  <2> QED
    BY <2>1, TimesAssumption DEF PriceInv
<1>2. CASE MarketStep
  <2> SUFFICES ASSUME NEW c \in Callers,
                      \/ Gateway!Hit(c) \/ Gateway!Miss(c) \/ Gateway!Read(c)
                      \/ Gateway!Store(c) \/ Gateway!Return(c) \/ Gateway!Fail(c)
               PROVE  PriceInv'
    BY <1>2 DEF MarketStep, Gateway!NextGateway
  <2>1. CASE Gateway!Hit(c)
    BY <2>1, TimesAssumption DEF PriceInv, Gateway!Hit, Gateway!Cached, Gateway!Touch
  <2>2. CASE Gateway!Miss(c)
    BY <2>2, TimesAssumption DEF PriceInv, Gateway!Miss
  <2>3. CASE Gateway!Read(c)
    BY <2>3, TimesAssumption DEF PriceInv, Gateway!Read, Gateway!At
  <2>4. CASE Gateway!Store(c)
    BY <2>4, TimesAssumption DEF PriceInv, Gateway!Store, Gateway!At
  <2>5. CASE Gateway!Return(c)
    BY <2>5, TimesAssumption DEF PriceInv, Gateway!Return, Gateway!At
  <2>6. CASE Gateway!Fail(c)
    BY <2>6, TimesAssumption DEF PriceInv, Gateway!Fail, Gateway!At
  <2> QED
    BY <2>1, <2>2, <2>3, <2>4, <2>5, <2>6
<1>3. CASE WebhookStep \/ StageStep \/ EventStep \/ UNCHANGED vars
  <2>1. UNCHANGED <<clock, entry, call, served>>
    BY <1>3 DEF WebhookStep, StageStep, EventStep, vars, gatewayVars, Hook!NextHook,
         Hook!TurnAway, Hook!Reject, Hook!Burn, Hook!Emit, Hook!RestartHook
  <2> QED
    BY <2>1 DEF PriceInv
<1> QED
  BY <1>1, <1>2, <1>3 DEF Next

\* However many callers interleave, and whatever the times are, a price that is
\* served is not older than the cache keeps it and two calls take.
THEOREM PricesAreFresh == Spec => []ServedAgeBounded
<1>1. Init => PriceInv
  BY PriceInit
<1>2. PriceInv /\ [Next]_vars => PriceInv'
  BY PriceStep
<1>3. PriceInv => ServedAgeBounded
  BY TimesAssumption DEF PriceInv, ServedAgeBounded, Gateway!ServedAgeBounded
<1> QED
  BY <1>1, <1>2, <1>3, PTL DEF Spec

-----------------------------------------------------------------------------
(* The live gate *)

Changes == [from : Gate!Stages, to : Gate!Stages, action : {"promote", "demote"}]

Up(h, i, s)   == h[i].to = s /\ h[i].action = "promote"
Down(h, i, s) == h[i].to < s /\ h[i].action = "demote"

\* Every stage up to the top was there from the start and not left downwards, or
\* it was entered from below and not left downwards since.
Climbed(h, first, top) ==
  \A s \in 1 .. top :
    \/ s <= first /\ \A j \in 1 .. Len(h) : ~ Down(h, j, s)
    \/ \E i \in 1 .. Len(h) : Up(h, i, s) /\ \A j \in 1 .. Len(h) : Down(h, j, s) => j < i

\* No stage is entered from below before the one under it was.
InOrder(h, first) ==
  \A s \in 0 .. 6 : \A i \in 1 .. Len(h) :
    Up(h, i, s) => s - 1 <= first \/ \E k \in 1 .. Len(h) : k < i /\ Up(h, k, s - 1)

GateInv ==
  /\ stage \in Gate!Stages
  /\ history \in Seq(Changes)
  /\ Gate!First \in Gate!Stages
  /\ Climbed(history, Gate!First, stage)
  /\ InOrder(history, Gate!First)

LEMMA GateInit ==
  ASSUME Init
  PROVE  GateInv
<1>1. stage \in {1, 2} /\ history = << >>
  BY DEF Init, Gate!InitGate, Gate!LocalPaper, Gate!CloudPaper
<1>2. Gate!First = stage
  BY <1>1 DEF Gate!First
<1> QED
  BY <1>1, <1>2 DEF GateInv, Gate!Stages, Climbed, InOrder

LEMMA MoveKeeps ==
  ASSUME GateInv, NEW target \in Gate!Stages, NEW action \in {"promote", "demote"},
         Gate!Move(target, action),
         \/ action = "promote" /\ target = stage + 1
         \/ action = "demote" /\ target < stage
  PROVE  GateInv'
<1> DEFINE e == [from |-> stage, to |-> target, action |-> action]
           n == Len(history)
           first == Gate!First
<1>1. /\ history' = Append(history, e) /\ stage' = target
      /\ e \in Changes /\ e.from = stage /\ e.to = target /\ e.action = action
  BY DEF Gate!Move, GateInv, Changes
<1>2. /\ history' \in Seq(Changes) /\ Len(history') = n + 1 /\ n \in Nat
      /\ \A i \in 1 .. n : history'[i] = history[i]
      /\ history'[n + 1] = e
  BY <1>1 DEF GateInv
<1>3. first' = first
  <2>1. history' # << >>
    BY <1>2
  <2>2. CASE history = << >>
    BY <1>1, <1>2, <2>1, <2>2 DEF Gate!First
  <2>3. CASE history # << >>
    <3>1. history'[1] = history[1]
      BY <1>2, <2>3 DEF GateInv
    <3> QED
      BY <2>1, <2>3, <3>1 DEF Gate!First
  <2> QED
    BY <2>2, <2>3
<1> HIDE DEF e, n, first
<1>4. /\ stage \in 0 .. 6 /\ target \in 0 .. 6 /\ first \in 0 .. 6
      /\ Climbed(history, first, stage) /\ InOrder(history, first) /\ n = Len(history)
  BY DEF GateInv, Gate!Stages, n, first
<1>5. Climbed(history', first, target)
  <2> SUFFICES ASSUME NEW s \in 1 .. target
               PROVE  \/ s <= first /\ \A j \in 1 .. n + 1 : ~ Down(history', j, s)
                      \/ \E i \in 1 .. n + 1 :
                           /\ Up(history', i, s)
                           /\ \A j \in 1 .. n + 1 : Down(history', j, s) => j < i
    BY <1>2 DEF Climbed
  <2>1. ~ Down(history', n + 1, s)
    BY <1>1, <1>2, <1>4 DEF Down
  <2>2. ASSUME NEW j \in 1 .. n + 1, Down(history', j, s)
        PROVE  j \in 1 .. n /\ Down(history, j, s)
    <3>1. j \in 1 .. n \/ j = n + 1
      BY <1>2
    <3>2. j \in 1 .. n
      BY <2>1, <2>2, <3>1
    <3>3. history'[j] = history[j]
      BY <1>2, <3>2
    <3> QED
      BY <2>2, <3>2, <3>3 DEF Down
  <2>3. CASE s <= first /\ \A j \in 1 .. n : ~ Down(history, j, s)
    BY <2>2, <2>3
  <2>4. ASSUME NEW i \in 1 .. n, Up(history, i, s), \A j \in 1 .. n : Down(history, j, s) => j < i
        PROVE  \E k \in 1 .. n + 1 :
                 /\ Up(history', k, s)
                 /\ \A j \in 1 .. n + 1 : Down(history', j, s) => j < k
    <3>1. i \in 1 .. n + 1 /\ history'[i] = history[i]
      BY <1>2
    <3>2. Up(history', i, s)
      BY <2>4, <3>1 DEF Up
    <3>3. \A j \in 1 .. n + 1 : Down(history', j, s) => j < i
      BY <2>2, <2>4
    <3> QED
      BY <3>1, <3>2, <3>3
  <2>5. CASE s > stage
    <3>1. Up(history', n + 1, s)
      BY <2>5, <1>1, <1>2, <1>4 DEF Up
    <3>2. \A j \in 1 .. n + 1 : j < n + 1 \/ j = n + 1
      BY <1>2
    <3> QED
      BY <3>1, <3>2, <2>1, <1>2
  <2>6. CASE s <= stage
    <3>1. \/ s <= first /\ \A j \in 1 .. n : ~ Down(history, j, s)
          \/ \E i \in 1 .. n : Up(history, i, s) /\ \A j \in 1 .. n : Down(history, j, s) => j < i
      BY <2>6, <1>4 DEF Climbed
    <3> QED
      BY <2>3, <2>4, <3>1
  <2> QED
    BY <2>5, <2>6, <1>4
<1>6. InOrder(history', first)
  <2> SUFFICES ASSUME NEW s \in 0 .. 6, NEW i \in 1 .. n + 1, Up(history', i, s)
               PROVE  s - 1 <= first \/ \E k \in 1 .. n + 1 : k < i /\ Up(history', k, s - 1)
    BY <1>2 DEF InOrder
  <2>1. CASE i \in 1 .. n
    <3>1. s - 1 <= first \/ \E k \in 1 .. n : k < i /\ Up(history, k, s - 1)
      BY <2>1, <1>2, <1>4 DEF InOrder, Up
    <3> QED
      BY <3>1, <1>2 DEF Up
  <2>2. CASE i = n + 1
    <3>1. s - 1 = stage
      BY <2>2, <1>1, <1>2, <1>4 DEF Up
    <3>2. stage <= first \/ \E k \in 1 .. n : Up(history, k, stage)
      BY <1>4 DEF Climbed
    <3> QED
      BY <3>1, <3>2, <2>2, <1>2 DEF Up
  <2> QED
    BY <2>1, <2>2, <1>2
<1> QED
  BY <1>1, <1>2, <1>3, <1>4, <1>5, <1>6 DEF GateInv, Gate!Stages, first

LEMMA GateStep ==
  ASSUME GateInv, [Next]_vars
  PROVE  GateInv'
<1>1. ASSUME UNCHANGED <<stage, history>> PROVE GateInv'
  <2>1. Gate!First' = Gate!First
    BY <1>1 DEF Gate!First
  <2> QED
    BY <1>1, <2>1 DEF GateInv, Climbed, InOrder, Up, Down
<1>2. CASE StageStep
  <2>1. CASE \E target \in Gate!Stages :
               \/ Gate!Demote(target)
               \/ \E operator, evidence \in BOOLEAN : Gate!Promote(target, operator, evidence)
    <3> PICK target \in Gate!Stages :
               \/ Gate!Demote(target)
               \/ \E operator, evidence \in BOOLEAN : Gate!Promote(target, operator, evidence)
      BY <2>1
    <3> QED
      BY MoveKeeps DEF Gate!Demote, Gate!Promote, Gate!Reachable
  <2>2. ASSUME NEW mode, NEW enabled, NEW named, NEW failing,
               Gate!PutTogether(mode, enabled, named, failing)
        PROVE  GateInv'
    BY <1>1, <2>2 DEF Gate!PutTogether
  <2>3. CASE Gate!Evaluate
    BY <1>1, <2>3 DEF Gate!Evaluate
  <2> QED
    BY <1>2, <2>1, <2>2, <2>3 DEF StageStep, Gate!NextGate
<1>3. CASE Tick \/ WebhookStep \/ MarketStep \/ EventStep \/ UNCHANGED vars
  BY <1>1, <1>3 DEF Tick, WebhookStep, MarketStep, EventStep, vars, gateVars
<1> QED
  BY <1>2, <1>3 DEF Next

\* Whatever the operators do, in however many changes: the manager stands on
\* stages it was promoted to in turn (TradingStageManager.promote).
THEOREM StagesAreEarned == Spec => []StagesWereEarned
<1>1. Init => GateInv
  BY GateInit
<1>2. GateInv /\ [Next]_vars => GateInv'
  BY GateStep
<1>3. GateInv => StagesWereEarned
  <2> SUFFICES ASSUME GateInv PROVE Gate!StagesWereEarned
    BY DEF StagesWereEarned
  <2> DEFINE first == Gate!First
             changes == 1 .. Len(history)
             Ups(s)   == {i \in changes : history[i].to = s /\ history[i].action = "promote"}
             Downs(s) == {i \in changes : history[i].to < s /\ history[i].action = "demote"}
  <2>1. Climbed(history, first, stage) /\ InOrder(history, first) /\ DOMAIN history = changes
    BY DEF GateInv
  <2> HIDE DEF first
  <2>2. ASSUME NEW s \in 1 .. stage
        PROVE  \/ s <= first /\ Downs(s) = {}
               \/ \E i \in Ups(s) : \A j \in Downs(s) : j < i
    <3>1. \/ s <= first /\ \A j \in changes : ~ Down(history, j, s)
          \/ \E i \in changes : Up(history, i, s) /\ \A j \in changes : Down(history, j, s) => j < i
      BY <2>1 DEF Climbed
    <3> QED
      BY <3>1 DEF Up, Down
  <2>3. ASSUME NEW s \in 0 .. 6, NEW i \in Ups(s)
        PROVE  s - 1 <= first \/ \E k \in Ups(s - 1) : k < i
    <3>1. s - 1 <= first \/ \E k \in changes : k < i /\ Up(history, k, s - 1)
      BY <2>1, <2>3 DEF InOrder, Up
    <3> QED
      BY <3>1 DEF Up
  <2> QED
    BY <2>1, <2>2, <2>3 DEF Gate!StagesWereEarned, Gate!Stages, first
<1> QED
  BY <1>1, <1>2, <1>3, PTL DEF Spec

-----------------------------------------------------------------------------
(* The dashboard's events *)

Events == [by : Threads, kind : EventKinds]

\* What a request may still have to publish.
Scripts == {<< >>, <<"Decide">>, <<"TradePlanCreated", "Decide">>, Stream!DemoCycle,
            Stream!Executed, <<"PositionClosed">>, Stream!Refused,
            Stream!Study, <<"StudyCompleted">>, Stream!EmergencyStop}

\* The event has been sent to the client, waits for it, is on its way to its
\* queue, or found the queue full.
Accounted(e, c) ==
  \/ e \in client[c].settled
  \/ e \in Stream!Among(client[c].replay)
  \/ e \in Stream!Among(queue[c])
  \/ \E t \in Threads : delivery[t] # None /\ delivery[t].event = e /\ c \in delivery[t].to

Connections == [phase : {"away", "connected", "replaying", "live"}, replay : Seq(Events),
                from : {None} \cup (Nat \ {0}), settled : SUBSET Events]

StreamType ==
  /\ script \in [Threads -> {None} \cup Scripts]
  /\ delivery \in [Threads -> {None} \cup [event : Events, to : SUBSET Clients]]
  /\ published \in Seq(Events)
  /\ queue \in [Clients -> Seq(Events)]
  /\ client \in [Clients -> Connections]

StreamInv ==
  /\ StreamType
  /\ \A c \in Clients : client[c].from # None =>
       /\ client[c].phase \in {"replaying", "live"}
       /\ \A i \in client[c].from .. Len(published) : Accounted(published[i], c)

LEMMA NextOfScript ==
  ASSUME NEW s \in Scripts, s \notin {<< >>, <<"Decide">>}
  PROVE  Head(s) \in EventKinds /\ Tail(s) \in Scripts
<1>1. CASE s \in {<<"PositionClosed">>, Stream!Refused, <<"StudyCompleted">>, Stream!EmergencyStop}
  <2>1. PICK k \in EventKinds : s = <<k>>
    BY <1>1 DEF EventKinds, Stream!Refused, Stream!EmergencyStop
  <2>2. Head(s) = k /\ Tail(s) = << >>
    BY <2>1
  <2> QED
    BY <2>2 DEF Scripts
<1>2. CASE s \in {<<"TradePlanCreated", "Decide">>, Stream!Executed, Stream!Study}
  <2>1. PICK k \in EventKinds, l \in {"Decide", "PositionClosed", "StudyCompleted"} : s = <<k, l>>
    BY <1>2 DEF EventKinds, Stream!Executed, Stream!Study
  <2>2. Head(s) = k /\ Tail(s) = <<l>>
    BY <2>1
  <2> QED
    BY <2>2 DEF Scripts
<1>3. CASE s = Stream!DemoCycle
  <2>1. Head(s) = "AgentCompleted" /\ Tail(s) = <<"TradePlanCreated", "Decide">>
    BY <1>3 DEF Stream!DemoCycle
  <2> QED
    BY <2>1 DEF Scripts, EventKinds
<1> QED
  BY <1>1, <1>2, <1>3 DEF Scripts

LEMMA AmongAppend ==
  ASSUME NEW S, NEW s \in Seq(S), NEW e \in S
  PROVE  Stream!Among(Append(s, e)) = Stream!Among(s) \cup {e}
<1>1. /\ DOMAIN s = 1 .. Len(s) /\ Len(s) \in Nat
      /\ DOMAIN Append(s, e) = 1 .. Len(s) + 1
      /\ \A i \in 1 .. Len(s) : Append(s, e)[i] = s[i]
      /\ Append(s, e)[Len(s) + 1] = e
  OBVIOUS
<1>2. 1 .. Len(s) + 1 = (1 .. Len(s)) \cup {Len(s) + 1}
  BY <1>1
<1> QED
  BY <1>1, <1>2, Zenon DEF Stream!Among

LEMMA AmongTail ==
  ASSUME NEW S, NEW s \in Seq(S), s # << >>
  PROVE  Stream!Among(s) \subseteq Stream!Among(Tail(s)) \cup {Head(s)}
<1>1. /\ DOMAIN s = 1 .. Len(s) /\ Len(s) \in Nat \ {0}
      /\ DOMAIN Tail(s) = 1 .. Len(s) - 1
      /\ \A i \in 1 .. Len(s) - 1 : Tail(s)[i] = s[i + 1]
      /\ Head(s) = s[1]
  OBVIOUS
<1>2. \A i \in DOMAIN s : i = 1 \/ (i - 1 \in DOMAIN Tail(s) /\ Tail(s)[i - 1] = s[i])
  BY <1>1
<1>3. ASSUME NEW i \in DOMAIN s
      PROVE  s[i] \in Stream!Among(Tail(s)) \cup {Head(s)}
  <2>1. CASE i = 1
    BY <2>1, <1>1
  <2>2. CASE i - 1 \in DOMAIN Tail(s) /\ Tail(s)[i - 1] = s[i]
    BY <2>2 DEF Stream!Among
  <2> QED
    BY <1>2, <2>1, <2>2
<1> QED
  BY <1>3, Zenon DEF Stream!Among

LEMMA StreamInit ==
  ASSUME Init
  PROVE  StreamInv
  BY DEF Init, StreamInv, StreamType, Connections, Stream!InitStream, Stream!Away

\* The requests take a script and give it up; no client notices.
LEMMA RequestKeeps ==
  ASSUME StreamInv, NEW t \in Threads,
         Stream!Request(t) \/ Stream!Decide(t) \/ Stream!Raise(t)
  PROVE  StreamInv'
<1>1. UNCHANGED <<delivery, published, queue, client>>
  BY DEF Stream!Request, Stream!Decide, Stream!Raise
<1>2. script' \in [Threads -> {None} \cup Scripts]
  BY DEF Stream!Request, Stream!Decide, Stream!Raise, StreamInv, StreamType, Scripts
<1> QED
  BY <1>1, <1>2, SMTT(30) DEF StreamInv, StreamType, Accounted, Stream!Among

\* A new event is on its way to every client that listens, and a client that has
\* a replay listens.
LEMMA PublishKeeps ==
  ASSUME StreamInv, NEW t \in Threads, Stream!Publish(t)
  PROVE  StreamInv'
<1>0. PICK e : e = [by |-> t, kind |-> Head(script[t])]
  OBVIOUS
<1> DEFINE d == [event |-> e, to |-> {c \in Clients : Stream!Listens(c)}]
<1>1. /\ script[t] \notin {None, << >>, <<"Decide">>} /\ delivery[t] = None
      /\ published' = Append(published, e)
      /\ delivery' = [delivery EXCEPT ![t] = d]
      /\ script' = [script EXCEPT ![t] = Tail(script[t])]
      /\ UNCHANGED <<queue, client>>
  BY <1>0 DEF Stream!Publish
<1>2. script[t] \in Scripts
  BY <1>1 DEF StreamInv, StreamType
<1>3. e \in Events /\ Tail(script[t]) \in Scripts
  BY <1>0, <1>1, <1>2, NextOfScript DEF Events
<1>4. /\ d \in [event : Events, to : SUBSET Clients] /\ d # None
      /\ d.event = e /\ d.to = {c \in Clients : Stream!Listens(c)}
  BY <1>3, NoneAssumption DEF Events
<1> HIDE DEF d
<1>5. StreamType'
  BY <1>1, <1>3, <1>4 DEF StreamInv, StreamType
<1>6. /\ delivery'[t] = d
      /\ \A u \in Threads : delivery[u] # None => delivery'[u] = delivery[u]
  BY <1>1 DEF StreamInv, StreamType
<1>7. /\ Len(published) \in Nat /\ Len(published') = Len(published) + 1
      /\ \A i \in 1 .. Len(published) : published'[i] = published[i] /\ published[i] \in Events
      /\ published'[Len(published) + 1] = e
  BY <1>1, <1>3 DEF StreamInv, StreamType
<1>8. ASSUME NEW c \in Clients, client'[c].from # None
      PROVE  /\ client'[c].phase \in {"replaying", "live"}
             /\ \A i \in client'[c].from .. Len(published') : Accounted(published[i], c)'
  <2>1. /\ client[c].from # None /\ client[c].from \in Nat \ {0} /\ client'[c] = client[c]
        /\ client[c].phase \in {"replaying", "live"}
        /\ \A i \in client[c].from .. Len(published) : Accounted(published[i], c)
    BY <1>1, <1>8 DEF StreamInv, StreamType, Connections
  <2>2. \A x \in Events : Accounted(x, c) => Accounted(x, c)'
    BY <1>1, <1>6 DEF Accounted
  <2>3. Accounted(e, c)'
    BY <2>1, <1>4, <1>6, NoneAssumption DEF Accounted, Stream!Listens
  <2>4. ASSUME NEW i \in client'[c].from .. Len(published')
        PROVE  Accounted(published[i], c)'
    <3>1. CASE i = Len(published) + 1
      BY <3>1, <2>3, <1>7 DEF Accounted
    <3>2. CASE i \in client[c].from .. Len(published)
      <4>1. /\ i \in 1 .. Len(published) /\ published[i] \in Events
            /\ published'[i] = published[i] /\ Accounted(published[i], c)
        BY <3>2, <2>1, <1>7
      <4>2. ASSUME NEW x \in Events, x = published'[i], Accounted(x, c)'
            PROVE  Accounted(published[i], c)'
        BY <4>2 DEF Accounted
      <4> QED
        BY <4>1, <4>2, <2>2
    <3> QED
      BY <3>1, <3>2, <2>1, <1>7
  <2> QED
    BY <2>1, <2>4
<1> QED
  BY <1>5, <1>8 DEF StreamInv

\* A step that publishes nothing keeps the invariant if every client that has a
\* replay had the same one before and no event is lost to it.
LEMMA NothingLost ==
  ASSUME StreamInv, StreamType', UNCHANGED published,
         \A c \in Clients : client'[c].from # None =>
           /\ client'[c].from = client[c].from
           /\ client'[c].phase \in {"replaying", "live"}
           /\ \A e \in Events : Accounted(e, c) => Accounted(e, c)'
  PROVE  StreamInv'
<1> SUFFICES ASSUME NEW c \in Clients, client'[c].from # None,
                    NEW i \in client'[c].from .. Len(published')
             PROVE  Accounted(published[i], c)'
  BY DEF StreamInv
<1>1. /\ client[c].from \in Nat \ {0} /\ i \in client[c].from .. Len(published)
      /\ published' = published /\ published \in Seq(Events)
      /\ Accounted(published[i], c)
  BY DEF StreamInv, StreamType, Connections
<1>2. PICK e \in Events : e = published[i]
  BY <1>1
<1>3. Accounted(e, c)'
  BY <1>1, <1>2
<1> QED
  BY <1>1, <1>2, <1>3 DEF Accounted

LEMMA Settling ==
  ASSUME NEW r \in Connections, NEW E \in SUBSET Events,
         NEW s, s = [r EXCEPT !.settled = E]
  PROVE  /\ s \in Connections /\ s.settled = E
         /\ s.phase = r.phase /\ s.replay = r.replay /\ s.from = r.from
  BY DEF Connections

LEMMA PutKeeps ==
  ASSUME StreamInv, NEW t \in Threads, Stream!Put(t)
  PROVE  StreamInv'
<1>1. PICK c \in delivery[t].to :
        /\ delivery' = [delivery EXCEPT ![t].to = @ \ {c}]
        /\ \/ /\ queue' = [queue EXCEPT ![c] = Append(@, delivery[t].event)]
              /\ UNCHANGED client
           \/ /\ client' = [client EXCEPT ![c].settled = @ \cup {delivery[t].event}]
              /\ UNCHANGED queue
  BY DEF Stream!Put
<1>2. /\ delivery[t] # None /\ UNCHANGED <<script, published>>
      /\ delivery[t] \in [event : Events, to : SUBSET Clients]
      /\ c \in Clients /\ delivery[t].event \in Events
      /\ queue \in [Clients -> Seq(Events)] /\ client \in [Clients -> Connections]
      /\ delivery \in [Threads -> {None} \cup [event : Events, to : SUBSET Clients]]
  BY <1>1 DEF Stream!Put, StreamInv, StreamType
<1>3. /\ delivery' \in [Threads -> {None} \cup [event : Events, to : SUBSET Clients]]
      /\ delivery'[t].event = delivery[t].event /\ delivery'[t].to = delivery[t].to \ {c}
      /\ delivery'[t] \in [event : Events, to : SUBSET Clients]
      /\ \A u \in Threads \ {t} : delivery'[u] = delivery[u]
  BY <1>1, <1>2
<1>4. delivery'[t] # None
  BY <1>3, NoneAssumption DEF Events
\* Either its queue has the event from now on or it is written off.
<1>5. /\ queue' \in [Clients -> Seq(Events)] /\ client' \in [Clients -> Connections]
      /\ \A d \in Clients : /\ Stream!Among(queue[d]) \subseteq Stream!Among(queue'[d])
                             /\ client'[d].from = client[d].from
                             /\ client'[d].phase = client[d].phase
                             /\ client'[d].replay = client[d].replay
                             /\ client[d].settled \subseteq client'[d].settled
      /\ delivery[t].event \in client'[c].settled \cup Stream!Among(queue'[c])
  <2>1. CASE /\ queue' = [queue EXCEPT ![c] = Append(@, delivery[t].event)] /\ UNCHANGED client
    <3>1. /\ queue'[c] = Append(queue[c], delivery[t].event)
          /\ \A d \in Clients \ {c} : queue'[d] = queue[d]
          /\ queue' \in [Clients -> Seq(Events)]
      BY <2>1, <1>2
    <3>2. Stream!Among(queue'[c]) = Stream!Among(queue[c]) \cup {delivery[t].event}
      BY <3>1, <1>2, AmongAppend
    <3> QED
      BY <3>1, <3>2, <2>1, <1>2
  <2>2. CASE /\ client' = [client EXCEPT ![c].settled = @ \cup {delivery[t].event}]
             /\ UNCHANGED queue
    <3>1. PICK more \in SUBSET Events : more = client[c].settled \cup {delivery[t].event}
      BY <1>2 DEF Connections
    <3>2. /\ client'[c] = [client[c] EXCEPT !.settled = more]
          /\ \A d \in Clients \ {c} : client'[d] = client[d]
          /\ DOMAIN client' = Clients
          /\ client' = [d \in DOMAIN client' |-> client'[d]]
      BY <2>2, <3>1, <1>2, Zenon
    <3>3. /\ client'[c] \in Connections /\ client'[c].settled = more
          /\ client'[c].phase = client[c].phase /\ client'[c].replay = client[c].replay
          /\ client'[c].from = client[c].from
      <4>1. PICK s : s = client'[c]
        OBVIOUS
      <4>2. client[c] \in Connections /\ s = [client[c] EXCEPT !.settled = more]
        BY <4>1, <3>2, <1>2
      <4>3. PICK r \in Connections : r = client[c]
        BY <4>2
      <4>4. s = [r EXCEPT !.settled = more]
        BY <4>2, <4>3
      <4>5. /\ s \in Connections /\ s.settled = more
            /\ s.phase = r.phase /\ s.replay = r.replay /\ s.from = r.from
        BY <4>4, Settling
      <4> QED
        BY <4>1, <4>3, <4>5
    <3>4. client' \in [Clients -> Connections]
      BY <3>2, <3>3, <1>2
    <3> QED
      BY <3>1, <3>2, <3>3, <3>4, <2>2, <1>2
  <2> QED
    BY <2>1, <2>2, <1>1
<1>6. StreamType'
  BY <1>2, <1>3, <1>5 DEF StreamInv, StreamType
<1>7. ASSUME NEW d \in Clients, NEW e \in Events, Accounted(e, d)
      PROVE  Accounted(e, d)'
  <2>1. CASE delivery[t].event = e /\ d = c
    BY <2>1, <1>5 DEF Accounted
  <2>2. CASE ~ (delivery[t].event = e /\ d = c)
    BY <2>2, <1>3, <1>4, <1>5, <1>7 DEF Accounted
  <2> QED
    BY <2>1, <2>2
<1> QED
  BY <1>2, <1>5, <1>6, <1>7, NothingLost DEF StreamInv

LEMMA DeliveredKeeps ==
  ASSUME StreamInv, NEW t \in Threads, Stream!Delivered(t)
  PROVE  StreamInv'
<1>1. StreamType'
  BY DEF Stream!Delivered, StreamInv, StreamType
<1>2. \A d \in Clients : \A e \in Events : Accounted(e, d) => Accounted(e, d)'
  BY DEF Stream!Delivered, StreamInv, StreamType, Accounted, Stream!Among
<1> QED
  BY <1>1, <1>2, NothingLost DEF Stream!Delivered, StreamInv

LEMMA ConnectKeeps ==
  ASSUME StreamInv, NEW c \in Clients, Stream!Connect(c)
  PROVE  StreamInv'
<1>1. /\ client[c] \in Connections /\ client[c].from = None
      /\ client' = [client EXCEPT ![c].phase = "connected"]
      /\ UNCHANGED <<script, delivery, published, queue>>
  BY DEF Stream!Connect, StreamInv, StreamType
<1>2. /\ client' \in [Clients -> Connections] /\ client'[c].from = None
      /\ \A d \in Clients \ {c} : client'[d] = client[d]
  BY <1>1 DEF StreamInv, StreamType, Connections
<1>3. StreamType'
  BY <1>1, <1>2 DEF StreamInv, StreamType
<1>4. ASSUME NEW d \in Clients, client'[d].from # None
      PROVE  /\ client'[d] = client[d]
             /\ \A e \in Events : Accounted(e, d) => Accounted(e, d)'
  BY <1>1, <1>2, <1>4 DEF Accounted
<1> QED
  BY <1>1, <1>3, <1>4, NothingLost DEF StreamInv

\* What the history still holds of its last events is what a client is sent.
LEMMA ReplayKeeps ==
  ASSUME StreamInv, NEW c \in Clients, Stream!Replay(c)
  PROVE  StreamInv'
<1>1. PICK first : first = IF Len(published) > ReplayLimit THEN Len(published) - ReplayLimit + 1 ELSE 1
  OBVIOUS
<1>2. /\ published \in Seq(Events) /\ Len(published) \in Nat
      /\ first \in Nat \ {0} /\ first <= Len(published) + 1
  BY <1>1, TimesAssumption DEF StreamInv, StreamType
<1>3. PICK recent : recent = SubSeq(published, first, Len(published))
  OBVIOUS
<1>4. /\ recent \in Seq(Events)
      /\ \A i \in first .. Len(published) : published[i] \in Stream!Among(recent)
  <2>1. /\ recent \in Seq(Events) /\ DOMAIN recent = 1 .. Len(published) - first + 1
        /\ \A j \in 1 .. Len(published) - first + 1 : recent[j] = published[first + j - 1]
    BY <1>2, <1>3
  <2>2. ASSUME NEW i \in first .. Len(published)
        PROVE  published[i] \in Stream!Among(recent)
    <3>1. /\ i - first + 1 \in DOMAIN recent /\ recent[i - first + 1] = published[i]
      BY <2>1, <1>2
    <3> QED
      BY <3>1 DEF Stream!Among
  <2> QED
    BY <2>1, <2>2
<1>5. /\ client[c] \in Connections
      /\ client' = [client EXCEPT ![c].phase = "replaying", ![c].replay = recent, ![c].from = first]
      /\ UNCHANGED <<script, delivery, published, queue>>
  BY <1>1, <1>3 DEF Stream!Replay, StreamInv, StreamType
<1>6. /\ client' \in [Clients -> Connections]
      /\ client'[c].phase = "replaying" /\ client'[c].replay = recent /\ client'[c].from = first
      /\ \A d \in Clients \ {c} : client'[d] = client[d]
  BY <1>2, <1>4, <1>5 DEF StreamInv, StreamType, Connections
<1>7. StreamType'
  BY <1>5, <1>6 DEF StreamInv, StreamType
<1>8. ASSUME NEW d \in Clients, client'[d].from # None,
             NEW i \in client'[d].from .. Len(published')
      PROVE  client'[d].phase \in {"replaying", "live"} /\ Accounted(published[i], d)'
  <2>1. CASE d = c
    BY <2>1, <1>4, <1>5, <1>6, <1>8 DEF Accounted
  <2>2. CASE d # c
    BY <2>2, <1>5, <1>6, <1>8 DEF Accounted, StreamInv
  <2> QED
    BY <2>1, <2>2
<1>9. \A d \in Clients : client'[d].from # None => client'[d].phase \in {"replaying", "live"}
  BY <1>6 DEF StreamInv
<1> QED
  BY <1>7, <1>8, <1>9 DEF StreamInv

LEMMA EndReplayKeeps ==
  ASSUME StreamInv, NEW c \in Clients, Stream!EndReplay(c)
  PROVE  StreamInv'
<1>1. PICK r \in Connections : r = client[c]
  BY DEF StreamInv, StreamType
<1>2. PICK more \in SUBSET Events : more = r.settled \cup Stream!Among(r.replay)
  <2>1. r.settled \subseteq Events /\ Stream!Among(r.replay) \subseteq Events
    BY DEF Connections, Stream!Among
  <2> QED
    BY <2>1
<1>3. PICK s : s = [r EXCEPT !.phase = "live", !.settled = more, !.replay = << >>]
  OBVIOUS
<1>4. /\ s \in Connections /\ s.phase = "live" /\ s.settled = more /\ s.from = r.from
      /\ s.replay = << >>
  <2>1. << >> \in Seq(Events)
    OBVIOUS
  <2>2. PICK empty \in Seq(Events) : empty = << >>
    BY <2>1
  <2>3. s = [r EXCEPT !.phase = "live", !.settled = more, !.replay = empty]
    BY <1>3, <2>2
  <2>4. /\ s.phase = "live" /\ s.settled = more /\ s.from = r.from /\ s.replay = empty
        /\ DOMAIN s = {"phase", "replay", "from", "settled"}
    BY <2>3 DEF Connections
  <2>5. s \in Connections
    BY <2>3 DEF Connections
  <2> QED
    BY <2>2, <2>4, <2>5
<1>5. /\ client' = [client EXCEPT ![c] = s]
      /\ UNCHANGED <<script, delivery, published, queue>>
      /\ client \in [Clients -> Connections]
  BY <1>1, <1>2, <1>3 DEF Stream!EndReplay, StreamInv, StreamType
<1>6. /\ client' \in [Clients -> Connections] /\ client'[c] = s
      /\ \A d \in Clients \ {c} : client'[d] = client[d]
  BY <1>4, <1>5
<1>7. StreamType'
  BY <1>5, <1>6 DEF StreamInv, StreamType
<1>8. ASSUME NEW d \in Clients, client'[d].from # None
      PROVE  /\ client'[d].from = client[d].from
             /\ client'[d].phase \in {"replaying", "live"}
             /\ \A e \in Events : Accounted(e, d) => Accounted(e, d)'
  <2>1. CASE d = c
    BY <2>1, <1>1, <1>2, <1>4, <1>5, <1>6, <1>8 DEF Accounted
  <2>2. CASE d # c
    BY <2>2, <1>5, <1>6, <1>8 DEF Accounted, StreamInv
  <2> QED
    BY <2>1, <2>2
<1> QED
  BY <1>5, <1>7, <1>8, NothingLost DEF StreamInv

LEMMA SendKeeps ==
  ASSUME StreamInv, NEW c \in Clients, Stream!Send(c)
  PROVE  StreamInv'
<1>1. PICK r \in Connections : r = client[c]
  BY DEF StreamInv, StreamType
<1>2. /\ queue[c] \in Seq(Events) /\ queue[c] # << >>
      /\ Head(queue[c]) \in Events /\ Tail(queue[c]) \in Seq(Events)
  BY DEF Stream!Send, StreamInv, StreamType
<1>3. PICK more \in SUBSET Events : more = r.settled \cup {Head(queue[c])}
  BY <1>2 DEF Connections
<1>4. PICK s : s = [r EXCEPT !.settled = more]
  OBVIOUS
<1>5. /\ s \in Connections /\ s.phase = r.phase /\ s.settled = more /\ s.from = r.from
      /\ s.replay = r.replay
  BY <1>4, Settling
<1>6. /\ client' = [client EXCEPT ![c] = s]
      /\ queue' = [queue EXCEPT ![c] = Tail(@)]
      /\ UNCHANGED <<script, delivery, published>>
      /\ client \in [Clients -> Connections] /\ queue \in [Clients -> Seq(Events)]
  BY <1>1, <1>3, <1>4 DEF Stream!Send, StreamInv, StreamType
<1>7. /\ client' \in [Clients -> Connections] /\ client'[c] = s
      /\ \A d \in Clients \ {c} : client'[d] = client[d]
  BY <1>5, <1>6
<1>8. /\ queue' \in [Clients -> Seq(Events)] /\ queue'[c] = Tail(queue[c])
      /\ \A d \in Clients \ {c} : queue'[d] = queue[d]
  BY <1>2, <1>6
<1>9. StreamType'
  BY <1>6, <1>7, <1>8 DEF StreamInv, StreamType
<1>10. Stream!Among(queue[c]) \subseteq Stream!Among(queue'[c]) \cup {Head(queue[c])}
  BY <1>2, <1>8, AmongTail
<1>11. ASSUME NEW d \in Clients, client'[d].from # None
       PROVE  /\ client'[d].from = client[d].from
              /\ client'[d].phase \in {"replaying", "live"}
              /\ \A e \in Events : Accounted(e, d) => Accounted(e, d)'
  <2>1. CASE d = c
    BY <2>1, <1>1, <1>3, <1>5, <1>6, <1>7, <1>10, <1>11 DEF Accounted, StreamInv
  <2>2. CASE d # c
    BY <2>2, <1>6, <1>7, <1>8, <1>11 DEF Accounted, StreamInv
  <2> QED
    BY <2>1, <2>2
<1> QED
  BY <1>6, <1>9, <1>11, NothingLost DEF StreamInv

LEMMA DisconnectKeeps ==
  ASSUME StreamInv, NEW c \in Clients, Stream!Disconnect(c)
  PROVE  StreamInv'
<1>1. /\ client' = [client EXCEPT ![c] = Stream!Away]
      /\ queue' = [queue EXCEPT ![c] = << >>]
      /\ delivery' = [t \in Threads |-> IF delivery[t] = None THEN None
                                         ELSE [delivery[t] EXCEPT !.to = @ \ {c}]]
      /\ UNCHANGED <<script, published>>
  BY DEF Stream!Disconnect
<1>2. Stream!Away \in Connections /\ Stream!Away.from = None
  BY DEF Stream!Away, Connections
<1>3. /\ client' \in [Clients -> Connections] /\ client'[c].from = None
      /\ queue' \in [Clients -> Seq(Events)]
      /\ \A d \in Clients \ {c} : client'[d] = client[d] /\ queue'[d] = queue[d]
  BY <1>1, <1>2 DEF StreamInv, StreamType
<1>4. ASSUME NEW t \in Threads, delivery[t] # None
      PROVE  /\ delivery'[t] \in [event : Events, to : SUBSET Clients]
             /\ delivery'[t] # None
             /\ delivery'[t].event = delivery[t].event
             /\ delivery'[t].to = delivery[t].to \ {c}
  <2>1. PICK d \in [event : Events, to : SUBSET Clients] : d = delivery[t]
    BY <1>4 DEF StreamInv, StreamType
  <2>2. delivery'[t] = [d EXCEPT !.to = d.to \ {c}]
    BY <1>1, <1>4, <2>1
  <2>3. /\ delivery'[t] \in [event : Events, to : SUBSET Clients]
        /\ delivery'[t].event = d.event /\ delivery'[t].to = d.to \ {c}
    BY <2>2
  <2>4. delivery'[t] # None
    BY <2>3, NoneAssumption DEF Events
  <2> QED
    BY <2>1, <2>3, <2>4
<1>5. delivery' \in [Threads -> {None} \cup [event : Events, to : SUBSET Clients]]
  <2>1. \A t \in Threads : delivery'[t] \in {None} \cup [event : Events, to : SUBSET Clients]
    BY <1>1, <1>4
  <2>2. /\ DOMAIN delivery' = Threads
        /\ delivery' = [t \in Threads |-> delivery'[t]]
    BY <1>1, Zenon
  <2> QED
    BY <2>1, <2>2
<1>6. StreamType'
  BY <1>1, <1>3, <1>5 DEF StreamInv, StreamType
<1>7. ASSUME NEW d \in Clients, client'[d].from # None
      PROVE  /\ client'[d] = client[d]
             /\ \A e \in Events : Accounted(e, d) => Accounted(e, d)'
  <2>1. d # c /\ client'[d] = client[d] /\ queue'[d] = queue[d]
    BY <1>3, <1>7
  <2> QED
    BY <2>1, <1>4 DEF Accounted
<1> QED
  BY <1>1, <1>6, <1>7, NothingLost DEF StreamInv

LEMMA StreamStep ==
  ASSUME StreamInv, [Next]_vars
  PROVE  StreamInv'
<1>1. CASE EventStep
  <2>1. ASSUME NEW t \in Threads,
               \/ Stream!Request(t) \/ Stream!Decide(t) \/ Stream!Raise(t)
               \/ Stream!Publish(t) \/ Stream!Put(t) \/ Stream!Delivered(t)
        PROVE  StreamInv'
    BY <2>1, RequestKeeps, PublishKeeps, PutKeeps, DeliveredKeeps
  <2>2. ASSUME NEW c \in Clients,
               \/ Stream!Connect(c) \/ Stream!Replay(c) \/ Stream!EndReplay(c)
               \/ Stream!Send(c) \/ Stream!Disconnect(c)
        PROVE  StreamInv'
    BY <2>2, ConnectKeeps, ReplayKeeps, EndReplayKeeps, SendKeeps, DisconnectKeeps
  <2> QED
    BY <1>1, <2>1, <2>2 DEF EventStep, Stream!NextStream
<1>2. CASE Tick \/ WebhookStep \/ MarketStep \/ StageStep \/ UNCHANGED vars
  <2>1. UNCHANGED streamVars
    BY <1>2 DEF Tick, WebhookStep, MarketStep, StageStep, vars
  <2> QED
    BY <2>1 DEF StreamInv, StreamType, Accounted, Stream!Among, streamVars
<1> QED
  BY <1>1, <1>2 DEF Next

\* However many requests publish and however many browsers come and go, and in
\* whatever order the queues are filled: no event is lost between what a client
\* is replayed and what it is sent afterwards.
THEOREM NoEventIsMissed == Spec => []NothingMissed
<1>1. Init => StreamInv
  BY StreamInit
<1>2. StreamInv /\ [Next]_vars => StreamInv'
  BY StreamStep
<1>3. StreamInv => NothingMissed
  BY DEF StreamInv, Accounted, NothingMissed, Stream!NothingMissed
<1> QED
  BY <1>1, <1>2, <1>3, PTL DEF Spec

-----------------------------------------------------------------------------
(* The webhook *)

\* A table of times keeps what the intents of the last KeepFor seconds were made for.
Remembers(times, field) ==
  \A i \in DOMAIN intents : intents[i].at >= clock - KeepFor =>
    /\ intents[i][field] \in DOMAIN times /\ times[intents[i][field]] \in Nat
    /\ times[intents[i][field]] >= intents[i].at

Ascending(times) == \A i, j \in DOMAIN times : i <= j => times[i] <= times[j]

\* Counted from the last one, every intent of the last minute has a request that came no
\* earlier and is counted for the limit.
Covered(requests) ==
  \A k \in Nat : k < Len(intents) /\ intents[Len(intents) - k].at >= clock - Minute =>
    /\ k < Len(requests)
    /\ requests[Len(requests) - k] >= intents[Len(intents) - k].at

\* An intent for each alert, and one for its key in the time it is kept.
Answered ==
  \A i, j \in DOMAIN intents : i < j =>
    /\ <<intents[i].nonce, intents[i].stamp>> # <<intents[j].nonce, intents[j].stamp>>
    /\ intents[i].key = intents[j].key => intents[j].at - intents[i].at > KeepFor

\* As many intents as the limit allows do not fit into a minute together with one more.
Apart ==
  \A i, j \in DOMAIN intents : i + RateLimit <= j => intents[j].at - intents[i].at > Minute

KeyNames  == {Hook!KeyOf(request) : request \in Hook!Requests}
Requested == [nonce : Nonces, stamp : Int, key : KeyNames, at : Nat]

HookInv ==
  /\ clock \in Nat
  /\ intents \in Seq(Requested) /\ arrivals \in Seq(Nat)
  /\ \A i \in DOMAIN intents :
       /\ intents[i].at <= clock
       /\ intents[i].at - MaxSkew <= intents[i].stamp
       /\ intents[i].stamp <= intents[i].at + MaxSkew
  /\ \A i \in DOMAIN arrivals : arrivals[i] <= clock
  /\ Ascending(arrivals)
  /\ Remembers(nonces, "nonce") /\ Remembers(keys, "key")
  /\ Covered(arrivals)
  /\ Answered /\ Apart

\* The instance of the webhook counts as the library does.
LEMMA SameCardinality ==
  ASSUME NEW S
  PROVE  Hook!Cardinality(S) = Cardinality(S)
  BY DEF Hook!Cardinality, Cardinality

\* The times of the invariant are naturals.
LEMMA HookTimes ==
  ASSUME HookInv
  PROVE  /\ clock \in Nat /\ Minute \in Nat /\ KeepFor \in Nat /\ MaxSkew \in Nat
         /\ Len(arrivals) \in Nat /\ DOMAIN arrivals = 1 .. Len(arrivals)
         /\ \A i \in 1 .. Len(arrivals) : arrivals[i] \in Nat /\ arrivals[i] <= clock
         /\ Len(intents) \in Nat /\ DOMAIN intents = 1 .. Len(intents)
         /\ \A i \in 1 .. Len(intents) :
              intents[i] \in Requested /\ intents[i].at \in Nat /\ intents[i].at <= clock
<1>1. /\ clock \in Nat /\ intents \in Seq(Requested) /\ arrivals \in Seq(Nat)
      /\ \A i \in DOMAIN intents : intents[i].at <= clock
      /\ \A i \in DOMAIN arrivals : arrivals[i] <= clock
  BY DEF HookInv
<1>2. \A i \in 1 .. Len(intents) : intents[i] \in Requested
  BY <1>1
<1>3. \A r \in Requested : r.at \in Nat
  BY DEF Requested
<1> QED
  BY <1>1, <1>2, <1>3, KeepAssumption, RateAssumption

\* A nonempty set of naturals has a least element.
LEMMA LeastNatural ==
  ASSUME NEW T \in SUBSET Nat, T # {}
  PROVE  \E m \in T : \A n \in T : m <= n
<1>1. IsWellFoundedOn(OpToRel(<, Nat), Nat)
  BY NatLessThanWellFounded
<1>2. PICK m \in T : \A n \in T : <<n, m>> \notin OpToRel(<, Nat)
  BY <1>1, WFMin
<1>3. \A n \in T : ~(n < m)
  BY <1>2 DEF OpToRel
<1> QED
  BY <1>3

\* Of requests in order those of the last minute are the last ones.
LEMMA RecentIsSuffix ==
  ASSUME HookInv
  PROVE  \E n \in 0 .. Len(arrivals) :
           /\ Hook!Recent \in Seq(Nat)
           /\ Len(Hook!Recent) = Len(arrivals) - n
           /\ \A i \in 1 .. Len(Hook!Recent) : Hook!Recent[i] = arrivals[i + n]
           /\ \A i \in 1 .. Len(arrivals) : arrivals[i] >= clock - Minute => i > n
<1> DEFINE L   == Len(arrivals)
           old == {i \in DOMAIN arrivals : arrivals[i] < clock - Minute}
           T   == {i \in 1 .. L + 1 : i \notin old}
<1>1. /\ L \in Nat /\ DOMAIN arrivals = 1 .. L
      /\ \A i \in 1 .. L : arrivals[i] \in Nat
      /\ \A i, j \in 1 .. L : i <= j => arrivals[i] <= arrivals[j]
      /\ clock \in Nat /\ Minute \in Nat
  BY HookTimes DEF HookInv, Ascending
<1>2. PICK m \in T : \A n \in T : m <= n
  <2>1. L + 1 \in T
    BY <1>1
  <2> QED
    BY <1>1, <2>1, LeastNatural, T \in SUBSET Nat
<1>3. old = 1 .. m - 1
  <2>1. \A i \in 1 .. m - 1 : i \in old
    BY <1>1, <1>2
  <2>2. \A i \in old : i < m
    <3>1. \A i \in old : i \in 1 .. L /\ arrivals[i] < clock - Minute
      BY <1>1
    <3>2. m \in 1 .. L => ~(arrivals[m] < clock - Minute)
      BY <1>1, <1>2
    <3> QED
      BY <1>1, <1>2, <3>1, <3>2
  <2> QED
    BY <1>1, <1>2, <2>1, <2>2
<1>4. m \in 1 .. L + 1 /\ Cardinality(old) = m - 1
  <2>1. m \in 1 .. L + 1
    BY <1>2
  <2>2. Cardinality(1 .. m - 1) = m - 1
    BY <1>1, <2>1, FS_Interval
  <2> QED
    BY <1>3, <2>1, <2>2
<1>5. Hook!Recent = SubSeq(arrivals, m, L)
  <2>1. Cardinality(old) + 1 = m
    BY <1>1, <1>4
  <2>2. Hook!Recent = SubSeq(arrivals, Cardinality(old) + 1, L)
    BY SameCardinality DEF Hook!Recent
  <2> QED
    BY <2>1, <2>2
<1>6. /\ SubSeq(arrivals, m, L) \in Seq(Nat)
      /\ Len(SubSeq(arrivals, m, L)) = L - (m - 1)
      /\ \A i \in 1 .. L - m + 1 : SubSeq(arrivals, m, L)[i] = arrivals[m + i - 1]
  <2>1. \A i \in m .. L : arrivals[i] \in Nat
    BY <1>1, <1>4
  <2> QED
    BY <1>1, <1>4, <2>1, SubSeqProperties
<1>7. \A i \in 1 .. L : arrivals[i] >= clock - Minute => i > m - 1
  BY <1>1, <1>3, <1>4
<1> HIDE DEF L, old, T
<1>8. /\ m - 1 \in 0 .. L
      /\ Len(Hook!Recent) = L - (m - 1)
      /\ \A i \in 1 .. Len(Hook!Recent) : Hook!Recent[i] = arrivals[i + (m - 1)]
  BY <1>1, <1>4, <1>5, <1>6
<1> QED
  BY <1>5, <1>6, <1>7, <1>8 DEF L

\* The requests that are kept cover the intents of the last minute.
LEMMA RecentKeeps ==
  ASSUME HookInv
  PROVE  /\ Hook!Recent \in Seq(Nat)
         /\ \A i \in DOMAIN Hook!Recent : Hook!Recent[i] <= clock
         /\ Ascending(Hook!Recent)
         /\ Covered(Hook!Recent)
<1> DEFINE R == Hook!Recent
<1>1. PICK n \in 0 .. Len(arrivals) :
        /\ R \in Seq(Nat)
        /\ Len(R) = Len(arrivals) - n
        /\ \A i \in 1 .. Len(R) : R[i] = arrivals[i + n]
        /\ \A i \in 1 .. Len(arrivals) : arrivals[i] >= clock - Minute => i > n
  BY RecentIsSuffix
<1> HIDE DEF R
<1>2. /\ Len(arrivals) \in Nat /\ DOMAIN arrivals = 1 .. Len(arrivals)
      /\ \A i \in 1 .. Len(arrivals) : arrivals[i] \in Nat
      /\ Len(intents) \in Nat /\ \A i \in 1 .. Len(intents) : intents[i].at \in Nat
      /\ clock \in Nat /\ Minute \in Nat
  BY HookTimes
<1>3. DOMAIN R = 1 .. Len(R) /\ Len(R) \in Nat
  BY <1>1
<1>4. \A i \in DOMAIN R : R[i] <= clock
  <2>1. ASSUME NEW i \in 1 .. Len(R) PROVE R[i] <= clock
    <3>1. i + n \in 1 .. Len(arrivals)
      <4>1. Len(R) = Len(arrivals) - n /\ n \in 0 .. Len(arrivals) /\ Len(arrivals) \in Nat
        BY <1>1, <1>2
      <4> QED
        BY <4>1
    <3>2. R[i] = arrivals[i + n]
      BY <1>1
    <3> QED
      BY <3>1, <3>2, HookTimes
  <2> QED
    BY <1>3, <2>1
<1>5. Ascending(R)
  <2>1. \A i, j \in 1 .. Len(arrivals) : i <= j => arrivals[i] <= arrivals[j]
    BY <1>2 DEF HookInv, Ascending
  <2>2. ASSUME NEW i \in 1 .. Len(R), NEW j \in 1 .. Len(R), i <= j
        PROVE  R[i] <= R[j]
    <3>1. /\ i + n \in 1 .. Len(arrivals) /\ R[i] = arrivals[i + n]
          /\ j + n \in 1 .. Len(arrivals) /\ R[j] = arrivals[j + n]
          /\ i + n <= j + n
      BY <1>1, <1>2, <1>3, <2>2
    <3> QED
      BY <2>1, <3>1
  <2> QED
    BY <1>3, <2>2 DEF Ascending
<1>6. Covered(R)
  <2> SUFFICES ASSUME NEW k \in Nat, k < Len(intents),
                      intents[Len(intents) - k].at >= clock - Minute
               PROVE  /\ k < Len(R)
                      /\ R[Len(R) - k] >= intents[Len(intents) - k].at
    BY DEF Covered
  <2>1. /\ k < Len(arrivals)
        /\ arrivals[Len(arrivals) - k] >= intents[Len(intents) - k].at
    BY DEF HookInv, Covered
  <2>2. Len(arrivals) - k \in 1 .. Len(arrivals) /\ Len(intents) - k \in 1 .. Len(intents)
    BY <1>2, <2>1
  <2>3. arrivals[Len(arrivals) - k] >= clock - Minute
    <3>1. /\ arrivals[Len(arrivals) - k] \in Nat
          /\ intents[Len(intents) - k].at \in Nat
      BY <1>2, <2>2
    <3>2. ASSUME NEW x \in Nat, NEW y \in Nat, NEW z \in Int, x >= y, y >= z PROVE x >= z
      BY <3>2
    <3>3. clock - Minute \in Int
      BY <1>2
    <3> QED
      BY <2>1, <3>1, <3>2, <3>3
  <2>4. Len(arrivals) - k > n
    BY <1>1, <2>2, <2>3
  <2>5. k < Len(R) /\ Len(R) - k \in 1 .. Len(R) /\ (Len(R) - k) + n = Len(arrivals) - k
    BY <1>1, <1>2, <1>3, <2>1, <2>4
  <2> QED
    BY <1>1, <2>1, <2>5
<1> QED
  BY <1>1, <1>4, <1>5, <1>6 DEF R

\* One more request at the end covers what was covered.
LEMMA OneMoreRequest ==
  ASSUME HookInv, NEW requests \in Seq(Nat), Covered(requests), Ascending(requests),
         \A i \in DOMAIN requests : requests[i] <= clock
  PROVE  LET more == Append(requests, clock)
         IN  /\ more \in Seq(Nat) /\ Ascending(more)
             /\ \A i \in DOMAIN more : more[i] <= clock
             /\ Covered(more)
<1> DEFINE more == Append(requests, clock)
           R    == Len(requests)
           I    == Len(intents)
<1>1. /\ R \in Nat /\ DOMAIN requests = 1 .. R /\ \A i \in 1 .. R : requests[i] \in Nat
      /\ I \in Nat /\ \A i \in 1 .. I : intents[i].at \in Nat /\ intents[i].at <= clock
      /\ clock \in Nat
  BY HookTimes
<1>2. /\ more \in Seq(Nat) /\ Len(more) = R + 1 /\ DOMAIN more = 1 .. R + 1
      /\ more[R + 1] = clock /\ \A i \in 1 .. R : more[i] = requests[i]
  BY <1>1
<1> HIDE DEF more
<1>3. Ascending(more) /\ \A i \in DOMAIN more : more[i] <= clock
  <2>1. \A i \in 1 .. R : requests[i] <= clock
    BY <1>1
  <2>2. \A i, j \in 1 .. R : i <= j => requests[i] <= requests[j]
    BY <1>1 DEF Ascending
  <2>3. \A i \in 1 .. R + 1 : i \in 1 .. R \/ i = R + 1
    BY <1>1
  <2>4. ASSUME NEW i \in 1 .. R + 1, NEW j \in 1 .. R + 1, i <= j
        PROVE  more[i] <= more[j]
    <3>1. CASE j \in 1 .. R
      <4>1. i \in 1 .. R
        BY <1>1, <2>4, <3>1
      <4> QED
        BY <1>2, <2>2, <2>4, <3>1, <4>1
    <3>2. CASE j = R + 1 /\ i \in 1 .. R
      BY <1>2, <2>1, <3>2
    <3>3. CASE j = R + 1 /\ i = R + 1
      BY <1>1, <1>2, <3>3
    <3> QED
      BY <2>3, <3>1, <3>2, <3>3
  <2>5. \A i \in 1 .. R + 1 : more[i] <= clock
    BY <1>1, <1>2, <2>1, <2>3
  <2> QED
    BY <1>2, <2>4, <2>5 DEF Ascending
<1>4. Covered(more)
  <2> SUFFICES ASSUME NEW k \in Nat, k < I, intents[I - k].at >= clock - Minute
               PROVE  k < Len(more) /\ more[Len(more) - k] >= intents[I - k].at
    BY DEF Covered
  <2>1. k < R /\ requests[R - k] >= intents[I - k].at
    BY DEF Covered
  <2>2. I - k \in 1 .. I /\ R - k \in 1 .. R
    BY <1>1, <2>1
  <2>3. CASE k = 0
    BY <1>1, <1>2, <2>2, <2>3
  <2>4. CASE k # 0
    <3>1. R - k + 1 \in 1 .. R /\ Len(more) - k = R - k + 1
      <4> HIDE DEF R, I
      <4> QED
        BY <1>1, <1>2, <2>1, <2>4
    <3>2. requests[R - k + 1] >= requests[R - k]
      BY <1>1, <2>2, <3>1 DEF Ascending
    <3>3. requests[R - k + 1] \in Nat /\ requests[R - k] \in Nat /\ intents[I - k].at \in Nat
      BY <1>1, <2>2, <3>1
    <3>4. more[Len(more) - k] = requests[R - k + 1]
      BY <1>2, <3>1
    <3>5. k < Len(more)
      BY <1>1, <1>2, <2>1
    <3>6. requests[R - k + 1] >= intents[I - k].at
      <4>1. requests[R - k] >= intents[I - k].at
        BY <2>1
      <4> HIDE DEF R, I
      <4> QED
        BY <3>2, <3>3, <4>1
    <3> QED
      BY <3>4, <3>5, <3>6
  <2> QED
    BY <2>3, <2>4
<1> QED
  BY <1>2, <1>3, <1>4 DEF more

\* To prune a table drops nothing that is not old enough to be forgotten.
LEMMA KeptRemembers ==
  ASSUME HookInv, NEW times, NEW field \in {"nonce", "key"}, Remembers(times, field)
  PROVE  Remembers(Hook!Kept(times), field)
<1> SUFFICES ASSUME NEW i \in DOMAIN intents, intents[i].at >= clock - KeepFor
             PROVE  /\ intents[i][field] \in DOMAIN Hook!Kept(times)
                    /\ Hook!Kept(times)[intents[i][field]] \in Nat
                    /\ Hook!Kept(times)[intents[i][field]] >= intents[i].at
  BY DEF Remembers
<1> DEFINE x == intents[i][field]
<1>1. x \in DOMAIN times /\ times[x] \in Nat /\ times[x] >= intents[i].at
  BY DEF Remembers
<1>2. intents[i].at \in Nat /\ clock \in Nat /\ KeepFor \in Nat
  BY HookTimes
<1>3. times[x] >= clock - KeepFor
  BY <1>1, <1>2
<1> HIDE DEF x
<1>4. x \in DOMAIN Hook!Kept(times) /\ Hook!Kept(times)[x] = times[x]
  BY <1>1, <1>3 DEF Hook!Kept
<1> QED
  BY <1>1, <1>4 DEF x

\* To enter a name now forgets none.
LEMMA WithRemembers ==
  ASSUME HookInv, NEW times, NEW field \in {"nonce", "key"}, Remembers(times, field), NEW x
  PROVE  Remembers(Hook!With(times, x), field)
<1> SUFFICES ASSUME NEW i \in DOMAIN intents, intents[i].at >= clock - KeepFor
             PROVE  /\ intents[i][field] \in DOMAIN Hook!With(times, x)
                    /\ Hook!With(times, x)[intents[i][field]] \in Nat
                    /\ Hook!With(times, x)[intents[i][field]] >= intents[i].at
  BY DEF Remembers
<1> DEFINE y == intents[i][field]
<1>1. y \in DOMAIN times /\ times[y] \in Nat /\ times[y] >= intents[i].at
  BY DEF Remembers
<1>2. clock \in Nat /\ intents[i].at \in Nat /\ intents[i].at <= clock
  BY HookTimes
<1> HIDE DEF y
<1>3. /\ y \in DOMAIN Hook!With(times, x)
      /\ Hook!With(times, x)[y] = IF y = x THEN clock ELSE times[y]
  BY <1>1 DEF Hook!With
<1> QED
  BY <1>1, <1>2, <1>3 DEF y

\* What the tables and the requests become when no intent is made.
LEMMA QuietKeeps ==
  ASSUME HookInv, clock' = clock, intents' = intents,
         arrivals' \in {Hook!Recent, Append(Hook!Recent, clock)},
         nonces' = Hook!Kept(nonces) \/ \E x : nonces' = Hook!With(Hook!Kept(nonces), x),
         keys' = Hook!Kept(keys)
  PROVE  HookInv'
<1>1. Remembers(Hook!Kept(nonces), "nonce") /\ Remembers(Hook!Kept(keys), "key")
  BY KeptRemembers DEF HookInv
<1>2. Remembers(nonces', "nonce") /\ Remembers(keys', "key")
  BY <1>1, WithRemembers
<1>3. /\ arrivals' \in Seq(Nat) /\ Ascending(arrivals') /\ Covered(arrivals')
      /\ \A i \in DOMAIN arrivals' : arrivals'[i] <= clock
  <2>1. CASE arrivals' = Hook!Recent
    BY <2>1, RecentKeeps
  <2>2. CASE arrivals' = Append(Hook!Recent, clock)
    <3> DEFINE R == Hook!Recent
    <3>1. /\ R \in Seq(Nat) /\ Covered(R) /\ Ascending(R)
          /\ \A i \in DOMAIN R : R[i] <= clock
      BY RecentKeeps
    <3> HIDE DEF R
    <3>2. arrivals' = Append(R, clock)
      BY <2>2 DEF R
    <3> QED
      BY <3>1, <3>2, OneMoreRequest
  <2> QED
    BY <2>1, <2>2
<1>4. /\ (Remembers(nonces, "nonce"))' /\ (Remembers(keys, "key"))'
      /\ (Ascending(arrivals))' /\ (Covered(arrivals))' /\ Answered' /\ Apart'
  BY <1>2, <1>3 DEF HookInv, Remembers, Ascending, Covered, Answered, Apart
<1> QED
  BY <1>3, <1>4 DEF HookInv

\* An intent is made of an alert whose stamp is near the clock, and whose nonce and key
\* are not in the tables: one made of the same alert would still be there.
LEMMA EmitKeeps ==
  ASSUME HookInv, NEW request \in Hook!Requests, Hook!Emit(request)
  PROVE  HookInv'
<1> DEFINE made == [nonce |-> request.nonce, stamp |-> request.stamp,
                    key |-> Hook!KeyOf(request), at |-> clock]
           L    == Len(intents)
           R    == Hook!Recent
<1>1. /\ clock \in Nat /\ Minute \in Nat /\ KeepFor \in Nat /\ MaxSkew \in Nat
      /\ L \in Nat /\ DOMAIN intents = 1 .. L
      /\ \A i \in 1 .. L : /\ intents[i] \in Requested
                           /\ intents[i].at \in Nat /\ intents[i].at <= clock
  BY HookTimes
<1>2. made \in Requested /\ request.stamp \in Int
  BY <1>1 DEF Requested, KeyNames, Hook!Requests
<1>3. /\ intents' = Append(intents, made) /\ clock' = clock
      /\ arrivals' = Append(R, clock) /\ Len(R) < RateLimit
      /\ nonces' = Hook!With(Hook!Kept(nonces), request.nonce)
      /\ keys' = Hook!With(Hook!Kept(keys), Hook!KeyOf(request))
      /\ request.nonce \notin DOMAIN Hook!Kept(nonces)
      /\ Hook!KeyOf(request) \notin DOMAIN Hook!Kept(keys)
      /\ clock - MaxSkew <= request.stamp /\ request.stamp <= clock + MaxSkew
  BY <1>1 DEF Hook!Emit, Hook!Counted, Hook!Authentic
<1>4. /\ made.nonce = request.nonce /\ made.stamp = request.stamp
      /\ made.key = Hook!KeyOf(request) /\ made.at = clock
  OBVIOUS
<1> HIDE DEF made
<1>5. /\ intents \in Seq(Requested) /\ intents' \in Seq(Requested)
      /\ Len(intents') = L + 1 /\ DOMAIN intents' = 1 .. L + 1
      /\ intents'[L + 1] = made /\ \A i \in 1 .. L : intents'[i] = intents[i]
  BY <1>1, <1>2, <1>3 DEF HookInv
<1>6. \A i \in 1 .. L + 1 : i \in 1 .. L \/ i = L + 1
  BY <1>1
<1>7. Remembers(Hook!Kept(nonces), "nonce") /\ Remembers(Hook!Kept(keys), "key")
  BY KeptRemembers DEF HookInv
<1>8. \A i \in 1 .. L :
        /\ <<intents[i].nonce, intents[i].stamp>> # <<made.nonce, made.stamp>>
        /\ intents[i].key = made.key => made.at - intents[i].at > KeepFor
  <2> SUFFICES ASSUME NEW i \in 1 .. L
               PROVE  /\ <<intents[i].nonce, intents[i].stamp>> # <<made.nonce, made.stamp>>
                      /\ intents[i].key = made.key => made.at - intents[i].at > KeepFor
    OBVIOUS
  <2>1. /\ intents[i].at \in Nat /\ intents[i].stamp \in Int
        /\ intents[i].stamp <= intents[i].at + MaxSkew
    BY <1>1 DEF HookInv, Requested
  <2>2. intents[i].nonce = made.nonce => clock - intents[i].at > KeepFor
    <3>1. intents[i].at >= clock - KeepFor => intents[i].nonce \in DOMAIN Hook!Kept(nonces)
      BY <1>1, <1>7 DEF Remembers
    <3> QED
      BY <1>1, <1>3, <1>4, <2>1, <3>1
  <2>3. intents[i].key = made.key => clock - intents[i].at > KeepFor
    <3>1. intents[i].at >= clock - KeepFor => intents[i].key \in DOMAIN Hook!Kept(keys)
      BY <1>1, <1>7 DEF Remembers
    <3> QED
      BY <1>1, <1>3, <1>4, <2>1, <3>1
  <2>4. intents[i].nonce = made.nonce => intents[i].stamp # made.stamp
    <3>1. ASSUME NEW now \in Nat, NEW then \in Nat, NEW skew \in Nat, NEW keep \in Nat,
                 NEW old \in Int, NEW new \in Int, keep >= 2 * skew,
                 now - then > keep, old <= then + skew, now - skew <= new
          PROVE  old # new
      BY <3>1
    <3>2. made.stamp \in Int /\ clock - MaxSkew <= made.stamp
      BY <1>2, <1>3, <1>4
    <3>3. clock \in Nat /\ KeepFor \in Nat /\ MaxSkew \in Nat
      BY <1>1
    <3> QED
      BY <2>1, <2>2, <3>1, <3>2, <3>3, KeepAssumption
  <2> QED
    BY <1>4, <2>3, <2>4
<1>9. Answered'
  <2> SUFFICES ASSUME NEW i \in 1 .. L + 1, NEW j \in 1 .. L + 1, i < j
               PROVE  /\ <<intents'[i].nonce, intents'[i].stamp>>
                           # <<intents'[j].nonce, intents'[j].stamp>>
                      /\ intents'[i].key = intents'[j].key
                           => intents'[j].at - intents'[i].at > KeepFor
    BY <1>5 DEF Answered
  <2>1. i \in 1 .. L
    BY <1>1
  <2>2. CASE j \in 1 .. L
    <3>1. /\ <<intents[i].nonce, intents[i].stamp>> # <<intents[j].nonce, intents[j].stamp>>
          /\ intents[i].key = intents[j].key => intents[j].at - intents[i].at > KeepFor
      <4>1. i \in DOMAIN intents /\ j \in DOMAIN intents /\ Answered
        BY <1>1, <2>1, <2>2 DEF HookInv
      <4> QED
        BY <4>1 DEF Answered
    <3>2. intents'[i] = intents[i] /\ intents'[j] = intents[j]
      BY <1>5, <2>1, <2>2
    <3> QED
      BY <3>1, <3>2
  <2>3. CASE j = L + 1
    BY <1>5, <1>8, <2>1, <2>3
  <2> QED
    BY <1>6, <2>2, <2>3
<1>10. /\ R \in Seq(Nat) /\ Ascending(R) /\ Covered(R) /\ Len(R) \in Nat
       /\ \A i \in DOMAIN R : R[i] <= clock
  BY RecentKeeps
<1> HIDE DEF R
<1>11. Apart'
  <2> SUFFICES ASSUME NEW i \in 1 .. L + 1, NEW j \in 1 .. L + 1, i + RateLimit <= j
               PROVE  intents'[j].at - intents'[i].at > Minute
    BY <1>5 DEF Apart
  <2>1. CASE j \in 1 .. L
    <3>1. i \in 1 .. L
      BY <1>1, <2>1, RateAssumption
    <3> QED
      BY <1>1, <1>5, <2>1, <3>1 DEF HookInv, Apart
  <2>2. CASE j = L + 1
    <3>1. i \in 1 .. L /\ L - i \in Nat /\ L - i < L /\ L - (L - i) = i
          /\ RateLimit <= L - i + 1
      BY <1>1, <1>3, <1>10, <2>2, RateAssumption
    <3>2. ~ (intents[i].at >= clock - Minute)
      <4>1. intents[i].at >= clock - Minute => L - i < Len(R)
        BY <1>10, <3>1 DEF Covered
      <4> QED
        BY <1>1, <1>3, <1>10, <3>1, <4>1, RateAssumption
    <3> QED
      <4>1. intents'[j].at = clock /\ intents'[i].at = intents[i].at /\ intents[i].at \in Nat
        BY <1>1, <1>4, <1>5, <2>2, <3>1
      <4> QED
        BY <1>1, <3>2, <4>1
  <2> QED
    BY <1>6, <2>1, <2>2
<1>12. /\ arrivals' \in Seq(Nat) /\ Ascending(arrivals')
       /\ \A i \in DOMAIN arrivals' : arrivals'[i] <= clock
  BY <1>3, <1>10, OneMoreRequest
<1>13. (Covered(arrivals))'
  <2>1. /\ Len(arrivals') = Len(R) + 1 /\ arrivals'[Len(R) + 1] = clock
        /\ \A i \in 1 .. Len(R) : arrivals'[i] = R[i]
    BY <1>3, <1>10
  <2> SUFFICES ASSUME NEW k \in Nat, k < L + 1,
                      intents'[(L + 1) - k].at >= clock - Minute
               PROVE  /\ k < Len(R) + 1
                      /\ arrivals'[(Len(R) + 1) - k] >= intents'[(L + 1) - k].at
    BY <1>3, <1>5, <2>1 DEF Covered
  <2>2. CASE k = 0
    BY <1>1, <1>4, <1>5, <1>10, <2>1, <2>2
  <2>3. CASE k # 0
    <3>1. k - 1 \in Nat /\ k - 1 < L /\ (L + 1) - k = L - (k - 1) /\ L - (k - 1) \in 1 .. L
      BY <1>1, <2>3
    <3>2. intents'[(L + 1) - k] = intents[L - (k - 1)]
      BY <1>5, <3>1
    <3>3. k - 1 < Len(R) /\ R[Len(R) - (k - 1)] >= intents[L - (k - 1)].at
      BY <1>10, <3>1, <3>2 DEF Covered
    <3>4. (Len(R) + 1) - k = Len(R) - (k - 1) /\ Len(R) - (k - 1) \in 1 .. Len(R)
      BY <1>10, <2>3, <3>1, <3>3
    <3> QED
      BY <1>10, <2>1, <3>2, <3>3, <3>4
  <2> QED
    BY <2>2, <2>3
<1>14. (Remembers(nonces, "nonce"))' /\ (Remembers(keys, "key"))'
  <2>1. /\ Remembers(nonces', "nonce") /\ Remembers(keys', "key")
    BY <1>3, <1>7, WithRemembers
  <2>2. /\ request.nonce \in DOMAIN nonces' /\ nonces'[request.nonce] = clock
        /\ Hook!KeyOf(request) \in DOMAIN keys' /\ keys'[Hook!KeyOf(request)] = clock
    BY <1>3 DEF Hook!With
  <2>3. ASSUME NEW times, NEW field \in {"nonce", "key"}, Remembers(times, field),
               made[field] \in DOMAIN times, times[made[field]] = clock,
               NEW i \in 1 .. L + 1, intents'[i].at >= clock' - KeepFor
        PROVE  /\ intents'[i][field] \in DOMAIN times /\ times[intents'[i][field]] \in Nat
               /\ times[intents'[i][field]] >= intents'[i].at
    <3>1. CASE i \in 1 .. L
      BY <1>1, <1>3, <1>5, <2>3, <3>1 DEF Remembers
    <3>2. CASE i = L + 1
      BY <1>1, <1>4, <1>5, <2>3, <3>2
    <3> QED
      BY <1>6, <3>1, <3>2
  <2> QED
    BY <1>4, <1>5, <2>1, <2>2, <2>3 DEF Remembers
<1>15. \A i \in DOMAIN intents' :
         /\ intents'[i].at <= clock
         /\ intents'[i].at - MaxSkew <= intents'[i].stamp
         /\ intents'[i].stamp <= intents'[i].at + MaxSkew
  BY <1>1, <1>3, <1>4, <1>5, <1>6 DEF HookInv
<1> QED
  BY <1>1, <1>3, <1>5, <1>9, <1>11, <1>12, <1>13, <1>14, <1>15 DEF HookInv, Ascending

LEMMA HookInit ==
  ASSUME Init
  PROVE  HookInv
<1>1. clock = 0 /\ intents = << >> /\ arrivals = << >>
  BY DEF Init, Hook!InitHook
<1> QED
  BY <1>1 DEF HookInv, Remembers, Ascending, Covered, Answered, Apart

LEMMA HookStep ==
  ASSUME HookInv, [Next]_vars
  PROVE  HookInv'
<1>1. CASE Tick
  <2>1. clock' = clock + 1 /\ UNCHANGED <<nonces, keys, arrivals, intents>>
    BY <1>1 DEF Tick, hookVars
  <2>2. /\ clock \in Nat /\ Minute \in Nat /\ KeepFor \in Nat /\ MaxSkew \in Nat
        /\ DOMAIN intents = 1 .. Len(intents) /\ Len(intents) \in Nat
        /\ DOMAIN arrivals = 1 .. Len(arrivals)
        /\ \A i \in 1 .. Len(intents) : intents[i].at \in Nat /\ intents[i].at <= clock
        /\ \A i \in 1 .. Len(arrivals) : arrivals[i] \in Nat /\ arrivals[i] <= clock
    BY HookTimes
  <2>3. \A i \in DOMAIN intents :
          /\ intents[i].at <= clock + 1
          /\ intents[i].at >= clock + 1 - KeepFor => intents[i].at >= clock - KeepFor
          /\ intents[i].at >= clock + 1 - Minute => intents[i].at >= clock - Minute
    BY <2>2
  <2>4. /\ (Remembers(nonces, "nonce"))' /\ (Remembers(keys, "key"))'
    <3>1. ASSUME NEW times, NEW field \in {"nonce", "key"}, Remembers(times, field),
                 NEW i \in DOMAIN intents, intents[i].at >= clock + 1 - KeepFor
          PROVE  /\ intents[i][field] \in DOMAIN times /\ times[intents[i][field]] \in Nat
                 /\ times[intents[i][field]] >= intents[i].at
      BY <2>3, <3>1 DEF Remembers
    <3>2. Remembers(nonces, "nonce") /\ Remembers(keys, "key")
      BY DEF HookInv
    <3>3. \A i \in DOMAIN intents : intents[i].at >= clock + 1 - KeepFor =>
            /\ intents[i]["nonce"] \in DOMAIN nonces /\ nonces[intents[i]["nonce"]] \in Nat
            /\ nonces[intents[i]["nonce"]] >= intents[i].at
            /\ intents[i]["key"] \in DOMAIN keys /\ keys[intents[i]["key"]] \in Nat
            /\ keys[intents[i]["key"]] >= intents[i].at
      BY <3>1, <3>2
    <3> QED
      BY <2>1, <2>2, <3>3 DEF Remembers
  <2>5. (Covered(arrivals))'
    <3>1. ASSUME NEW k \in Nat, k < Len(intents),
                 intents[Len(intents) - k].at >= clock' - Minute
          PROVE  /\ k < Len(arrivals)
                 /\ arrivals[Len(arrivals) - k] >= intents[Len(intents) - k].at
      <4>1. Len(intents) - k \in DOMAIN intents
        BY <2>2, <3>1
      <4>2. intents[Len(intents) - k].at >= clock - Minute
        <5>1. clock' = clock + 1
          BY <2>1
        <5>2. intents[Len(intents) - k].at >= clock + 1 - Minute
          BY <2>2, <3>1, <4>1, <5>1
        <5> QED
          BY <2>3, <4>1, <5>2
      <4> QED
        BY <3>1, <4>2 DEF HookInv, Covered
    <3>2. intents' = intents /\ arrivals' = arrivals
      BY <2>1
    <3> QED
      BY <3>1, <3>2, Zenon DEF Covered
  <2>6. (Ascending(arrivals))' /\ Answered' /\ Apart'
    BY <2>1 DEF HookInv, Ascending, Answered, Apart
  <2>7. clock' \in Nat /\ \A i \in DOMAIN arrivals : arrivals[i] <= clock + 1
    BY <2>1, <2>2
  <2> QED
    BY <2>1, <2>3, <2>4, <2>5, <2>6, <2>7 DEF HookInv
<1>2. CASE WebhookStep
  <2>1. ASSUME NEW request \in Hook!Requests, Hook!TurnAway(request) PROVE HookInv'
    BY <2>1, QuietKeeps DEF Hook!TurnAway
  <2>2. ASSUME NEW request \in Hook!Requests, Hook!Reject(request) PROVE HookInv'
    BY <2>2, QuietKeeps DEF Hook!Reject, Hook!Counted
  <2>3. ASSUME NEW request \in Hook!Requests, Hook!Burn(request) PROVE HookInv'
    BY <2>3, QuietKeeps DEF Hook!Burn, Hook!Counted
  <2>4. ASSUME NEW request \in Hook!Requests, Hook!Emit(request) PROVE HookInv'
    BY <2>4, EmitKeeps
  <2>5. CASE Hook!RestartHook
    <3>1. intents' = << >> /\ arrivals' = << >> /\ clock' = clock /\ clock \in Nat
      BY <2>5 DEF Hook!RestartHook, HookInv
    <3> QED
      BY <3>1 DEF HookInv, Remembers, Ascending, Covered, Answered, Apart
  <2> QED
    BY <1>2, <2>1, <2>2, <2>3, <2>4, <2>5 DEF WebhookStep, Hook!NextHook
<1>3. CASE MarketStep \/ StageStep \/ EventStep \/ UNCHANGED vars
  <2>1. UNCHANGED <<clock, nonces, keys, arrivals, intents>>
    BY <1>3 DEF MarketStep, StageStep, EventStep, vars, hookVars, Gateway!NextGateway,
         Gateway!Hit, Gateway!Miss, Gateway!Read, Gateway!Store, Gateway!Return, Gateway!Fail
  <2> QED
    BY <2>1 DEF HookInv, Remembers, Ascending, Covered, Answered, Apart
<1> QED
  BY <1>1, <1>2, <1>3 DEF Next

\* Intents of which the limit and one more lie further apart than a minute are no more
\* than the limit in any minute.
LEMMA FewInAMinute ==
  ASSUME HookInv, NEW t \in Nat
  PROVE  Cardinality({i \in DOMAIN intents : intents[i].at \in t .. t + Minute}) <= RateLimit
<1> DEFINE S == {i \in DOMAIN intents : intents[i].at \in t .. t + Minute}
<1>1. /\ Len(intents) \in Nat /\ DOMAIN intents = 1 .. Len(intents) /\ Minute \in Nat
      /\ \A i \in 1 .. Len(intents) : intents[i].at \in Nat
      /\ RateLimit \in Nat
  BY HookTimes, RateAssumption
<1>2. CASE S = {}
  BY <1>1, <1>2, FS_EmptySet
<1>3. CASE S # {}
  <2>1. S \in SUBSET Nat
    BY <1>1
  <2>2. PICK m \in S : \A i \in S : m <= i
    BY <1>3, <2>1, LeastNatural
  <2>3. ASSUME NEW i \in S PROVE i \in m .. m + RateLimit - 1
    <3>1. /\ i \in Nat /\ m \in Nat /\ m <= i
          /\ intents[i].at \in Nat /\ intents[i].at <= t + Minute
          /\ intents[m].at \in Nat /\ t <= intents[m].at
      BY <1>1, <2>2
    <3>2. ~ (m + RateLimit <= i)
      <4>1. m + RateLimit <= i => intents[i].at - intents[m].at > Minute
        BY <2>2 DEF HookInv, Apart
      <4> QED
        BY <1>1, <3>1, <4>1
    <3> QED
      BY <1>1, <3>1, <3>2
  <2>4. m \in Nat /\ m + RateLimit - 1 \in Int
    BY <1>1, <2>1, <2>2
  <2>5. IsFiniteSet(m .. m + RateLimit - 1) /\ Cardinality(m .. m + RateLimit - 1) <= RateLimit
    <3> DEFINE n == m + RateLimit - 1
    <3>1. n \in Int /\ (IF m > n THEN 0 ELSE n - m + 1) <= RateLimit
      BY <1>1, <2>4
    <3> HIDE DEF n
    <3>2. IsFiniteSet(m .. n) /\ Cardinality(m .. n) = IF m > n THEN 0 ELSE n - m + 1
      BY <2>4, <3>1, FS_Interval
    <3>3. IsFiniteSet(m .. n) /\ Cardinality(m .. n) <= RateLimit
      BY <3>1, <3>2
    <3> QED
      BY <3>3 DEF n
  <2>6. S \in SUBSET (m .. m + RateLimit - 1)
    BY <2>3
  <2>7. /\ IsFiniteSet(S) /\ Cardinality(S) <= Cardinality(m .. m + RateLimit - 1)
    BY <2>5, <2>6, FS_Subset
  <2>8. /\ Cardinality(S) \in Nat /\ Cardinality(m .. m + RateLimit - 1) \in Nat
    BY <2>5, <2>7, FS_CardinalityType
  <2> QED
    BY <1>1, <2>5, <2>7, <2>8
<1> QED
  BY <1>2, <1>3

\* For every skew, limit and time to keep that fit together, and however alerts are sent
\* again and keys are used again: one intent for an alert, one for a key in the time it is
\* kept, and no more in any minute than the limit.
THEOREM AlertsMakeOneIntent == Spec => []IntentsAnswerAlerts
<1>1. Init => HookInv
  BY HookInit
<1>2. HookInv /\ [Next]_vars => HookInv'
  BY HookStep
<1>3. HookInv => IntentsAnswerAlerts
  <2> SUFFICES ASSUME HookInv PROVE IntentsAnswerAlerts
    OBVIOUS
  <2>1. Answered
    BY DEF HookInv
  <2>2. \A t \in 0 .. MaxTime :
          Hook!Cardinality({i \in DOMAIN intents : intents[i].at \in t .. t + Minute})
            <= RateLimit
    BY FewInAMinute, SameCardinality
  <2> QED
    BY <2>1, <2>2 DEF Answered, IntentsAnswerAlerts, Hook!IntentsAnswerAlerts
<1> QED
  BY <1>1, <1>2, <1>3, PTL DEF Spec
=============================================================================
