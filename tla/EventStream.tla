----------------------------- MODULE EventStream -----------------------------
(***************************************************************************)
(* The dashboard's events (dashboard/event_bus.py, dashboard/websocket.py): *)
(* request threads publish, the bus keeps a history and one queue for each  *)
(* connected client, and a client is sent the recent history and then its   *)
(* queue.  What is published is the demo cycle (dashboard/cycle.py), a      *)
(* study or the emergency stop (dashboard/routes.py), one event for each    *)
(* group that a program emits in a row.                                     *)
(***************************************************************************)
EXTENDS Integers, Sequences

CONSTANTS Threads,      \* the threads that serve requests, one request each
          Clients,      \* the browsers at the web socket
          None,
          ReplayLimit,  \* how much of the history a new client is sent
          QueueSize     \* the room in the queue of a client

VARIABLES script,       \* per thread: None before its request, then the kinds it
                        \* has still to publish
          delivery,     \* per thread: the event that is in the history and not yet
                        \* in all of the queues, with the clients left, or None
          published,    \* the history
          queue,        \* per client: what waits for it
          client        \* per client: how far its connection is, the replay it is
                        \* sent, where in the history that begins, and the events
                        \* it was sent or that found no room

streamVars == <<script, delivery, published, queue, client>>

Away == [phase |-> "away", replay |-> << >>, from |-> None, settled |-> {}]

InitStream ==
  /\ script = [t \in Threads |-> None]
  /\ delivery = [t \in Threads |-> None]
  /\ published = << >>
  /\ queue = [c \in Clients |-> << >>]
  /\ client = [c \in Clients |-> Away]

-----------------------------------------------------------------------------
(* What the requests publish *)

\* Up to the call of the paper engine, which decides how the cycle goes on.
DemoCycle     == <<"AgentCompleted", "TradePlanCreated", "Decide">>
Executed      == <<"OrderFilled", "PositionClosed">>
Refused       == <<"RiskRejected">>
Study         == <<"StudyStarted", "StudyCompleted">>
EmergencyStop == <<"KillSwitchActivated">>

Request(t) ==
  /\ script[t] = None
  /\ \E program \in {DemoCycle, Study, EmergencyStop} :
        script' = [script EXCEPT ![t] = program]
  /\ UNCHANGED <<delivery, published, queue, client>>

\* The engine executes the plan or refuses it.
Decide(t) ==
  /\ script[t] = <<"Decide">> /\ delivery[t] = None
  /\ \E rest \in {Executed, Refused} : script' = [script EXCEPT ![t] = rest]
  /\ UNCHANGED <<delivery, published, queue, client>>

\* The request fails between two events.
Raise(t) ==
  /\ script[t] \notin {None, << >>} /\ delivery[t] = None
  /\ script' = [script EXCEPT ![t] = << >>]
  /\ UNCHANGED <<delivery, published, queue, client>>

-----------------------------------------------------------------------------
(* EventBus.publish: the history and the list of the queues under the lock, *)
(* the queues one by one without it.  A store or a listener that raises is  *)
(* counted and changes nothing else.                                        *)

\* Mutant: the queue is there once the replay is over.
Listens_Live(c) == client[c].phase = "live"

\* subscribe_queue comes before everything else.
Listens(c) == client[c].phase # "away"

Publish(t) ==
  /\ script[t] \notin {None, << >>, <<"Decide">>} /\ delivery[t] = None
  /\ LET event == [by |-> t, kind |-> Head(script[t])] IN
       /\ published' = Append(published, event)
       /\ delivery' = [delivery EXCEPT ![t] = [event |-> event, to |-> {c \in Clients : Listens(c)}]]
  /\ script' = [script EXCEPT ![t] = Tail(script[t])]
  /\ UNCHANGED <<queue, client>>

\* put_nowait: an event that finds the queue full is lost to the client.
Put(t) ==
  /\ delivery[t] # None
  /\ \E c \in delivery[t].to :
       /\ delivery' = [delivery EXCEPT ![t].to = @ \ {c}]
       /\ IF Len(queue[c]) < QueueSize
          THEN /\ queue' = [queue EXCEPT ![c] = Append(@, delivery[t].event)]
               /\ UNCHANGED client
          ELSE /\ client' = [client EXCEPT ![c].settled = @ \cup {delivery[t].event}]
               /\ UNCHANGED queue
  /\ UNCHANGED <<script, published>>

Delivered(t) ==
  /\ delivery[t] # None /\ delivery[t].to = {}
  /\ delivery' = [delivery EXCEPT ![t] = None]
  /\ UNCHANGED <<script, published, queue, client>>

-----------------------------------------------------------------------------
(* websocket_endpoint *)

Among(events) == {events[i] : i \in DOMAIN events}

Connect(c) ==
  /\ client[c].phase = "away"
  /\ client' = [client EXCEPT ![c].phase = "connected"]
  /\ UNCHANGED <<script, delivery, published, queue>>

\* The recent history, in one look under the lock.
Replay(c) ==
  LET first == IF Len(published) > ReplayLimit THEN Len(published) - ReplayLimit + 1 ELSE 1
  IN  /\ client[c].phase = "connected"
      /\ client' = [client EXCEPT ![c].phase = "replaying",
                                  ![c].replay = SubSeq(published, first, Len(published)),
                                  ![c].from = first]
      /\ UNCHANGED <<script, delivery, published, queue>>

\* The last event of the replay is sent.
EndReplay(c) ==
  /\ client[c].phase = "replaying"
  /\ client' = [client EXCEPT ![c].phase = "live",
                              ![c].settled = @ \cup Among(client[c].replay),
                              ![c].replay = << >>]
  /\ UNCHANGED <<script, delivery, published, queue>>

Send(c) ==
  /\ client[c].phase = "live" /\ queue[c] # << >>
  /\ client' = [client EXCEPT ![c].settled = @ \cup {Head(queue[c])}]
  /\ queue' = [queue EXCEPT ![c] = Tail(@)]
  /\ UNCHANGED <<script, delivery, published>>

\* Whatever is still put into its queue then goes nowhere; a client that comes
\* back has a new one.
Disconnect(c) ==
  /\ client[c].phase # "away"
  /\ client' = [client EXCEPT ![c] = Away]
  /\ queue' = [queue EXCEPT ![c] = << >>]
  /\ delivery' = [t \in Threads |-> IF delivery[t] = None THEN None
                                    ELSE [delivery[t] EXCEPT !.to = @ \ {c}]]
  /\ UNCHANGED <<script, published>>

NextStream ==
  \/ \E t \in Threads :
        Request(t) \/ Decide(t) \/ Raise(t) \/ Publish(t) \/ Put(t) \/ Delivered(t)
  \/ \E c \in Clients :
        Connect(c) \/ Replay(c) \/ EndReplay(c) \/ Send(c) \/ Disconnect(c)

-----------------------------------------------------------------------------

\* From the oldest event of its replay on, a client misses nothing: each later
\* event has been sent to it, waits for it, is on its way to its queue, or found
\* its queue full.  No event falls between the replay and the queue, in whatever
\* moment of a publication the client connects.
NothingMissed ==
  \A c \in Clients : client[c].from # None =>
    \A i \in client[c].from .. Len(published) :
      LET e == published[i] IN
        \/ e \in client[c].settled \cup Among(client[c].replay) \cup Among(queue[c])
        \/ \E t \in Threads : delivery[t] # None /\ delivery[t].event = e /\ c \in delivery[t].to
=============================================================================
