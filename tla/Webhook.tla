------------------------------- MODULE Webhook -------------------------------
(***************************************************************************)
(* The alerts that TradingViewWebhookHandler turns into trade intents       *)
(* (webhook/tradingview.py): a stamp that must be near the clock, a nonce   *)
(* that is taken once, a key that makes an intent once, and a limit on the  *)
(* requests of a minute.  All of it is kept in memory and forgotten with    *)
(* the process.  The clock never runs backwards.                            *)
(***************************************************************************)
EXTENDS Integers, Sequences, FiniteSets

CONSTANTS Nonces,       \* the nonces of the alerts
          Keys,         \* the idempotency keys an alert may name
          None,         \* an alert that names no key; a fault there is none of
          MaxSkew,      \* max_skew_seconds
          KeepFor,      \* idempotency_ttl_seconds
          Minute,       \* the window of the rate limit
          RateLimit,    \* rate_limit_per_minute
          MaxTime       \* the bound of the clock

VARIABLES clock,
          nonces,     \* [nonce |-> when it was taken]
          keys,       \* [key |-> when its intent was made]
          arrivals,   \* the times of the requests that count for the limit
          intents     \* every intent of this life of the process, in order

hookVars == <<nonces, keys, arrivals, intents>>

\* Where a request goes wrong, if it does: before it counts for the limit (no
\* secret is configured, no HTTPS), before its nonce is looked at (fields, the
\* secret), or after its nonce is taken (action, symbol, price, quantity).
Faults == {None, "unserved", "unauthentic", "refused"}

Requests ==
  [nonce : Nonces, stamp : 0 .. MaxTime, key : Keys \cup {None}, fault : Faults]

\* Without a key of its own an alert has one made of its nonce and its content.
KeyOf(request) == IF request.key = None THEN <<request.nonce>> ELSE request.key

Empty == [x \in {} |-> 0]

InitHook ==
  /\ nonces = Empty
  /\ keys = Empty
  /\ arrivals = << >>
  /\ intents = << >>

-----------------------------------------------------------------------------

\* Mutant: an entry is dropped the moment its time is up.
Kept_Early(times) ==
  [x \in {y \in DOMAIN times : times[y] > clock - KeepFor} |-> times[x]]

(* _prune, which every request starts with *)
Kept(times) ==
  [x \in {y \in DOMAIN times : times[y] >= clock - KeepFor} |-> times[x]]

\* The clock does not run backwards, so what the filter keeps are the last ones.
Recent ==
  LET old == {i \in DOMAIN arrivals : arrivals[i] < clock - Minute}
  IN  SubSeq(arrivals, Cardinality(old) + 1, Len(arrivals))

With(times, x) == [y \in DOMAIN times \cup {x} |-> IF y = x THEN clock ELSE times[y]]

\* The request counts for the limit, which is not reached.
Counted(request) ==
  /\ request.fault # "unserved"
  /\ Len(Recent) < RateLimit
  /\ arrivals' = Append(Recent, clock)

Authentic(request) ==
  /\ request.fault # "unauthentic"
  /\ request.stamp \in clock - MaxSkew .. clock + MaxSkew
  /\ request.nonce \notin DOMAIN Kept(nonces)

\* The request is turned away before it counts.
TurnAway(request) ==
  /\ request.fault = "unserved" \/ Len(Recent) >= RateLimit
  /\ nonces' = Kept(nonces)
  /\ keys' = Kept(keys)
  /\ arrivals' = Recent
  /\ UNCHANGED <<clock, intents>>

\* It counts, and is not authentic, out of time or a replay.
Reject(request) ==
  /\ Counted(request)
  /\ ~Authentic(request)
  /\ nonces' = Kept(nonces)
  /\ keys' = Kept(keys)
  /\ UNCHANGED <<clock, intents>>

\* Its nonce is taken, and there is no intent: it is refused for what it asks,
\* or its key made an intent before.
Burn(request) ==
  /\ Counted(request)
  /\ Authentic(request)
  /\ request.fault = "refused" \/ KeyOf(request) \in DOMAIN Kept(keys)
  /\ nonces' = With(Kept(nonces), request.nonce)
  /\ keys' = Kept(keys)
  /\ UNCHANGED <<clock, intents>>

Emit(request) ==
  /\ Counted(request)
  /\ Authentic(request)
  /\ request.fault = None
  /\ KeyOf(request) \notin DOMAIN Kept(keys)
  /\ nonces' = With(Kept(nonces), request.nonce)
  /\ keys' = With(Kept(keys), KeyOf(request))
  /\ intents' = Append(intents, [nonce |-> request.nonce, stamp |-> request.stamp,
                                 key |-> KeyOf(request), at |-> clock])
  /\ UNCHANGED clock

\* A new process knows nothing of the alerts of the one before it.
RestartHook ==
  /\ intents # << >>
  /\ nonces' = Empty
  /\ keys' = Empty
  /\ arrivals' = << >>
  /\ intents' = << >>
  /\ UNCHANGED clock

NextHook ==
  \/ \E request \in Requests :
        TurnAway(request) \/ Reject(request) \/ Burn(request) \/ Emit(request)
  \/ RestartHook

-----------------------------------------------------------------------------

\* In one life of the process an alert makes one intent however often it is
\* delivered, a key makes one in the time it is kept, and no more intents are
\* made within a minute than the limit allows.
IntentsAnswerAlerts ==
  /\ \A i, j \in DOMAIN intents : i < j =>
       /\ <<intents[i].nonce, intents[i].stamp>> # <<intents[j].nonce, intents[j].stamp>>
       /\ intents[i].key = intents[j].key => intents[j].at - intents[i].at > KeepFor
  /\ \A t \in 0 .. MaxTime :
       Cardinality({i \in DOMAIN intents : intents[i].at \in t .. t + Minute}) <= RateLimit
=============================================================================
