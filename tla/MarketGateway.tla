---------------------------- MODULE MarketGateway ----------------------------
(***************************************************************************)
(* The price of one symbol as MarketDataGateway.get_ticker serves it        *)
(* (market/gateway.py, market/cache.py): a cache whose lock is held for a   *)
(* look and for a store, never from the one to the other, so that several   *)
(* callers may fetch at once and store in any order; and the health record  *)
(* (market/health.py), which a cached price marks as well as a fetched one  *)
(* and which no lock guards.                                                *)
(***************************************************************************)
EXTENDS Integers

CONSTANTS Callers,      \* the threads that ask for the price
          None,
          CacheFor,     \* cache_ttl_seconds
          MaxFetch,     \* the longest a call takes from its look to its return
          MaxTime       \* the bound of the clock

VARIABLES clock,
          entry,      \* the cached price: when the feed was read, when it expires
          call,       \* per caller: None, or how far its call is
          health,     \* when a call succeeded last, and if the last one did
          served      \* the price served last: when the feed was read, and when served

gatewayVars == <<entry, call, health, served>>

InitGateway ==
  /\ entry = None
  /\ call = [c \in Callers |-> None]
  /\ health = [okAt |-> None, ok |-> TRUE]
  /\ served = None

At(c, step) == call[c] # None /\ call[c].step = step

-----------------------------------------------------------------------------

\* TTLCache.get: an entry is good up to and with the moment it expires.
Cached == entry # None /\ clock <= entry.expires

\* Mutant: a hit renews the entry.
Touch_Renews == [entry EXCEPT !.expires = clock + CacheFor]

\* What a hit does to the entry.
Touch == entry

Hit(c) ==
  /\ call[c] = None
  /\ Cached
  /\ entry' = Touch
  /\ call' = [call EXCEPT ![c] = [since |-> clock, step |-> "answered", read |-> entry.read]]
  /\ UNCHANGED <<clock, health, served>>

\* The look that misses drops what has expired.
Miss(c) ==
  /\ call[c] = None
  /\ ~Cached
  /\ entry' = None
  /\ call' = [call EXCEPT ![c] = [since |-> clock, step |-> "fetching", read |-> None]]
  /\ UNCHANGED <<clock, health, served>>

\* The feed is read for the caller, outside of the lock.
Read(c) ==
  /\ At(c, "fetching")
  /\ call' = [call EXCEPT ![c].step = "fetched", ![c].read = clock]
  /\ UNCHANGED <<clock, entry, health, served>>

\* TTLCache.set: whatever is there is overwritten.
Store(c) ==
  /\ At(c, "fetched")
  /\ entry' = [read |-> call[c].read, expires |-> clock + CacheFor]
  /\ call' = [call EXCEPT ![c].step = "answered"]
  /\ UNCHANGED <<clock, health, served>>

Return(c) ==
  /\ At(c, "answered")
  /\ health' = [okAt |-> clock, ok |-> TRUE]
  /\ served' = [read |-> call[c].read, at |-> clock]
  /\ call' = [call EXCEPT ![c] = None]
  /\ UNCHANGED <<clock, entry>>

\* The feed raises; the price before it is not served in its place.
Fail(c) ==
  /\ At(c, "fetching")
  /\ health' = [health EXCEPT !.ok = FALSE]
  /\ call' = [call EXCEPT ![c] = None]
  /\ UNCHANGED <<clock, entry, served>>

\* No call takes longer than the longest one.
MayPass == \A c \in Callers : call[c] # None => clock < call[c].since + MaxFetch

NextGateway ==
  \E c \in Callers : Hit(c) \/ Miss(c) \/ Read(c) \/ Store(c) \/ Return(c) \/ Fail(c)

-----------------------------------------------------------------------------

\* However the callers interleave, and whoever's fetch is stored last, a price
\* that is served, and that marks the feed as healthy, was read from the feed
\* no longer ago than the cache keeps it and two calls take: the one that
\* stored it and the one that found it.  While the feed fails it only ages.
ServedAgeBounded == served # None => served.at - served.read <= CacheFor + 2 * MaxFetch
=============================================================================
