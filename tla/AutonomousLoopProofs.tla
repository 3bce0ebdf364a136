------------------------- MODULE AutonomousLoopProofs -------------------------
(***************************************************************************)
(* One thread drives the loop, a key is executed once and a stop lets at   *)
(* most one more order through, for every set of threads, callers and keys *)
(* and whether joins time out or not.                                      *)
(*                                                                         *)
(* The inductive invariant says where the callers and the threads may be   *)
(* as long as the use is orderly (LockHeld, Orderly), what is still to     *)
(* come of a thread after a stop (LateCounted), and where the key of an    *)
(* executed order is on its way to the file (Regular).                     *)
(***************************************************************************)
EXTENDS AutonomousLoop, FiniteSetTheorems, TLAPS

\* Who is starting, or waits for the thread in front, has the lock.
LockHeld ==
    \A c \in Callers : caller[c].at \in {"spawn", "foreground"} => lock = c

\* A thread that looks a key up, orders or adds it has a key.
KeysKnown ==
    \A t \in Threads : worker[t].at \in {"lookup", "order", "add"} => worker[t].key \in Keys

\* The orders since stop was called, with the one that is still to come.
LateCounted ==
    \A t \in Threads :
        /\ ~stop => late[t] = 0
        /\ stop => IF worker[t].at \in {"lookup", "order"} THEN late[t] = 0 ELSE late[t] <= 1

Stopping(c) == caller[c].at \in {"look", "join", "flag"}

\* The one driver is the thread in the background, and the flag is set, or its caller
\* waits for it; the flag is set and none drives while one is started, and no stop is
\* under way then;
\* a stop that waits or is about to clear the flag has the thread in view.
Orderly ==
    /\ \A t, u \in Threads : Driving(t) /\ Driving(u) => t = u
    /\ \A t \in Threads :
           Driving(t) => \/ t = thread /\ running
                         \/ \E c \in Callers : caller[c].at = "foreground" /\ caller[c].waits = t
    /\ \A c \in Callers :
           caller[c].at = "spawn" => /\ running
                                     /\ \A t \in Threads : ~Driving(t)
                                     /\ \A d \in Callers : ~Stopping(d)
    /\ \A c \in Callers : caller[c].at = "join" => caller[c].waits = thread
    /\ \A c \in Callers : caller[c].at = "flag" => \A t \in Threads : t = thread => ~Alive(t)

Traded(k) == executed[k] > 0

\* A save that stop or the end of a thread makes has all keys, for no thread drives or
\* is started; a traded key was traded once and is in memory or about to be added, and
\* in the file or with a thread that has yet to write; what is about to be ordered was
\* not traded.
Regular ==
    /\ Saving => /\ \A t \in Threads : ~Driving(t)
                 /\ \A c \in Callers : caller[c].at # "spawn"
    /\ \A t \in Threads : worker[t].at \in {"cyclewrite", "write"} => worker[t].copy = seen
    /\ \A c \in Callers : caller[c].at = "write" => caller[c].copy = seen
    /\ \A k \in Keys : Traded(k) =>
           /\ executed[k] = 1
           /\ \/ k \in seen
              \/ \E t \in Threads : worker[t].at = "add" /\ worker[t].key = k
           /\ \/ k \in file
              \/ \E t \in Threads : worker[t].at \in {"add", "cyclecopy", "cyclewrite"}
    /\ \A t \in Threads : worker[t].at = "order" => ~Traded(worker[t].key)

IInv ==
    /\ TypeOK
    /\ LockHeld
    /\ KeysKnown
    /\ LateCounted
    /\ use # "overlapped" => Orderly
    /\ use = "regular" => Regular

-----------------------------------------------------------------------------
(* Types *)

\* The records that threads and callers go back to have their types.
LEMMA RecordsTyped ==
    /\ Ended \in Workers
    /\ Returned \in CallStates
  BY DEF Ended, Returned, Workers, CallStates

\* A step of a thread keeps the types.
LEMMA ThreadTyped ==
    ASSUME TypeOK, KeysKnown, NEW t \in Threads, ThreadStep(t)
    PROVE  TypeOK'
<1>1. /\ worker \in [Threads -> Workers] /\ worker[t] \in Workers
      /\ seen \subseteq Keys /\ file \subseteq Keys
  BY DEF TypeOK
<1>2. ASSUME NEW at \in {"ended", "loop", "lookup", "order", "add", "cyclecopy",
                         "cyclewrite", "wait", "finish", "copy", "write"}, Goto(t, at)
      PROVE  worker' \in [Threads -> Workers]
  BY <1>1, <1>2 DEF Goto, Workers
<1>3. ASSUME EndCycle(t) PROVE worker' \in [Threads -> Workers]
  BY <1>1, <1>3 DEF EndCycle, Ended, Workers
<1>4. CASE BeginCycle(t)
  <2>1. worker' \in [Threads -> Workers]
    <3>1. CASE StopSeen
      BY <1>2, <1>4, <3>1 DEF BeginCycle
    <3>2. CASE ~StopSeen
      BY <1>1, <1>4, <3>2 DEF BeginCycle, Workers
    <3>. QED  BY <3>1, <3>2
  <2>. QED  BY <1>4, <2>1 DEF BeginCycle, control, keys, history, TypeOK
<1>5. CASE Lookup(t)
  <2>1. worker' \in [Threads -> Workers]
    BY <1>2, <1>3, <1>5 DEF Lookup
  <2>. QED  BY <1>5, <2>1 DEF Lookup, control, keys, history, TypeOK
<1>6. CASE OrderExecuted(t)
  <2>1. worker' \in [Threads -> Workers]
    BY <1>2, <1>6 DEF OrderExecuted
  <2>2. executed' \in [Keys -> Nat] /\ late' \in [Threads -> Nat]
    BY <1>6 DEF OrderExecuted, KeysKnown, TypeOK
  <2>. QED  BY <1>6, <2>1, <2>2 DEF OrderExecuted, control, keys, TypeOK
<1>7. CASE OrderNotExecuted(t)
  <2>1. worker' \in [Threads -> Workers]
    BY <1>3, <1>7 DEF OrderNotExecuted
  <2>. QED  BY <1>7, <2>1 DEF OrderNotExecuted, control, keys, history, TypeOK
<1>8. CASE AddKey(t)
  <2>1. worker' \in [Threads -> Workers] /\ worker[t].key \in Keys
    BY <1>3, <1>8 DEF AddKey, KeysKnown
  <2>. QED  BY <1>1, <1>8, <2>1 DEF AddKey, control, history, TypeOK
<1>9. CASE CopyKeys(t)
  <2>1. worker' \in [Threads -> Workers]
    BY <1>1, <1>9 DEF CopyKeys, Workers
  <2>. QED  BY <1>9, <2>1 DEF CopyKeys, control, keys, history, TypeOK
<1>10. CASE WriteKeys(t)
  <2>1. worker' \in [Threads -> Workers]
    BY <1>1, <1>10 DEF WriteKeys, Ended, Workers
  <2>2. file' \subseteq Keys
    BY <1>1, <1>10 DEF WriteKeys, Written, Workers
  <2>. QED  BY <1>10, <2>1, <2>2 DEF WriteKeys, control, history, TypeOK
<1>11. CASE Wait(t)
  <2>1. worker' \in [Threads -> Workers]
    BY <1>2, <1>11 DEF Wait
  <2>. QED  BY <1>11, <2>1 DEF Wait, control, keys, history, TypeOK
<1>12. CASE Finish(t)
  <2>1. worker' \in [Threads -> Workers]
    BY <1>2, <1>12 DEF Finish
  <2>. QED  BY <1>12, <2>1 DEF Finish, keys, history, TypeOK
<1>. QED  BY <1>4, <1>5, <1>6, <1>7, <1>8, <1>9, <1>10, <1>11, <1>12 DEF ThreadStep

\* A step of a caller keeps the types.
LEMMA CallerTyped ==
    ASSUME TypeOK, NEW c \in Callers,
           \/ BeginStart(c) \/ (\E t \in Threads : Spawn(c, t)) \/ ReturnForeground(c)
           \/ BeginStop(c) \/ LookAtThread(c) \/ Join(c)
           \/ ClearRunning(c) \/ WriteKeysOfStop(c)
    PROVE  TypeOK'
<1>1. /\ caller \in [Callers -> CallStates] /\ caller[c] \in CallStates
      /\ seen \subseteq Keys /\ thread \in Threads \cup {Nobody}
  BY DEF TypeOK
<1>2. ASSUME NEW at \in {"idle", "spawn", "foreground", "look", "join", "flag", "write"}
      PROVE  [caller EXCEPT ![c].at = at] \in [Callers -> CallStates]
  BY <1>1 DEF CallStates
<1>3. ASSUME NEW at \in {"idle", "spawn", "foreground", "look", "join", "flag", "write"},
             NEW waits \in Threads \cup {Nobody}
      PROVE  [caller EXCEPT ![c].at = at, ![c].waits = waits] \in [Callers -> CallStates]
  BY <1>1 DEF CallStates
<1>4. CASE BeginStart(c)
  <2>1. caller' \in [Callers -> CallStates] /\ late' \in [Threads -> Nat]
    BY <1>2, <1>4 DEF BeginStart, Move, TypeOK
  <2>2. executed' \in [Keys -> Nat] /\ use' \in {"regular", "unsaved", "overlapped"}
    BY <1>4 DEF BeginStart, Note, TypeOK
  <2>. QED  BY <1>4, <2>1, <2>2 DEF BeginStart, keys, TypeOK
<1>5. ASSUME NEW t \in Threads, Spawn(c, t) PROVE TypeOK'
  <2>1. caller' \in [Callers -> CallStates]
    <3>1. CASE Move(c, "idle")
      BY <1>2, <3>1 DEF Move
    <3>2. CASE caller' = [caller EXCEPT ![c].at = "foreground", ![c].waits = t]
      BY <1>3, <3>2
    <3>. QED  BY <1>5, <3>1, <3>2 DEF Spawn
  <2>2. worker' \in [Threads -> Workers]
    BY <1>5 DEF Spawn, TypeOK, Workers
  <2>3. thread' \in Threads \cup {Nobody} /\ lock' \in Callers \cup {Nobody}
    BY <1>1, <1>5 DEF Spawn, TypeOK
  <2>. QED  BY <1>5, <2>1, <2>2, <2>3 DEF Spawn, keys, history, TypeOK
<1>6. CASE ReturnForeground(c)
  <2>1. caller' \in [Callers -> CallStates]
    BY <1>1, <1>6, RecordsTyped DEF ReturnForeground
  <2>. QED  BY <1>6, <2>1 DEF ReturnForeground, keys, history, TypeOK
<1>7. CASE BeginStop(c)
  <2>1. caller' \in [Callers -> CallStates]
    BY <1>2, <1>7 DEF BeginStop, Move
  <2>2. executed' \in [Keys -> Nat] /\ use' \in {"regular", "unsaved", "overlapped"}
    BY <1>7 DEF BeginStop, Note, TypeOK
  <2>. QED  BY <1>7, <2>1, <2>2 DEF BeginStop, keys, TypeOK
<1>8. CASE LookAtThread(c)
  <2>1. caller' \in [Callers -> CallStates]
    <3>1. CASE Move(c, "flag")
      BY <1>2, <3>1 DEF Move
    <3>2. CASE caller' = [caller EXCEPT ![c].at = "join", ![c].waits = thread]
      BY <1>1, <1>3, <3>2
    <3>. QED  BY <1>8, <3>1, <3>2 DEF LookAtThread
  <2>. QED  BY <1>8, <2>1 DEF LookAtThread, control, keys, history, TypeOK
<1>9. CASE Join(c)
  <2>1. caller' \in [Callers -> CallStates]
    BY <1>3, <1>9 DEF Join
  <2>2. executed' \in [Keys -> Nat] /\ use' \in {"regular", "unsaved", "overlapped"}
    BY <1>9 DEF Join, Note, TypeOK
  <2>. QED  BY <1>9, <2>1, <2>2 DEF Join, control, keys, TypeOK
<1>10. CASE ClearRunning(c)
  <2>1. caller' \in [Callers -> CallStates]
    BY <1>1, <1>10 DEF ClearRunning, CallStates
  <2>2. executed' \in [Keys -> Nat] /\ use' \in {"regular", "unsaved", "overlapped"}
    BY <1>10 DEF ClearRunning, Note, TypeOK
  <2>. QED  BY <1>10, <2>1, <2>2 DEF ClearRunning, keys, TypeOK
<1>11. CASE WriteKeysOfStop(c)
  <2>1. caller' \in [Callers -> CallStates] /\ file' \subseteq Keys
    BY <1>1, <1>11, RecordsTyped DEF WriteKeysOfStop, CallStates
  <2>. QED  BY <1>11, <2>1 DEF WriteKeysOfStop, control, history, TypeOK
<1>. QED  BY <1>4, <1>5, <1>6, <1>7, <1>8, <1>9, <1>10, <1>11

\* A restart keeps the types.
LEMMA RestartTyped ==
    ASSUME TypeOK, Restart
    PROVE  TypeOK'
<1>1. worker' \in [Threads -> Workers] /\ caller' \in [Callers -> CallStates]
  BY RecordsTyped DEF Restart
<1>2. file' \subseteq Keys /\ seen' \subseteq Keys
  BY DEF Restart, TypeOK
<1>3. executed' \in [Keys -> Nat] /\ use' \in {"regular", "unsaved", "overlapped"}
  BY DEF Restart, Note, TypeOK
<1>. QED  BY <1>1, <1>2, <1>3 DEF Restart, TypeOK

-----------------------------------------------------------------------------
(* Who drives, and what a thread carries *)

\* What every step of a thread leaves alone: the calls, the other threads; and no step
\* of a thread begins a drive or clears the flag and goes on driving.
LEMMA ThreadFrame ==
    ASSUME TypeOK, NEW t \in Threads, ThreadStep(t)
    PROVE  /\ UNCHANGED <<stop, lock, thread, caller, use>>
           /\ \A u \in Threads : u # t => worker'[u] = worker[u]
           /\ Alive(t)
           /\ Driving(t)' => Driving(t) /\ running' = running
           /\ ~Driving(t) => running' = running
<1>1. worker \in [Threads -> Workers]
  BY DEF TypeOK
<1>2. CASE BeginCycle(t)
  BY <1>1, <1>2 DEF BeginCycle, Goto, control, history, Driving, Alive
<1>3. CASE Lookup(t)
  BY <1>1, <1>3 DEF Lookup, Goto, EndCycle, Ended, control, history, Driving, Alive
<1>4. CASE OrderExecuted(t)
  BY <1>1, <1>4 DEF OrderExecuted, Goto, control, Driving, Alive
<1>5. CASE OrderNotExecuted(t)
  BY <1>1, <1>5 DEF OrderNotExecuted, EndCycle, Ended, control, history, Driving, Alive
<1>6. CASE AddKey(t)
  BY <1>1, <1>6 DEF AddKey, EndCycle, Ended, control, history, Driving, Alive
<1>7. CASE CopyKeys(t)
  BY <1>1, <1>7 DEF CopyKeys, control, history, Driving, Alive
<1>8. CASE WriteKeys(t)
  BY <1>1, <1>8 DEF WriteKeys, Ended, control, history, Driving, Alive
<1>9. CASE Wait(t)
  BY <1>1, <1>9 DEF Wait, Goto, control, history, Driving, Alive
<1>10. CASE Finish(t)
  BY <1>1, <1>10 DEF Finish, Goto, history, Driving, Alive
<1>. QED  BY <1>2, <1>3, <1>4, <1>5, <1>6, <1>7, <1>8, <1>9, <1>10 DEF ThreadStep

\* A thread has a key from its look-up until it adds it.
LEMMA ThreadKeys ==
    ASSUME TypeOK, KeysKnown, NEW t \in Threads, ThreadStep(t)
    PROVE  KeysKnown'
<1>1. worker \in [Threads -> Workers]
  BY DEF TypeOK
<1>2. worker'[t].at \in {"lookup", "order", "add"} => worker'[t].key \in Keys
  <2>1. CASE BeginCycle(t)
    BY <1>1, <2>1 DEF BeginCycle, Goto, Workers
  <2>2. CASE Lookup(t)
    BY <1>1, <2>2 DEF Lookup, Goto, EndCycle, Ended, KeysKnown, Workers
  <2>3. CASE OrderExecuted(t)
    BY <1>1, <2>3 DEF OrderExecuted, Goto, KeysKnown
  <2>4. CASE OrderNotExecuted(t) \/ AddKey(t)
    BY <1>1, <2>4 DEF OrderNotExecuted, AddKey, EndCycle, Ended
  <2>5. CASE CopyKeys(t) \/ WriteKeys(t)
    BY <1>1, <2>5 DEF CopyKeys, WriteKeys, Ended, Workers
  <2>6. CASE Wait(t) \/ Finish(t)
    BY <1>1, <2>6 DEF Wait, Finish, Goto, Workers
  <2>. QED  BY <2>1, <2>2, <2>3, <2>4, <2>5, <2>6 DEF ThreadStep
<1>. QED  BY <1>2, ThreadFrame DEF KeysKnown

\* After a stop a thread begins no cycle, so it has at most the order of the one it is in.
LEMMA ThreadLate ==
    ASSUME TypeOK, LateCounted, NEW t \in Threads, ThreadStep(t)
    PROVE  LateCounted'
<1>1. worker \in [Threads -> Workers] /\ late \in [Threads -> Nat]
  BY DEF TypeOK
<1>2. CASE OrderExecuted(t)
  <2>1. worker'[t].at = "add" /\ \A u \in Threads : u # t => worker'[u] = worker[u]
    BY <1>1, <1>2 DEF OrderExecuted, Goto
  <2>2. /\ stop' = stop /\ worker[t].at = "order"
        /\ late'[t] = IF stop THEN late[t] + 1 ELSE late[t]
        /\ \A u \in Threads : u # t => late'[u] = late[u]
    BY <1>1, <1>2 DEF OrderExecuted, control
  <2>. QED  BY <1>1, <2>1, <2>2 DEF LateCounted
<1>3. CASE ~OrderExecuted(t)
  <2>1. late' = late
    BY <1>3 DEF ThreadStep, BeginCycle, Lookup, OrderNotExecuted, AddKey, CopyKeys,
                WriteKeys, Wait, Finish, history
  <2>2. worker'[t].at \in {"lookup", "order"} /\ stop => worker[t].at \in {"lookup", "order"}
    <3>1. CASE BeginCycle(t)
      BY <1>1, <3>1 DEF BeginCycle, Goto, StopSeen, Workers
    <3>2. CASE Lookup(t)
      BY <1>1, <3>2 DEF Lookup, Goto, EndCycle, Ended
    <3>3. CASE OrderNotExecuted(t) \/ AddKey(t)
      BY <1>1, <3>3 DEF OrderNotExecuted, AddKey, EndCycle, Ended
    <3>4. CASE CopyKeys(t) \/ WriteKeys(t)
      BY <1>1, <3>4 DEF CopyKeys, WriteKeys, Ended, Workers
    <3>5. CASE Wait(t) \/ Finish(t)
      BY <1>1, <3>5 DEF Wait, Finish, Goto, Workers
    <3>. QED  BY <1>3, <3>1, <3>2, <3>3, <3>4, <3>5 DEF ThreadStep
  <2>. QED  BY <1>1, <2>1, <2>2, ThreadFrame DEF LateCounted
<1>. QED  BY <1>2, <1>3

\* A thread that ends its drive leaves the flag to nobody; the others stay what they are.
LEMMA ThreadOrderly ==
    ASSUME TypeOK, Orderly, NEW t \in Threads, ThreadStep(t)
    PROVE  Orderly'
<1>1. /\ UNCHANGED <<stop, lock, thread, caller, use>>
      /\ \A u \in Threads : u # t => worker'[u] = worker[u]
      /\ Alive(t)
      /\ Driving(t)' => Driving(t) /\ running' = running
      /\ ~Driving(t) => running' = running
  BY ThreadFrame
<1>2. \A u \in Threads : Driving(u)' => Driving(u) /\ running' = running
  BY <1>1 DEF Orderly, Driving
<1>3. \A u, v \in Threads : Driving(u)' /\ Driving(v)' => u = v
  BY <1>2 DEF Orderly
<1>4. \A u \in Threads :
          Driving(u)' => \/ u = thread /\ running'
                         \/ \E c \in Callers : caller[c].at = "foreground" /\ caller[c].waits = u
  BY <1>2 DEF Orderly
<1>5. \A c \in Callers :
          caller[c].at = "spawn" => /\ running'
                                    /\ \A u \in Threads : ~Driving(u)'
                                    /\ \A d \in Callers : ~Stopping(d)
  BY <1>1, <1>2 DEF Orderly
<1>6. \A u \in Threads : ~Alive(u) => ~Alive(u)'
  BY <1>1 DEF Alive
<1>. QED  BY <1>1, <1>3, <1>4, <1>5, <1>6 DEF Orderly, Stopping

-----------------------------------------------------------------------------
(* Where the key of an executed order is *)

\* The thread takes the key from the order to memory and from memory to the file before
\* it drives another cycle; while it does, it is the only one.
LEMMA ThreadRegular ==
    ASSUME TypeOK, KeysKnown, Orderly, Regular, use = "regular",
           NEW t \in Threads, ThreadStep(t)
    PROVE  Regular'
<1>1. /\ worker \in [Threads -> Workers] /\ worker[t] \in Workers
      /\ executed \in [Keys -> Nat]
  BY DEF TypeOK
<1>2. /\ caller' = caller /\ \A u \in Threads : u # t => worker'[u] = worker[u]
      /\ Driving(t)' => Driving(t)
  BY ThreadFrame
<1>3. \A u \in Threads : Driving(t) /\ u # t => ~Driving(u)
  BY DEF Orderly
<1>4. Driving(t) => /\ ~Saving
                    /\ \A u \in Threads : worker[u].at \notin {"copy", "write"}
                    /\ \A c \in Callers : caller[c].at \notin {"write", "spawn"}
  BY DEF Regular, Saving, Orderly
<1>5. ASSUME Saving'
      PROVE  /\ \A u \in Threads : ~Driving(u)'
             /\ \A c \in Callers : caller'[c].at # "spawn"
  <2>1. CASE Saving
    BY <1>2, <2>1 DEF Regular, Driving
  <2>2. CASE ~Saving
    <3>1. worker'[t].at \in {"copy", "write"} /\ worker[t].at \notin {"copy", "write"}
      BY <1>2, <1>5, <2>2 DEF Saving
    <3>2. Driving(t) /\ ~Driving(t)'
      BY <3>1, ThreadFrame DEF Driving, Alive
    <3>. QED  BY <1>2, <1>3, <1>4, <3>2 DEF Driving
  <2>. QED  BY <2>1, <2>2
<1>6. CASE BeginCycle(t) \/ Wait(t) \/ Finish(t)
  <2>1. /\ worker'[t].at \in {"finish", "lookup", "loop", "copy"}
        /\ worker[t].at \in {"loop", "wait", "finish"}
        /\ UNCHANGED <<seen, file, executed>>
    BY <1>1, <1>6 DEF BeginCycle, Wait, Finish, Goto, Workers, control, keys, history
  <2>. QED  BY <1>2, <1>5, <2>1 DEF Regular, Traded
<1>7. CASE Lookup(t)
  <2>1. /\ worker[t].at = "lookup" /\ Driving(t)
        /\ worker'[t].at = "order" => worker[t].key \notin seen /\ worker'[t].key = worker[t].key
        /\ worker'[t].at \in {"order", "cyclecopy"}
        /\ UNCHANGED <<seen, file, executed>>
    BY <1>1, <1>7 DEF Lookup, Goto, EndCycle, Ended, Workers, keys, history, Driving
  <2>2. \A u \in Threads : worker[u].at \notin {"add", "order"}
    BY <1>3, <2>1 DEF Driving
  <2>3. worker'[t].at = "order" => ~Traded(worker[t].key)
    BY <2>1, <2>2 DEF Regular, KeysKnown
  <2>. QED  BY <1>2, <1>5, <2>1, <2>2, <2>3 DEF Regular, Traded
<1>8. CASE OrderExecuted(t)
  <2> DEFINE k == worker[t].key
  <2>1. /\ worker[t].at = "order" /\ Driving(t) /\ k \in Keys
        /\ worker'[t].at = "add" /\ worker'[t].key = k
        /\ executed' = [executed EXCEPT ![k] = @ + 1]
        /\ UNCHANGED <<seen, file>>
    BY <1>1, <1>8 DEF OrderExecuted, Goto, Workers, keys, KeysKnown, Driving
  <2>2. executed[k] = 0
    BY <1>1, <2>1 DEF Regular, Traded
  <2>3. executed'[k] = 1 /\ \A j \in Keys : j # k => executed'[j] = executed[j]
    BY <1>1, <2>1, <2>2
  <2>4. \A u \in Threads : worker[u].at \notin {"add", "cyclecopy", "cyclewrite", "write"}
    BY <1>3, <1>4, <2>1 DEF Driving
  <2>5. \A u \in Threads : worker'[u].at \notin {"cyclewrite", "write", "order"}
    <3>1. \A u \in Threads : u # t => worker[u].at # "order"
      BY <1>3, <2>1 DEF Driving
    <3>. QED  BY <1>2, <2>1, <2>4, <3>1
  <2>6. \A j \in Keys : j # k => (Traded(j)' <=> Traded(j))
    BY <2>3 DEF Traded
  <2>7. \A j \in Keys : Traded(j) => executed[j] = 1 /\ j \in seen /\ j \in file
    BY <2>4 DEF Regular
  <2>8. \A j \in Keys : Traded(j)' =>
            /\ executed'[j] = 1
            /\ j \in seen \/ (worker'[t].at = "add" /\ worker'[t].key = j)
            /\ j \in file \/ worker'[t].at = "add"
    BY <2>1, <2>3, <2>6, <2>7
  <2>9. \A c \in Callers : caller'[c].at # "write"
    BY <1>2, <1>4, <2>1
  <2>. QED  BY <1>5, <2>1, <2>5, <2>8, <2>9 DEF Regular
<1>9. CASE OrderNotExecuted(t)
  <2>1. /\ worker[t].at = "order" /\ worker'[t].at = "cyclecopy"
        /\ UNCHANGED <<seen, file, executed>>
    BY <1>1, <1>9 DEF OrderNotExecuted, EndCycle, Ended, keys, history
  <2>. QED  BY <1>2, <1>5, <2>1 DEF Regular, Traded
<1>10. CASE AddKey(t)
  <2>1. /\ worker[t].at = "add" /\ worker'[t].at = "cyclecopy" /\ Driving(t)
        /\ seen' = seen \cup {worker[t].key}
        /\ UNCHANGED <<file, executed>>
    BY <1>1, <1>10 DEF AddKey, EndCycle, Ended, history, Driving
  <2>2. \A u \in Threads : worker'[u].at \notin {"cyclewrite", "write", "order"}
    BY <1>2, <1>3, <1>4, <2>1 DEF Driving
  <2>3. \A k \in Keys : Traded(k) => executed[k] = 1 /\ k \in seen'
    BY <1>3, <2>1 DEF Regular, Driving
  <2>4. \A c \in Callers : caller'[c].at # "write"
    BY <1>2, <1>4, <2>1
  <2>. QED  BY <1>5, <2>1, <2>2, <2>3, <2>4 DEF Regular, Traded
<1>11. CASE CopyKeys(t)
  <2>1. /\ worker[t].at \in {"cyclecopy", "copy"}
        /\ worker'[t].at = IF worker[t].at = "cyclecopy" THEN "cyclewrite" ELSE "write"
        /\ worker'[t].copy = seen
        /\ UNCHANGED <<seen, file, executed>>
    BY <1>1, <1>11 DEF CopyKeys, Workers, keys, history
  <2>. QED  BY <1>2, <1>5, <2>1 DEF Regular, Traded
<1>12. CASE WriteKeys(t)
  <2>1. /\ worker[t].at \in {"cyclewrite", "write"}
        /\ worker'[t].at \in {"wait", "ended"}
        /\ file' = worker[t].copy
        /\ UNCHANGED <<seen, executed>>
    BY <1>1, <1>12 DEF WriteKeys, Written, Ended, history
  <2>2. file' = seen
    BY <2>1 DEF Regular
  <2>3. \A u \in Threads : worker[u].at \notin {"add", "order"}
    BY <1>3, <2>1 DEF Regular, Driving, Saving
  <2>. QED  BY <1>2, <1>5, <2>1, <2>2, <2>3 DEF Regular, Traded
<1>. QED  BY <1>6, <1>7, <1>8, <1>9, <1>10, <1>11, <1>12 DEF ThreadStep

-----------------------------------------------------------------------------
(* The callers *)

CallerStep(c) ==
    \/ BeginStart(c) \/ (\E t \in Threads : Spawn(c, t)) \/ ReturnForeground(c)
    \/ BeginStop(c) \/ LookAtThread(c) \/ Join(c)
    \/ ClearRunning(c) \/ WriteKeysOfStop(c)

\* What every step of a caller leaves alone: the other callers, and the threads, unless
\* it spawns one.  The use never gets better.
LEMMA CallerFrame ==
    ASSUME TypeOK, NEW c \in Callers, CallerStep(c)
    PROVE  /\ \A d \in Callers : d # c => caller'[d] = caller[d]
           /\ (\A t \in Threads : ~Spawn(c, t)) => worker' = worker /\ thread' = thread
           /\ seen' = seen
           /\ use' # "overlapped" => use # "overlapped"
           /\ use' = "regular" => use = "regular" /\ executed' = executed
<1>1. caller \in [Callers -> CallStates] /\ use \in {"regular", "unsaved", "overlapped"}
  BY DEF TypeOK
<1>2. CASE BeginStart(c)
  BY <1>1, <1>2 DEF BeginStart, Move, Note, keys
<1>3. CASE \E t \in Threads : Spawn(c, t)
  BY <1>1, <1>3 DEF Spawn, Move, history, keys
<1>4. CASE ReturnForeground(c)
  BY <1>1, <1>4 DEF ReturnForeground, history, keys
<1>5. CASE BeginStop(c)
  BY <1>1, <1>5 DEF BeginStop, Move, Note, keys
<1>6. CASE LookAtThread(c)
  BY <1>1, <1>6 DEF LookAtThread, Move, control, history, keys
<1>7. CASE Join(c)
  BY <1>1, <1>7 DEF Join, Note, control, keys
<1>8. CASE ClearRunning(c)
  BY <1>1, <1>8 DEF ClearRunning, Note, keys
<1>9. CASE WriteKeysOfStop(c)
  BY <1>1, <1>9 DEF WriteKeysOfStop, control, history
<1>. QED  BY <1>2, <1>3, <1>4, <1>5, <1>6, <1>7, <1>8, <1>9 DEF CallerStep

\* start takes the lock and keeps it until its thread is in the background or at its end.
LEMMA CallerLock ==
    ASSUME TypeOK, LockHeld, NEW c \in Callers, CallerStep(c)
    PROVE  LockHeld'
<1>1. caller \in [Callers -> CallStates] /\ Nobody \notin Callers
  BY NobodyAssumption DEF TypeOK
<1>2. \A d \in Callers : d # c => caller'[d] = caller[d]
  BY CallerFrame
<1>3. CASE BeginStart(c)
  BY <1>1, <1>2, <1>3 DEF BeginStart, LockHeld
<1>4. ASSUME NEW t \in Threads, Spawn(c, t) PROVE LockHeld'
  <2>1. lock = c
    BY <1>4 DEF Spawn, LockHeld
  <2>2. \/ caller'[c].at = "idle"
        \/ lock' = lock
    BY <1>1, <1>4 DEF Spawn, Move, CallStates
  <2>. QED  BY <1>2, <2>1, <2>2 DEF LockHeld
<1>5. CASE ReturnForeground(c)
  <2>1. lock = c /\ caller'[c].at = "idle"
    BY <1>1, <1>5 DEF ReturnForeground, Returned, LockHeld
  <2>. QED  BY <1>2, <2>1 DEF LockHeld
<1>6. ASSUME lock' = lock, caller'[c].at \notin {"spawn", "foreground"} PROVE LockHeld'
  BY <1>2, <1>6 DEF LockHeld
<1>7. CASE BeginStop(c) \/ LookAtThread(c)
  <2>1. CASE BeginStop(c)
    BY <1>1, <1>6, <2>1 DEF BeginStop, Move, control, CallStates
  <2>2. CASE LookAtThread(c)
    BY <1>1, <1>6, <2>2 DEF LookAtThread, Move, control, CallStates
  <2>. QED  BY <1>7, <2>1, <2>2
<1>8. CASE Join(c)
  BY <1>1, <1>6, <1>8 DEF Join, control, CallStates
<1>9. CASE ClearRunning(c)
  BY <1>1, <1>6, <1>9 DEF ClearRunning, CallStates
<1>10. CASE WriteKeysOfStop(c)
  BY <1>1, <1>6, <1>10 DEF WriteKeysOfStop, Returned, control
<1>. QED  BY <1>3, <1>4, <1>5, <1>7, <1>8, <1>9, <1>10 DEF CallerStep

\* A spawned thread has no cycle yet.
LEMMA CallerKeys ==
    ASSUME TypeOK, KeysKnown, NEW c \in Callers, CallerStep(c)
    PROVE  KeysKnown'
<1>1. ASSUME NEW t \in Threads, Spawn(c, t) PROVE KeysKnown'
  BY <1>1 DEF Spawn, KeysKnown, TypeOK, Workers
<1>2. CASE \A t \in Threads : ~Spawn(c, t)
  BY <1>2, CallerFrame DEF KeysKnown
<1>. QED  BY <1>1, <1>2

\* start and stop begin the count of the late orders anew.
LEMMA CallerLate ==
    ASSUME TypeOK, LateCounted, NEW c \in Callers, CallerStep(c)
    PROVE  LateCounted'
<1>1. CASE BeginStart(c)
  BY <1>1 DEF BeginStart, LateCounted
<1>2. CASE BeginStop(c)
  BY <1>2 DEF BeginStop, LateCounted
<1>3. ASSUME NEW t \in Threads, Spawn(c, t) PROVE LateCounted'
  <2>1. /\ \A u \in Threads : u # t => worker'[u] = worker[u]
        /\ worker'[t].at = "loop"
        /\ stop' = stop /\ late' = late
    BY <1>3 DEF Spawn, history, TypeOK, Workers
  <2>2. \A u \in Threads : stop => late[u] <= 1
    BY DEF LateCounted, TypeOK
  <2>. QED  BY <2>1, <2>2 DEF LateCounted
<1>4. ASSUME UNCHANGED <<stop, late, worker>> PROVE LateCounted'
  BY <1>4 DEF LateCounted
<1>5. CASE ReturnForeground(c) \/ LookAtThread(c) \/ Join(c)
  BY <1>4, <1>5 DEF ReturnForeground, LookAtThread, Join, control, history
<1>6. CASE ClearRunning(c) \/ WriteKeysOfStop(c)
  BY <1>4, <1>6 DEF ClearRunning, WriteKeysOfStop, control, history
<1>. QED  BY <1>1, <1>2, <1>3, <1>5, <1>6 DEF CallerStep

\* start finds no thread when the flag is clear and no stop is under way; stop clears the
\* flag when the thread it saw has ended.
LEMMA CallerOrderly ==
    ASSUME TypeOK, LockHeld, Orderly, NEW c \in Callers, CallerStep(c),
           use' # "overlapped"
    PROVE  Orderly'
<1>1. /\ caller \in [Callers -> CallStates] /\ caller[c] \in CallStates
      /\ worker \in [Threads -> Workers]
      /\ Nobody \notin Callers /\ Nobody \notin Threads
  BY NobodyAssumption DEF TypeOK
<1>2. \A d \in Callers : d # c => caller'[d] = caller[d]
  BY CallerFrame
<1>3. CASE BeginStart(c)
  <2>1. /\ lock = Nobody /\ ~running /\ running'
        /\ caller'[c].at = "spawn"
        /\ UNCHANGED <<thread, worker>>
    BY <1>1, <1>3 DEF BeginStart, Move, CallStates
  <2>2. \A d \in Callers : ~Stopping(d)
    BY <1>3 DEF BeginStart, Note, Stopping
  <2>3. \A t \in Threads : ~Driving(t)
    BY <1>1, <2>1 DEF Orderly, LockHeld
  <2>4. (\A t \in Threads : ~Driving(t)') /\ (\A d \in Callers : ~Stopping(d)')
    BY <1>2, <2>1, <2>2, <2>3 DEF Driving, Stopping
  <2>. QED  BY <2>1, <2>4 DEF Orderly, Stopping
<1>4. ASSUME NEW t \in Threads, Spawn(c, t) PROVE Orderly'
  <2>1. /\ caller[c].at = "spawn" /\ running' = running
        /\ worker'[t].at = "loop"
        /\ \A u \in Threads : u # t => worker'[u] = worker[u]
    BY <1>1, <1>4 DEF Spawn, Workers
  <2>2. /\ running /\ \A u \in Threads : ~Driving(u)
        /\ \A d \in Callers : ~Stopping(d)
    BY <2>1 DEF Orderly
  <2>3. \A d \in Callers : d # c => caller[d].at # "spawn"
    BY <2>1 DEF LockHeld
  <2>4. \/ thread' = t /\ caller'[c].at = "idle"
        \/ caller'[c].at = "foreground" /\ caller'[c].waits = t
    BY <1>1, <1>4 DEF Spawn, Move, CallStates
  <2>5. \A u \in Threads : Driving(u)' => u = t
    BY <2>1, <2>2 DEF Driving
  <2>6. \A d \in Callers : caller'[d].at # "spawn" /\ ~Stopping(d)'
    BY <1>2, <2>2, <2>3, <2>4 DEF Stopping
  <2>. QED  BY <2>1, <2>2, <2>4, <2>5, <2>6 DEF Orderly, Stopping
<1>5. CASE ReturnForeground(c)
  <2>1. /\ caller[c].at = "foreground" /\ ~Driving(caller[c].waits)
        /\ caller'[c].at = "idle"
        /\ UNCHANGED <<running, thread, worker>>
    BY <1>1, <1>5 DEF ReturnForeground, Returned, Alive, Driving
  <2>2. \A t \in Threads : Driving(t)' <=> Driving(t)
    BY <2>1 DEF Driving
  <2>3. \A d \in Callers : Stopping(d)' <=> Stopping(d)
    BY <1>2, <2>1 DEF Stopping
  <2>4. \A t \in Threads : Alive(t)' <=> Alive(t)
    BY <2>1 DEF Alive
  <2>. QED  BY <1>2, <2>1, <2>2, <2>3, <2>4 DEF Orderly
<1>6. CASE BeginStop(c)
  <2>1. /\ caller[c].at = "idle" /\ caller'[c].at = "look"
        /\ \A d \in Callers : caller[d].at # "spawn"
        /\ UNCHANGED <<running, thread, worker>>
    BY <1>1, <1>6 DEF BeginStop, Move, Note, CallStates
  <2>. QED  BY <1>2, <2>1 DEF Orderly, Driving, Alive
<1>7. CASE LookAtThread(c)
  <2>1. /\ caller[c].at = "look"
        /\ \/ caller'[c].at = "join" /\ caller'[c].waits = thread
           \/ caller'[c].at = "flag" /\ \A t \in Threads : t = thread => ~Alive(t)
        /\ UNCHANGED <<running, thread, worker>>
    BY <1>1, <1>7 DEF LookAtThread, Move, CallStates, control
  <2>2. \A d \in Callers : caller[d].at # "spawn"
    BY <2>1 DEF Orderly, Stopping
  <2>. QED  BY <1>2, <2>1, <2>2 DEF Orderly, Driving, Alive
<1>8. CASE Join(c)
  <2>1. /\ caller[c].at = "join" /\ caller'[c].at = "flag"
        /\ ~Alive(caller[c].waits)
        /\ UNCHANGED <<running, thread, worker>>
    BY <1>1, <1>8 DEF Join, Note, CallStates, control
  <2>2. \A d \in Callers : caller[d].at # "spawn"
    BY <2>1 DEF Orderly, Stopping
  <2>3. caller[c].waits = thread
    BY <2>1 DEF Orderly
  <2>. QED  BY <1>2, <2>1, <2>2, <2>3 DEF Orderly, Driving, Alive
<1>9. CASE ClearRunning(c)
  <2>1. /\ caller[c].at = "flag" /\ caller'[c].at = "write"
        /\ UNCHANGED <<thread, worker>>
    BY <1>1, <1>9 DEF ClearRunning, CallStates
  <2>2. \A d \in Callers : caller[d].at # "spawn"
    BY <2>1 DEF Orderly, Stopping
  <2>3. \A t \in Threads : t = thread => ~Driving(t)
    BY <2>1 DEF Orderly, Alive, Driving
  <2>. QED  BY <1>2, <2>1, <2>2, <2>3 DEF Orderly, Driving, Alive
<1>10. CASE WriteKeysOfStop(c)
  <2>1. /\ caller[c].at = "write" /\ caller'[c].at = "idle"
        /\ UNCHANGED <<running, thread, worker>>
    BY <1>1, <1>10 DEF WriteKeysOfStop, Returned, control
  <2>. QED  BY <1>2, <2>1 DEF Orderly, Driving, Alive, Stopping
<1>. QED  BY <1>3, <1>4, <1>5, <1>6, <1>7, <1>8, <1>9, <1>10 DEF CallerStep

\* What stop writes are the keys in memory, and none is added meanwhile.
LEMMA CallerRegular ==
    ASSUME TypeOK, Orderly, Regular, NEW c \in Callers, CallerStep(c), use' = "regular"
    PROVE  Regular'
<1>1. /\ caller \in [Callers -> CallStates] /\ caller[c] \in CallStates
      /\ worker \in [Threads -> Workers] /\ use # "overlapped"
  BY CallerFrame DEF TypeOK
<1>2. /\ \A d \in Callers : d # c => caller'[d] = caller[d]
      /\ seen' = seen /\ executed' = executed
  BY CallerFrame
<1>3. CASE BeginStart(c)
  <2>1. /\ caller'[c].at = "spawn" /\ UNCHANGED <<worker, file>>
        /\ ~Saving
    BY <1>1, <1>3 DEF BeginStart, Move, Note, keys, CallStates
  <2>2. ~Saving'
    BY <1>2, <2>1 DEF Saving
  <2>. QED  BY <1>2, <2>1, <2>2 DEF Regular, Traded
<1>4. ASSUME NEW t \in Threads, Spawn(c, t) PROVE Regular'
  <2>1. /\ caller[c].at = "spawn" /\ caller'[c].at \in {"idle", "foreground"}
        /\ worker[t].at = "ended" /\ worker'[t].at = "loop"
        /\ \A u \in Threads : u # t => worker'[u] = worker[u]
        /\ file' = file
    BY <1>1, <1>4 DEF Spawn, Move, Unused, Alive, keys, CallStates, Workers
  <2>2. ~Saving
    BY <2>1 DEF Regular
  <2>3. ~Saving'
    BY <1>2, <2>1, <2>2 DEF Saving
  <2>. QED  BY <1>2, <2>1, <2>3 DEF Regular, Traded
<1>5. ASSUME UNCHANGED <<worker, file>>,
             caller[c].at # "write", caller'[c].at \notin {"write", "spawn"}
      PROVE  Regular'
  <2>1. Saving' => Saving
    BY <1>2, <1>5 DEF Saving
  <2>. QED  BY <1>2, <1>5, <2>1 DEF Regular, Traded, Driving
<1>6. CASE ReturnForeground(c)
  BY <1>1, <1>5, <1>6 DEF ReturnForeground, Returned, keys
<1>7. CASE BeginStop(c)
  BY <1>1, <1>5, <1>7 DEF BeginStop, Move, keys, CallStates
<1>8. CASE LookAtThread(c)
  BY <1>1, <1>5, <1>8 DEF LookAtThread, Move, keys, CallStates
<1>9. CASE Join(c)
  BY <1>1, <1>5, <1>9 DEF Join, keys, CallStates
<1>10. CASE ClearRunning(c)
  <2>1. /\ caller[c].at = "flag" /\ caller'[c].at = "write" /\ caller'[c].copy = seen
        /\ \A t \in Threads : ~Alive(t)
        /\ UNCHANGED <<worker, file>>
    BY <1>1, <1>10 DEF ClearRunning, Note, keys, CallStates
  <2>2. \A d \in Callers : caller[d].at # "spawn"
    BY <2>1 DEF Orderly, Stopping
  <2>. QED  BY <1>2, <2>1, <2>2 DEF Regular, Traded, Driving, Alive
<1>11. CASE WriteKeysOfStop(c)
  <2>1. /\ caller[c].at = "write" /\ caller'[c].at = "idle" /\ file' = caller[c].copy
        /\ worker' = worker
    BY <1>1, <1>11 DEF WriteKeysOfStop, Returned
  <2>2. file' = seen /\ Saving
    BY <2>1 DEF Regular, Saving
  <2>3. \A u \in Threads : worker[u].at \notin {"add", "cyclecopy", "cyclewrite"}
    BY <2>2 DEF Regular, Driving
  <2>4. \A d \in Callers : caller'[d].at # "spawn"
    BY <1>2, <2>1, <2>2 DEF Regular
  <2>5. \A u \in Threads : ~Driving(u)'
    BY <2>1, <2>2 DEF Regular, Driving
  <2>. QED  BY <1>2, <2>1, <2>2, <2>3, <2>4, <2>5 DEF Regular, Traded
<1>. QED  BY <1>3, <1>4, <1>6, <1>7, <1>8, <1>9, <1>10, <1>11 DEF CallerStep

-----------------------------------------------------------------------------
(* The invariant *)

\* A process that ends outside of a cycle and a save has every traded key in the file.
LEMMA RestartKeeps ==
    ASSUME IInv, Restart
    PROVE  /\ LockHeld' /\ KeysKnown' /\ LateCounted' /\ Orderly'
           /\ use' = "regular" => Regular'
<1>1. /\ \A t \in Threads : worker'[t].at = "ended"
      /\ \A c \in Callers : caller'[c].at = "idle"
      /\ ~stop' /\ \A t \in Threads : late'[t] = 0
  BY DEF Restart, Ended, Returned
<1>2. ASSUME use' = "regular" PROVE Regular'
  <2>1. /\ use = "regular" /\ executed' = executed
        /\ ~Saving /\ \A t \in Threads : ~InCycle(t)
        /\ file' = file /\ seen' = file
    BY <1>2 DEF Restart, Note
  <2>2. \A k \in Keys : Traded(k) => executed[k] = 1 /\ k \in file
    BY <2>1 DEF IInv, Regular, InCycle, Driving
  <2>. QED  BY <1>1, <2>1, <2>2 DEF Regular, Traded, Saving
<1>. QED  BY <1>1, <1>2 DEF LockHeld, KeysKnown, LateCounted, Orderly, Driving, Stopping

\* The process begins with the invariant.
LEMMA InitInv == Init => IInv
<1> SUFFICES ASSUME Init PROVE IInv
  OBVIOUS
<1>1. TypeOK
  BY RecordsTyped DEF Init, TypeOK
<1>2. /\ \A t \in Threads : worker[t].at = "ended"
      /\ \A c \in Callers : caller[c].at = "idle"
      /\ ~stop /\ \A t \in Threads : late[t] = 0
      /\ \A k \in Keys : executed[k] = 0
  BY DEF Init, Ended, Returned
<1>3. LockHeld /\ KeysKnown /\ LateCounted /\ Orderly
  BY <1>2 DEF LockHeld, KeysKnown, LateCounted, Orderly, Driving, Stopping
<1>4. Regular
  BY <1>2 DEF Regular, Traded, Saving
<1>. QED  BY <1>1, <1>3, <1>4 DEF IInv

\* Every step keeps the invariant.
LEMMA NextInv == IInv /\ [Next]_vars => IInv'
<1> SUFFICES ASSUME IInv, [Next]_vars PROVE IInv'
  OBVIOUS
<1>1. TypeOK /\ LockHeld /\ KeysKnown /\ LateCounted
  BY DEF IInv
<1>2. ASSUME NEW t \in Threads, ThreadStep(t) PROVE IInv'
  <2>1. TypeOK' /\ KeysKnown' /\ LateCounted'
    BY <1>1, <1>2, ThreadTyped, ThreadKeys, ThreadLate
  <2>2. caller' = caller /\ lock' = lock /\ use' = use
    BY <1>1, <1>2, ThreadFrame
  <2>3. LockHeld'
    BY <1>1, <2>2 DEF LockHeld
  <2>4. use' # "overlapped" => Orderly'
    BY <1>1, <1>2, <2>2, ThreadOrderly DEF IInv
  <2>5. use' = "regular" => Regular'
    <3>1. use = "regular" => Orderly /\ Regular
      BY DEF IInv
    <3>. QED  BY <1>1, <1>2, <2>2, <3>1, ThreadRegular
  <2>. QED  BY <2>1, <2>3, <2>4, <2>5 DEF IInv
<1>3. ASSUME NEW c \in Callers, CallerStep(c) PROVE IInv'
  <2>1. TypeOK' /\ LockHeld' /\ KeysKnown' /\ LateCounted'
    <3>1. TypeOK'
      BY <1>1, <1>3, CallerTyped DEF CallerStep
    <3>. QED  BY <1>1, <1>3, <3>1, CallerLock, CallerKeys, CallerLate
  <2>2. /\ use' # "overlapped" => use # "overlapped"
        /\ use' = "regular" => use = "regular"
    BY <1>1, <1>3, CallerFrame
  <2>3. use' # "overlapped" => Orderly'
    BY <1>1, <1>3, <2>2, CallerOrderly DEF IInv
  <2>4. use' = "regular" => Regular'
    <3>1. use = "regular" => Orderly /\ Regular
      BY DEF IInv
    <3>. QED  BY <1>1, <1>3, <2>2, <3>1, CallerRegular
  <2>. QED  BY <2>1, <2>3, <2>4 DEF IInv
<1>4. CASE Restart
  BY <1>1, <1>4, RestartTyped, RestartKeeps DEF IInv
<1>5. CASE UNCHANGED vars
  <2>1. UNCHANGED <<running, stop, lock, thread, seen, file, worker, caller, executed, late, use>>
    BY <1>5 DEF vars
  <2>2. TypeOK' /\ LockHeld' /\ KeysKnown' /\ LateCounted'
    BY <1>1, <2>1 DEF TypeOK, LockHeld, KeysKnown, LateCounted
  <2>3. (Orderly' <=> Orderly) /\ (Regular' <=> Regular)
    BY <2>1 DEF Orderly, Regular, Driving, Alive, Stopping, Saving, Traded
  <2>. QED  BY <2>1, <2>2, <2>3 DEF IInv
<1>6. CASE Next
  <2>1. \/ \E t \in Threads : ThreadStep(t)
        \/ \E c \in Callers : CallerStep(c)
        \/ Restart
    BY <1>6 DEF Next, CallerStep, Callers
  <2>. QED  BY <1>2, <1>3, <1>4, <2>1
<1>. QED  BY <1>5, <1>6

\* The invariant holds of every reachable state.
LEMMA LoopInv == Spec => []IInv
  BY InitInv, NextInv, PTL DEF Spec

-----------------------------------------------------------------------------
(* The theorems *)

\* Every variable of the loop keeps its type, whoever calls start and stop, when the
\* process ends and what it reads from the file.
THEOREM LoopTyped == Spec => []TypeOK
<1>1. IInv => TypeOK
  BY DEF IInv
<1>. QED  BY LoopInv, <1>1, PTL

\* However many threads and callers there are, one thread at a time drives cycles as long
\* as stop waits for its thread and no start meets a stop: the lock and the flag of the
\* loop are enough, although stop takes no lock.
THEOREM LoopHasOneDriver == Spec => []OneDriver
<1>1. ASSUME IInv PROVE OneDriver
  <2> SUFFICES ASSUME use # "overlapped"
               PROVE  Cardinality({t \in Threads : Driving(t)}) <= 1
    BY DEF OneDriver
  <2> DEFINE D == {t \in Threads : Driving(t)}
  <2>1. \A t, u \in D : t = u
    BY <1>1 DEF IInv, Orderly
  <2>2. CASE D = {}
    BY <2>2, FS_EmptySet
  <2>3. CASE D # {}
    <3>1. PICK t \in D : TRUE
      BY <2>3
    <3>2. D = {t}
      BY <2>1, <3>1
    <3>. QED  BY <3>2, FS_Singleton
  <2>. QED  BY <2>2, <2>3
<1>. QED  BY LoopInv, <1>1, PTL

\* A cycle whose key was traded, before or after a restart, is not traded again: the key
\* reaches the memory before the next look-up and the file before the next cycle, or the
\* use is noted as one where a save may be lost.
THEOREM LoopTradesAKeyOnce == Spec => []OneOrderPerKey
<1>1. IInv => OneOrderPerKey
  BY DEF IInv, Regular, Traded, OneOrderPerKey, TypeOK
<1>. QED  BY LoopInv, <1>1, PTL

\* After stop was called a thread executes at most the order of the cycle it was in, for
\* every number of threads, even those stop gave up waiting for.
THEOREM StopLetsOneOrderThrough == Spec => []LateOrdersBounded
<1>1. IInv => LateOrdersBounded
  BY DEF IInv, LateCounted, LateOrdersBounded, TypeOK
<1>. QED  BY LoopInv, <1>1, PTL
=============================================================================
