---------------------------- MODULE AutonomousLoop ----------------------------
(***************************************************************************)
(* AutonomousPaperLoop (autonomous/loop.py): start, stop, the thread       *)
(* between them, and the file of the keys that were traded.                *)
(*                                                                         *)
(* A key is the minute in which a cycle started, by a clock that may be    *)
(* set; the rest of it is fixed by the configuration.  start holds the     *)
(* lock of the loop, stop and the thread do not.  A foreground start is    *)
(* its caller waiting, with the lock, for a thread that stop does not see. *)
(***************************************************************************)
EXTENDS Integers, FiniteSets

CONSTANTS
    Threads,        \* the threads that may be alive at the same time
    Starters,       \* the threads that call start
    Stoppers,       \* the threads that call stop
    Nobody,
    Keys,
    MayTimeOut      \* join(timeout=5) may return before the thread ends

Callers == Starters \cup Stoppers

ASSUME NobodyAssumption == Nobody \notin Threads \cup Callers \cup Keys
ASSUME TimeOutAssumption == MayTimeOut \in BOOLEAN

VARIABLES
    running,    \* self.running
    stop,       \* self._stop is set
    lock,       \* who holds self._lock
    thread,     \* self._thread
    seen,       \* self.seen_idempotency
    file,       \* the keys in the state file
    worker,     \* each thread: where it is, the key of its cycle, and the
                \* keys it is about to write
    caller,     \* each caller: where it is, the thread it waits for, and the
                \* keys it is about to write
    executed,   \* auxiliary: orders for each key while the use is regular
    late,       \* auxiliary: orders of each thread since stop was called
    use         \* auxiliary: "overlapped" once a join timed out or a start met
                \* a stop, else "unsaved" once a save met another one or a
                \* crash came before it, else "regular"

vars == <<running, stop, lock, thread, seen, file, worker, caller, executed,
          late, use>>
control == <<running, stop, lock, thread>>
keys    == <<seen, file>>
history == <<executed, late, use>>

Ended    == [at |-> "ended", key |-> Nobody, copy |-> {}]
Returned == [at |-> "idle", waits |-> Nobody, copy |-> {}]

Init ==
    /\ running = FALSE
    /\ stop = FALSE
    /\ lock = Nobody
    /\ thread = Nobody
    /\ seen = {}
    /\ file = {}
    /\ worker = [t \in Threads |-> Ended]
    /\ caller = [c \in Callers |-> Returned]
    /\ executed = [k \in Keys |-> 0]
    /\ late = [t \in Threads |-> 0]
    /\ use = "regular"

Alive(t)   == worker[t].at # "ended"
Driving(t) == worker[t].at \notin {"ended", "copy", "write"}
InCycle(t) == Driving(t) /\ worker[t].at \notin {"loop", "wait", "finish"}
Saving ==
    \/ \E t \in Threads : worker[t].at \in {"copy", "write"}
    \/ \E c \in Callers : caller[c].at = "write"

\* What the use becomes when two threads may run, or a save may be lost.
Note(overlap, loss) ==
    /\ use' = IF overlap THEN "overlapped"
              ELSE IF loss /\ use = "regular" THEN "unsaved" ELSE use
    /\ executed' = IF use' = "regular" THEN executed ELSE [k \in Keys |-> 0]

-----------------------------------------------------------------------------
(* The thread: _run around run_once *)

Goto(t, at) == worker' = [worker EXCEPT ![t].at = at]
EndCycle(t) == worker' = [worker EXCEPT ![t] = [Ended EXCEPT !.at = "cyclecopy"]]

\* Mutant: the loop watches the flag, which stop clears at its end.
StopSeen_Flag == ~running

StopSeen == stop

BeginCycle(t) ==
    /\ worker[t].at = "loop"
    /\ IF StopSeen
         THEN Goto(t, "finish")
         ELSE \E k \in Keys :
                  worker' = [worker EXCEPT ![t].at = "lookup", ![t].key = k]
    /\ UNCHANGED <<control, keys, caller, history>>

\* Without market data, or with an error, a cycle ends here as well.
Lookup(t) ==
    /\ worker[t].at = "lookup"
    /\ \/ worker[t].key \notin seen /\ Goto(t, "order")
       \/ EndCycle(t)
    /\ UNCHANGED <<control, keys, caller, history>>

OrderExecuted(t) ==
    /\ worker[t].at = "order"
    /\ executed' = IF use = "regular"
                   THEN [executed EXCEPT ![worker[t].key] = @ + 1] ELSE executed
    /\ late' = [late EXCEPT ![t] = IF stop THEN @ + 1 ELSE @]
    /\ Goto(t, "add")
    /\ UNCHANGED <<control, keys, caller, use>>

\* A plan that is refused, filled in part or failed leaves no key.
OrderNotExecuted(t) ==
    /\ worker[t].at = "order"
    /\ EndCycle(t)
    /\ UNCHANGED <<control, keys, caller, history>>

AddKey(t) ==
    /\ worker[t].at = "add"
    /\ seen' = seen \cup {worker[t].key}
    /\ EndCycle(t)
    /\ UNCHANGED <<control, file, caller, history>>

\* _persist_state at the end of the cycle and, in finally, of the thread.
CopyKeys(t) ==
    /\ worker[t].at \in {"cyclecopy", "copy"}
    /\ worker' = [worker EXCEPT
           ![t].at = IF @ = "cyclecopy" THEN "cyclewrite" ELSE "write",
           ![t].copy = seen]
    /\ UNCHANGED <<control, keys, caller, history>>

\* Mutant: the file is written when the thread ends.
Written_AtEnd(t) == IF worker[t].at = "write" THEN worker[t].copy ELSE file

Written(t) == worker[t].copy

WriteKeys(t) ==
    /\ worker[t].at \in {"cyclewrite", "write"}
    /\ file' = Written(t)
    /\ worker' = [worker EXCEPT
           ![t] = IF @.at = "write" THEN Ended ELSE [Ended EXCEPT !.at = "wait"]]
    /\ UNCHANGED <<control, seen, caller, history>>

\* The limit of cycles, a stop or the interval ends the wait.
Wait(t) ==
    /\ worker[t].at = "wait"
    /\ \/ Goto(t, "finish")
       \/ ~StopSeen /\ Goto(t, "loop")
    /\ UNCHANGED <<control, keys, caller, history>>

Finish(t) ==
    /\ worker[t].at = "finish"
    /\ running' = FALSE
    /\ Goto(t, "copy")
    /\ UNCHANGED <<stop, lock, thread, keys, caller, history>>

ThreadStep(t) ==
    \/ BeginCycle(t) \/ Lookup(t)
    \/ OrderExecuted(t) \/ OrderNotExecuted(t) \/ AddKey(t)
    \/ CopyKeys(t) \/ WriteKeys(t)
    \/ Wait(t) \/ Finish(t)

-----------------------------------------------------------------------------
(* start and stop *)

Move(c, at) == caller' = [caller EXCEPT ![c].at = at]

\* start returns already_running when the flag is set.
BeginStart(c) ==
    /\ caller[c].at = "idle"
    /\ lock = Nobody
    /\ ~running
    /\ lock' = c
    /\ stop' = FALSE
    /\ running' = TRUE
    /\ Move(c, "spawn")
    /\ late' = [t \in Threads |-> 0]
    /\ Note(\E d \in Callers : caller[d].at \in {"look", "join", "flag"}, Saving)
    /\ UNCHANGED <<thread, keys, worker>>

\* A name is used again only when nobody holds the thread that had it.
Unused(t) == ~Alive(t) /\ t # thread /\ \A c \in Callers : caller[c].waits # t

Spawn(c, t) ==
    /\ caller[c].at = "spawn"
    /\ Unused(t)
    /\ worker' = [worker EXCEPT ![t].at = "loop"]
    /\ \/ thread' = t /\ lock' = Nobody /\ Move(c, "idle")     \* background
       \/ /\ caller' = [caller EXCEPT ![c].at = "foreground", ![c].waits = t]
          /\ UNCHANGED <<thread, lock>>
    /\ UNCHANGED <<running, stop, keys, history>>

ReturnForeground(c) ==
    /\ caller[c].at = "foreground"
    /\ ~Alive(caller[c].waits)
    /\ lock' = Nobody
    /\ caller' = [caller EXCEPT ![c] = Returned]
    /\ UNCHANGED <<running, stop, thread, keys, worker, history>>

BeginStop(c) ==
    /\ caller[c].at = "idle"
    /\ stop' = TRUE
    /\ Move(c, "look")
    /\ Note(\E d \in Callers : caller[d].at = "spawn", FALSE)
    /\ UNCHANGED <<running, lock, thread, keys, worker, late>>

LookAtThread(c) ==
    /\ caller[c].at = "look"
    /\ IF thread # Nobody /\ Alive(thread)
         THEN caller' = [caller EXCEPT ![c].at = "join", ![c].waits = thread]
         ELSE Move(c, "flag")
    /\ UNCHANGED <<control, keys, worker, history>>

\* Mutant: stop does not wait for the thread.
Join_NoWait(c) ==
    /\ caller[c].at = "join"
    /\ caller' = [caller EXCEPT ![c].at = "flag", ![c].waits = Nobody]
    /\ UNCHANGED <<control, keys, worker, history>>

Join(c) ==
    /\ caller[c].at = "join"
    /\ Alive(caller[c].waits) => MayTimeOut
    /\ caller' = [caller EXCEPT ![c].at = "flag", ![c].waits = Nobody]
    /\ Note(Alive(caller[c].waits), FALSE)
    /\ UNCHANGED <<control, keys, worker, late>>

ClearRunning(c) ==
    /\ caller[c].at = "flag"
    /\ running' = FALSE
    /\ caller' = [caller EXCEPT ![c].at = "write", ![c].copy = seen]
    /\ Note(FALSE, \E t \in Threads : Alive(t))
    /\ UNCHANGED <<stop, lock, thread, keys, worker, late>>

WriteKeysOfStop(c) ==
    /\ caller[c].at = "write"
    /\ file' = caller[c].copy
    /\ caller' = [caller EXCEPT ![c] = Returned]
    /\ UNCHANGED <<control, seen, worker, history>>

\* The process ends and begins again.  _load_state takes a file whose
\* writing was interrupted for an empty one.
Restart ==
    /\ running' = FALSE /\ stop' = FALSE /\ lock' = Nobody /\ thread' = Nobody
    /\ file' \in IF Saving \/ \E t \in Threads : InCycle(t) THEN {file, {}}
                 ELSE {file}
    /\ seen' = file'
    /\ worker' = [t \in Threads |-> Ended]
    /\ caller' = [c \in Callers |-> Returned]
    /\ late' = [t \in Threads |-> 0]
    /\ Note(FALSE, Saving \/ \E t \in Threads : InCycle(t))

Next ==
    \/ \E t \in Threads : ThreadStep(t)
    \/ \E c \in Starters : \/ BeginStart(c)
                           \/ \E t \in Threads : Spawn(c, t)
                           \/ ReturnForeground(c)
    \/ \E c \in Stoppers : \/ BeginStop(c) \/ LookAtThread(c) \/ Join(c)
                           \/ ClearRunning(c) \/ WriteKeysOfStop(c)
    \/ Restart

\* A thread is scheduled again and again, it waits for no lock, and each step of
\* a cycle ends: by default the market data and the exchange are in memory.
Spec == Init /\ [][Next]_vars /\ \A t \in Threads : WF_vars(ThreadStep(t))

-----------------------------------------------------------------------------
(* Properties *)

Workers == [at : {"ended", "loop", "lookup", "order", "add", "cyclecopy",
                  "cyclewrite", "wait", "finish", "copy", "write"},
            key : Keys \cup {Nobody}, copy : SUBSET Keys]
CallStates == [at : {"idle", "spawn", "foreground", "look", "join", "flag",
                     "write"},
               waits : Threads \cup {Nobody}, copy : SUBSET Keys]

TypeOK ==
    /\ running \in BOOLEAN /\ stop \in BOOLEAN
    /\ lock \in Callers \cup {Nobody} /\ thread \in Threads \cup {Nobody}
    /\ seen \subseteq Keys /\ file \subseteq Keys
    /\ worker \in [Threads -> Workers]
    /\ caller \in [Callers -> CallStates]
    /\ executed \in [Keys -> Nat]
    /\ late \in [Threads -> Nat]
    /\ use \in {"regular", "unsaved", "overlapped"}

(***************************************************************************)
(* As long as stop waits for its thread and no start meets a stop, one     *)
(* thread at a time runs cycles, whether in the background or in front.    *)
(***************************************************************************)
OneDriver ==
    use # "overlapped" => Cardinality({t \in Threads : Driving(t)}) <= 1

(***************************************************************************)
(* "Duplicate cycles do not create duplicate paper orders": a key is       *)
(* executed (filled in full) once, restarts included, unless two threads   *)
(* ran, two saves of the keys met, or the process ended within a cycle or  *)
(* a save.                                                                 *)
(***************************************************************************)
OneOrderPerKey == use = "regular" => \A k \in Keys : executed[k] <= 1

(***************************************************************************)
(* The event is read once in a cycle: after stop was called, a thread      *)
(* executes at most the order of the cycle it was in, even when stop gave  *)
(* up waiting for it.                                                      *)
(***************************************************************************)
LateOrdersBounded == \A t \in Threads : late[t] <= 1

(***************************************************************************)
(* After stop is called every thread ends, unless a start comes between.   *)
(***************************************************************************)
StopStops == stop ~> (~stop \/ \A t \in Threads : ~Alive(t))
=============================================================================
