---------------------------- MODULE Stage2Runtime ----------------------------
(***************************************************************************)
(* Stage2CloudPaperRuntime (sandbox/stage2_runtime.py) and the loop of     *)
(* cloud_paper.py that calls run_cycle: the sandbox execution service, its *)
(* ledger and the kill switch of one process, on one store.                *)
(*                                                                         *)
(* A cycle reads the switch at its gate, reads it again into the flag of   *)
(* the service, calls execute, and sends its order some steps later;       *)
(* operators work other switches of the store between any two of these.    *)
(* An exception ends the loop, its process is started again, and each      *)
(* cycle trades under a key of its own.                                    *)
(***************************************************************************)
EXTENDS Naturals

CONSTANTS
    Services,   \* the runtimes, each of which has a switch of its own
    Operators,  \* the switches that only an operator works
    Keys, Intents, NoIntent, NoKey, FillsAtOnce

VARIABLES
    intents, keys, orders, report, call,    \* SandboxExecution
    row, memory, doing, held,               \* KillSwitch
    cycle,      \* how far run_cycle is on its way to execute
    flag,       \* execution.kill_switch_active of each runtime
    late,       \* auxiliary: orders a runtime placed since the halt it is under
    heard       \* auxiliary: has a runtime read the switch since that halt?

execVars   == <<intents, keys, orders, report, call>>
switchVars == <<row, memory, doing, held>>
cycleVars  == <<cycle, flag>>
haltVars   == <<late, heard>>
vars       == <<execVars, switchVars, cycleVars, haltVars>>

Exec   == INSTANCE SandboxExecution
Switch == INSTANCE KillSwitch WITH Switches <- Services \cup Operators

Init ==
    /\ Exec!Init
    /\ Switch!Init
    /\ cycle = [w \in Services |-> "idle"]
    /\ flag = [w \in Services |-> FALSE]
    /\ late = [w \in Services |-> 0]
    /\ heard = [w \in Services |-> FALSE]

-----------------------------------------------------------------------------
(* run_cycle *)

Hears(w) == heard' = [heard EXCEPT ![w] = held]

AtRest(w) == cycle[w] = "idle" /\ ~Exec!Active(w)

PassCycleGate(w) ==
    /\ AtRest(w)
    /\ Switch!AllowsNewTrades(w)
    /\ cycle' = [cycle EXCEPT ![w] = "gated"]
    /\ Hears(w)
    /\ UNCHANGED <<execVars, switchVars, flag, late>>

\* A cycle that the switch, or a stale market, stops only records itself.
BlockCycle(w) ==
    /\ AtRest(w)
    /\ ~Switch!AllowsNewTrades(w)
    /\ Hears(w)
    /\ UNCHANGED <<execVars, switchVars, cycleVars, late>>

\* Mutant: the service keeps the flag that it was built with.
ReadFlag_Kept(w) ==
    /\ cycle[w] = "gated"
    /\ cycle' = [cycle EXCEPT ![w] = "flagged"]
    /\ Hears(w)
    /\ UNCHANGED <<execVars, switchVars, flag, late>>

ReadFlag(w) ==
    /\ cycle[w] = "gated"
    /\ cycle' = [cycle EXCEPT ![w] = "flagged"]
    /\ flag' = [flag EXCEPT ![w] = ~Switch!AllowsNewTrades(w)]
    /\ Hears(w)
    /\ UNCHANGED <<execVars, switchVars, late>>

\* The key is built from the fresh cycle id: no call had it before.
FreshKey(k) == keys[k] = Exec!NoRef /\ \A w \in Services : call[w].key # k

\* execute decides on the flag as it was read; no risk decision is passed on.
CallExecute(w, k, i) ==
    /\ cycle[w] = "flagged"
    /\ FreshKey(k)
    /\ Exec!Begin(w, k, i, flag[w])
    /\ cycle' = [cycle EXCEPT ![w] = "idle"]
    /\ UNCHANGED <<switchVars, flag, haltVars>>

ServiceStep(w) ==
    /\ Exec!ExecuteProgress(w)
    /\ late' = [late EXCEPT ![w] = IF held /\ orders' # orders THEN @ + 1 ELSE @]
    /\ UNCHANGED <<switchVars, cycleVars, heard>>

\* An exception leaves the loop, or the process dies, at any point of a cycle;
\* the next one builds its service and its switch anew.
EndOfProcess(w) ==
    /\ Exec!Stop(w) \/ (~Exec!Active(w) /\ UNCHANGED execVars)
    /\ Switch!Restart(w)
    /\ cycle' = [cycle EXCEPT ![w] = "idle"]
    /\ flag' = [flag EXCEPT ![w] = FALSE]
    /\ Hears(w)
    /\ UNCHANGED late

-----------------------------------------------------------------------------
(* recover, which nothing but an operator calls, and the kill switch       *)

Recover(w) ==
    /\ AtRest(w)
    /\ memory' = [memory EXCEPT ![w] = @ \/ row = "active"]
    /\ report' = IF row # "active" /\ ~memory'[w] THEN Exec!Compare(orders, orders) ELSE report
    /\ Hears(w)
    /\ UNCHANGED <<intents, keys, orders, call, row, doing, held, cycleVars, late>>

\* What a runtime did and read counts from the moment a halt is stored.
WorkSwitch(s) ==
    /\ Switch!SwitchStep(s)
    /\ IF held' = held
         THEN UNCHANGED haltVars
         ELSE /\ late' = [w \in Services |-> 0]
              /\ heard' = [w \in Services |-> FALSE]
    /\ UNCHANGED <<execVars, cycleVars>>

ExchangeStep == Exec!OrderSteps /\ UNCHANGED <<switchVars, cycleVars, haltVars>>

Next ==
    \/ \E w \in Services :
           \/ PassCycleGate(w)
           \/ BlockCycle(w)
           \/ ReadFlag(w)
           \/ \E k \in Keys, i \in Intents : CallExecute(w, k, i)
           \/ ServiceStep(w)
           \/ EndOfProcess(w)
           \/ Recover(w)
    \/ \E s \in Services \cup Operators : WorkSwitch(s)
    \/ ExchangeStep

Spec == Init /\ [][Next]_vars

-----------------------------------------------------------------------------
(* Properties *)

TypeOK ==
    /\ Exec!TypeOK
    /\ Switch!TypeOK
    /\ cycle \in [Services -> {"idle", "gated", "flagged"}]
    /\ flag \in [Services -> BOOLEAN]
    /\ late \in [Services -> Nat]
    /\ heard \in [Services -> BOOLEAN]

(***************************************************************************)
(* execute acts on a flag that may be old when it is called and older when *)
(* its order is sent: a call that starts under a halt may carry a flag     *)
(* from before it.  Even so a runtime places at most one order after the   *)
(* halt was stored, that of the cycle it was in, however long the halt     *)
(* lasts and however often the runtime is restarted.                       *)
(***************************************************************************)
LateOrdersBounded == held => \A w \in Services : late[w] <= 1

(***************************************************************************)
(* That one order is the last: from the moment a runtime has read the      *)
(* switch under the halt, at its gate, for the flag, in recover or when it *)
(* starts again, none of its orders leaves any more, not even that of a    *)
(* cycle whose gate was passed before the halt.                            *)
(***************************************************************************)
HeardHaltStops ==
    [][\A w \in Services : held /\ heard[w] => late'[w] <= late[w]]_vars

(***************************************************************************)
(* A stored halt stops every runtime, those that never heard of it and     *)
(* those started later included, until an operator clears it.              *)
(***************************************************************************)
HaltHolds == Switch!HaltHolds
==============================================================================
