----------------------------- MODULE KillSwitch -----------------------------
(***************************************************************************)
(* DurableKillSwitch (live/durable_kill_switch.py) over LiveKillSwitch     *)
(* (live/kill_switch.py) over KillSwitch (risk/config.py).                 *)
(*                                                                         *)
(* Several switches, one in each process, share a row of the store.  An    *)
(* activation and a clearance each change the memory of their switch and   *)
(* then the row, so a step of another switch, or the end of the process,   *)
(* may come between.  The store outlives the processes.                    *)
(***************************************************************************)
CONSTANT Switches

VARIABLES
    row,        \* the row kill_switch/state of the store
    memory,     \* inner.base.active of each switch
    doing,      \* where activate or deactivate of each switch is
    held        \* auxiliary: an activation is stored and nobody has cleared it

vars == <<row, memory, doing, held>>

\* Mutant: the switch is asked what it remembers, not what is stored.
AllowsNewTrades_Memory(s) == ~memory[s]

\* allows_new_trades, and the negation of active while the store is readable.
AllowsNewTrades(s) == IF row = "none" THEN ~memory[s] ELSE row # "active"

-----------------------------------------------------------------------------
(* activate *)

\* With a canceller, cancel_all_open_orders is called before the row is stored.
Activate(s, withCanceller) ==
    /\ doing[s] = "idle"
    /\ memory' = [memory EXCEPT ![s] = TRUE]
    /\ doing' = [doing EXCEPT ![s] = IF withCanceller THEN "cancelling" ELSE "storing"]
    /\ UNCHANGED <<row, held>>

\* A cancellation that raises is recorded as a failure and goes on.
CancelDone(s) ==
    /\ doing[s] = "cancelling"
    /\ doing' = [doing EXCEPT ![s] = "storing"]
    /\ UNCHANGED <<row, memory, held>>

\* A clearance that is still on its way will overwrite this row.
StoreActive(s) ==
    /\ doing[s] = "storing"
    /\ row' = "active"
    /\ held' = \A t \in Switches : doing[t] # "clearing"
    /\ doing' = [doing EXCEPT ![s] = "idle"]
    /\ UNCHANGED memory

-----------------------------------------------------------------------------
(* deactivate: only with the operator's authority, else nothing changes    *)

Deactivate(s) ==
    /\ doing[s] = "idle"
    /\ memory' = [memory EXCEPT ![s] = FALSE]
    /\ held' = FALSE
    /\ doing' = [doing EXCEPT ![s] = "clearing"]
    /\ UNCHANGED row

StoreInactive(s) ==
    /\ doing[s] = "clearing"
    /\ row' = "inactive"
    /\ doing' = [doing EXCEPT ![s] = "idle"]
    /\ UNCHANGED <<memory, held>>

\* The store raises, and with it activate or deactivate.
StoreRaises(s) ==
    /\ doing[s] \in {"storing", "clearing"}
    /\ doing' = [doing EXCEPT ![s] = "idle"]
    /\ UNCHANGED <<row, memory, held>>

-----------------------------------------------------------------------------
(* _load and the end of a process *)

Load(s) ==
    /\ doing[s] = "idle"
    /\ row = "active"
    /\ memory' = [memory EXCEPT ![s] = TRUE]
    /\ UNCHANGED <<row, doing, held>>

\* Mutant: a new switch stores the state it starts with.
Restart_Overwrites(s) ==
    /\ row' = "inactive"
    /\ memory' = [memory EXCEPT ![s] = FALSE]
    /\ doing' = [doing EXCEPT ![s] = "idle"]
    /\ UNCHANGED held

\* A new switch starts inactive and loads the row.
Restart(s) ==
    /\ memory' = [memory EXCEPT ![s] = row = "active"]
    /\ doing' = [doing EXCEPT ![s] = "idle"]
    /\ UNCHANGED <<row, held>>

Init ==
    /\ row = "none"
    /\ memory = [s \in Switches |-> FALSE]
    /\ doing = [s \in Switches |-> "idle"]
    /\ held = FALSE

SwitchStep(s) ==
    \/ \E withCanceller \in BOOLEAN : Activate(s, withCanceller)
    \/ CancelDone(s)
    \/ StoreActive(s)
    \/ Deactivate(s)
    \/ StoreInactive(s)
    \/ StoreRaises(s)
    \/ Load(s)

Next == \E s \in Switches : SwitchStep(s) \/ Restart(s)

Spec == Init /\ [][Next]_vars

-----------------------------------------------------------------------------
(* Properties *)

Doings == {"idle", "cancelling", "storing", "clearing"}

TypeOK ==
    /\ row \in {"none", "active", "inactive"}
    /\ memory \in [Switches -> BOOLEAN]
    /\ doing \in [Switches -> Doings]
    /\ held \in BOOLEAN

(***************************************************************************)
(* The switch survives restarts: a halt that was stored stops every        *)
(* process, those that never heard of it and those started later included, *)
(* until an operator clears it.                                            *)
(***************************************************************************)
HaltHolds == held => \A s \in Switches : ~AllowsNewTrades(s)

=============================================================================
