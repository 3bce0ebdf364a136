----------------------------- MODULE PaperEngine -----------------------------
(***************************************************************************)
(* PaperTradingEngine (paper/engine.py): the gates a plan passes on its    *)
(* way to the paper exchange, and what is recorded after its order.        *)
(*                                                                         *)
(* The dashboard shares one engine among the threads of its pool and has   *)
(* no lock around it: other requests, and the STOP file, may come between  *)
(* any two reads or writes of execute_approved_plan.  The exchange is its  *)
(* halt, its last fill and who holds its positions; PaperExchange says     *)
(* what happens inside it.  The running flag and the session are shown to  *)
(* users and read by nothing here.                                         *)
(***************************************************************************)
EXTENDS Integers, FiniteSets

CONSTANTS
    Threads,        \* the threads that execute plans
    Operators,      \* the requests that stop or reset the engine
    Plans,          \* the plans; each is executed once
    NoPlan,
    MaxTurnover,    \* max_turnover_usd_per_day
    MaxNotional,    \* no plan has a larger one
    NoTradeOnConflict   \* strategy_conflict_mode is NO_TRADE

Sides == {"LONG", "SHORT"}

ASSUME ThreadsAssumption == IsFiniteSet(Threads) /\ Threads # {}
ASSUME PlansAssumption ==
    /\ \A p \in Plans : p.side \in Sides /\ p.notional \in 1..MaxNotional
    /\ NoPlan \notin Plans
ASSUME TurnoverAssumption == MaxTurnover \in Nat /\ MaxNotional \in Nat
ASSUME ModeAssumption == NoTradeOnConflict \in BOOLEAN

Strategies == {p.strategy : p \in Plans}
Symbols    == {p.symbol : p \in Plans}

VARIABLES
    stopFile,   \* the STOP file exists
    killed,     \* kill_switch.active
    halted,     \* exchange.halted
    position,   \* exchange.portfolio.positions: side, owner, and (auxiliary)
                \* every strategy that traded it since it was opened
    last,       \* the plan of exchange.fills[-1], NoPlan when there is none
    turnover,   \* daily_turnover
    saved,      \* the plans whose fill is in the store
    begun,      \* the plans that were handed to the engine
    call,       \* each thread: where it is, its plan, its order's status
    op,         \* each operator: what is left of its request
    late        \* auxiliary: fills of each thread since the stop it is under

vars == <<stopFile, killed, halted, position, last, turnover, saved, begun,
          call, op, late>>
switches == <<stopFile, killed, halted>>
books    == <<position, last, turnover, saved>>

Idle == [at |-> "idle", plan |-> NoPlan, status |-> "NONE"]
Flat == [side |-> "NONE", owner |-> "NONE", traders |-> {}]

Init ==
    /\ stopFile \in BOOLEAN
    /\ killed = stopFile    \* __init__ ends with _check_stop_file
    /\ halted = stopFile
    /\ position = [s \in Symbols |-> Flat]
    /\ last = NoPlan
    /\ turnover = 0
    /\ saved = {}
    /\ begun = {}
    /\ call = [t \in Threads |-> Idle]
    /\ op = [o \in Operators |-> "idle"]
    /\ late = [t \in Threads |-> 0]

-----------------------------------------------------------------------------
(* execute_approved_plan, and start, which is its first step alone         *)

Goto(t, at) == call' = [call EXCEPT ![t].at = at]
Return(t)   == call' = [call EXCEPT ![t] = Idle]

Begin(t, p) ==
    /\ call[t].at = "idle"
    /\ p \notin begun
    /\ call' = [call EXCEPT ![t] = [Idle EXCEPT !.at = "check", !.plan = p]]
    /\ begun' = begun \cup {p}
    /\ UNCHANGED <<switches, books, op, late>>

Start(t) ==
    /\ call[t].at = "idle"
    /\ Goto(t, "check")
    /\ UNCHANGED <<switches, books, begun, op, late>>

\* Where a thread goes when _check_stop_file returns.
Checked(t) == IF call[t].plan = NoPlan THEN Return(t) ELSE Goto(t, "gate")

\* Mutant: only start reads the file.
CheckStopFile_AtStart(t) ==
    /\ call[t].at = "check"
    /\ killed' = (killed \/ (stopFile /\ call[t].plan = NoPlan))
    /\ IF stopFile /\ call[t].plan = NoPlan THEN Goto(t, "halt") ELSE Checked(t)
    /\ UNCHANGED <<stopFile, halted, books, begun, op, late>>

CheckStopFile(t) ==
    /\ call[t].at = "check"
    /\ killed' = (killed \/ stopFile)
    /\ IF stopFile THEN Goto(t, "halt") ELSE Checked(t)
    /\ UNCHANGED <<stopFile, halted, books, begun, op, late>>

HaltExchange(t) ==
    /\ call[t].at = "halt"
    /\ halted' = TRUE
    /\ Checked(t)
    /\ UNCHANGED <<stopFile, killed, books, begun, op, late>>

\* A stale market or a plan that is not PROPOSED ends here too.
Gate(t) ==
    /\ call[t].at = "gate"
    /\ \/ ~killed /\ ~halted /\ Goto(t, "conflict")
       \/ Return(t)
    /\ UNCHANGED <<switches, books, begun, op, late>>

\* Mutant of the conflict check: only the side is compared.
Conflict_SideOnly(p) ==
    LET held == position[p.symbol]
    IN  held # Flat /\ held.side # p.side

\* resolve_conflict does not return OK, in the mode that refuses.
Conflict(p) ==
    LET held == position[p.symbol]
    IN  held # Flat /\ (held.owner # p.strategy \/ held.side # p.side)

ResolveConflict(t) ==
    /\ call[t].at = "conflict"
    /\ IF NoTradeOnConflict /\ Conflict(call[t].plan)
         THEN Return(t)
         ELSE Goto(t, "comply")
    /\ UNCHANGED <<switches, books, begun, op, late>>

\* Mutant: the plan's own notional is not counted.
WithinTurnover_Before(p) == turnover <= MaxTurnover

WithinTurnover(p) == turnover + p.notional <= MaxTurnover

\* Blocked strategies and asset classes refuse as well.
Comply(t) ==
    /\ call[t].at = "comply"
    /\ \/ WithinTurnover(call[t].plan) /\ Goto(t, "risk")
       \/ Return(t)
    /\ UNCHANGED <<switches, books, begun, op, late>>

\* The correlation filter and the limits of the risk engine may refuse.
Risk(t) ==
    /\ call[t].at = "risk"
    /\ \/ ~killed /\ ~halted /\ Goto(t, "order")
       \/ Return(t)
    /\ UNCHANGED <<switches, books, begun, op, late>>

UnderStop == killed \/ stopFile

\* A fill opens or enlarges a position, or closes some or all of the
\* opposite one; the position that is left belongs to the last order.
Booked(p, held) ==
    LET left == [side    |-> IF held = Flat THEN p.side ELSE held.side,
                 owner   |-> p.strategy,
                 traders |-> held.traders \cup {p.strategy}]
    IN  IF held = Flat \/ held.side = p.side THEN {left} ELSE {left, Flat}

OrderFills(t, status) ==
    LET p == call[t].plan
    IN  /\ call[t].at = "order"
        /\ ~halted
        /\ \E left \in Booked(p, position[p.symbol]) :
               position' = [position EXCEPT ![p.symbol] = left]
        /\ last' = p
        /\ call' = [call EXCEPT ![t].at = "save", ![t].status = status]
        /\ late' = [late EXCEPT ![t] = IF UnderStop THEN @ + 1 ELSE @]
        /\ UNCHANGED <<switches, turnover, saved, begun, op>>

\* A halt, the portfolio, or a failure refuses the order, and the failure
\* may be the one that opens the breaker.
OrderRejected(t) ==
    /\ call[t].at = "order"
    /\ call' = [call EXCEPT ![t].at = "save", ![t].status = "REJECTED"]
    /\ halted' \in {halted, TRUE}
    /\ UNCHANGED <<stopFile, killed, books, begun, op, late>>

\* Mutant: only a complete fill is saved.
Save_FilledOnly(t) ==
    /\ call[t].at = "save"
    /\ saved' = IF call[t].status = "FILLED" THEN saved \cup ({last} \ {NoPlan})
                ELSE saved
    /\ Goto(t, "count")
    /\ UNCHANGED <<switches, position, last, turnover, begun, op, late>>

\* fills[-1:] of the exchange the engine has now, whatever became of the order.
Save(t) ==
    /\ call[t].at = "save"
    /\ saved' = saved \cup ({last} \ {NoPlan})
    /\ Goto(t, "count")
    /\ UNCHANGED <<switches, position, last, turnover, begun, op, late>>

Count(t) ==
    /\ call[t].at = "count"
    /\ turnover' = IF call[t].status = "FILLED"
                   THEN turnover + call[t].plan.notional ELSE turnover
    /\ Return(t)
    /\ UNCHANGED <<switches, position, last, saved, begun, op, late>>

ExecuteStep(t) ==
    \/ CheckStopFile(t)
    \/ HaltExchange(t)
    \/ Gate(t)
    \/ ResolveConflict(t)
    \/ Comply(t)
    \/ Risk(t)
    \/ \E status \in {"FILLED", "PARTIALLY_FILLED"} : OrderFills(t, status)
    \/ OrderRejected(t)
    \/ Save(t)
    \/ Count(t)

-----------------------------------------------------------------------------
(* Operators: the kill request and the reset of the dashboard, the STOP    *)
(* file, and safe_restart, which only the command line calls, on an engine *)
(* of its own that no other thread shares                                  *)

Finish(o) == op' = [op EXCEPT ![o] = "idle"]

\* The counts start again when a stop begins.
LateNow ==
    late' = IF ~UnderStop /\ UnderStop' THEN [t \in Threads |-> 0] ELSE late

ActivateKill(o) ==
    /\ op[o] = "idle"
    /\ killed' = TRUE
    /\ op' = [op EXCEPT ![o] = "halting"]
    /\ UNCHANGED <<stopFile, halted, books, begun, call>>
    /\ LateNow

HaltAfterKill(o) ==
    /\ op[o] = "halting"
    /\ halted' = TRUE
    /\ Finish(o)
    /\ UNCHANGED <<stopFile, killed, books, begun, call, late>>

\* reset builds a new exchange and keeps the kill switch.
ReplaceExchange(o) ==
    /\ op[o] = "idle"
    /\ halted' = FALSE
    /\ position' = [s \in Symbols |-> Flat]
    /\ last' = NoPlan
    /\ op' = [op EXCEPT ![o] = "clearing"]
    /\ UNCHANGED <<stopFile, killed, turnover, saved, begun, call, late>>

ClearTurnover(o) ==
    /\ op[o] = "clearing"
    /\ turnover' = 0
    /\ Finish(o)
    /\ UNCHANGED <<switches, position, last, saved, begun, call, late>>

ToggleStopFile ==
    /\ stopFile' = ~stopFile
    /\ UNCHANGED <<killed, halted, books, begun, call, op>>
    /\ LateNow

SafeRestart ==
    /\ \A t \in Threads : call[t].at = "idle"
    /\ \A o \in Operators : op[o] = "idle"
    /\ ~stopFile
    /\ killed' = FALSE
    /\ halted' = FALSE
    /\ UNCHANGED <<stopFile, books, begun, call, op, late>>

OperatorStep(o) ==
    \/ ActivateKill(o)
    \/ HaltAfterKill(o)
    \/ ReplaceExchange(o)
    \/ ClearTurnover(o)

Next ==
    \/ \E t \in Threads :
           \/ \E p \in Plans : Begin(t, p)
           \/ Start(t)
           \/ ExecuteStep(t)
    \/ \E o \in Operators : OperatorStep(o)
    \/ ToggleStopFile
    \/ SafeRestart

Spec == Init /\ [][Next]_vars

-----------------------------------------------------------------------------
(* Properties *)

Positions == [side : Sides \cup {"NONE"}, owner : Strategies \cup {"NONE"},
              traders : SUBSET Strategies]
Steps == {"idle", "check", "halt", "gate", "conflict", "comply", "risk",
          "order", "save", "count"}
Calls == [at : Steps, plan : Plans \cup {NoPlan},
          status : {"NONE", "FILLED", "PARTIALLY_FILLED", "REJECTED"}]

TypeOK ==
    /\ stopFile \in BOOLEAN /\ killed \in BOOLEAN /\ halted \in BOOLEAN
    /\ position \in [Symbols -> Positions]
    /\ last \in Plans \cup {NoPlan}
    /\ turnover \in Nat
    /\ saved \subseteq Plans
    /\ begun \subseteq Plans
    /\ call \in [Threads -> Calls]
    /\ op \in [Operators -> {"idle", "halting", "clearing"}]
    /\ late \in [Threads -> Nat]

(***************************************************************************)
(* The STOP file and the kill switch are read at the beginning of a plan   *)
(* and again by the risk engine, the order comes later: while a stop is    *)
(* on, a thread fills at most the one order that was on its way, and the   *)
(* plans that begin under the stop fill nothing, a reset notwithstanding.  *)
(***************************************************************************)
LateFillsBounded == \A t \in Threads : late[t] <= 1

(***************************************************************************)
(* Compliance reads the turnover before the order and the engine adds to   *)
(* it afterwards, so plans under way at the same time share one allowance: *)
(* the limit is exceeded by less than what the other threads can bring.    *)
(***************************************************************************)
TurnoverBounded ==
    turnover <= MaxTurnover + MaxNotional * (Cardinality(Threads) - 1)

(***************************************************************************)
(* resolve_conflict refuses a plan for a position of another strategy, but *)
(* plans that pass it before a position exists all trade it: in the mode   *)
(* NO_TRADE a position is shared by at most as many strategies as there    *)
(* are threads, and by one when the engine is used by one thread.          *)
(***************************************************************************)
StrategiesBounded ==
    NoTradeOnConflict =>
        \A s \in Symbols :
            Cardinality(position[s].traders) <= Cardinality(Threads)

(***************************************************************************)
(* The engine saves the last fill of the exchange and not the fill of its  *)
(* own order: with plans under way at the same time some fills are never   *)
(* saved, but the last one is, as soon as no thread has one left to save.  *)
(***************************************************************************)
LastFillSaved ==
    (\A t \in Threads : call[t].at # "save") => last \in saved \cup {NoPlan}
=============================================================================
